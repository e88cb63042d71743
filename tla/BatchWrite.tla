----------------------------- MODULE BatchWrite -----------------------------
(***************************************************************************)
(* writeBatch of migrator.go: one batch of the initial copy written to the *)
(* target.  A resilient write (live mode) inserts in bulk, retries what    *)
(* the bulk insert refused document by document and records what still     *)
(* fails in the dead letter queue.  A fail-fast write (migrate mode) goes  *)
(* through RetryWithSplit of retry.go, which converts invalid _ids, halves *)
(* contended batches and retries with backoff, and reports an error.       *)
(*                                                                         *)
(* The documents are 1 .. NumDocs, in the order of the batch; the content  *)
(* of a document is its number.  Delays are left out.                      *)
(***************************************************************************)
EXTENDS Integers, FiniteSetsExt, Sequences

CONSTANTS
  NumDocs,
  MinBatchSize,     (* retryConfig.minBatchSize, at least 1 (config.go:263)   *)
  MaxRetries,       (* retryConfig.maxRetries, at least 1 (config.go:251)     *)
  Modes,            (* subset of {"resilient", "fail-fast"}                   *)
  UpsertModes,      (* the values of upsertMode considered                    *)
  SplitModes,       (* the values of enableBatchSplitting considered          *)
  WriteErrors,      (* the target may refuse documents and lose replies       *)
  TransformErrors,  (* the batch may hold a document that has no transform    *)
  InvalidIds,       (* documents may have an _id of a type the target refuses *)
  Collisions,       (* a converted _id may be that of another document        *)
  UniqueIndexes,    (* the collection has unique indexes besides _id          *)
  CanCancel         (* the context may be canceled during the write           *)

ASSUME BatchAssumption ==
  /\ {NumDocs, MinBatchSize, MaxRetries} \subseteq Nat \ {0}
  /\ Modes \subseteq {"resilient", "fail-fast"}
  /\ UpsertModes \subseteq BOOLEAN /\ SplitModes \subseteq BOOLEAN
  /\ {WriteErrors, TransformErrors, InvalidIds, Collisions, UniqueIndexes,
      CanCancel} \subseteq BOOLEAN

Docs == 1 .. NumDocs
Absent == 0
Ids == 1 .. 2 * NumDocs          \* the _ids of the documents, and the converted ones

VARIABLES
  input,      (* what the run and the batch are like; it does not change      *)
  target,     (* _id -> the document stored under it, or Absent               *)
  ledger,     (* documents recorded in the DLQ file                           *)
  skipping,   (* proactiveSkipEnabled, shared with the batches before and after *)
  phase,      (* "start", "insert", "retry", "replace", "individual" (resilient), *)
              (* "split", "convert", "backoff", "upsert" (fail-fast), "done"  *)
  batch,      (* resilient: the documents to insert                           *)
  fallback,   (* resilient: the documents still to be written one by one      *)
  parts,      (* fail-fast: the parts of the batch still to be written        *)
  failedBatch,(* fail-fast: the documents RetryWithSplit takes for duplicates *)
  attempts,   (* of RetryWithBackoff                                          *)
  failed,     (* fail-fast: a part has failed                                 *)
  result,     (* what writeBatch returned: "none", "ok" or "error"            *)
  canceled

resilientVars == <<skipping, batch, fallback>>
failFastVars == <<parts, failedBatch, failed>>
vars == <<input, target, ledger, resilientVars, phase, failFastVars, attempts, result, canceled>>

-----------------------------------------------------------------------------
Resilient == input.mode = "resilient"
Invalid == input.invalid

(* A later run, or a repeated one, finds any part of the batch on the target. *)
Init ==
  /\ \E mode \in Modes, upsert \in UpsertModes, split \in SplitModes,
        convert \in BOOLEAN,
        untransformable \in {FALSE, TransformErrors},
        collision \in {FALSE, Collisions},
        invalid \in IF InvalidIds THEN SUBSET Docs ELSE {{}},
        conflicting \in IF UniqueIndexes THEN SUBSET Docs ELSE {{}} :
       /\ mode = "resilient" => ~ upsert /\ ~ split
       /\ mode = "fail-fast" => ~ convert
       /\ invalid = {} => ~ convert
       /\ collision => 1 \notin invalid /\ invalid # {}
       /\ input = [mode |-> mode, upsertMode |-> upsert, split |-> split,
                   convertFirst |-> convert, untransformable |-> untransformable,
                   collision |-> collision, invalid |-> invalid,
                   conflicting |-> conflicting]
  /\ \E present \in SUBSET (Docs \ input.conflicting) :
       /\ input.collision => present \cap Invalid = {}
       /\ target = [id \in Ids |->
                      IF id \in present \ Invalid THEN id
                      ELSE IF id - NumDocs \in present \cap Invalid THEN id - NumDocs
                      ELSE Absent]
  /\ skipping \in IF Resilient THEN BOOLEAN ELSE {FALSE}
  /\ phase = IF Resilient THEN "start" ELSE "split"
  /\ batch = IF Resilient THEN Docs ELSE {}
  /\ parts = IF Resilient THEN <<>> ELSE <<[d \in Docs |-> d]>>
  /\ ledger = {}
  /\ fallback = {}
  /\ failedBatch = {}
  /\ attempts = 0
  /\ failed = FALSE
  /\ result = "none"
  /\ canceled = FALSE

(* convertInvalidIds: the _id as a string, which another document may have. *)
Converted(d) == IF input.collision THEN 1 ELSE NumDocs + d
IdOf(d, convert) == IF convert /\ d \in Invalid THEN Converted(d) ELSE d

-----------------------------------------------------------------------------
(* What the target may refuse of the documents P for other reasons than a
   duplicate key. *)
Refusable(P, convert) ==
  {B \in SUBSET P : /\ convert \/ P \cap Invalid \subseteq B
                    /\ WriteErrors \/ B \subseteq (IF convert THEN {} ELSE Invalid)}

(* An unordered InsertMany of P refuses the _ids that are taken, of a document on
   the target or an earlier one of P, and what violates another unique index. *)
Duplicates(P, B, convert) ==
  {d \in P \ B :
     \/ target[IdOf(d, convert)] # Absent
     \/ d \in input.conflicting
     \/ \E c \in P \ (B \cup input.conflicting) :
          c < d /\ IdOf(c, convert) = IdOf(d, convert)}

(* What it inserts; upserts only fail on the other unique indexes. *)
Accepted(P, B, convert) ==
  P \ (B \cup IF input.upsertMode THEN input.conflicting ELSE Duplicates(P, B, convert))

(* The target after the documents W are stored, the later over the earlier ones. *)
Stored(W, convert) ==
  [id \in Ids |-> LET writers == {d \in W : IdOf(d, convert) = id}
                  IN IF writers = {} THEN target[id] ELSE Max(writers)]

(* The reply is lost or the call interrupted, and any part of it was done. *)
Breaks(P, convert) ==
  /\ WriteErrors \/ canceled
  /\ \E B \in Refusable(P, convert) :
       \E W \in SUBSET Accepted(P, B, convert) : target' = Stored(W, convert)

Return(answer) ==
  /\ phase' = "done"
  /\ result' = answer

-----------------------------------------------------------------------------
(* The resilient write. *)
Id(d) == IdOf(d, input.convertFirst)

(* WriteFailed drops the record of an error that is a cancellation. *)
Record(D) ==
  \E recorded \in {TRUE, ~ canceled} :
    ledger' = IF recorded THEN ledger \cup D ELSE ledger

(* One document that TransformBatch cannot transform fails the batch. *)
TransformFails ==
  /\ Resilient /\ phase = "start"
  /\ input.untransformable
  /\ ledger' = ledger \cup Docs
  /\ Return("ok")
  /\ UNCHANGED <<input, target, resilientVars, failFastVars, attempts, canceled>>

(* The _ids the presence check may return: an error of its cursor is not looked at. *)
Found ==
  LET taken == {Id(d) : d \in batch} \cap {id \in Ids : target[id] # Absent}
  IN IF WriteErrors \/ canceled THEN SUBSET taken ELSE {taken}

(* Mutation of SkipBatch: one document that is present stands for the batch. *)
SkipOnFirst ==
  /\ Resilient /\ phase = "start" /\ ~ input.untransformable
  /\ skipping
  /\ \E found \in Found : found # {}
  /\ Return("ok")
  /\ UNCHANGED <<input, target, ledger, resilientVars, failFastVars, attempts, canceled>>

(* The whole batch is present already. *)
SkipBatch ==
  /\ Resilient /\ phase = "start" /\ ~ input.untransformable
  /\ skipping
  /\ \E found \in Found : Cardinality(found) = Cardinality(batch)
  /\ Return("ok")
  /\ UNCHANGED <<input, target, ledger, resilientVars, failFastVars, attempts, canceled>>

(* A part of it, or nothing, is present. *)
SkipPresent ==
  /\ Resilient /\ phase = "start" /\ ~ input.untransformable
  /\ skipping
  /\ \E found \in Found :
       /\ Cardinality(found) # Cardinality(batch)
       /\ batch' = {d \in batch : Id(d) \notin found}
  /\ skipping' = FALSE
  /\ phase' = "insert"
  /\ UNCHANGED <<input, target, ledger, fallback, failFastVars, attempts, result, canceled>>

(* The check is off, or its query failed. *)
NoSkip ==
  /\ Resilient /\ phase = "start" /\ ~ input.untransformable
  /\ skipping => WriteErrors \/ canceled
  /\ phase' = "insert"
  /\ UNCHANGED <<input, target, ledger, resilientVars, failFastVars, attempts, result, canceled>>

(* The throttler waits until the context ends. *)
ThrottlerInterrupted ==
  /\ canceled
  /\ phase = "insert" \/ (phase = "split" /\ parts = <<[d \in Docs |-> d]>>)
  /\ Return("error")
  /\ UNCHANGED <<input, target, ledger, resilientVars, failFastVars, attempts, canceled>>

(* The bulk insert, or a retry of it, succeeds.  (The driver refuses the empty
   batch, and the fallback then has nothing to do.) *)
BulkInserted ==
  /\ Resilient /\ phase \in {"insert", "retry"}
  /\ {} \in Refusable(batch, input.convertFirst)
  /\ Duplicates(batch, {}, input.convertFirst) = {}
  /\ target' = Stored(batch, input.convertFirst)
  /\ Return("ok")
  /\ UNCHANGED <<input, ledger, resilientVars, failFastVars, attempts, canceled>>

(* A BulkWriteException; dups are the documents with a duplicate key error and
   refused those with another error. *)
BulkWriteException(refused, dups) ==
  /\ refused \in Refusable(batch, input.convertFirst)
  /\ dups = Duplicates(batch, refused, input.convertFirst)
  /\ refused \cup dups # {}
  /\ target' = Stored(batch \ (refused \cup dups), input.convertFirst)

FallBack(how, D) ==
  /\ fallback' = D
  /\ IF D = {} THEN Return("ok") ELSE phase' = how /\ result' = result

(* Duplicates are taken for documents that are present. *)
InsertRefused ==
  /\ Resilient /\ phase = "insert"
  /\ \E refused, dups \in SUBSET batch :
       /\ BulkWriteException(refused, dups)
       /\ skipping' = (skipping \/ dups = batch)
       /\ FallBack("replace", refused)
  /\ UNCHANGED <<input, ledger, batch, failFastVars, attempts, canceled>>

(* A transient error is retried, another one leads to the fallback. *)
InsertBreaks ==
  /\ Resilient /\ phase = "insert"
  /\ Breaks(batch, input.convertFirst)
  /\ \/ /\ phase' = "retry"
        /\ UNCHANGED <<fallback, result>>
     \/ FallBack("individual", batch)
  /\ UNCHANGED <<input, ledger, skipping, batch, failFastVars, attempts, canceled>>

(* RetryWithBackoff gives up, because the context ended or after MaxRetries. *)
LastAttempt == canceled \/ attempts + 1 = MaxRetries

(* Mutation of RetryFails: an exhausted retry counts as done whatever it failed of. *)
RetryForgets ==
  /\ Resilient /\ phase = "retry"
  /\ attempts' = attempts + 1
  /\ \E refused, dups \in SUBSET batch : BulkWriteException(refused, dups)
  /\ IF LastAttempt THEN Return("ok") ELSE UNCHANGED <<phase, result>>
  /\ UNCHANGED <<input, ledger, resilientVars, failFastVars, canceled>>

(* When the last error was about duplicates only, the documents are on the
   target since an earlier attempt; otherwise all are written one by one. *)
RetryFails ==
  /\ Resilient /\ phase = "retry"
  /\ attempts' = attempts + 1
  /\ \/ \E refused, dups \in SUBSET batch :
          /\ BulkWriteException(refused, dups)
          /\ \/ ~ LastAttempt /\ UNCHANGED <<skipping, fallback, phase, result>>
             \/ /\ LastAttempt /\ ~ canceled /\ refused = {}
                /\ skipping' = TRUE
                /\ Return("ok")
                /\ UNCHANGED fallback
             \/ /\ LastAttempt /\ (canceled \/ refused # {})
                /\ FallBack("individual", batch)
                /\ UNCHANGED skipping
     \/ /\ Breaks(batch, input.convertFirst)
        /\ IF LastAttempt THEN FallBack("individual", batch)
                          ELSE UNCHANGED <<fallback, phase, result>>
        /\ UNCHANGED skipping
  /\ UNCHANGED <<input, ledger, batch, failFastVars, canceled>>

(* The context ends while the backoff waits. *)
RetryInterrupted ==
  /\ Resilient /\ phase = "retry"
  /\ canceled /\ attempts > 0
  /\ FallBack("individual", batch)
  /\ UNCHANGED <<input, target, ledger, skipping, batch, failFastVars, attempts, canceled>>

(* The documents of the fallback are written in the order of the batch. *)
Current == Min(fallback)
Acceptable == input.convertFirst \/ Current \notin Invalid
Taken == Duplicates({Current}, {}, input.convertFirst) # {}

NextDocument ==
  /\ FallBack(phase, fallback \ {Current})
  /\ UNCHANGED <<input, skipping, batch, failFastVars, attempts, canceled>>

(* ReplaceOne with upsert, or InsertOne. *)
WritesOne ==
  /\ phase \in {"replace", "individual"}
  /\ Acceptable /\ Current \notin input.conflicting
  /\ phase = "individual" => ~ Taken
  /\ target' = Stored({Current}, input.convertFirst)
  /\ NextDocument
  /\ UNCHANGED ledger

(* InsertOne finds a duplicate: nothing is overwritten or recorded. *)
SkipsOne ==
  /\ phase = "individual"
  /\ Acceptable /\ Taken
  /\ NextDocument
  /\ UNCHANGED <<target, ledger>>

(* The write of the document failed to the last retry. *)
FailsOne ==
  /\ phase \in {"replace", "individual"}
  /\ \/ WriteErrors \/ canceled
     \/ ~ Acceptable
     \/ phase = "replace" /\ Current \in input.conflicting
  /\ target' \in {target} \cup
       IF Acceptable /\ Current \notin input.conflicting /\ ~ Taken
       THEN {Stored({Current}, input.convertFirst)} ELSE {}
  /\ Record({Current})
  /\ NextDocument

-----------------------------------------------------------------------------
(* The fail-fast write: RetryWithSplit of processBatch.  The recursion is the
   sequence of the parts that it has still to write. *)
Part == Range(Head(parts))
Splittable == input.split /\ Len(Head(parts)) > MinBatchSize

(* processBatch succeeds: what could not be inserted was upserted. *)
ProcessBatch(P, convert) ==
  /\ ~ input.untransformable
  /\ {} \in Refusable(P, convert)
  /\ P \cap input.conflicting = {}
  /\ target' = Stored(P, convert)

(* The class of a BulkWriteException over the refused documents B, by its text. *)
Classes(B, convert) ==
  LET others == IF convert THEN B ELSE B \ Invalid
  IN (IF others # {} THEN {"connection", "contention"} ELSE {})
       \cup (IF others = B THEN {"other"} ELSE {"invalid id"})

(* processBatch fails with an error of the class. *)
ProcessBatchFails(P, convert, class) ==
  \/ /\ input.untransformable
     /\ class = "other"
     /\ UNCHANGED target
  \/ /\ ~ input.untransformable
     /\ \/ \E B \in Refusable(P, convert) \ {{}} :
             /\ class \in Classes(B, convert)
             /\ target' = Stored(Accepted(P, B, convert), convert)
        \/ /\ {} \in Refusable(P, convert)      \* upserts that violate a unique index
           /\ P \cap input.conflicting # {}
           /\ class = "duplicate"
           /\ target' = Stored(P \ input.conflicting, convert)
        \/ /\ class \in {"connection", "contention", "other"}
           /\ Breaks(P, convert)

AnyClass == {"connection", "contention", "invalid id", "duplicate", "other"}

(* Mutation of FinishPart: the error of the first half is lost. *)
FinishPartForgetting(bad) ==
  /\ failed' = bad
  /\ parts' = Tail(parts)
  /\ IF parts' = <<>> THEN Return(IF bad THEN "error" ELSE "ok")
     ELSE IF canceled THEN Return("error")
     ELSE phase' = "split" /\ result' = result
  /\ UNCHANGED <<input, ledger, resilientVars, failedBatch, canceled>>

(* A part is done; behind a first half the context is checked. *)
FinishPart(bad) ==
  /\ failed' = (failed \/ bad)
  /\ parts' = Tail(parts)
  /\ IF parts' = <<>> THEN Return(IF failed' THEN "error" ELSE "ok")
     ELSE IF canceled THEN Return("error")
     ELSE phase' = "split" /\ result' = result
  /\ UNCHANGED <<input, ledger, resilientVars, failedBatch, canceled>>

PartWritten ==
  /\ \/ phase \in {"split", "backoff"} /\ ProcessBatch(Part, FALSE)
     \/ phase = "convert" /\ ProcessBatch(Part, TRUE)
     \/ phase = "upsert" /\ ProcessBatch(failedBatch, FALSE)
  /\ FinishPart(FALSE)
  /\ UNCHANGED attempts

(* The _ids of the part are converted; the second attempt is the last. *)
ConvertIds ==
  /\ phase = "split"
  /\ ProcessBatchFails(Part, FALSE, "invalid id")
  /\ phase' = "convert"
  /\ UNCHANGED <<input, ledger, resilientVars, failFastVars, attempts, result, canceled>>

(* Mutation of Halve: parts of any size are halved. *)
HalveAlways ==
  /\ phase = "split"
  /\ input.split
  /\ ProcessBatchFails(Part, FALSE, "contention")
  /\ LET part == Head(parts)
         mid == Len(part) \div 2
     IN parts' = <<SubSeq(part, 1, mid), SubSeq(part, mid + 1, Len(part))>> \o Tail(parts)
  /\ UNCHANGED <<input, ledger, resilientVars, phase, failedBatch, failed, attempts, result,
                 canceled>>

Halve ==
  /\ phase = "split"
  /\ Splittable
  /\ ProcessBatchFails(Part, FALSE, "contention")
  /\ LET part == Head(parts)
         mid == Len(part) \div 2
     IN parts' = <<SubSeq(part, 1, mid), SubSeq(part, mid + 1, Len(part))>> \o Tail(parts)
  /\ UNCHANGED <<input, ledger, resilientVars, phase, failedBatch, failed, attempts, result,
                 canceled>>

(* "Create a new batch with only the failed documents": the error counts the
   upserts of processBatch, RetryWithSplit takes it to count the documents. *)
RetryDuplicates ==
  /\ phase = "split"
  /\ Splittable
  /\ ProcessBatchFails(Part, FALSE, "duplicate")
  /\ LET upserted == IF input.upsertMode THEN Part ELSE Duplicates(Part, {}, FALSE)
         index(d) == Cardinality({u \in upserted : u <= d})
     IN failedBatch' = {Head(parts)[index(d)] : d \in Part \cap input.conflicting}
  /\ phase' = "upsert"
  /\ UNCHANGED <<input, ledger, resilientVars, parts, failed, attempts, result, canceled>>

(* Every other error is retried with backoff, and a small part with any error. *)
BackOff ==
  /\ phase = "split"
  /\ \E class \in AnyClass \ {"invalid id"} :
       /\ ProcessBatchFails(Part, FALSE, class)
       /\ Splittable => class \in {"connection", "other"}
  /\ phase' = "backoff"
  /\ attempts' = 0
  /\ UNCHANGED <<input, ledger, resilientVars, failFastVars, result, canceled>>

BackoffFails ==
  /\ phase = "backoff"
  /\ \E class \in AnyClass : ProcessBatchFails(Part, FALSE, class)
  /\ attempts' = attempts + 1
  /\ IF LastAttempt
     THEN FinishPart(TRUE)
     ELSE UNCHANGED <<input, ledger, resilientVars, phase, failFastVars, result, canceled>>

BackoffInterrupted ==
  /\ phase = "backoff"
  /\ canceled /\ attempts > 0
  /\ FinishPart(TRUE)
  /\ UNCHANGED <<target, attempts>>

(* The attempts that are not repeated fail. *)
PartFails ==
  /\ \E class \in AnyClass :
       \/ phase = "convert" /\ ProcessBatchFails(Part, TRUE, class)
       \/ phase = "upsert" /\ ProcessBatchFails(failedBatch, FALSE, class)
  /\ FinishPart(TRUE)
  /\ UNCHANGED attempts

-----------------------------------------------------------------------------
Cancel ==
  /\ CanCancel /\ ~ canceled
  /\ phase # "done"
  /\ canceled' = TRUE
  /\ UNCHANGED <<input, target, ledger, resilientVars, phase, failFastVars, attempts, result>>

Write ==
  \/ TransformFails \/ SkipBatch \/ SkipPresent \/ NoSkip \/ ThrottlerInterrupted
  \/ BulkInserted \/ InsertRefused \/ InsertBreaks \/ RetryFails \/ RetryInterrupted
  \/ WritesOne \/ SkipsOne \/ FailsOne
  \/ PartWritten \/ ConvertIds \/ Halve \/ RetryDuplicates
  \/ BackOff \/ BackoffFails \/ BackoffInterrupted \/ PartFails

Next == Write \/ Cancel

Spec == Init /\ [][Next]_vars
FairSpec == Spec /\ WF_vars(Write)

-----------------------------------------------------------------------------
TypeOK ==
  /\ target \in [Ids -> Docs \cup {Absent}]
  /\ ledger \subseteq Docs
  /\ batch \subseteq Docs /\ fallback \subseteq batch /\ failedBatch \subseteq Docs
  /\ skipping \in BOOLEAN /\ failed \in BOOLEAN /\ canceled \in BOOLEAN
  /\ attempts \in 0 .. MaxRetries
  /\ phase \in {"start", "insert", "retry", "replace", "individual",
                "split", "convert", "backoff", "upsert", "done"}
  /\ phase \in {"replace", "individual"} => fallback # {}
  /\ phase \in {"split", "convert", "backoff", "upsert"} => parts # <<>>
  \* the parts are disjoint, not empty, and in the order of the batch
  /\ \A i \in DOMAIN parts : parts[i] # <<>>
  /\ \A i, j \in DOMAIN parts :
       i < j => \A d \in Range(parts[i]), e \in Range(parts[j]) : d < e
  /\ phase = "done" <=> result # "none"

(* The document is on the target. *)
Holds(d) ==
  \/ target[d] = d
  \/ d \in Invalid /\ target[Converted(d)] = d

(* A second document of the same converted _id, or one that violates another unique
   index, is lost without a record; see the README. *)
Undisturbed == ~ input.collision /\ input.conflicting = {}

(* README, resilient backfill: a write that returns has every document on the
   target or in the DLQ, by whichever of the bulk insert, its retries, the presence
   check and the individual fallback, and whatever the target refused, unless the
   run was canceled: then the batch is not acknowledged. *)
WrittenOrRecorded ==
  Resilient /\ Undisturbed /\ result = "ok" /\ ~ canceled =>
    \A d \in Docs : Holds(d) \/ d \in ledger

(* A fail-fast write reports success only when every document is on the target,
   however the batch was halved, converted and repeated. *)
SuccessIsWritten ==
  ~ Resilient /\ Undisturbed /\ result = "ok" => \A d \in Docs : Holds(d)

(* Halving and retrying end: the call returns. *)
WriteReturns == <>(phase = "done")
=============================================================================
