----------------------------- MODULE GroupWrite -----------------------------
(***************************************************************************)
(* executeBatchWrite of parallel.go: one operation group written to the    *)
(* target collection.  A bulk write is tried first; what it reports as     *)
(* failed is written operation by operation; what still fails goes to the  *)
(* dead letter queue (DLQ), and a document of the DLQ that was written is  *)
(* resolved there (a tombstone record).                                    *)
(*                                                                         *)
(* The content of a document is the index of the operation of the group    *)
(* that wrote it.                                                          *)
(***************************************************************************)
EXTENDS Integers, FiniteSetsExt, Sequences

CONSTANTS
  Docs,               (* _id values                                           *)
  MaxOps,             (* bound: operations in the group                       *)
  Groupings,          (* the values of groupOpsByDistinctId considered        *)
  ForceOrdered,       (* forceOrderedOperations                               *)
  UpsertMode,         (* upsertMode of the collection                         *)
  WriteErrors,        (* the server may refuse single operations              *)
  TransformErrors,    (* documents may be impossible to transform             *)
  UniqueIndexes,      (* the collection has unique indexes besides _id        *)
  CanCancel           (* the context may be canceled during the write         *)

ASSUME GroupAssumption ==
  /\ MaxOps \in Nat \ {0}
  /\ Groupings \subseteq BOOLEAN
  /\ {ForceOrdered, UpsertMode, WriteErrors, TransformErrors, UniqueIndexes,
      CanCancel} \subseteq BOOLEAN

VARIABLES
  groupByDistinctId,
  group,            (* the operations                                         *)
  untransformable,  (* those whose document Transform refuses                 *)
  conflicting,      (* those whose document violates a unique index           *)
  target,           (* per document: operation that wrote it, Old or Absent   *)
  ledger,           (* documents failed and not resolved in the DLQ file      *)
  active,           (* activeFailedIDs                                        *)
  models,           (* write model -> operation                               *)
  phase,            (* "build", "bulk", "broken", "fallback", "resolve", "done" *)
  fallback,         (* operations still to be written individually            *)
  succeeded,        (* operations with a SuccessTime                          *)
  dlqed,            (* operations marked DLQed                                *)
  canceled

inputs == <<groupByDistinctId, group, untransformable, conflicting>>
marks == <<succeeded, dlqed>>
vars == <<inputs, target, ledger, active, models, phase, fallback, marks, canceled>>

Absent == 0
Old == MaxOps + 1
OpTypes == {"insert", "update", "replace", "delete"}
Replacing == {"update", "replace"}

-----------------------------------------------------------------------------
Distinct(g) == \A i, j \in DOMAIN g : g[i].doc = g[j].doc => i = j

(* The groups ProcessEvent builds.  Without groupOpsByDistinctId all operations
   have one type: two inserts, or two deletes, of a document never follow each
   other in a change stream. *)
IsGroup(g) ==
  IF groupByDistinctId
  THEN Distinct(g)
  ELSE /\ \A i \in DOMAIN g : g[i].opType = g[1].opType
       /\ g[1].opType \in Replacing \/ Distinct(g)

Init ==
  /\ groupByDistinctId \in Groupings
  /\ \E n \in 1 .. MaxOps :
       /\ group \in {g \in [1 .. n -> [doc : Docs, opType : OpTypes]] : IsGroup(g)}
       /\ untransformable \in IF TransformErrors THEN SUBSET (1 .. n) ELSE {{}}
       /\ conflicting \in IF UniqueIndexes THEN SUBSET (1 .. n) ELSE {{}}
  /\ \A i \in untransformable \cup conflicting : group[i].opType # "delete"
  /\ target \in [Docs -> {Absent, Old}]
  /\ ledger \in SUBSET Docs
  /\ active = ledger                      \* PopulateActiveFailedIDs
  /\ models = <<>>
  /\ phase = "build"
  /\ fallback = {}
  /\ succeeded = {}
  /\ dlqed = {}
  /\ canceled = FALSE

Ops == DOMAIN group
OpsOn(d) == {i \in Ops : group[i].doc = d}
Effect(i) == IF group[i].opType = "delete" THEN Absent ELSE i

(* The target after the operations of I are applied in order. *)
Applied(I) ==
  [d \in Docs |-> IF OpsOn(d) \cap I = {} THEN target[d]
                                          ELSE Effect(Max(OpsOn(d) \cap I))]

(* Mutations of markDLQ: without activeFailedIDs, and without the DLQ file. *)
MarkWithoutTracking(I, recorded) ==
  /\ dlqed' = dlqed \cup I
  /\ active' = active
  /\ ledger' = IF recorded THEN ledger \cup {group[i].doc : i \in I} ELSE ledger

MarkWithoutRecord(I, recorded) ==
  /\ dlqed' = dlqed \cup I
  /\ active' = active \cup {group[i].doc : i \in I}
  /\ ledger' = ledger

(* One record per operation in the DLQ file, which WriteFailed drops when the
   error is a cancellation, and one in activeFailedIDs. *)
markDLQ(I, recorded) ==
  LET docs == {group[i].doc : i \in I} IN
    /\ dlqed' = dlqed \cup I
    /\ active' = active \cup docs
    /\ ledger' = IF recorded THEN ledger \cup docs ELSE ledger

-----------------------------------------------------------------------------
useOrdered ==
  ForceOrdered \/ (~ groupByDistinctId /\ group[1].opType \in Replacing)

(* The operations of I in the order of the group. *)
InOrder(I) ==
  [k \in 1 .. Cardinality(I) |-> CHOOSE i \in I : Cardinality({j \in I : j <= i}) = k]

(* buildWriteModel: the models of the operations that could be transformed. *)
Build ==
  /\ phase = "build"
  /\ markDLQ(untransformable, TRUE)
  /\ models' = InOrder(Ops \ untransformable)
  /\ phase' = IF untransformable = Ops THEN "resolve" ELSE "bulk"
  /\ UNCHANGED <<inputs, target, fallback, succeeded, canceled>>

Modelled == {models[k] : k \in DOMAIN models}

(* An insert model of an existing document, or a unique index violation. *)
Duplicate(i) ==
  \/ group[i].opType = "insert" /\ ~ UpsertMode /\ target[group[i].doc] # Absent
  \/ i \in conflicting

(* Every operation gets its SuccessTime, those without a model too. *)
BulkSucceeds ==
  /\ phase \in {"bulk", "broken"}
  /\ ~ \E i \in Modelled : Duplicate(i)
  /\ target' = Applied(Modelled)
  /\ succeeded' = Ops
  /\ phase' = "resolve"
  /\ UNCHANGED <<inputs, ledger, active, models, fallback, dlqed, canceled>>

(* The models an ordered bulk write reached, those that failed among them. *)
Reached(failed) ==
  IF useOrdered THEN {k \in DOMAIN models : k <= Min(failed)} ELSE DOMAIN models

(* A BulkWriteException: an ordered bulk write stops at the first error.  The
   index of an error is one into models, and handleBulkWriteResult uses it as one
   into the group; every other operation is taken for written. *)
BulkRefused ==
  /\ phase = "bulk"
  /\ ~ canceled
  /\ \E failed \in (SUBSET DOMAIN models) \ {{}} :
       LET written == {models[k] : k \in Reached(failed) \ failed} IN
         /\ useOrdered => Cardinality(failed) = 1
         /\ \A k \in failed : WriteErrors \/ Duplicate(models[k])
         /\ \A i \in written : ~ Duplicate(i)
         /\ target' = Applied(written)
         /\ succeeded' = Ops \ failed
         /\ fallback' = failed
  /\ phase' = "fallback"
  /\ UNCHANGED <<inputs, ledger, active, models, dlqed, canceled>>

(* What a bulk write may have done when its outcome is lost. *)
PartlyApplied ==
  \E I \in SUBSET Modelled :
    /\ \A i \in I : ~ Duplicate(i)
    /\ useOrdered => \A i \in I, j \in Modelled : j < i => j \in I
    /\ target' = Applied(I)

(* A connection error, or a retry that failed: the whole bulk write is retried
   with backoff. *)
BulkBroken ==
  /\ phase \in {"bulk", "broken"}
  /\ ~ canceled
  /\ PartlyApplied
  /\ phase' = "broken"
  /\ UNCHANGED <<inputs, ledger, active, models, fallback, marks, canceled>>

(* The error was not transient, or the retries are exhausted: every operation
   is written individually.  So it is when the retries are interrupted. *)
BulkGivenUp ==
  /\ phase = "broken"
  /\ fallback' = Ops
  /\ phase' = "fallback"
  /\ UNCHANGED <<inputs, target, ledger, active, models, marks, canceled>>

(* The first bulk write was interrupted: nothing is retried or recorded. *)
BulkCanceled ==
  /\ phase = "bulk"
  /\ canceled
  /\ PartlyApplied
  /\ phase' = "resolve"
  /\ UNCHANGED <<inputs, ledger, active, models, fallback, marks, canceled>>

Cancel ==
  /\ CanCancel /\ ~ canceled
  /\ phase \in {"bulk", "broken", "fallback"}
  /\ canceled' = TRUE
  /\ UNCHANGED <<inputs, target, ledger, active, models, phase, fallback, marks>>

-----------------------------------------------------------------------------
(* retryIndividualOperation, for the operations of fallback in group order. *)
Current == Min(fallback)
CurrentType == group[Current].opType

NextFallback ==
  /\ fallback' = fallback \ {Current}
  /\ phase' = IF fallback' = {} THEN "resolve" ELSE "fallback"
  /\ UNCHANGED <<inputs, models, canceled>>

(* An upsert that reports a duplicate is retried as a plain replacement, which
   matches nothing when the document is missing. *)
MatchesNothing ==
  /\ Current \in conflicting
  /\ CurrentType \in Replacing
  /\ target[group[Current].doc] = Absent

(* Mutation of Stores: the duplicate of an insert is taken for a success. *)
StoresUnlessPresent ==
  /\ phase = "fallback"
  /\ Current \notin untransformable \cup conflicting
  /\ target' = IF CurrentType = "insert" /\ target[group[Current].doc] # Absent
               THEN target ELSE Applied({Current})
  /\ succeeded' = succeeded \cup {Current}
  /\ NextFallback
  /\ UNCHANGED <<ledger, active, dlqed>>

(* An existing document is overwritten, a missing one inserted.  An insert is
   tried as such first, and overwrites when that reports a duplicate. *)
Stores ==
  /\ phase = "fallback"
  /\ Current \notin untransformable \cup conflicting
  /\ target' = Applied({Current})
  /\ succeeded' = succeeded \cup {Current}
  /\ NextFallback
  /\ UNCHANGED <<ledger, active, dlqed>>

(* The duplicate was taken for a concurrent upsert of the same _id; a
   replacement that matches nothing is no error. *)
StoresNothing ==
  /\ phase = "fallback"
  /\ Current \notin untransformable
  /\ MatchesNothing
  /\ succeeded' = succeeded \cup {Current}
  /\ NextFallback
  /\ UNCHANGED <<target, ledger, active, dlqed>>

(* The document cannot be transformed, or the write failed to the last retry.
   The error of a canceled insert or delete may be the cancellation. *)
Fails ==
  /\ phase = "fallback"
  /\ \/ /\ Current \in untransformable
        /\ markDLQ({Current}, TRUE)
     \/ /\ WriteErrors \/ canceled \/ (Current \in conflicting /\ ~ MatchesNothing)
        /\ canceled => CurrentType \notin Replacing
        /\ \E recorded \in {TRUE, ~ canceled} : markDLQ({Current}, recorded)
  /\ NextFallback
  /\ UNCHANGED <<target, succeeded>>

(* Mutation of FallbackCanceled: the cancellation is not checked. *)
FallbackReturns ==
  /\ phase = "fallback"
  /\ Current \notin untransformable
  /\ CurrentType \in Replacing
  /\ NextFallback
  /\ UNCHANGED <<target, ledger, active, marks>>

(* A canceled update or replace returns without a record. *)
FallbackCanceled ==
  /\ phase = "fallback"
  /\ canceled
  /\ Current \notin untransformable
  /\ CurrentType \in Replacing
  /\ NextFallback
  /\ UNCHANGED <<target, ledger, active, marks>>

-----------------------------------------------------------------------------
(* Mutation of Resolve: failed operations resolve their document as well. *)
ResolveAll ==
  LET resolved == active \cap {group[i].doc : i \in Ops} IN
    /\ phase = "resolve"
    /\ ledger' = ledger \ resolved
    /\ active' = active \ resolved
    /\ phase' = "done"
    /\ UNCHANGED <<inputs, target, models, fallback, marks, canceled>>

(* The documents of successful operations are resolved in the DLQ. *)
Resolve ==
  LET resolved == active \cap {group[i].doc : i \in succeeded \ dlqed} IN
    /\ phase = "resolve"
    /\ ledger' = ledger \ resolved
    /\ active' = active \ resolved
    /\ phase' = "done"
    /\ UNCHANGED <<inputs, target, models, fallback, marks, canceled>>

Next ==
  \/ Build
  \/ BulkSucceeds \/ BulkRefused \/ BulkBroken \/ BulkGivenUp \/ BulkCanceled
  \/ Stores \/ StoresNothing \/ Fails \/ FallbackCanceled
  \/ Resolve
  \/ Cancel

Spec == Init /\ [][Next]_vars

-----------------------------------------------------------------------------
TypeOK ==
  /\ target \in [Docs -> 0 .. Old]
  /\ ledger \subseteq active /\ active \subseteq Docs
  /\ phase \in {"build", "bulk", "broken", "fallback", "resolve", "done"}
  /\ Modelled \subseteq Ops \ untransformable
  /\ fallback \subseteq Ops
  /\ succeeded \subseteq Ops /\ dlqed \subseteq Ops
  /\ canceled \in BOOLEAN

(* The last operation on d reached the target. *)
Reflected(d) == OpsOn(d) # {} => target[d] = Effect(Max(OpsOn(d)))

(* Without groupOpsByDistinctId, and for documents that cannot be transformed or
   violate a unique index, what follows does not hold; see the README. *)
Undisturbed == groupByDistinctId /\ untransformable = {} /\ conflicting = {}

(* README, Efficient Error Handling: a bulk operation that fails falls back to
   individual operations for the failed items.  When the group is done, and was
   not canceled, the last operation on every document is in the target or the
   document is in the DLQ. *)
NoSilentLoss ==
  Undisturbed /\ phase = "done" /\ ~ canceled => \A d \in Docs : Reflected(d) \/ d \in ledger

(* The code has many early returns and skipped loops; whatever fails, and however
   groups are ordered, every operation that was not canceled comes out marked as
   written or as DLQed. *)
EveryOperationMarked ==
  phase = "done" /\ ~ canceled => Ops = succeeded \cup dlqed

(* handleBulkWriteResult: "setting SuccessTime for succeeded operations and
   executing fallbacks for failed ones".  An operation reported as written and
   not superseded in the group is in the target, canceled or not. *)
SuccessIsReal ==
  Undisturbed /\ phase = "done" =>
    \A i \in succeeded \ dlqed :
      i = Max(OpsOn(group[i].doc)) => Reflected(group[i].doc)

(* "Scan group operations for successful updates resolving previously failed
   documents": a document leaves the DLQ only when the target holds what its
   last operation left of it. *)
ResolvedIsCurrent ==
  [][Undisturbed => \A d \in ledger \ ledger' : Reflected(d)]_vars
=============================================================================
