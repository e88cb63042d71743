------------------------------- MODULE RetryDLQ -------------------------------
(***************************************************************************)
(* -mode=retry-dlq of migrator.go: reprocessDLQ sets the DLQ file aside,   *)
(* writes its open failures to the target, records those that fail again   *)
(* in a new file, and either removes the file set aside or, after an       *)
(* error, restores it.  The process may stop between any two steps.        *)
(*                                                                         *)
(* The module holds the actions of that mode.  OplogReplication composes   *)
(* them with the mode that fills the queue.  The version of a document is  *)
(* the position of its last change in the oplog, 0 for a document that was *)
(* there before; a delete is a change like any other.                      *)
(***************************************************************************)
EXTENDS DeadLetterQueue

None == -1       \* no version, no position

(* initialMigrationState.Status; "none": the file does not exist *)
Statuses == {"none", "inprogress", "completed", "completed_with_failures", "skipped"}

VARIABLES
  pc,          (* what the process is about to do; "idle": it does not run   *)
  cancelled,   (* its context                                                *)
  status,      (* the initial migration state file                           *)
  dlq,         (* the DLQ file                                               *)
  temp,        (* the file set aside, dlqPath + ".retry-temp"                *)
  target,      (* document -> version on the target                          *)
  retry,       (* memory of reprocessDLQ, see Unstarted                      *)
  abandoned    (* history: documents given up without a record of it         *)

retryVars == <<pc, cancelled, status, dlq, temp, target, retry, abandoned>>

(* initialMigrationState as loaded; failuresMap; the record being replayed
   ({} or a singleton); expectedPhase; failed *)
Unstarted ==
  [status |-> "none", failures |-> {}, current |-> {}, phase |-> NoPhase, failed |-> 0]

InitialFiles ==
  /\ status = "none"
  /\ dlq = NoFile
  /\ temp = NoFile

ReturnIdle ==
  /\ pc' = "idle"
  /\ cancelled' = FALSE
  /\ retry' = Unstarted

-----------------------------------------------------------------------------
(* restoreLeftoverTempDLQ: what a crashed run set aside replaces the file. *)
restoreLeftoverTempDLQ == IF temp.exists THEN temp ELSE dlq

BeginRetry ==
  /\ retry' = [Unstarted EXCEPT !.status = status]
  /\ dlq' = restoreLeftoverTempDLQ
  /\ temp' = NoFile
  /\ pc' = IF restoreLeftoverTempDLQ.exists THEN "setAside" ELSE "idle"
  /\ UNCHANGED <<cancelled, status, target, abandoned>>

SetAside ==
  /\ pc = "setAside"
  /\ temp' = dlq
  /\ dlq' = NoFile
  /\ pc' = "scan"
  /\ UNCHANGED <<cancelled, status, target, retry, abandoned>>

(* The deferred function after an error. *)
RestoreOriginal ==
  /\ dlq' = temp
  /\ temp' = NoFile
  /\ ReturnIdle
  /\ UNCHANGED <<status, target, abandoned>>

(* No connection to the target, or a new DLQ file that cannot be created. *)
CannotRetry ==
  /\ pc = "scan"
  /\ RestoreOriginal

RefuseMixedPhases ==
  /\ pc = "scan"
  /\ MixedPhases(temp)
  /\ RestoreOriginal

(* Pass 1 of reprocessDLQLoop. *)
Scan ==
  /\ pc = "scan"
  /\ ~MixedPhases(temp)
  /\ dlq' = HeaderOnly
  /\ retry' = [retry EXCEPT !.failures = PopulateActiveFailedIDs(temp),
                            !.phase = ExpectedPhase(temp)]
  /\ pc' = "replay"
  /\ UNCHANGED <<cancelled, status, temp, target, abandoned>>

(* Pass 2: ctx.Err is looked at before a record is replayed, not after. *)
PickRecord ==
  /\ pc = "replay"
  /\ retry.current = {}
  /\ ~cancelled
  /\ \E r \in retry.failures :
       retry' = [retry EXCEPT !.failures = @ \ {r}, !.current = {r}]
  /\ UNCHANGED <<pc, cancelled, status, dlq, temp, target, abandoned>>

StopReplay ==
  /\ pc = "replay"
  /\ retry.current = {} /\ retry.failures # {}
  /\ cancelled
  /\ RestoreOriginal

(* Mutation of Replayed: the file set aside is dropped with its first record. *)
ReplayedAndRemoved ==
  /\ retry' = [retry EXCEPT !.current = {}]
  /\ temp' = NoFile
  /\ UNCHANGED <<pc, cancelled, status>>

Replayed ==
  /\ retry' = [retry EXCEPT !.current = {}]
  /\ UNCHANGED <<pc, cancelled, status, temp>>

ReplaySucceeds ==
  /\ pc = "replay"
  /\ \E r \in retry.current : target' = [target EXCEPT ![r.doc] = r.version]
  /\ Replayed
  /\ UNCHANGED <<dlq, abandoned>>

CountFailure == [retry EXCEPT !.current = {}, !.failed = @ + 1]

(* The document cannot be transformed, or the target refuses it again. *)
ReplayFails ==
  /\ pc = "replay"
  /\ \E r \in retry.current : dlq' = WriteFailed(dlq, r.doc, r.version, r.phase)
  /\ retry' = CountFailure
  /\ UNCHANGED <<pc, cancelled, status, temp, target, abandoned>>

(* WriteFailed drops the error of a cancelled context. *)
ReplayCancelled ==
  /\ pc = "replay"
  /\ cancelled
  /\ \E r \in retry.current : abandoned' = abandoned \cup {r.doc}
  /\ retry' = CountFailure
  /\ UNCHANGED <<pc, cancelled, status, dlq, temp, target>>

(* Only a copy that had come to its end is completed by a retry. *)
SyncState ==
  /\ pc = "replay"
  /\ retry.current = {} /\ retry.failures = {}
  /\ status' = IF retry.phase = "initial" /\ retry.status = "completed_with_failures"
               THEN IF retry.failed = 0 THEN "completed" ELSE "completed_with_failures"
               ELSE status
  /\ pc' = "remove"
  /\ UNCHANGED <<cancelled, dlq, temp, target, retry, abandoned>>

RemoveTemp ==
  /\ pc = "remove"
  /\ temp' = NoFile
  /\ ReturnIdle
  /\ UNCHANGED <<status, dlq, target, abandoned>>

RetryStep ==
  \/ SetAside \/ CannotRetry \/ RefuseMixedPhases \/ Scan
  \/ PickRecord \/ StopReplay
  \/ ReplaySucceeds \/ ReplayFails \/ ReplayCancelled
  \/ SyncState \/ RemoveTemp
=============================================================================
