--------------------------- MODULE DeadLetterQueue ---------------------------
(***************************************************************************)
(* The dead letter queue file of dlq.go: an append-only log of documents   *)
(* that could not be written ("failed") and of tombstones for those that a *)
(* later change wrote after all ("resolved").  A record carries the phase  *)
(* it was made in and the version of the document it holds; the header     *)
(* line, times and error texts are left out, and a line is written whole.  *)
(***************************************************************************)
EXTENDS Integers, SequencesExt

Phases == {"initial", "incremental"}
NoPhase == "none"

(* A file that does not exist, and one with nothing but its header line. *)
NoFile == [exists |-> FALSE, records |-> <<>>]
HeaderOnly == [exists |-> TRUE, records |-> <<>>]

(* NewDLQWriter appends to the file, which it creates if need be. *)
Opened(file) == [file EXCEPT !.exists = TRUE]

Record(kind, d, version, phase) ==
  [kind |-> kind, doc |-> d, version |-> version, phase |-> phase]

WriteFailed(file, d, version, phase) ==
  [file EXCEPT !.records = Append(@, Record("failed", d, version, phase))]

(* Mutation of WriteResolved: the tombstone is not written. *)
WithoutTombstones(file, d, version, phase) == file

WriteResolved(file, d, version, phase) ==
  [file EXCEPT !.records = Append(@, Record("resolved", d, version, phase))]

(* The failures that are still open: the last record of a document decides. *)
PopulateActiveFailedIDs(file) ==
  LET recs == file.records
      Latest(i) == \A j \in DOMAIN recs : j > i => recs[j].doc # recs[i].doc
  IN {recs[i] : i \in {k \in DOMAIN recs : Latest(k) /\ recs[k].kind = "failed"}}

(* Tombstones count as well. *)
HasActiveFailedRecords(file) == file.records # <<>>

(* The backup keeps the records, but nothing reads it again. *)
BackupAndClearDLQ(file) == IF HasActiveFailedRecords(file) THEN NoFile ELSE file

(* The phase that every record of a file must have. *)
ExpectedPhase(file) ==
  IF file.records = <<>> THEN NoPhase ELSE file.records[1].phase

MixedPhases(file) ==
  \E i \in DOMAIN file.records : file.records[i].phase # ExpectedPhase(file)
=============================================================================
