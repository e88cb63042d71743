-------------------------- MODULE PartitionTracker --------------------------
(***************************************************************************)
(* PartitionTracker of parallel.go: readers register the events of their   *)
(* change stream, any goroutine acknowledges them in any order, and the    *)
(* tracker persists, per stream, the resume token of the last event of the *)
(* acknowledged prefix.  The process may crash and start again from the    *)
(* tokens on disk.                                                         *)
(*                                                                         *)
(* A resume token is the position of its event in the change stream: the   *)
(* event with sequence number q of a run that resumed after position r is  *)
(* at position r + q.                                                      *)
(***************************************************************************)
EXTENDS Integers, FiniteSetsExt

CONSTANTS
  Streams,        (* the change stream partitions                             *)
  SaveThreshold,  (* acknowledgements that force a save                       *)
  MaxPosition,    (* bound: events in each change stream                      *)
  SavesCanFail    (* whether writing a resume token file may fail             *)

ASSUME TrackerAssumption ==
  /\ SaveThreshold \in Nat \ {0}
  /\ MaxPosition \in Nat
  /\ SavesCanFail \in BOOLEAN

VARIABLES
  nextSeqNum,         (* next sequence number per stream, 0 when none was given *)
  pendingSeqs,        (* registered and not pruned; the code's slice ascends    *)
  acked,              (* the pending ones whose Acked flag is set               *)
  lastCheckpointSeq,  (* last sequence number handed to SaveResumeToken         *)
  ackCountSinceSave,
  resumedAt,          (* position after which this run opened each stream       *)
  checkpoint,         (* position of the token in each resume token file        *)
  acknowledged        (* history: positions acknowledged by some run            *)

memory == <<nextSeqNum, pendingSeqs, acked, lastCheckpointSeq,
            ackCountSinceSave, resumedAt>>
trackerVars == <<memory, checkpoint, acknowledged>>

-----------------------------------------------------------------------------
NothingGiven == [s \in Streams |-> 0]
NoneOf == [s \in Streams |-> {}]

(* NewPartitionTracker; no token was saved but the one of the start position. *)
TrackerInit ==
  /\ nextSeqNum = NothingGiven
  /\ pendingSeqs = NoneOf
  /\ acked = NoneOf
  /\ lastCheckpointSeq = NothingGiven
  /\ ackCountSinceSave = 0
  /\ resumedAt = NothingGiven
  /\ checkpoint = NothingGiven
  /\ acknowledged = NoneOf

SeqToGive(s) == IF nextSeqNum[s] = 0 THEN 1 ELSE nextSeqNum[s]

Register(s) ==
  /\ resumedAt[s] + SeqToGive(s) <= MaxPosition
  /\ nextSeqNum' = [nextSeqNum EXCEPT ![s] = SeqToGive(s) + 1]
  /\ pendingSeqs' = [pendingSeqs EXCEPT ![s] = @ \cup {SeqToGive(s)}]
  /\ UNCHANGED <<acked, lastCheckpointSeq, ackCountSinceSave, resumedAt,
                 checkpoint, acknowledged>>

-----------------------------------------------------------------------------
(* Mutation of SafePrefix: every acknowledged event counts, not a prefix. *)
SafePrefixWithGaps(s, a) == pendingSeqs[s] \cap a[s]

(* The acknowledged prefix of a stream when the Acked flags are those of a. *)
SafePrefix(s, a) ==
  {q \in pendingSeqs[s] : \A p \in pendingSeqs[s] : p <= q => p \in a[s]}

(* The streams whose token saveCheckpointsLocked writes. *)
Advancing(a) ==
  {s \in Streams : /\ SafePrefix(s, a) # {}
                   /\ Max(SafePrefix(s, a)) > lastCheckpointSeq[s]}

(* Mutation of WriteTokens: the token of the last event read. *)
WriteLatestTokens(a) ==
  checkpoint' = [s \in Streams |-> IF s \in Advancing(a)
                                   THEN resumedAt[s] + SeqToGive(s) - 1
                                   ELSE checkpoint[s]]

(* SaveResumeToken renames a complete temporary file over the token file: a
   file that is not written keeps its token, and only the log tells. *)
WriteTokens(a) ==
  \E written \in IF SavesCanFail THEN SUBSET Advancing(a) ELSE {Advancing(a)} :
    checkpoint' = [s \in Streams |->
                     IF s \in written THEN resumedAt[s] + Max(SafePrefix(s, a))
                                      ELSE checkpoint[s]]

(* Mutation of saveCheckpointsLocked: the counter is lowered, not reset. *)
SaveLoweringCount(a) ==
  /\ ackCountSinceSave' = ackCountSinceSave - SaveThreshold
  /\ pendingSeqs' = [s \in Streams |-> pendingSeqs[s] \ SafePrefix(s, a)]
  /\ acked' = [s \in Streams |-> a[s] \ SafePrefix(s, a)]
  /\ lastCheckpointSeq' = [s \in Streams |->
       IF s \in Advancing(a) THEN Max(SafePrefix(s, a)) ELSE lastCheckpointSeq[s]]
  /\ WriteTokens(a)

(* Mutation of saveCheckpointsLocked: the saved prefix is not pruned. *)
SaveWithoutPruning(a) ==
  /\ ackCountSinceSave' = 0
  /\ pendingSeqs' = pendingSeqs
  /\ acked' = a
  /\ lastCheckpointSeq' = [s \in Streams |->
       IF s \in Advancing(a) THEN Max(SafePrefix(s, a)) ELSE lastCheckpointSeq[s]]
  /\ WriteTokens(a)

saveCheckpointsLocked(a) ==
  /\ ackCountSinceSave' = 0
  /\ pendingSeqs' = [s \in Streams |-> pendingSeqs[s] \ SafePrefix(s, a)]
  /\ acked' = [s \in Streams |-> a[s] \ SafePrefix(s, a)]
  /\ lastCheckpointSeq' = [s \in Streams |->
       IF s \in Advancing(a) THEN Max(SafePrefix(s, a)) ELSE lastCheckpointSeq[s]]
  /\ WriteTokens(a)

-----------------------------------------------------------------------------
(* The sequence numbers handed out by this run. *)
Given(s) == 1 .. SeqToGive(s) - 1

(* Acknowledging twice, or after the event was pruned, counts nothing but may
   still save when the checkpoint interval has elapsed. *)
Ack(s, q) ==
  LET marked == [acked EXCEPT ![s] = @ \cup ({q} \cap pendingSeqs[s])]
      count  == ackCountSinceSave + IF marked = acked THEN 0 ELSE 1
  IN /\ acknowledged' = [acknowledged EXCEPT ![s] = @ \cup {resumedAt[s] + q}]
     /\ \/ saveCheckpointsLocked(marked)   \* threshold met or interval elapsed
        \/ /\ count < SaveThreshold
           /\ acked' = marked
           /\ ackCountSinceSave' = count
           /\ UNCHANGED <<pendingSeqs, lastCheckpointSeq, checkpoint>>
     /\ UNCHANGED <<nextSeqNum, resumedAt>>

(* The ticker of Start: an interval without acknowledgements saves as well. *)
Tick ==
  /\ saveCheckpointsLocked(acked)
  /\ UNCHANGED <<nextSeqNum, resumedAt, acknowledged>>

(* The final save; goroutines still running may register and acknowledge
   after it. *)
Close == Tick

(* Memory is lost, at any instant between two token files being written too
   (a save that fails for some streams and a crash).  The next run opens the
   streams after the tokens on disk. *)
RestartTracker ==
  /\ nextSeqNum' = NothingGiven
  /\ pendingSeqs' = NoneOf
  /\ acked' = NoneOf
  /\ lastCheckpointSeq' = NothingGiven
  /\ ackCountSinceSave' = 0
  /\ resumedAt' = checkpoint
  /\ UNCHANGED <<checkpoint, acknowledged>>

AckAny(s) == \E q \in Given(s) : Ack(s, q)

TrackerNext ==
  \/ \E s \in Streams : Register(s) \/ AckAny(s)
  \/ Tick
  \/ RestartTracker

TrackerSpec == TrackerInit /\ [][TrackerNext]_trackerVars

-----------------------------------------------------------------------------
TrackerTypeOK ==
  /\ nextSeqNum \in [Streams -> Nat]
  /\ pendingSeqs \in [Streams -> SUBSET Nat]
  /\ acked \in [Streams -> SUBSET Nat]
  /\ lastCheckpointSeq \in [Streams -> Nat]
  /\ ackCountSinceSave \in Nat
  /\ resumedAt \in [Streams -> Nat]
  /\ checkpoint \in [Streams -> Nat]
  /\ acknowledged \in [Streams -> SUBSET Nat]

(* A token on disk never lies beyond an event that was not acknowledged: the
   run that resumes from it is sent every such event again. *)
NoUnackedBelowCheckpoint ==
  \A s \in Streams : 1 .. checkpoint[s] \subseteq acknowledged[s]

(* The ticker and Ack skip the save when nothing was counted since the last
   one; whenever they may, no acknowledged prefix is waiting to be saved. *)
SafePrefixCounted ==
  ackCountSinceSave = 0 => \A s \in Streams : SafePrefix(s, acked) = {}

(* What the tracker relies on, and what makes the two invariants above hold
   from one step to the next. *)
(* The slice of pending sequence numbers has no gap: it is everything after
   the last checkpoint, so its acknowledged head is a prefix of the stream. *)
PendingIsWindow(s) ==
  /\ pendingSeqs[s] = lastCheckpointSeq[s] + 1 .. SeqToGive(s) - 1
  /\ lastCheckpointSeq[s] < SeqToGive(s)

(* What left the window, and what is marked in it, was acknowledged. *)
AckedRecorded(s) ==
  /\ acked[s] \subseteq pendingSeqs[s]
  /\ \A q \in acked[s] : resumedAt[s] + q \in acknowledged[s]
  /\ 1 .. resumedAt[s] + lastCheckpointSeq[s] \subseteq acknowledged[s]

(* The file lags behind memory, never the other way round. *)
FileLagsMemory(s) ==
  /\ resumedAt[s] <= checkpoint[s]
  /\ checkpoint[s] <= resumedAt[s] + lastCheckpointSeq[s]

(* The inductive invariant: the window of each stream starts right after the
   last sequence number handed to SaveResumeToken, only acknowledged events
   have left it, and no token file is ahead of that number. *)
TrackerInv ==
  \A s \in Streams : PendingIsWindow(s) /\ AckedRecorded(s) /\ FileLagsMemory(s)

(* The token files implement the abstract checkpoint. *)
Abstract == INSTANCE Checkpointing WITH done <- acknowledged
ImplementsCheckpointing == Abstract!Spec
=============================================================================
