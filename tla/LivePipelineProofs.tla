------------------------- MODULE LivePipelineProofs -------------------------
(***************************************************************************)
(* Proofs about PartitionTracker, for every set of streams, threshold and  *)
(* length of the streams, with crashes at any step and token files that    *)
(* may fail to be written, and about the LivePipeline that extends it, for *)
(* every number of streams, events and workers, every batch size and queue *)
(* capacity and either grouping.                                           *)
(*                                                                         *)
(* First the tracker by itself.  Second, each step of the pipeline is      *)
(* shown to be an operation of the tracker or none, because whatever a     *)
(* goroutine holds was registered in this run; what is proved of the       *)
(* tracker then holds in the pipeline.  Third, what is acknowledged has an *)
(* outcome.  Together: a token covers outcomes only.  Fourth, the queues   *)
(* stay within their capacities, and the writes on a document reach the    *)
(* target in the order of its stream.                                      *)
(***************************************************************************)
EXTENDS LivePipeline, Extrema, SequenceTheorems

-----------------------------------------------------------------------------
(* The tracker. *)

(* The acknowledged head of a window of consecutive sequence numbers is an
   interval that starts the window, and the event after it is unacknowledged. *)
LEMMA PrefixIsInterval ==
  ASSUME NEW s \in Streams, NEW a, NEW l \in Nat, NEW n \in Nat,
         pendingSeqs[s] = l + 1 .. n - 1,
         SafePrefix(s, a) # {}
  PROVE  /\ Max(SafePrefix(s, a)) \in l + 1 .. n - 1
         /\ SafePrefix(s, a) = l + 1 .. Max(SafePrefix(s, a))
         /\ SafePrefix(s, a) \subseteq a[s]
         /\ Max(SafePrefix(s, a)) + 1 \notin pendingSeqs[s] \cap a[s]
<1> DEFINE P == SafePrefix(s, a)
           m == Max(P)
<1>1. P = {q \in l + 1 .. n - 1 : \A p \in l + 1 .. n - 1 : p <= q => p \in a[s]}
  BY DEF SafePrefix
<1>2. P \in SUBSET (0 .. n)
  BY <1>1
<1>3. m \in P /\ \A q \in P : q <= m
  BY <1>2, MaxInRange
<1>. HIDE DEF P, m
<1>4. m \in l + 1 .. n - 1
  BY <1>1, <1>3
<1>5. P = l + 1 .. m
  BY <1>1, <1>3, <1>4
<1>6. P \subseteq a[s]
  BY <1>1
<1>7. ASSUME m + 1 \in l + 1 .. n - 1, m + 1 \in a[s]
      PROVE  FALSE
  <2>1. \A p \in l + 1 .. n - 1 : p <= m + 1 => p \in a[s]
    BY <1>4, <1>5, <1>6, <1>7
  <2>2. m + 1 \in P
    BY <1>1, <1>7, <2>1
  <2>. QED BY <1>3, <1>4, <2>2
<1>. QED BY <1>4, <1>5, <1>6, <1>7 DEF P, m

(* saveCheckpointsLocked, run with flags a that mark only acknowledged events,
   keeps the invariant, leaves no acknowledged prefix behind and never moves a
   token file back. *)
LEMMA SaveStep ==
  ASSUME TrackerTypeOK, TrackerInv,
         NEW a \in [Streams -> SUBSET Nat],
         \A s \in Streams : a[s] \subseteq pendingSeqs[s],
         \A s \in Streams : \A q \in a[s] : resumedAt[s] + q \in acknowledged'[s],
         acknowledged' \in [Streams -> SUBSET Nat],
         \A s \in Streams : acknowledged[s] \subseteq acknowledged'[s],
         saveCheckpointsLocked(a),
         UNCHANGED <<nextSeqNum, resumedAt>>
  PROVE  /\ TrackerTypeOK'
         /\ TrackerInv'
         /\ SafePrefixCounted'
         /\ \A s \in Streams : checkpoint[s] <= checkpoint'[s]
<1> DEFINE P(s) == SafePrefix(s, a)
           m(s) == Max(P(s))
           l(s) == lastCheckpointSeq[s]
           n(s) == SeqToGive(s)
<1>1. \A s \in Streams :
        /\ l(s) \in Nat /\ n(s) \in Nat /\ l(s) < n(s)
        /\ pendingSeqs[s] = l(s) + 1 .. n(s) - 1
        /\ n(s)' = n(s)
        /\ resumedAt[s] \in Nat /\ checkpoint[s] \in Nat
  BY DEF TrackerTypeOK, TrackerInv, PendingIsWindow, SeqToGive
<1>2. \A s \in Streams :
        P(s) # {} => /\ m(s) \in l(s) + 1 .. n(s) - 1
                     /\ P(s) = l(s) + 1 .. m(s)
                     /\ P(s) \subseteq a[s]
                     /\ m(s) + 1 \notin pendingSeqs[s] \cap a[s]
  BY <1>1, PrefixIsInterval
<1>3. \A s \in Streams : s \in Advancing(a) <=> P(s) # {}
  BY <1>1, <1>2 DEF Advancing
<1>4. /\ pendingSeqs' = [s \in Streams |-> pendingSeqs[s] \ P(s)]
      /\ acked' = [s \in Streams |-> a[s] \ P(s)]
      /\ lastCheckpointSeq' = [s \in Streams |-> IF P(s) # {} THEN m(s) ELSE l(s)]
      /\ ackCountSinceSave' = 0
  BY <1>3 DEF saveCheckpointsLocked
<1>5. /\ checkpoint' \in [Streams -> Nat]
      /\ \A s \in Streams :
           \/ checkpoint'[s] = checkpoint[s]
           \/ P(s) # {} /\ checkpoint'[s] = resumedAt[s] + m(s)
  <2>1. PICK written \in SUBSET Advancing(a) :
          checkpoint' = [s \in Streams |->
             IF s \in written THEN resumedAt[s] + m(s) ELSE checkpoint[s]]
    BY DEF saveCheckpointsLocked, WriteTokens
  <2>2. \A s \in Streams : s \in written => P(s) # {}
    BY <2>1, <1>3
  <2>. HIDE DEF P, m, l, n
  <2>. QED BY <2>1, <2>2, <1>1, <1>2
<1>. HIDE DEF P, m, l, n
<1>6. TrackerTypeOK'
  BY <1>1, <1>2, <1>4, <1>5 DEF TrackerTypeOK, l
<1>7. ASSUME NEW s \in Streams
      PROVE  /\ PendingIsWindow(s)'
             /\ AckedRecorded(s)'
             /\ FileLagsMemory(s)'
             /\ SafePrefix(s, acked)' = {}
             /\ checkpoint[s] <= checkpoint'[s]
  <2>1. /\ 1 .. resumedAt[s] + l(s) \subseteq acknowledged[s]
        /\ resumedAt[s] <= checkpoint[s]
        /\ checkpoint[s] <= resumedAt[s] + l(s)
    BY DEF TrackerInv, AckedRecorded, FileLagsMemory, l
  <2>2. CASE P(s) = {}
    <3>1. /\ pendingSeqs'[s] = pendingSeqs[s] /\ acked'[s] = a[s]
          /\ lastCheckpointSeq'[s] = l(s) /\ checkpoint'[s] = checkpoint[s]
      BY <2>2, <1>4, <1>5
    <3>2. PendingIsWindow(s)'
      BY <3>1, <1>1 DEF PendingIsWindow, n
    <3>3. AckedRecorded(s)' /\ FileLagsMemory(s)'
      BY <3>1, <2>1 DEF AckedRecorded, FileLagsMemory
    <3>4. SafePrefix(s, acked)' = {}
      BY <3>1, <2>2 DEF SafePrefix, P
    <3>. QED BY <3>1, <3>2, <3>3, <3>4, <1>1
  <2>3. CASE P(s) # {}
    <3>1. /\ m(s) \in l(s) + 1 .. n(s) - 1
          /\ P(s) = l(s) + 1 .. m(s)
          /\ P(s) \subseteq a[s]
          /\ m(s) + 1 \notin pendingSeqs[s] \cap a[s]
      BY <2>3, <1>2
    <3>2. /\ pendingSeqs'[s] = m(s) + 1 .. n(s) - 1
          /\ acked'[s] = a[s] \ P(s)
          /\ lastCheckpointSeq'[s] = m(s)
      BY <2>3, <3>1, <1>1, <1>4
    <3>3. PendingIsWindow(s)'
      BY <3>1, <3>2, <1>1 DEF PendingIsWindow, n
    <3>4. ASSUME NEW p \in 1 .. resumedAt[s] + m(s)
          PROVE  p \in acknowledged'[s]
      <4>1. CASE p <= resumedAt[s] + l(s)
        <5>1. p \in 1 .. resumedAt[s] + l(s)
          BY <4>1, <1>1
        <5>2. p \in acknowledged[s]
          BY <5>1, <2>1
        <5>. QED BY <5>2
      <4>2. CASE ~ (p <= resumedAt[s] + l(s))
        <5>1. p - resumedAt[s] \in P(s)
          BY <4>2, <3>1, <1>1
        <5>2. resumedAt[s] + (p - resumedAt[s]) = p
          BY <1>1
        <5>3. p - resumedAt[s] \in a[s]
          BY <5>1, <3>1
        <5>4. resumedAt[s] + (p - resumedAt[s]) \in acknowledged'[s]
          BY <5>3
        <5>. QED BY <5>2, <5>4
      <4>. QED BY <4>1, <4>2
    <3>5. AckedRecorded(s)'
      BY <3>1, <3>2, <3>4, <1>1 DEF AckedRecorded
    <3>6. FileLagsMemory(s)' /\ checkpoint[s] <= checkpoint'[s]
      <4>1. /\ l(s) \in Nat /\ m(s) \in Nat /\ l(s) < m(s)
            /\ resumedAt[s] \in Nat /\ checkpoint[s] \in Nat
            /\ resumedAt'[s] = resumedAt[s]
        BY <3>1, <1>1
      <4>2. checkpoint'[s] = checkpoint[s] \/ checkpoint'[s] = resumedAt[s] + m(s)
        BY <1>5
      <4>3. /\ resumedAt[s] <= checkpoint'[s]
            /\ checkpoint'[s] <= resumedAt[s] + m(s)
            /\ checkpoint[s] <= checkpoint'[s]
        BY <4>1, <4>2, <2>1
      <4>. QED BY <4>1, <4>3, <3>2 DEF FileLagsMemory
    <3>7. m(s) + 1 \notin acked'[s]
      BY <3>1, <3>2, <1>1
    <3>8. SafePrefix(s, acked)' = {}
      <4>1. SUFFICES ASSUME NEW q \in m(s) + 1 .. n(s) - 1,
                            \A p \in m(s) + 1 .. n(s) - 1 : p <= q => p \in acked'[s]
                     PROVE  FALSE
        BY <3>2 DEF SafePrefix
      <4>2. m(s) + 1 \in m(s) + 1 .. n(s) - 1 /\ m(s) + 1 <= q
        BY <3>1, <1>1
      <4>. QED BY <4>1, <4>2, <3>7
    <3>. QED BY <3>3, <3>5, <3>6, <3>8
  <2>. QED BY <2>2, <2>3
<1>8. SafePrefixCounted'
  BY <1>7 DEF SafePrefixCounted
<1>. QED BY <1>6, <1>7, <1>8 DEF TrackerInv

(* An acknowledgement marks only a pending event and records it. *)
LEMMA AckStep ==
  ASSUME TrackerTypeOK, TrackerInv, SafePrefixCounted,
         NEW s \in Streams, NEW q \in Given(s), Ack(s, q)
  PROVE  /\ TrackerTypeOK' /\ TrackerInv' /\ SafePrefixCounted'
         /\ \A t \in Streams : /\ acknowledged[t] \subseteq acknowledged'[t]
                              /\ checkpoint[t] <= checkpoint'[t]
<1> DEFINE marked == [acked EXCEPT ![s] = @ \cup ({q} \cap pendingSeqs[s])]
           count  == ackCountSinceSave + IF marked = acked THEN 0 ELSE 1
<1>1. q \in Nat /\ resumedAt[s] + q \in Nat
  BY DEF Given, TrackerTypeOK, SeqToGive
<1>2. /\ acknowledged' \in [Streams -> SUBSET Nat]
      /\ \A t \in Streams : acknowledged[t] \subseteq acknowledged'[t]
      /\ resumedAt[s] + q \in acknowledged'[s]
  BY <1>1 DEF Ack, TrackerTypeOK
<1>3. /\ marked \in [Streams -> SUBSET Nat]
      /\ \A t \in Streams : marked[t] \subseteq pendingSeqs[t]
      /\ \A t \in Streams : \A p \in marked[t] : resumedAt[t] + p \in acknowledged'[t]
  BY <1>1, <1>2 DEF TrackerTypeOK, TrackerInv, AckedRecorded
<1>4. UNCHANGED <<nextSeqNum, resumedAt>>
  BY DEF Ack
<1>5. CASE saveCheckpointsLocked(marked)
  <2>. HIDE DEF marked
  <2>. QED BY <1>2, <1>3, <1>4, <1>5, SaveStep
<1>6. CASE /\ acked' = marked
           /\ ackCountSinceSave' = count
           /\ UNCHANGED <<pendingSeqs, lastCheckpointSeq, checkpoint>>
  <2>1. ackCountSinceSave' \in Nat
    BY <1>6 DEF TrackerTypeOK
  <2>2. TrackerTypeOK'
    <3>. HIDE DEF marked
    <3>. QED BY <1>2, <1>3, <1>4, <1>6, <2>1 DEF TrackerTypeOK
  <2>3. TrackerInv'
    <3>. HIDE DEF marked
    <3>. QED BY <1>2, <1>3, <1>4, <1>6
         DEF TrackerInv, PendingIsWindow, AckedRecorded, FileLagsMemory, SeqToGive, TrackerTypeOK
  <2>4. SafePrefixCounted'
    <3>1. SUFFICES ASSUME ackCountSinceSave' = 0, NEW t \in Streams
                   PROVE  SafePrefix(t, acked)' = {}
      BY DEF SafePrefixCounted
    <3>2. ackCountSinceSave = 0 /\ marked = acked
      BY <3>1, <1>6 DEF TrackerTypeOK
    <3>3. SafePrefix(t, acked) = {}
      BY <3>2 DEF SafePrefixCounted
    <3>4. acked' = acked /\ pendingSeqs' = pendingSeqs
      BY <3>2, <1>6
    <3>. QED BY <3>3, <3>4 DEF SafePrefix
  <2>. QED BY <1>2, <1>6, <2>2, <2>3, <2>4 DEF TrackerTypeOK
<1>. QED BY <1>5, <1>6 DEF Ack

(* One step of the tracker, crashes included. *)
LEMMA TrackerStep ==
  ASSUME TrackerTypeOK, TrackerInv, SafePrefixCounted, [TrackerNext]_trackerVars
  PROVE  /\ TrackerTypeOK' /\ TrackerInv' /\ SafePrefixCounted'
         /\ \A t \in Streams : /\ acknowledged[t] \subseteq acknowledged'[t]
                              /\ checkpoint[t] <= checkpoint'[t]
<1>1. ASSUME NEW s \in Streams, Register(s)
      PROVE  /\ TrackerTypeOK' /\ TrackerInv' /\ SafePrefixCounted'
             /\ UNCHANGED <<acknowledged, checkpoint>>
  <2>1. SeqToGive(s) \in Nat \ {0}
    BY DEF TrackerTypeOK, SeqToGive
  <2>2. TrackerTypeOK'
    BY <1>1, <2>1 DEF Register, TrackerTypeOK
  <2>3. ASSUME NEW t \in Streams
        PROVE  PendingIsWindow(t)' /\ AckedRecorded(t)' /\ FileLagsMemory(t)'
    <3>1. SeqToGive(t)' = IF t = s THEN SeqToGive(s) + 1 ELSE SeqToGive(t)
      BY <1>1, <2>1 DEF Register, SeqToGive, TrackerTypeOK
    <3>2. PendingIsWindow(t)'
      <4> DEFINE l == lastCheckpointSeq[t]
                 n == SeqToGive(t)
      <4>1. l \in Nat /\ n \in Nat /\ l < n /\ pendingSeqs[t] = l + 1 .. n - 1
        BY <2>1 DEF TrackerTypeOK, TrackerInv, PendingIsWindow, SeqToGive
      <4>2. /\ lastCheckpointSeq'[t] = l
            /\ pendingSeqs'[t] = IF t = s THEN pendingSeqs[t] \cup {n} ELSE pendingSeqs[t]
        BY <1>1 DEF Register, TrackerTypeOK
      <4>. HIDE DEF l, n
      <4>3. (l + 1 .. n - 1) \cup {n} = l + 1 .. (n + 1) - 1
        BY <4>1
      <4>4. SeqToGive(t)' = IF t = s THEN n + 1 ELSE n
        BY <3>1 DEF n
      <4>5. CASE t = s
        <5>1. pendingSeqs'[t] = l + 1 .. (n + 1) - 1 /\ SeqToGive(t)' = n + 1
          BY <4>1, <4>2, <4>3, <4>4, <4>5
        <5>. QED BY <5>1, <4>1, <4>2 DEF PendingIsWindow
      <4>6. CASE t # s
        <5>1. pendingSeqs'[t] = l + 1 .. n - 1 /\ SeqToGive(t)' = n
          BY <4>1, <4>2, <4>4, <4>6
        <5>. QED BY <5>1, <4>1, <4>2 DEF PendingIsWindow
      <4>. QED BY <4>5, <4>6
    <3>3. AckedRecorded(t)' /\ FileLagsMemory(t)'
      BY <1>1, <2>1 DEF Register, TrackerTypeOK, TrackerInv, AckedRecorded, FileLagsMemory
    <3>. QED BY <3>2, <3>3
  <2>4. SafePrefixCounted'
    <3>1. SUFFICES ASSUME ackCountSinceSave = 0, NEW t \in Streams,
                          NEW q \in SafePrefix(t, acked)'
                   PROVE  FALSE
      BY <1>1 DEF SafePrefixCounted, Register
    <3>2. SafePrefix(t, acked) = {}
      BY <3>1 DEF SafePrefixCounted
    <3>3. acked' = acked /\ pendingSeqs[t] \subseteq pendingSeqs'[t]
      BY <1>1 DEF Register, TrackerTypeOK
    <3>4. q \in pendingSeqs'[t] /\ \A p \in pendingSeqs'[t] : p <= q => p \in acked[t]
      BY <3>3 DEF SafePrefix
    <3>5. q \in acked[t]
      BY <3>4, <2>2 DEF TrackerTypeOK
    <3>6. q \in pendingSeqs[t]
      BY <3>5 DEF TrackerInv, AckedRecorded
    <3>7. q \in SafePrefix(t, acked)
      BY <3>3, <3>4, <3>6 DEF SafePrefix
    <3>. QED BY <3>2, <3>7
  <2>. QED BY <1>1, <2>2, <2>3, <2>4 DEF TrackerInv, Register
<1>2. CASE Tick
  <2>1. /\ acked \in [Streams -> SUBSET Nat]
        /\ acknowledged' \in [Streams -> SUBSET Nat]
        /\ \A s \in Streams : /\ acked[s] \subseteq pendingSeqs[s]
                             /\ acknowledged[s] \subseteq acknowledged'[s]
                             /\ \A q \in acked[s] : resumedAt[s] + q \in acknowledged'[s]
    BY <1>2 DEF Tick, TrackerTypeOK, TrackerInv, AckedRecorded
  <2>. QED BY <1>2, <2>1, SaveStep DEF Tick
<1>3. CASE RestartTracker
  <2>1. TrackerTypeOK'
    BY <1>3 DEF RestartTracker, TrackerTypeOK, NothingGiven, NoneOf
  <2>2. ASSUME NEW t \in Streams
        PROVE  PendingIsWindow(t)' /\ AckedRecorded(t)' /\ FileLagsMemory(t)'
    <3>1. SeqToGive(t)' = 1
      BY <1>3 DEF RestartTracker, SeqToGive, NothingGiven
    <3>2. 1 .. checkpoint[t] \subseteq acknowledged[t]
      BY DEF TrackerInv, AckedRecorded, FileLagsMemory, TrackerTypeOK
    <3>3. PendingIsWindow(t)'
      BY <1>3, <3>1 DEF RestartTracker, PendingIsWindow, NothingGiven, NoneOf
    <3>4. AckedRecorded(t)' /\ FileLagsMemory(t)'
      BY <1>3, <3>2 DEF RestartTracker, AckedRecorded, FileLagsMemory, NothingGiven, NoneOf, TrackerTypeOK
    <3>. QED BY <3>3, <3>4
  <2>3. SafePrefixCounted'
    BY <1>3 DEF RestartTracker, SafePrefixCounted, SafePrefix, NoneOf
  <2>. QED BY <1>3, <2>1, <2>2, <2>3 DEF TrackerInv, RestartTracker, TrackerTypeOK
<1>4. CASE UNCHANGED trackerVars
  <2>1. TrackerTypeOK'
    BY <1>4 DEF trackerVars, memory, TrackerTypeOK
  <2>2. TrackerInv'
    BY <1>4 DEF trackerVars, memory, TrackerInv, PendingIsWindow, AckedRecorded,
                FileLagsMemory, SeqToGive
  <2>3. SafePrefixCounted'
    BY <1>4 DEF trackerVars, memory, SafePrefixCounted, SafePrefix
  <2>. QED BY <1>4, <2>1, <2>2, <2>3 DEF trackerVars, memory, TrackerTypeOK
<1>. QED BY <1>1, <1>2, <1>3, <1>4, AckStep DEF TrackerNext, AckAny, TrackerTypeOK

LEMMA InitialState == TrackerInit => TrackerTypeOK /\ TrackerInv /\ SafePrefixCounted
<1> SUFFICES ASSUME TrackerInit PROVE TrackerTypeOK /\ TrackerInv /\ SafePrefixCounted
  OBVIOUS
<1>1. TrackerTypeOK
  BY DEF TrackerInit, TrackerTypeOK, NothingGiven, NoneOf
<1>2. TrackerInv
  BY DEF TrackerInit, TrackerInv, PendingIsWindow, AckedRecorded, FileLagsMemory, SeqToGive,
         NothingGiven, NoneOf
<1>3. SafePrefixCounted
  BY DEF TrackerInit, SafePrefixCounted, SafePrefix, NoneOf
<1>. QED BY <1>1, <1>2, <1>3

(* The variables keep their types and the window invariant holds in every
   reachable state, so no save can skip an unacknowledged event. *)
THEOREM Inductive == TrackerSpec => [](TrackerTypeOK /\ TrackerInv /\ SafePrefixCounted)
<1>1. /\ TrackerTypeOK /\ TrackerInv /\ SafePrefixCounted
      /\ [TrackerNext]_trackerVars
      => TrackerTypeOK' /\ TrackerInv' /\ SafePrefixCounted'
  BY TrackerStep
<1>. QED BY InitialState, <1>1, PTL DEF TrackerSpec

(* Whatever calls the tracker gets, its maps keep their types. *)
THEOREM TypeCorrect == TrackerSpec => []TrackerTypeOK
<1>. QED BY Inductive, PTL

(* A resume token on disk never lies beyond an event that was not acknowledged:
   whatever is acknowledged out of order, whenever the process crashes and
   whichever token files fail to be written, no unacknowledged event is
   skipped by the run that resumes. *)
THEOREM CheckpointIsSafe == TrackerSpec => []NoUnackedBelowCheckpoint
<1>1. TrackerTypeOK /\ TrackerInv => NoUnackedBelowCheckpoint
  <2> SUFFICES ASSUME TrackerTypeOK, TrackerInv, NEW s \in Streams,
                      NEW p \in 1 .. checkpoint[s]
               PROVE  p \in acknowledged[s]
    BY DEF NoUnackedBelowCheckpoint
  <2>1. /\ checkpoint[s] <= resumedAt[s] + lastCheckpointSeq[s]
        /\ 1 .. resumedAt[s] + lastCheckpointSeq[s] \subseteq acknowledged[s]
    BY DEF TrackerInv, AckedRecorded, FileLagsMemory
  <2>. QED BY <2>1 DEF TrackerTypeOK
<1>. QED BY Inductive, <1>1, PTL

(* The counter the ticker looks at is never zero while an acknowledged prefix
   waits to be saved. *)
THEOREM NoPrefixForgotten == TrackerSpec => []SafePrefixCounted
<1>. QED BY Inductive, PTL

(* The tracker with its token files implements the abstract checkpoint: every
   step finishes events, moves checkpoints forward over finished events, or
   changes neither. *)
THEOREM Refinement == TrackerSpec => ImplementsCheckpointing
<1>1. TrackerInit => Abstract!Init
  BY DEF TrackerInit, Abstract!Init, NothingGiven, NoneOf
<1>2. /\ TrackerTypeOK /\ TrackerInv /\ SafePrefixCounted
      /\ NoUnackedBelowCheckpoint'
      /\ [TrackerNext]_trackerVars
      => [Abstract!Next]_(Abstract!cpVars)
  BY TrackerStep DEF Abstract!Next, Abstract!Finish, Abstract!Advance,
                     NoUnackedBelowCheckpoint
<1>. QED BY <1>1, <1>2, Inductive, CheckpointIsSafe, PTL
         DEF TrackerSpec, ImplementsCheckpointing, Abstract!Spec

-----------------------------------------------------------------------------
(* The pipeline keeps to the tracker. *)

(* The events registered in this run. *)
Registered == {e \in [stream : Streams, seq : Nat] : e.seq \in Given(e.stream)}

Groups == Seq(Registered) \ {<<>>}

WriterStates ==
  [phase : {"receive", "write", "ack", "exited"}, group : Seq(Registered),
   graceful : BOOLEAN]

(* Whatever a goroutine or a queue holds was registered in this run, and who is
   about to use an event holds one. *)
HoldsRegistered ==
  /\ nextSeqNum \in [Streams -> Nat]
  /\ reader \in [Streams -> {"next", "push", "done"}]
  /\ \A s \in Streams : reader[s] = "push" => SeqToGive(s) > 1
  /\ ingestQueue \in Seq(Registered)
  /\ routed \in Seq(Registered)
  /\ router = "push" => routed # <<>>
  /\ batchingQueue \in [1 .. NumWorkers -> Seq(Registered)]
  /\ currentGroup \in [1 .. NumWorkers -> Seq(Registered)]
  /\ batchWriteQueue \in [1 .. NumWorkers -> Seq(Groups)]
  /\ writer \in [1 .. NumWorkers -> WriterStates]
  /\ \A w \in 1 .. NumWorkers :
       writer[w].phase \in {"write", "ack"} => writer[w].group # <<>>
  /\ cancelled \in BOOLEAN

(* The number of workers is a number. *)
LEMMA WorkersAreCounted == NumWorkers \in Nat
BY PipelineAssumption

(* A writer without a group is in order. *)
LEMMA IdleWriters ==
  /\ [w \in 1 .. NumWorkers |-> WriterIdle] \in [1 .. NumWorkers -> WriterStates]
  /\ WriterIdle.phase = "receive"
<1>1. <<>> \in Seq(Registered)
  OBVIOUS
<1>. QED BY <1>1 DEF WriterStates, WriterIdle

(* A process that has just started holds no event. *)
LEMMA FreshHolds ==
  ASSUME FreshStages, nextSeqNum \in [Streams -> Nat] PROVE HoldsRegistered
<1>1. /\ writer \in [1 .. NumWorkers -> WriterStates]
      /\ \A w \in 1 .. NumWorkers : writer[w].phase = "receive"
  BY IdleWriters DEF FreshStages, Workers
<1>2. /\ <<>> \in Seq(Registered)
      /\ <<>> \in Seq(Groups)
  OBVIOUS
<1>. QED BY <1>1, <1>2 DEF FreshStages, HoldsRegistered, Workers

(* So it is in the initial states. *)
LEMMA InitialHolds == Init => HoldsRegistered
<1> SUFFICES ASSUME Init PROVE HoldsRegistered
  OBVIOUS
<1>1. nextSeqNum \in [Streams -> Nat]
  BY DEF Init, TrackerInit, NothingGiven
<1>. QED
  BY <1>1, FreshHolds DEF Init

(* While no sequence number is handed out the registered events stay the same. *)
LEMMA SameRegistered ==
  ASSUME UNCHANGED nextSeqNum
  PROVE  /\ Registered' = Registered
         /\ Groups' = Groups
         /\ WriterStates' = WriterStates
         /\ \A s \in Streams : SeqToGive(s)' = SeqToGive(s)
BY DEF Registered, Groups, WriterStates, Given, SeqToGive

(* The event in the hands of a reader is the last one it registered. *)
LEMMA HeldRegistered ==
  ASSUME HoldsRegistered, NEW s \in Streams, reader[s] = "push"
  PROVE  /\ Held(s) \in Registered
         /\ Held(s).stream = s
         /\ Held(s).seq \in Given(s)
BY DEF HoldsRegistered, Held, Event, Registered, Given, SeqToGive

(* Readers hand on registered events only; a registration keeps the others. *)
LEMMA ReaderKeeps ==
  ASSUME HoldsRegistered, NEW s \in Streams,
         ReaderNext(s) \/ StreamFails(s)
  PROVE  HoldsRegistered'
<1>1. CASE Read(s)
  <2>1. /\ Register(s)
        /\ reader' = [reader EXCEPT ![s] = "push"]
        /\ UNCHANGED <<ingestQueue, router, routed, batchingQueue, currentGroup,
                 batchWriteQueue, writer, cancelled>>
    BY <1>1 DEF Read
  <2>2. /\ nextSeqNum' \in [Streams -> Nat]
        /\ \A t \in Streams : SeqToGive(t)' >= SeqToGive(t)
        /\ SeqToGive(s)' > 1
    BY <2>1 DEF Register, SeqToGive, HoldsRegistered
  <2>3. Registered \subseteq Registered'
    <3>1. \A t \in Streams : SeqToGive(t) \in Nat /\ SeqToGive(t)' \in Nat
      BY <2>2 DEF HoldsRegistered, SeqToGive
    <3>. QED BY <2>2, <3>1 DEF Registered, Given
  <2>4. Seq(Registered) \subseteq Seq(Registered')
    BY <2>3
  <2>5. Seq(Groups) \subseteq Seq(Groups')
    BY <2>4 DEF Groups
  <2>6. WriterStates \subseteq WriterStates'
    BY <2>4 DEF WriterStates
  <2>7. Seq(Registered)' = Seq(Registered') /\ Seq(Groups)' = Seq(Groups')
    OBVIOUS
  <2>. HIDE DEF Registered, Groups, WriterStates
  <2>8. /\ ingestQueue' \in Seq(Registered')
        /\ routed' \in Seq(Registered')
        /\ batchingQueue' \in [1 .. NumWorkers -> Seq(Registered')]
        /\ currentGroup' \in [1 .. NumWorkers -> Seq(Registered')]
    BY <2>1, <2>4 DEF HoldsRegistered
  <2>9. batchWriteQueue' \in [1 .. NumWorkers -> Seq(Groups')]
    BY <2>1, <2>5 DEF HoldsRegistered
  <2>10. writer' \in [1 .. NumWorkers -> WriterStates']
    BY <2>1, <2>6 DEF HoldsRegistered
  <2>11. /\ reader' \in [Streams -> {"next", "push", "done"}]
         /\ \A t \in Streams : reader'[t] = "push" => SeqToGive(t)' > 1
    <3>1. ASSUME NEW t \in Streams, reader'[t] = "push", t # s
          PROVE  SeqToGive(t)' > 1
      <4>1. SeqToGive(t) > 1
        BY <2>1, <3>1 DEF HoldsRegistered
      <4>2. SeqToGive(t) \in Nat /\ SeqToGive(t)' \in Nat
        BY <2>2 DEF HoldsRegistered, SeqToGive
      <4>. QED BY <2>2, <4>1, <4>2
    <3>. QED BY <2>1, <2>2, <3>1 DEF HoldsRegistered
  <2>. QED BY <2>1, <2>2, <2>8, <2>9, <2>10, <2>11 DEF HoldsRegistered
<1>2. CASE Push(s)
  <2>1. UNCHANGED nextSeqNum
    BY <1>2 DEF Push, trackerVars, memory
  <2>2. Append(ingestQueue, Held(s)) \in Seq(Registered)
    <3>1. ingestQueue \in Seq(Registered) /\ Held(s) \in Registered
      BY <1>2, HeldRegistered DEF Push, HoldsRegistered
    <3>. QED BY <3>1, AppendProperties
  <2>. QED BY <1>2, <2>1, <2>2, SameRegistered DEF Push, HoldsRegistered
<1>3. CASE ReaderQuits(s)
  <2>1. UNCHANGED nextSeqNum
    BY <1>3 DEF ReaderQuits, trackerVars, memory, Ack
  <2>. QED BY <1>3, <2>1, SameRegistered DEF ReaderQuits, HoldsRegistered
<1>4. CASE StreamFails(s)
  <2>1. UNCHANGED nextSeqNum
    BY <1>4 DEF StreamFails, trackerVars, memory
  <2>. QED BY <1>4, <2>1, SameRegistered DEF StreamFails, HoldsRegistered
<1>. QED BY <1>1, <1>2, <1>3, <1>4 DEF ReaderNext

(* The router takes from ingestQueue and hands on what it took. *)
LEMMA RouterKeeps ==
  ASSUME HoldsRegistered, RouterNext
  PROVE  HoldsRegistered'
<1>1. CASE RouterReceives
  <2> DEFINE e == Head(ingestQueue)
  <2>1. UNCHANGED nextSeqNum
    BY <1>1 DEF RouterReceives, trackerVars, memory, Ack
  <2>2. e \in Registered /\ Tail(ingestQueue) \in Seq(Registered)
    BY <1>1, HeadTailProperties DEF RouterReceives, HoldsRegistered
  <2>3. <<e>> \in Seq(Registered) /\ <<e>> # <<>>
    BY <2>2
  <2>4. routed' \in Seq(Registered) /\ (router' = "push" => routed' # <<>>)
    BY <1>1, <2>3 DEF RouterReceives, HoldsRegistered
  <2>. QED
    BY <1>1, <2>1, <2>2, <2>4, SameRegistered DEF RouterReceives, HoldsRegistered
<1>2. CASE RouterPushes
  <2> DEFINE w == WorkerOf[DocOf(routed[1])]
  <2>1. UNCHANGED nextSeqNum
    BY <1>2 DEF RouterPushes, trackerVars, memory
  <2>2. routed[1] \in Registered
    BY <1>2, ElementOfSeq, EmptySeq DEF RouterPushes, HoldsRegistered
  <2>3. batchingQueue' \in [1 .. NumWorkers -> Seq(Registered)]
    <3>1. batchingQueue' = [batchingQueue EXCEPT ![w] = Append(@, routed[1])]
      BY <1>2 DEF RouterPushes
    <3>. HIDE DEF w
    <3>2. w \in 1 .. NumWorkers => Append(batchingQueue[w], routed[1]) \in Seq(Registered)
      BY <2>2, AppendProperties DEF HoldsRegistered
    <3>. QED BY <3>1, <3>2 DEF HoldsRegistered
  <2>. QED
    BY <1>2, <2>1, <2>3, SameRegistered DEF RouterPushes, HoldsRegistered
<1>3. CASE RouterQuits
  <2>1. UNCHANGED nextSeqNum
    BY <1>3 DEF RouterQuits, trackerVars, memory, Ack
  <2>. QED BY <1>3, <2>1, SameRegistered DEF RouterQuits, HoldsRegistered
<1>4. CASE RouterDone
  <2>1. UNCHANGED nextSeqNum
    BY <1>4 DEF RouterDone, trackerVars, memory
  <2>. QED BY <1>4, <2>1, SameRegistered DEF RouterDone, HoldsRegistered
<1>. QED BY <1>1, <1>2, <1>3, <1>4 DEF RouterNext

(* Pushing the current group, if there is one, and starting another. *)
LEMMA FlushKeeps ==
  ASSUME HoldsRegistered, NEW w \in 1 .. NumWorkers, flushCurrentGroup(w)
  PROVE  /\ batchWriteQueue' \in [1 .. NumWorkers -> Seq(Groups)]
         /\ currentGroup' \in [1 .. NumWorkers -> Seq(Registered)]
<1> DEFINE pushed == IF currentGroup[w] = <<>> THEN <<>> ELSE <<currentGroup[w]>>
<1>1. pushed \in Seq(Groups)
  <2>1. CASE currentGroup[w] = <<>>
    BY <2>1
  <2>2. CASE currentGroup[w] # <<>>
    <3>1. currentGroup[w] \in Groups
      BY <2>2 DEF HoldsRegistered, Groups
    <3>. QED BY <2>2, <3>1
  <2>. QED BY <2>1, <2>2
<1>2. batchWriteQueue' = [batchWriteQueue EXCEPT ![w] = @ \o pushed]
  BY DEF flushCurrentGroup
<1>. HIDE DEF pushed
<1>3. batchWriteQueue[w] \o pushed \in Seq(Groups)
  BY <1>1, ConcatProperties DEF HoldsRegistered
<1>4. <<>> \in Seq(Registered)
  OBVIOUS
<1>. QED BY <1>2, <1>3, <1>4 DEF flushCurrentGroup, HoldsRegistered

(* An event loop builds its groups of the events it received; no empty group is
   pushed. *)
LEMMA EventLoopKeeps ==
  ASSUME HoldsRegistered, NEW w \in 1 .. NumWorkers, EventLoopNext(w)
  PROVE  HoldsRegistered'
<1>1. CASE ProcessEvent(w)
  <2> DEFINE e == Head(batchingQueue[w])
             new == NeedNewGroup(currentGroup[w], e)
             group == IF new THEN <<e>> ELSE Append(currentGroup[w], e)
             full == Len(group) >= BatchSize
             pushed == (IF new THEN <<currentGroup[w]>> ELSE <<>>)
                       \o (IF full THEN <<group>> ELSE <<>>)
  <2>1. UNCHANGED nextSeqNum
    BY <1>1 DEF ProcessEvent, trackerVars, memory, Ack
  <2>2. e \in Registered /\ Tail(batchingQueue[w]) \in Seq(Registered)
    BY <1>1, HeadTailProperties DEF ProcessEvent, HoldsRegistered
  <2>3. batchingQueue' \in [1 .. NumWorkers -> Seq(Registered)]
    BY <1>1, <2>2 DEF ProcessEvent, HoldsRegistered
  <2>4. CASE UNCHANGED <<currentGroup, batchWriteQueue>>
    BY <1>1, <2>1, <2>3, <2>4, SameRegistered DEF ProcessEvent, HoldsRegistered
  <2>5. CASE /\ batchWriteQueue' = [batchWriteQueue EXCEPT ![w] = @ \o pushed]
             /\ currentGroup' = [currentGroup EXCEPT ![w] = IF full THEN <<>> ELSE group]
    <3>1. new => currentGroup[w] # <<>>
      BY DEF NeedNewGroup
    <3>. HIDE DEF e, new
    <3>2. group \in Groups
      <4>1. currentGroup[w] \in Seq(Registered)
        BY DEF HoldsRegistered
      <4>2. <<e>> \in Seq(Registered) /\ <<e>> # <<>>
        BY <2>2
      <4>3. Append(currentGroup[w], e) \in Seq(Registered) /\ Append(currentGroup[w], e) # <<>>
        BY <2>2, <4>1, AppendProperties
      <4>. QED BY <4>2, <4>3 DEF Groups
    <3>3. new => currentGroup[w] \in Groups
      BY <3>1 DEF HoldsRegistered, Groups
    <3>. HIDE DEF group, full
    <3>4. pushed \in Seq(Groups)
      <4>1. (IF new THEN <<currentGroup[w]>> ELSE <<>>) \in Seq(Groups)
        BY <3>3
      <4>2. (IF full THEN <<group>> ELSE <<>>) \in Seq(Groups)
        BY <3>2
      <4>. QED BY <4>1, <4>2, ConcatProperties
    <3>. HIDE DEF pushed
    <3>5. batchWriteQueue[w] \o pushed \in Seq(Groups)
      BY <3>4, ConcatProperties DEF HoldsRegistered
    <3>6. batchWriteQueue' \in [1 .. NumWorkers -> Seq(Groups)]
      BY <2>5, <3>5 DEF HoldsRegistered
    <3>7. currentGroup' \in [1 .. NumWorkers -> Seq(Registered)]
      <4>1. (IF full THEN <<>> ELSE group) \in Seq(Registered)
        BY <3>2 DEF Groups
      <4>. QED BY <2>5, <4>1 DEF HoldsRegistered
    <3>. QED
      BY <1>1, <2>1, <2>3, <3>6, <3>7, SameRegistered DEF ProcessEvent, HoldsRegistered
  <2>. QED BY <1>1, <2>4, <2>5 DEF ProcessEvent
<1>2. CASE FlushTick(w)
  <2>1. UNCHANGED nextSeqNum
    BY <1>2 DEF FlushTick, trackerVars, memory
  <2>. QED
    BY <1>2, <2>1, FlushKeeps, SameRegistered DEF FlushTick, HoldsRegistered
<1>3. CASE EventLoopExits(w)
  <2>1. UNCHANGED nextSeqNum
    BY <1>3 DEF EventLoopExits, trackerVars, memory
  <2>. QED
    BY <1>3, <2>1, FlushKeeps, SameRegistered DEF EventLoopExits, HoldsRegistered
<1>. QED BY <1>1, <1>2, <1>3 DEF EventLoopNext

(* A writer takes a group over and acknowledges its operations one by one. *)
LEMMA WriterKeeps ==
  ASSUME HoldsRegistered, NEW w \in 1 .. NumWorkers, WriterNext(w)
  PROVE  HoldsRegistered'
<1>1. CASE StartWrite(w)
  <2>1. UNCHANGED nextSeqNum
    BY <1>1 DEF StartWrite, trackerVars, memory
  <2>2. /\ Head(batchWriteQueue[w]) \in Groups
        /\ Tail(batchWriteQueue[w]) \in Seq(Groups)
    BY <1>1, HeadTailProperties DEF StartWrite, HoldsRegistered
  <2>3. batchWriteQueue' \in [1 .. NumWorkers -> Seq(Groups)]
    BY <1>1, <2>2 DEF StartWrite, HoldsRegistered
  <2>4. [phase |-> "write", group |-> Head(batchWriteQueue[w]), graceful |-> cancelled]
          \in WriterStates
    BY <2>2 DEF WriterStates, Groups, HoldsRegistered
  <2>5. writer' \in [1 .. NumWorkers -> WriterStates]
    BY <1>1, <2>4 DEF StartWrite, HoldsRegistered
  <2>6. \A x \in 1 .. NumWorkers :
          writer'[x].phase \in {"write", "ack"} => writer'[x].group # <<>>
    BY <1>1, <2>2 DEF StartWrite, HoldsRegistered, Groups
  <2>. QED
    BY <1>1, <2>1, <2>3, <2>5, <2>6, SameRegistered DEF StartWrite, HoldsRegistered
<1>2. CASE EndWrite(w)
  <2>1. UNCHANGED nextSeqNum
    BY <1>2 DEF EndWrite, trackerVars, memory
  <2>2. writer' \in [1 .. NumWorkers -> WriterStates]
    BY <1>2 DEF EndWrite, HoldsRegistered, WriterStates
  <2>3. \A x \in 1 .. NumWorkers :
          writer'[x].phase \in {"write", "ack"} => writer'[x].group # <<>>
    BY <1>2 DEF EndWrite, HoldsRegistered, WriterStates
  <2>. QED
    BY <1>2, <2>1, <2>2, <2>3, SameRegistered DEF EndWrite, HoldsRegistered
<1>3. CASE AckOperation(w)
  <2> DEFINE rest == Tail(writer[w].group)
             next == IF rest = <<>> THEN WriterIdle ELSE [writer[w] EXCEPT !.group = rest]
  <2>1. UNCHANGED nextSeqNum
    BY <1>3 DEF AckOperation, Ack
  <2>2. writer[w] \in WriterStates /\ writer[w].group \in Seq(Registered) /\ writer[w].group # <<>>
    BY <1>3 DEF AckOperation, HoldsRegistered, WriterStates
  <2>3. rest \in Seq(Registered)
    BY <2>2, HeadTailProperties
  <2>4. writer' = [writer EXCEPT ![w] = next]
    BY <1>3 DEF AckOperation
  <2>. HIDE DEF rest
  <2>5. next \in WriterStates /\ (next.phase \in {"write", "ack"} => next.group # <<>>)
    BY <2>2, <2>3 DEF WriterStates, WriterIdle
  <2>. HIDE DEF next
  <2>6. writer' \in [1 .. NumWorkers -> WriterStates]
    BY <2>4, <2>5 DEF HoldsRegistered
  <2>7. \A x \in 1 .. NumWorkers :
          writer'[x].phase \in {"write", "ack"} => writer'[x].group # <<>>
    BY <2>4, <2>5 DEF HoldsRegistered
  <2>. QED
    BY <1>3, <2>1, <2>6, <2>7, SameRegistered DEF AckOperation, HoldsRegistered
<1>4. CASE WriterExits(w)
  <2>1. UNCHANGED nextSeqNum
    BY <1>4 DEF WriterExits, trackerVars, memory
  <2>2. writer' \in [1 .. NumWorkers -> WriterStates]
    BY <1>4 DEF WriterExits, HoldsRegistered, WriterStates
  <2>3. \A x \in 1 .. NumWorkers :
          writer'[x].phase \in {"write", "ack"} => writer'[x].group # <<>>
    BY <1>4 DEF WriterExits, HoldsRegistered, WriterStates
  <2>. QED
    BY <1>4, <2>1, <2>2, <2>3, SameRegistered DEF WriterExits, HoldsRegistered
<1>. QED BY <1>1, <1>2, <1>3, <1>4 DEF WriterNext

(* Each step keeps what is held registered: a restart drops it all. *)
LEMMA PipelineKeeps ==
  ASSUME HoldsRegistered, [Next]_vars
  PROVE  HoldsRegistered'
<1>1. CASE MainNext \/ TrackerTicks \/ Cancel \/ UNCHANGED vars
  <2>1. /\ UNCHANGED <<nextSeqNum, reader, ingestQueue, router, routed, batchingQueue,
                       currentGroup, batchWriteQueue, writer>>
        /\ cancelled' \in BOOLEAN
    BY <1>1
       DEF MainNext, Shutdown, CloseTracker, Close, TrackerTicks, Cancel, vars, trackerVars,
           memory, stages, Tick, HoldsRegistered
  <2>. QED BY <2>1, SameRegistered DEF HoldsRegistered
<1>2. CASE Restart
  <2>1. nextSeqNum' \in [Streams -> Nat]
    BY <1>2 DEF Restart, RestartTracker, NothingGiven
  <2>2. /\ writer' \in [1 .. NumWorkers -> WriterStates']
        /\ \A w \in 1 .. NumWorkers : writer'[w].phase = "receive"
    <3>1. \A R : <<>> \in Seq(R)
      OBVIOUS
    <3>2. WriterIdle \in WriterStates'
      BY <3>1 DEF WriterStates, WriterIdle
    <3>. QED BY <1>2, <3>2, IdleWriters DEF Restart, Workers
  <2>3. \A R : <<>> \in Seq(R)
    OBVIOUS
  <2>. QED
    BY <1>2, <2>1, <2>2, <2>3 DEF Restart, HoldsRegistered, Workers
<1>. QED
  BY <1>1, <1>2, ReaderKeeps, RouterKeeps, EventLoopKeeps, WriterKeeps
     DEF Next, Workers

-----------------------------------------------------------------------------
(* A step of the pipeline is one operation of the tracker on a registered event,
   or leaves the tracker alone. *)
LEMMA TrackerOperation ==
  ASSUME HoldsRegistered, [Next]_vars
  PROVE  [TrackerNext]_trackerVars
<1>1. ASSUME NEW e \in Registered, Ack(e.stream, e.seq)
      PROVE  TrackerNext
  BY <1>1 DEF Registered, TrackerNext, AckAny
<1>2. ASSUME NEW s \in Streams, ReaderNext(s) \/ StreamFails(s)
      PROVE  [TrackerNext]_trackerVars
  <2>1. CASE Read(s)
    BY <2>1 DEF Read, TrackerNext
  <2>2. CASE ReaderQuits(s) /\ reader[s] = "push"
    <3>1. Ack(s, Held(s).seq)
      BY <2>2 DEF ReaderQuits
    <3>. QED BY <2>2, <3>1, <1>1, HeldRegistered
  <2>3. CASE ReaderQuits(s) /\ reader[s] # "push"
    BY <2>3 DEF ReaderQuits, trackerVars, memory
  <2>4. CASE Push(s) \/ StreamFails(s)
    BY <2>4 DEF Push, StreamFails, trackerVars, memory
  <2>. QED BY <1>2, <2>1, <2>2, <2>3, <2>4 DEF ReaderNext
<1>3. CASE RouterNext
  <2>1. CASE RouterReceives
    <3>1. Head(ingestQueue) \in Registered
      BY <2>1, HeadTailProperties DEF RouterReceives, HoldsRegistered
    <3>2. \/ Ack(Head(ingestQueue).stream, Head(ingestQueue).seq)
          \/ UNCHANGED trackerVars
      BY <2>1 DEF RouterReceives, trackerVars, memory
    <3>. QED BY <3>1, <3>2, <1>1
  <2>2. CASE RouterQuits
    <3>1. router = "push" => routed[1] \in Registered
      BY ElementOfSeq, EmptySeq DEF HoldsRegistered
    <3>2. \/ router = "push" /\ Ack(routed[1].stream, routed[1].seq)
          \/ UNCHANGED trackerVars
      BY <2>2 DEF RouterQuits, trackerVars, memory
    <3>. QED BY <3>1, <3>2, <1>1
  <2>3. CASE RouterPushes \/ RouterDone
    BY <2>3 DEF RouterPushes, RouterDone, trackerVars, memory
  <2>. QED BY <1>3, <2>1, <2>2, <2>3 DEF RouterNext
<1>4. ASSUME NEW w \in 1 .. NumWorkers, EventLoopNext(w)
      PROVE  [TrackerNext]_trackerVars
  <2>1. CASE ProcessEvent(w)
    <3>1. Head(batchingQueue[w]) \in Registered
      BY <2>1, HeadTailProperties DEF ProcessEvent, HoldsRegistered
    <3>2. \/ Ack(Head(batchingQueue[w]).stream, Head(batchingQueue[w]).seq)
          \/ UNCHANGED trackerVars
      BY <2>1 DEF ProcessEvent, trackerVars, memory
    <3>. QED BY <3>1, <3>2, <1>1
  <2>2. CASE FlushTick(w) \/ EventLoopExits(w)
    BY <2>2 DEF FlushTick, EventLoopExits, trackerVars, memory
  <2>. QED BY <1>4, <2>1, <2>2 DEF EventLoopNext
<1>5. ASSUME NEW w \in 1 .. NumWorkers, WriterNext(w)
      PROVE  [TrackerNext]_trackerVars
  <2>1. CASE AckOperation(w)
    <3>1. writer[w].group \in Seq(Registered) /\ writer[w].group # <<>>
      BY <2>1 DEF AckOperation, HoldsRegistered, WriterStates
    <3>2. Head(writer[w].group) \in Registered
      BY <3>1, HeadTailProperties
    <3>3. Ack(Head(writer[w].group).stream, Head(writer[w].group).seq)
      BY <2>1 DEF AckOperation
    <3>. QED BY <3>2, <3>3, <1>1
  <2>2. CASE StartWrite(w) \/ EndWrite(w) \/ WriterExits(w)
    BY <2>2 DEF StartWrite, EndWrite, WriterExits, trackerVars, memory
  <2>. QED BY <1>5, <2>1, <2>2 DEF WriterNext
<1>6. CASE \/ MainNext \/ TrackerTicks \/ Cancel
           \/ Restart \/ UNCHANGED vars
  BY <1>6
     DEF MainNext, Shutdown, CloseTracker, Close, TrackerTicks, Cancel, Restart, vars,
         trackerVars, memory, TrackerNext
<1>. QED BY <1>2, <1>3, <1>4, <1>5, <1>6 DEF Next, Workers

(* Each behaviour of the pipeline is one of the tracker. *)
LEMMA PipelineIsTracker == Spec => TrackerSpec /\ []HoldsRegistered
<1>1. Init => TrackerInit
  BY DEF Init
<1>. QED
  BY <1>1, InitialHolds, PipelineKeeps, TrackerOperation, PTL DEF Spec, TrackerSpec

(* The pipeline uses the tracker as PartitionTracker allows: whatever is cancelled
   or blocked, an event is acknowledged only after this run registered it. *)
THEOREM PipelineUsesTracker == Spec => UsesTracker
<1>. QED BY PipelineIsTracker, PTL DEF UsesTracker

-----------------------------------------------------------------------------
(* The positions of stream s whose outcome is decided. *)
Decided(s) == settled[s] \cup abandoned[s]

(* What AckedHasOutcome rests on: when a writer has come to its deferred
   acknowledgements each operation left in its group has an outcome. *)
WritersDecided ==
  \A w \in 1 .. NumWorkers : writer[w].phase = "ack" =>
    \A i \in 1 .. Len(writer[w].group) :
      Position(writer[w].group[i]) \in Decided(writer[w].group[i].stream)

Outcomes == AckedHasOutcome /\ WritersDecided

(* Settle and Abandon decide their events and forget nothing. *)
LEMMA Grow ==
  ASSUME NEW S, NEW A, Settle(S), Abandon(A)
  PROVE  /\ \A s \in Streams : Decided(s) \subseteq Decided(s)'
         /\ \A e \in S \cup A : e.stream \in Streams =>
              Position(e) \in Decided(e.stream)'
BY DEF Settle, Abandon, Decided

LEMMA GrowSettled ==
  ASSUME NEW S, Settle(S), UNCHANGED abandoned
  PROVE  /\ \A s \in Streams : Decided(s) \subseteq Decided(s)'
         /\ \A e \in S : e.stream \in Streams =>
              Position(e) \in Decided(e.stream)'
BY DEF Settle, Decided

LEMMA GrowAbandoned ==
  ASSUME NEW A, Abandon(A), UNCHANGED settled
  PROVE  /\ \A s \in Streams : Decided(s) \subseteq Decided(s)'
         /\ \A e \in A : e.stream \in Streams =>
              Position(e) \in Decided(e.stream)'
BY DEF Abandon, Decided

(* Acknowledging a decided event. *)
LEMMA AckDecided ==
  ASSUME TrackerTypeOK, AckedHasOutcome, NEW e \in Registered, Ack(e.stream, e.seq),
         \A s \in Streams : Decided(s) \subseteq Decided(s)',
         Position(e) \in Decided(e.stream)'
  PROVE  AckedHasOutcome'
<1>1. /\ acknowledged' = [acknowledged EXCEPT ![e.stream] = @ \cup {resumedAt[e.stream] + e.seq}]
      /\ acknowledged \in [Streams -> SUBSET Nat]
  BY DEF Ack, TrackerTypeOK
<1>2. e.stream \in Streams
  BY DEF Registered
<1>. QED BY <1>1, <1>2 DEF AckedHasOutcome, Decided, Position

(* Nothing is acknowledged. *)
LEMMA NoAckDecided ==
  ASSUME AckedHasOutcome, UNCHANGED acknowledged,
         \A s \in Streams : Decided(s) \subseteq Decided(s)'
  PROVE  AckedHasOutcome'
BY DEF AckedHasOutcome, Decided

(* The writers go on, and positions mean what they did. *)
LEMMA WritersStay ==
  ASSUME HoldsRegistered, WritersDecided, UNCHANGED <<writer, resumedAt>>,
         \A s \in Streams : Decided(s) \subseteq Decided(s)'
  PROVE  WritersDecided'
<1> SUFFICES ASSUME NEW w \in 1 .. NumWorkers, writer[w].phase = "ack",
                    NEW i \in 1 .. Len(writer[w].group)
             PROVE  (Position(writer[w].group[i])
                       \in Decided(writer[w].group[i].stream))'
  BY DEF WritersDecided
<1>1. writer[w].group[i] \in Registered
  BY ElementOfSeq DEF HoldsRegistered, WriterStates
<1>2. Position(writer[w].group[i]) \in Decided(writer[w].group[i].stream)
  BY DEF WritersDecided
<1>3. writer[w].group[i].stream \in Streams
  BY <1>1 DEF Registered
<1>. QED BY <1>2, <1>3 DEF Position

(* Each step that acknowledges an event decides it, in the same step or, for the
   operations of a group, when the write ended. *)
LEMMA OutcomesKept ==
  ASSUME TrackerTypeOK, HoldsRegistered, Outcomes, [Next]_vars
  PROVE  Outcomes'
<1>0. AckedHasOutcome /\ WritersDecided
  BY DEF Outcomes
<1>1. ASSUME UNCHANGED <<acknowledged, settled, abandoned, resumedAt, writer>>
      PROVE  Outcomes'
  <2>1. \A s \in Streams : Decided(s) \subseteq Decided(s)'
    BY <1>1 DEF Decided
  <2>. QED BY <1>0, <1>1, <2>1, NoAckDecided, WritersStay DEF Outcomes
<1>2. ASSUME NEW e \in Registered, Ack(e.stream, e.seq), UNCHANGED writer,
             \/ Settle({e}) /\ UNCHANGED abandoned
             \/ Abandon({e}) /\ UNCHANGED settled
      PROVE  Outcomes'
  <2>1. /\ \A s \in Streams : Decided(s) \subseteq Decided(s)'
        /\ Position(e) \in Decided(e.stream)'
    BY <1>2, GrowSettled, GrowAbandoned DEF Registered
  <2>2. UNCHANGED resumedAt
    BY <1>2 DEF Ack
  <2>. QED BY <1>0, <1>2, <2>1, <2>2, AckDecided, WritersStay DEF Outcomes
<1>3. ASSUME NEW s \in Streams, ReaderNext(s) \/ StreamFails(s)
      PROVE  Outcomes'
  <2>1. CASE ReaderQuits(s) /\ reader[s] = "push"
    <3>1. /\ Ack(s, Held(s).seq)
          /\ Abandon({Held(s)})
          /\ UNCHANGED <<writer, settled>>
      BY <2>1 DEF ReaderQuits
    <3>. QED BY <2>1, <3>1, <1>2, HeldRegistered
  <2>2. CASE ReaderQuits(s) /\ reader[s] # "push"
    BY <2>2, <1>1 DEF ReaderQuits, trackerVars, memory
  <2>3. CASE Read(s)
    BY <2>3, <1>1 DEF Read, Register, history
  <2>4. CASE Push(s) \/ StreamFails(s)
    BY <2>4, <1>1 DEF Push, StreamFails, trackerVars, memory, history
  <2>. QED BY <1>3, <2>1, <2>2, <2>3, <2>4 DEF ReaderNext
<1>4. CASE RouterNext
  <2>1. CASE RouterReceives
    <3> DEFINE e == Head(ingestQueue)
    <3>1. e \in Registered
      BY <2>1, HeadTailProperties DEF RouterReceives, HoldsRegistered
    <3>2. \/ Ack(e.stream, e.seq) /\ Settle({e})
          \/ UNCHANGED <<trackerVars, settled>>
      BY <2>1 DEF RouterReceives
    <3>3. UNCHANGED <<writer, abandoned>>
      BY <2>1 DEF RouterReceives
    <3>. HIDE DEF e
    <3>. QED BY <3>1, <3>2, <3>3, <1>1, <1>2 DEF trackerVars, memory
  <2>2. CASE RouterQuits
    <3>1. router = "push" => routed[1] \in Registered
      BY ElementOfSeq, EmptySeq DEF HoldsRegistered
    <3>2. \/ /\ router = "push"
             /\ Ack(routed[1].stream, routed[1].seq)
             /\ Abandon({routed[1]})
          \/ UNCHANGED <<trackerVars, abandoned>>
      BY <2>2 DEF RouterQuits
    <3>3. UNCHANGED <<writer, settled>>
      BY <2>2 DEF RouterQuits
    <3>. QED BY <3>1, <3>2, <3>3, <1>1, <1>2 DEF trackerVars, memory
  <2>3. CASE RouterPushes \/ RouterDone
    BY <2>3, <1>1 DEF RouterPushes, RouterDone, trackerVars, memory, history
  <2>. QED BY <1>4, <2>1, <2>2, <2>3 DEF RouterNext
<1>5. ASSUME NEW w \in 1 .. NumWorkers, EventLoopNext(w)
      PROVE  Outcomes'
  <2>1. CASE ProcessEvent(w)
    <3> DEFINE e == Head(batchingQueue[w])
    <3>1. e \in Registered
      BY <2>1, HeadTailProperties DEF ProcessEvent, HoldsRegistered
    <3>2. \/ Ack(e.stream, e.seq) /\ Settle({e})
          \/ UNCHANGED <<trackerVars, settled>>
      BY <2>1 DEF ProcessEvent
    <3>3. UNCHANGED <<writer, abandoned>>
      BY <2>1 DEF ProcessEvent
    <3>. HIDE DEF e
    <3>. QED BY <3>1, <3>2, <3>3, <1>1, <1>2 DEF trackerVars, memory
  <2>2. CASE FlushTick(w) \/ EventLoopExits(w)
    BY <2>2, <1>1 DEF FlushTick, EventLoopExits, trackerVars, memory, history
  <2>. QED BY <1>5, <2>1, <2>2 DEF EventLoopNext
<1>6. ASSUME NEW w \in 1 .. NumWorkers, WriterNext(w)
      PROVE  Outcomes'
  <2>1. CASE StartWrite(w) \/ WriterExits(w)
    <3>1. UNCHANGED <<acknowledged, settled, abandoned, resumedAt>>
      BY <2>1 DEF StartWrite, WriterExits, trackerVars, memory, history
    <3>2. \A s \in Streams : Decided(s)' = Decided(s)
      BY <3>1 DEF Decided
    <3>3. AckedHasOutcome'
      BY <1>0, <3>1, <3>2, NoAckDecided
    <3>4. \A x \in 1 .. NumWorkers : writer'[x].phase = "ack" => writer'[x] = writer[x]
      <4>1. \A x \in 1 .. NumWorkers : x # w => writer'[x] = writer[x]
        BY <2>1 DEF StartWrite, WriterExits, HoldsRegistered
      <4>2. writer'[w].phase \in {"write", "exited"}
        <5>1. writer[w] \in WriterStates
          BY DEF HoldsRegistered
        <5>2. CASE StartWrite(w)
          BY <5>2 DEF StartWrite, HoldsRegistered
        <5>3. CASE WriterExits(w)
          BY <5>1, <5>3 DEF WriterExits, HoldsRegistered, WriterStates
        <5>. QED BY <2>1, <5>2, <5>3
      <4>. QED BY <4>1, <4>2
    <3>5. WritersDecided'
      BY <1>0, <3>1, <3>4 DEF WritersDecided, Position, Decided
    <3>. QED BY <3>3, <3>5 DEF Outcomes
  <2>2. CASE EndWrite(w)
    <3> DEFINE ops == Elements(writer[w].group)
    <3>1. PICK done \in SUBSET ops : Settle(done) /\ Abandon(ops \ done)
      BY <2>2 DEF EndWrite
    <3>2. UNCHANGED <<acknowledged, resumedAt>>
      BY <2>2 DEF EndWrite, trackerVars, memory
    <3>3. \A s \in Streams : Decided(s) \subseteq Decided(s)'
      BY <3>1, Grow
    <3>4. \A e \in ops : e.stream \in Streams => Position(e) \in Decided(e.stream)'
      BY <3>1, Grow
    <3>5. AckedHasOutcome'
      BY <1>0, <3>2, <3>3, NoAckDecided
    <3>6. ASSUME NEW x \in 1 .. NumWorkers, writer'[x].phase = "ack",
                 NEW i \in 1 .. Len(writer'[x].group)
          PROVE  (Position(writer[x].group[i])
                    \in Decided(writer[x].group[i].stream))'
      <4>1. writer'[x].group = writer[x].group
        BY <2>2 DEF EndWrite, HoldsRegistered, WriterStates
      <4>2. writer[x].group \in Seq(Registered)
        BY DEF HoldsRegistered, WriterStates
      <4>3. writer[x].group[i] \in Registered
        BY <3>6, <4>1, <4>2, ElementOfSeq
      <4>4. writer[x].group[i].stream \in Streams
        BY <4>3 DEF Registered
      <4>5. CASE x = w
        <5>1. writer[w].group[i] \in ops
          BY <3>6, <4>1, <4>2, <4>5, LenProperties DEF Elements
        <5>. QED BY <4>1, <4>4, <4>5, <5>1, <3>2, <3>4 DEF Position
      <4>6. CASE x # w
        <5>1. writer[x].phase = "ack"
          BY <2>2, <3>6, <4>6 DEF EndWrite, HoldsRegistered
        <5>2. Position(writer[x].group[i]) \in Decided(writer[x].group[i].stream)
          BY <1>0, <3>6, <4>1, <5>1 DEF WritersDecided
        <5>. QED BY <4>1, <4>4, <5>2, <3>2, <3>3 DEF Position
      <4>. QED BY <4>5, <4>6
    <3>7. WritersDecided'
      BY <3>6 DEF WritersDecided
    <3>. QED BY <3>5, <3>7 DEF Outcomes
  <2>3. CASE AckOperation(w)
    <3> DEFINE g == writer[w].group
               e == Head(g)
    <3>1. g \in Seq(Registered) /\ g # <<>> /\ writer[w].phase = "ack"
      BY <2>3 DEF AckOperation, HoldsRegistered, WriterStates
    <3>2. /\ e \in Registered
          /\ Tail(g) \in Seq(Registered)
          /\ Len(Tail(g)) = Len(g) - 1
          /\ \A i \in 1 .. Len(Tail(g)) : Tail(g)[i] = g[i + 1]
          /\ Len(g) \in Nat \ {0}
      BY <3>1, HeadTailProperties, EmptySeq
    <3>3. /\ Ack(e.stream, e.seq)
          /\ UNCHANGED <<settled, abandoned, resumedAt>>
      BY <2>3 DEF AckOperation, history, Ack
    <3>4. \A s \in Streams : Decided(s)' = Decided(s)
      BY <3>3 DEF Decided
    <3>5. Position(e) \in Decided(e.stream)
      <4>1. e = g[1] /\ 1 \in 1 .. Len(g)
        BY <3>1, <3>2
      <4>. HIDE DEF e
      <4>. QED BY <1>0, <3>1, <4>1 DEF WritersDecided
    <3>6. AckedHasOutcome'
      <4>1. e.stream \in Streams
        BY <3>2 DEF Registered
      <4>. QED BY <1>0, <3>2, <3>3, <3>4, <3>5, <4>1, AckDecided
    <3>7. ASSUME NEW x \in 1 .. NumWorkers, writer'[x].phase = "ack",
                 NEW i \in 1 .. Len(writer'[x].group)
          PROVE  \E j \in 1 .. Len(writer[x].group) :
                   /\ writer[x].phase = "ack"
                   /\ writer'[x].group[i] = writer[x].group[j]
      <4>1. CASE x # w
        BY <2>3, <3>7, <4>1 DEF AckOperation, HoldsRegistered
      <4>2. CASE x = w
        <5>1. writer'[w] = IF Tail(g) = <<>> THEN WriterIdle
                                             ELSE [writer[w] EXCEPT !.group = Tail(g)]
          BY <2>3 DEF AckOperation, HoldsRegistered
        <5>2. Tail(g) # <<>>
          BY <3>7, <4>2, <5>1 DEF WriterIdle
        <5>3. writer[w] \in WriterStates
          BY DEF HoldsRegistered
        <5>4. writer'[w].group = Tail(g)
          BY <5>1, <5>2, <5>3 DEF WriterStates
        <5>. HIDE DEF g, e
        <5>5. i \in 1 .. Len(Tail(g)) /\ i + 1 \in 1 .. Len(g)
          BY <3>2, <3>7, <4>2, <5>4
        <5>6. writer'[w].group[i] = g[i + 1]
          BY <3>2, <5>4, <5>5
        <5>. QED BY <3>1, <4>2, <5>5, <5>6 DEF g
      <4>. QED BY <4>1, <4>2
    <3>8. WritersDecided'
      <4> SUFFICES ASSUME NEW x \in 1 .. NumWorkers, writer'[x].phase = "ack",
                          NEW i \in 1 .. Len(writer'[x].group)
                   PROVE  (Position(writer[x].group[i])
                             \in Decided(writer[x].group[i].stream))'
        BY DEF WritersDecided
      <4>1. PICK j \in 1 .. Len(writer[x].group) :
              writer[x].phase = "ack" /\ writer'[x].group[i] = writer[x].group[j]
        BY <3>7
      <4>2. Position(writer[x].group[j]) \in Decided(writer[x].group[j].stream)
        BY <1>0, <4>1 DEF WritersDecided
      <4>. QED BY <3>3, <4>1, <4>2 DEF Position, Decided
    <3>. QED BY <3>6, <3>8 DEF Outcomes
  <2>. QED BY <1>6, <2>1, <2>2, <2>3 DEF WriterNext
<1>7. CASE \/ MainNext \/ TrackerTicks \/ Cancel
           \/ UNCHANGED vars
  <2>1. UNCHANGED <<acknowledged, settled, abandoned, resumedAt, writer>>
    BY <1>7
       DEF MainNext, Shutdown, CloseTracker, Close, TrackerTicks, Cancel, vars, trackerVars,
           memory, stages, history, Tick
  <2>. QED BY <1>1, <2>1
<1>8. CASE Restart
  <2>1. UNCHANGED <<acknowledged, settled, abandoned>>
    BY <1>8 DEF Restart, RestartTracker
  <2>2. WritersDecided'
    BY <1>8, IdleWriters DEF Restart, Workers, WritersDecided
  <2>. QED BY <1>0, <2>1, <2>2 DEF Outcomes, AckedHasOutcome
<1>. QED
  BY <1>3, <1>4, <1>5, <1>6, <1>7, <1>8 DEF Next, Workers

(* No event is acknowledged before its outcome is decided: written, recorded in
   the DLQ, skipped by rule, or given up because of a cancellation. *)
THEOREM AckedIsDecided == Spec => []AckedHasOutcome
<1>1. Init => Outcomes
  <2> SUFFICES ASSUME Init PROVE Outcomes
    OBVIOUS
  <2>1. AckedHasOutcome
    BY DEF Init, TrackerInit, AckedHasOutcome, NoneOf
  <2>2. WritersDecided
    BY IdleWriters DEF Init, FreshStages, Workers, WritersDecided
  <2>. QED BY <2>1, <2>2 DEF Outcomes
<1>2. Outcomes => AckedHasOutcome
  BY DEF Outcomes
<1>. QED
  BY <1>1, <1>2, OutcomesKept, PipelineIsTracker, Inductive, PTL DEF Spec

(* No token on disk lies beyond an event without an outcome: each event that the
   next run is not sent again was written, recorded in the DLQ, skipped by rule,
   or given up by a cancellation. *)
THEOREM TokenCoversOutcomes ==
  Spec =>
    [](\A s \in Streams : 1 .. checkpoint[s] \subseteq settled[s] \cup abandoned[s])
<1>1. NoUnackedBelowCheckpoint /\ AckedHasOutcome =>
        \A s \in Streams : 1 .. checkpoint[s] \subseteq settled[s] \cup abandoned[s]
  BY DEF NoUnackedBelowCheckpoint, AckedHasOutcome
<1>. QED BY <1>1, PipelineIsTracker, CheckpointIsSafe, AckedIsDecided, PTL

-----------------------------------------------------------------------------
(* Sequence numbers stay within the stream, also for a run that resumes from a
   token. *)
WithinStream ==
  \A s \in Streams : resumedAt[s] + SeqToGive(s) - 1 <= MaxPosition

(* This holds of the tracker by itself. *)
LEMMA WithinStreamAlways == TrackerSpec => []WithinStream
<1>1. TrackerInit => WithinStream
  BY TrackerAssumption DEF TrackerInit, WithinStream, SeqToGive, NothingGiven
<1>2. TrackerTypeOK /\ TrackerInv /\ WithinStream /\ [TrackerNext]_trackerVars => WithinStream'
  <2> SUFFICES ASSUME TrackerTypeOK, TrackerInv, WithinStream, [TrackerNext]_trackerVars,
                      NEW s \in Streams
               PROVE  (resumedAt[s] + SeqToGive(s) - 1 <= MaxPosition)'
    BY DEF WithinStream
  <2>1. CASE UNCHANGED <<nextSeqNum, resumedAt>>
    BY <2>1 DEF WithinStream, SeqToGive
  <2>2. ASSUME NEW t \in Streams, Register(t)
        PROVE  (resumedAt[s] + SeqToGive(s) - 1 <= MaxPosition)'
    <3>1. UNCHANGED resumedAt /\ resumedAt[s] \in Nat /\ SeqToGive(t) \in Nat
      BY <2>2 DEF Register, TrackerTypeOK, SeqToGive
    <3>2. CASE s # t
      BY <2>2, <3>1, <3>2 DEF Register, SeqToGive, WithinStream, TrackerTypeOK
    <3>3. CASE s = t
      <4>1. resumedAt[t] + SeqToGive(t) <= MaxPosition
        BY <2>2 DEF Register
      <4>2. SeqToGive(t)' = SeqToGive(t) + 1
        BY <2>2, <3>1 DEF Register, SeqToGive, TrackerTypeOK
      <4>. QED BY <3>1, <3>3, <4>1, <4>2
    <3>. QED BY <3>2, <3>3
  <2>3. CASE RestartTracker
    <3>1. SeqToGive(s)' = 1 /\ resumedAt'[s] = checkpoint[s]
      BY <2>3 DEF RestartTracker, SeqToGive, NothingGiven
    <3>2. /\ checkpoint[s] <= resumedAt[s] + lastCheckpointSeq[s]
          /\ lastCheckpointSeq[s] < SeqToGive(s)
          /\ resumedAt[s] + SeqToGive(s) - 1 <= MaxPosition
      BY DEF TrackerInv, FileLagsMemory, PendingIsWindow, WithinStream
    <3>3. /\ {checkpoint[s], resumedAt[s], lastCheckpointSeq[s], SeqToGive(s)} \subseteq Nat
          /\ MaxPosition \in Nat
      BY TrackerAssumption DEF TrackerTypeOK, SeqToGive
    <3>. QED BY <3>1, <3>2, <3>3
  <2>. QED
    BY <2>1, <2>2, <2>3 DEF TrackerNext, AckAny, Ack, Tick, trackerVars, memory
<1>. QED BY <1>1, <1>2, Inductive, PTL DEF TrackerSpec

NoDrops == \A s \in Streams : \A p \in 1 .. MaxPosition : Source[s][p].opType # "drop"

(* Without a signal, a failing stream or a drop event the pipeline never stops,
   and gives nothing up. *)
Undisturbed ==
  /\ cancelled = FALSE
  /\ router # "returned"
  /\ main = 0
  /\ \A s \in Streams : reader[s] # "done"
  /\ \A s \in Streams : abandoned[s] = {}

(* And this is why: only a cancellation or a drop event stops the router, and
   only then is main under way or anything abandoned. *)
LEMMA StaysUndisturbed ==
  ASSUME Streams # {}, NoDrops, ~ CanCancel,
         HoldsRegistered, WithinStream, TrackerTypeOK, Undisturbed,
         [Next]_vars
  PROVE  Undisturbed'
<1>1. ASSUME NEW s \in Streams, ReaderNext(s) \/ StreamFails(s)
      PROVE  Undisturbed'
  BY <1>1 DEF ReaderNext, Read, Push, ReaderQuits, StreamFails, history, Undisturbed, HoldsRegistered
<1>2. CASE RouterNext
  <2>1. CASE RouterReceives
    <3> DEFINE e == Head(ingestQueue)
    <3>1. e \in Registered
      BY <2>1, HeadTailProperties DEF RouterReceives, HoldsRegistered
    <3>2. e.stream \in Streams /\ Position(e) \in 1 .. MaxPosition
      <4>1. /\ e.stream \in Streams
            /\ e.seq \in Nat
            /\ 1 <= e.seq /\ e.seq <= SeqToGive(e.stream) - 1
        BY <3>1 DEF Registered, Given
      <4>. HIDE DEF e
      <4>2. /\ resumedAt[e.stream] \in Nat
            /\ SeqToGive(e.stream) \in Nat
            /\ MaxPosition \in Nat
        BY <4>1, TrackerAssumption DEF TrackerTypeOK, SeqToGive
      <4>3. resumedAt[e.stream] + SeqToGive(e.stream) - 1 <= MaxPosition
        BY <4>1 DEF WithinStream
      <4>. QED BY <4>1, <4>2, <4>3 DEF Position
    <3>3. Change(e).opType # "drop"
      BY <3>2 DEF NoDrops, Change
    <3>4. router' # "returned"
      BY <2>1, <3>3 DEF RouterReceives, Undisturbed
    <3>. QED BY <2>1, <3>4 DEF RouterReceives, Undisturbed
  <2>2. CASE RouterPushes
    BY <2>2 DEF RouterPushes, history, Undisturbed
  <2>3. CASE RouterQuits \/ RouterDone
    BY <2>3 DEF RouterQuits, RouterDone, Undisturbed
  <2>. QED BY <1>2, <2>1, <2>2, <2>3 DEF RouterNext
<1>3. ASSUME NEW w \in 1 .. NumWorkers, EventLoopNext(w)
      PROVE  Undisturbed'
  BY <1>3 DEF EventLoopNext, ProcessEvent, FlushTick, EventLoopExits, history, Undisturbed
<1>4. ASSUME NEW w \in 1 .. NumWorkers, WriterNext(w)
      PROVE  Undisturbed'
  <2>1. CASE EndWrite(w)
    <3>1. Abandon({})
      BY <2>1 DEF EndWrite, Undisturbed
    <3>. QED BY <2>1, <3>1 DEF EndWrite, Abandon, Undisturbed
  <2>2. CASE StartWrite(w) \/ AckOperation(w) \/ WriterExits(w)
    BY <2>2 DEF StartWrite, AckOperation, WriterExits, history, Undisturbed
  <2>. QED BY <1>4, <2>1, <2>2 DEF WriterNext
<1>5. CASE MainNext \/ Cancel
  BY <1>5, WorkersAreCounted
     DEF MainNext, Shutdown, CloseTracker, Close, Cancel, Workers, Undisturbed
<1>6. CASE TrackerTicks \/ UNCHANGED vars
  BY <1>6 DEF TrackerTicks, vars, stages, history, Undisturbed
<1>7. CASE Restart
  BY <1>7 DEF Restart, Undisturbed
<1>. QED
  BY <1>1, <1>2, <1>3, <1>4, <1>5, <1>6, <1>7 DEF Next, Workers

(* Without cancellations and drop events nothing below a token on disk is lost,
   over any number of crashes and token files that fail to be written. *)
THEOREM NothingLost ==
  ASSUME Streams # {}, NoDrops, ~ CanCancel
  PROVE  Spec => []NoLossBelowCheckpoint
<1>1. Init => Undisturbed
  BY DEF Init, FreshStages, Undisturbed
<1>2. /\ HoldsRegistered /\ WithinStream /\ TrackerTypeOK /\ Undisturbed
      /\ [Next]_vars
      => Undisturbed'
  BY StaysUndisturbed
<1>3. /\ Undisturbed
      /\ \A s \in Streams : 1 .. checkpoint[s] \subseteq settled[s] \cup abandoned[s]
      => NoLossBelowCheckpoint
  BY DEF Undisturbed, NoLossBelowCheckpoint
<1>. QED
  BY <1>1, <1>2, <1>3, PipelineIsTracker, WithinStreamAlways, Inductive,
     TokenCoversOutcomes, PTL DEF Spec

-----------------------------------------------------------------------------
(* What the staged shutdown leaves behind.  A worker that Shutdown has waited
   for has ended both goroutines; an event loop hands over its group before it
   ends, and a writer ends only after it, with the queue between them empty. *)
Drained ==
  /\ main \in Nat
  /\ \A w \in 1 .. NumWorkers :
       /\ main > w => eventLoop[w] = "exited" /\ writer[w].phase = "exited"
       /\ eventLoop[w] = "exited" => currentGroup[w] = <<>>
       /\ writer[w].phase = "exited" => eventLoop[w] = "exited" /\ batchWriteQueue[w] = <<>>
       /\ writer[w].phase \in {"receive", "exited"} => writer[w].group = <<>>
  /\ eventLoop \in [1 .. NumWorkers -> {"running", "exited"}]

(* Each step keeps this; a group can only be pushed by an event loop that runs. *)
LEMMA DrainedKept ==
  ASSUME HoldsRegistered, Drained, [Next]_vars
  PROVE  Drained'
<1>0. /\ \A w \in 1 .. NumWorkers : writer[w] \in WriterStates
      /\ DOMAIN writer = 1 .. NumWorkers
      /\ DOMAIN currentGroup = 1 .. NumWorkers
      /\ DOMAIN batchWriteQueue = 1 .. NumWorkers
  BY DEF HoldsRegistered
<1>1. CASE UNCHANGED <<main, eventLoop, currentGroup, batchWriteQueue, writer>>
  BY <1>1 DEF Drained
<1>2. ASSUME NEW w \in 1 .. NumWorkers, ProcessEvent(w)
      PROVE  Drained'
  <2>1. /\ eventLoop[w] = "running"
        /\ UNCHANGED <<main, eventLoop, writer>>
        /\ \A x \in 1 .. NumWorkers : x # w => /\ currentGroup'[x] = currentGroup[x]
                                              /\ batchWriteQueue'[x] = batchWriteQueue[x]
    BY <1>0, <1>2 DEF ProcessEvent
  <2>. QED BY <2>1 DEF Drained
<1>3. ASSUME NEW w \in 1 .. NumWorkers, FlushTick(w) \/ EventLoopExits(w)
      PROVE  Drained'
  <2>1. /\ eventLoop[w] = "running"
        /\ UNCHANGED <<main, writer>>
        /\ currentGroup'[w] = <<>>
        /\ \A x \in 1 .. NumWorkers : x # w => /\ currentGroup'[x] = currentGroup[x]
                                              /\ batchWriteQueue'[x] = batchWriteQueue[x]
                                              /\ eventLoop'[x] = eventLoop[x]
        /\ eventLoop' \in [1 .. NumWorkers -> {"running", "exited"}]
    BY <1>0, <1>3
       DEF FlushTick, EventLoopExits, flushCurrentGroup, Drained
  <2>2. \A x \in 1 .. NumWorkers : eventLoop[x] = "exited" => eventLoop'[x] = "exited"
    BY <2>1 DEF Drained
  <2>. QED BY <2>1, <2>2 DEF Drained
<1>4. ASSUME NEW w \in 1 .. NumWorkers, WriterNext(w)
      PROVE  Drained'
  <2>1. UNCHANGED <<main, eventLoop, currentGroup>>
    BY <1>4 DEF WriterNext, StartWrite, EndWrite, AckOperation, WriterExits
  <2>2. \A x \in 1 .. NumWorkers : x # w => /\ writer'[x] = writer[x]
                                           /\ batchWriteQueue'[x] = batchWriteQueue[x]
    BY <1>0, <1>4 DEF WriterNext, StartWrite, EndWrite, AckOperation, WriterExits
  <2>3. writer[w].phase # "exited"
    BY <1>4 DEF WriterNext, StartWrite, EndWrite, AckOperation, WriterExits
  <2>4. /\ writer'[w].phase = "exited" => eventLoop[w] = "exited" /\ batchWriteQueue'[w] = <<>>
        /\ writer'[w].phase \in {"receive", "exited"} => writer'[w].group = <<>>
    <3>1. CASE StartWrite(w)
      BY <1>0, <3>1 DEF StartWrite
    <3>2. CASE EndWrite(w)
      BY <1>0, <3>2 DEF EndWrite, WriterStates
    <3>3. CASE AckOperation(w)
      BY <1>0, <3>3 DEF AckOperation, WriterStates, WriterIdle
    <3>4. CASE WriterExits(w)
      BY <1>0, <3>4 DEF WriterExits, WriterStates, Drained
    <3>. QED BY <1>4, <3>1, <3>2, <3>3, <3>4 DEF WriterNext
  <2>. QED BY <2>1, <2>2, <2>3, <2>4 DEF Drained
<1>5. CASE MainNext
  <2>1. CASE Shutdown
    <3>1. /\ main' = main + 1
          /\ UNCHANGED <<eventLoop, currentGroup, batchWriteQueue, writer>>
          /\ \/ main = 0
             \/ eventLoop[main] = "exited" /\ writer[main].phase = "exited"
      BY <2>1 DEF Shutdown
    <3>2. \A w \in 1 .. NumWorkers : main' > w => main > w \/ w = main
      BY <3>1 DEF Drained
    <3>. QED BY <3>1, <3>2 DEF Drained
  <2>2. CASE CloseTracker
    <3>1. /\ main = NumWorkers + 1 /\ main' = NumWorkers + 2
          /\ UNCHANGED <<eventLoop, currentGroup, batchWriteQueue, writer>>
      BY <2>2 DEF CloseTracker, Close, Closed
    <3>2. \A w \in 1 .. NumWorkers : main > w
      BY <3>1, WorkersAreCounted
    <3>. QED BY <3>1, <3>2, WorkersAreCounted DEF Drained
  <2>. QED BY <1>5, <2>1, <2>2 DEF MainNext
<1>6. CASE Restart
  <2>1. /\ main' = 0
        /\ eventLoop' = [w \in 1 .. NumWorkers |-> "running"]
        /\ writer' = [w \in 1 .. NumWorkers |-> WriterIdle]
    BY <1>6 DEF Restart, Workers
  <2>. QED BY <2>1 DEF Drained, WriterIdle
<1>7. ASSUME NEW s \in Streams, ReaderNext(s) \/ StreamFails(s)
      PROVE  UNCHANGED <<main, eventLoop, currentGroup, batchWriteQueue, writer>>
  BY <1>7 DEF ReaderNext, Read, Push, ReaderQuits, StreamFails
<1>8. ASSUME RouterNext
      PROVE  UNCHANGED <<main, eventLoop, currentGroup, batchWriteQueue, writer>>
  BY <1>8 DEF RouterNext, RouterReceives, RouterPushes, RouterQuits, RouterDone
<1>9. ASSUME TrackerTicks \/ Cancel \/ UNCHANGED vars
      PROVE  UNCHANGED <<main, eventLoop, currentGroup, batchWriteQueue, writer>>
  BY <1>9 DEF TrackerTicks, Cancel, vars, stages
<1>. QED
  BY <1>1, <1>2, <1>3, <1>4, <1>5, <1>6, <1>7, <1>8, <1>9
     DEF Next, EventLoopNext, Workers

(* When the final tokens are saved no event loop holds a group, no queue behind
   one does, and each operation that was written has been acknowledged. *)
THEOREM ShutdownDrains == Spec => []GroupsDrainedAtClose
<1>1. Init => Drained
  BY DEF Init, FreshStages, Workers, WriterIdle, Drained
<1>2. HoldsRegistered /\ Drained /\ [Next]_vars => Drained'
  BY DrainedKept
<1>3. Drained => GroupsDrainedAtClose
  BY WorkersAreCounted DEF Drained, GroupsDrainedAtClose, Closed, Workers
<1>. QED BY <1>1, <1>2, <1>3, PipelineIsTracker, PTL DEF Spec

(* The token files of the pipeline behave as Checkpointing promises: each step
   finishes events, moves tokens forward over finished events, or neither. *)
THEOREM PipelineImplementsCheckpointing == Spec => ImplementsCheckpointing
<1>. QED BY PipelineIsTracker, Refinement, PTL

-----------------------------------------------------------------------------
(* What the queues and groups may grow to, and what the histories may hold. *)
InStream == 1 .. MaxPosition

Bounded(groups) == \A i \in 1 .. Len(groups) : Len(groups[i]) <= BatchSize

SizeInv ==
  /\ Len(ingestQueue) <= IngestCapacity
  /\ router \in {"select", "push", "returned"}
  /\ Len(routed) <= 1 /\ (router # "push" => routed = <<>>)
  /\ main \in 0 .. Closed
  /\ \A w \in 1 .. NumWorkers :
       /\ Len(batchingQueue[w]) <= BatchingCapacity
       /\ Len(currentGroup[w]) < BatchSize
       /\ Len(batchWriteQueue[w]) <= WriteCapacity
       /\ Bounded(batchWriteQueue[w])
       /\ Len(writer[w].group) <= BatchSize

HistoryInv ==
  /\ settled \in [Streams -> SUBSET InStream]
  /\ abandoned \in [Streams -> SUBSET InStream]
  /\ latest \in [Docs -> 0 .. MaxPosition]

(* A registered event is one of its stream. *)
LEMMA RegisteredInStream ==
  ASSUME TrackerTypeOK, WithinStream, NEW e \in Registered
  PROVE  /\ e.stream \in Streams /\ e.seq \in InStream
         /\ Position(e) \in InStream
<1>1. e.stream \in Streams /\ e.seq \in Nat /\ 1 <= e.seq /\ e.seq <= SeqToGive(e.stream) - 1
  BY DEF Registered, Given
<1>2. /\ resumedAt[e.stream] \in Nat /\ SeqToGive(e.stream) \in Nat /\ MaxPosition \in Nat
      /\ resumedAt[e.stream] + SeqToGive(e.stream) - 1 <= MaxPosition
  BY <1>1, TrackerAssumption DEF TrackerTypeOK, SeqToGive, WithinStream
<1>3. PICK r \in Nat, g \in Nat, q \in Nat, m \in Nat :
        r = resumedAt[e.stream] /\ g = SeqToGive(e.stream) /\ q = e.seq /\ m = MaxPosition
  BY <1>1, <1>2
<1>4. q \in 1 .. m /\ r + q \in 1 .. m
  BY <1>1, <1>2, <1>3
<1>. QED BY <1>1, <1>3, <1>4 DEF Position, InStream

(* The elements of a sequence, and of the group of a writer. *)
LEMMA ElementsIn ==
  ASSUME NEW S, NEW seq \in Seq(S)
  PROVE  /\ Elements(seq) \subseteq S
         /\ Elements(seq) = {seq[i] : i \in 1 .. Len(seq)}
BY DEF Elements

(* What a step settles and abandons is of the streams. *)
LEMMA HistoryGrows ==
  ASSUME TrackerTypeOK, WithinStream, HistoryInv,
         \/ settled' = settled
         \/ \E E \in SUBSET Registered : Settle(E),
         \/ abandoned' = abandoned
         \/ \E E \in SUBSET Registered : Abandon(E)
  PROVE  /\ settled' \in [Streams -> SUBSET InStream]
         /\ abandoned' \in [Streams -> SUBSET InStream]
<1>1. \A e \in Registered : Position(e) \in InStream
  BY RegisteredInStream
<1>2. ASSUME NEW E \in SUBSET Registered, Settle(E)
      PROVE  settled' \in [Streams -> SUBSET InStream]
  <2>1. \A s \in Streams : {Position(e) : e \in {x \in E : x.stream = s}} \subseteq InStream
    BY <1>1
  <2>. QED BY <1>2, <2>1 DEF Settle, HistoryInv
<1>3. ASSUME NEW E \in SUBSET Registered, Abandon(E)
      PROVE  abandoned' \in [Streams -> SUBSET InStream]
  <2>1. \A s \in Streams : {Position(e) : e \in {x \in E : x.stream = s}} \subseteq InStream
    BY <1>1
  <2>. QED BY <1>3, <2>1 DEF Abandon, HistoryInv
<1>. QED BY <1>2, <1>3 DEF HistoryInv

(* The last position that a write reaches on a document. *)
LEMMA WrittenPositions ==
  ASSUME TrackerTypeOK, WithinStream, NEW E \in SUBSET Registered, NEW d,
         Written(d, E) # {}
  PROVE  /\ Max(Written(d, E)) \in Written(d, E)
         /\ Max(Written(d, E)) \in InStream
<1>1. Written(d, E) \subseteq InStream
  BY RegisteredInStream DEF Written
<1>2. MaxPosition \in Nat /\ Written(d, E) \in SUBSET (0 .. MaxPosition)
  BY <1>1, TrackerAssumption DEF InStream
<1>3. Max(Written(d, E)) \in Written(d, E)
  BY <1>2, MaxInRange
<1>. QED BY <1>1, <1>3

-----------------------------------------------------------------------------
(* The queues, with the guards that a blocked channel is. *)
LEMMA BoundedConcat ==
  ASSUME NEW R, NEW a \in Seq(Seq(R)), NEW b \in Seq(Seq(R)), Bounded(a), Bounded(b)
  PROVE  a \o b \in Seq(Seq(R)) /\ Bounded(a \o b)
<1>1. /\ a \o b \in Seq(Seq(R)) /\ Len(a \o b) = Len(a) + Len(b)
      /\ Len(a) \in Nat /\ Len(b) \in Nat
      /\ \A i \in 1 .. Len(a) + Len(b) :
           (a \o b)[i] = IF i <= Len(a) THEN a[i] ELSE b[i - Len(a)]
  BY ConcatProperties
<1>2. ASSUME NEW i \in 1 .. Len(a \o b) PROVE Len((a \o b)[i]) <= BatchSize
  <2>1. CASE i <= Len(a)
    <3>1. (a \o b)[i] = a[i] /\ i \in 1 .. Len(a)
      BY <1>1, <2>1
    <3>. QED BY <3>1 DEF Bounded
  <2>2. CASE ~ (i <= Len(a))
    <3>1. (a \o b)[i] = b[i - Len(a)] /\ i - Len(a) \in 1 .. Len(b)
      BY <1>1, <2>2
    <3>. QED BY <3>1 DEF Bounded
  <2>. QED BY <2>1, <2>2
<1>. QED BY <1>1, <1>2 DEF Bounded

LEMMA BoundedOne ==
  ASSUME NEW R, NEW x \in Seq(R), NEW pushes \in BOOLEAN, pushes => Len(x) <= BatchSize
  PROVE  /\ (IF pushes THEN <<x>> ELSE <<>>) \in Seq(Seq(R))
         /\ Bounded(IF pushes THEN <<x>> ELSE <<>>)
<1>1. CASE pushes
  <2>1. <<x>> \in Seq(Seq(R)) /\ Len(<<x>>) = 1 /\ <<x>>[1] = x
    OBVIOUS
  <2>2. \A i \in 1 .. 1 : i = 1
    OBVIOUS
  <2>3. Bounded(<<x>>)
    BY <1>1, <2>1, <2>2 DEF Bounded
  <2>. QED BY <1>1, <2>1, <2>3
<1>2. CASE ~ pushes
  <2>1. Bounded(<<>>)
    BY DEF Bounded
  <2>. QED BY <1>2, <2>1
<1>. QED BY <1>1, <1>2

LEMMA FlushFits ==
  ASSUME HoldsRegistered, SizeInv, NEW w \in 1 .. NumWorkers, flushCurrentGroup(w)
  PROVE  \A v \in 1 .. NumWorkers :
           /\ Len(currentGroup'[v]) < BatchSize
           /\ Len(batchWriteQueue'[v]) <= WriteCapacity
           /\ Bounded(batchWriteQueue'[v])
<1>. DEFINE flushes == currentGroup[w] # <<>>
            pushed == IF flushes THEN <<currentGroup[w]>> ELSE <<>>
<1>1. /\ Len(batchWriteQueue[w] \o pushed) <= WriteCapacity
      /\ batchWriteQueue' = [batchWriteQueue EXCEPT ![w] = @ \o pushed]
      /\ currentGroup' = [currentGroup EXCEPT ![w] = <<>>]
  BY DEF flushCurrentGroup
<1>2. pushed \in Seq(Seq(Registered)) /\ Bounded(pushed)
  <2>1. currentGroup[w] \in Seq(Registered) /\ Len(currentGroup[w]) <= BatchSize
    BY PipelineAssumption DEF HoldsRegistered, SizeInv
  <2>2. flushes \in BOOLEAN
    OBVIOUS
  <2>. HIDE DEF flushes
  <2>. QED BY <2>1, <2>2, BoundedOne
<1>3. batchWriteQueue[w] \in Seq(Seq(Registered)) /\ Bounded(batchWriteQueue[w])
  BY DEF HoldsRegistered, Groups, SizeInv
<1>. HIDE DEF pushed
<1>4. Bounded(batchWriteQueue[w] \o pushed)
  BY <1>2, <1>3, BoundedConcat
<1>5. DOMAIN batchWriteQueue = 1 .. NumWorkers /\ DOMAIN currentGroup = 1 .. NumWorkers
  BY DEF HoldsRegistered
<1>6. Len(<<>>) < BatchSize
  BY PipelineAssumption
<1>7. ASSUME NEW v \in 1 .. NumWorkers, v = w
      PROVE  /\ Len(currentGroup'[v]) < BatchSize
             /\ Len(batchWriteQueue'[v]) <= WriteCapacity
             /\ Bounded(batchWriteQueue'[v])
  <2>1. currentGroup'[v] = <<>> /\ batchWriteQueue'[v] = batchWriteQueue[w] \o pushed
    BY <1>1, <1>5, <1>7
  <2>. QED BY <2>1, <1>1, <1>4, <1>6
<1>8. ASSUME NEW v \in 1 .. NumWorkers, v # w
      PROVE  currentGroup'[v] = currentGroup[v] /\ batchWriteQueue'[v] = batchWriteQueue[v]
  BY <1>1, <1>5, <1>8
<1>. QED BY <1>7, <1>8 DEF SizeInv

LEMMA SizesKept ==
  ASSUME HoldsRegistered, SizeInv, [Next]_vars
  PROVE  SizeInv'
<1>0. /\ NumWorkers \in Nat \ {0} /\ BatchSize \in Nat \ {0, 1}
      /\ {IngestCapacity, BatchingCapacity, WriteCapacity} \subseteq Nat \ {0}
  BY PipelineAssumption
<1>1. ASSUME NEW s \in Streams, ReaderNext(s) \/ StreamFails(s)
      PROVE  SizeInv'
  <2>1. CASE Push(s)
    <3>1. Len(ingestQueue') <= IngestCapacity
      <4>1. ingestQueue \in Seq(Registered) /\ Len(ingestQueue) < IngestCapacity
            /\ ingestQueue' = Append(ingestQueue, Held(s))
        BY <2>1 DEF Push, HoldsRegistered
      <4>2. Len(ingestQueue') = Len(ingestQueue) + 1
        BY <4>1
      <4>. QED BY <1>0, <4>1, <4>2
    <3>. QED BY <2>1, <3>1 DEF Push, SizeInv
  <2>2. CASE Read(s) \/ ReaderQuits(s) \/ StreamFails(s)
    BY <2>2 DEF Read, ReaderQuits, StreamFails, SizeInv
  <2>. QED BY <1>1, <2>1, <2>2 DEF ReaderNext
<1>2. CASE RouterNext
  <2>1. CASE RouterReceives
    <3>1. Len(ingestQueue') <= IngestCapacity
      <4>1. ingestQueue \in Seq(Registered) /\ ingestQueue # <<>> /\ ingestQueue' = Tail(ingestQueue)
        BY <2>1 DEF RouterReceives, HoldsRegistered
      <4>2. Len(ingestQueue') = Len(ingestQueue) - 1
        BY <4>1, HeadTailProperties
      <4>. QED BY <1>0, <4>1, <4>2 DEF SizeInv
    <3>2. /\ router' \in {"select", "push", "returned"}
          /\ Len(routed') <= 1 /\ (router' # "push" => routed' = <<>>)
      <4>1. \/ router' = "returned" /\ routed' = routed
            \/ router' = router /\ routed' = routed
            \/ router' = "push" /\ routed' = <<Head(ingestQueue)>>
        BY <2>1 DEF RouterReceives
      <4>2. router = "select" /\ routed = <<>>
        BY <2>1 DEF RouterReceives, SizeInv
      <4>3. Len(<<Head(ingestQueue)>>) <= 1 /\ Len(<<>>) <= 1
        OBVIOUS
      <4>. QED BY <4>1, <4>2, <4>3
    <3>. QED BY <2>1, <3>1, <3>2 DEF RouterReceives, SizeInv
  <2>2. CASE RouterPushes
    <3>1. PICK w : /\ w = WorkerOf[DocOf(routed[1])]
                   /\ Len(batchingQueue[w]) < BatchingCapacity
                   /\ batchingQueue' = [batchingQueue EXCEPT ![w] = Append(@, routed[1])]
      BY <2>2 DEF RouterPushes
    <3>2. \A v \in 1 .. NumWorkers : Len(batchingQueue'[v]) <= BatchingCapacity
      <4>1. batchingQueue \in [1 .. NumWorkers -> Seq(Registered)]
        BY DEF HoldsRegistered
      <4>2. ASSUME w \in 1 .. NumWorkers
            PROVE  Len(batchingQueue'[w]) <= BatchingCapacity
        <5>1. batchingQueue'[w] = Append(batchingQueue[w], routed[1])
          BY <3>1, <4>1, <4>2
        <5>2. Len(batchingQueue'[w]) = Len(batchingQueue[w]) + 1
          BY <4>1, <4>2, <5>1
        <5>3. Len(batchingQueue[w]) \in Nat
          BY <4>1, <4>2
        <5>. QED BY <1>0, <3>1, <5>2, <5>3
      <4>3. ASSUME NEW v \in 1 .. NumWorkers, v # w
            PROVE  batchingQueue'[v] = batchingQueue[v]
        BY <3>1, <4>1, <4>3
      <4>. QED BY <4>2, <4>3 DEF SizeInv
    <3>3. routed' = <<>> /\ router' = "select" /\ Len(<<>>) <= 1
      BY <2>2 DEF RouterPushes
    <3>. QED BY <2>2, <3>2, <3>3 DEF RouterPushes, SizeInv
  <2>3. CASE RouterQuits \/ RouterDone
    <3>1. routed' = <<>> /\ router' = "returned" /\ Len(<<>>) <= 1
      BY <2>3 DEF RouterQuits, RouterDone, SizeInv
    <3>. QED BY <2>3, <3>1 DEF RouterQuits, RouterDone, SizeInv
  <2>. QED BY <1>2, <2>1, <2>2, <2>3 DEF RouterNext
<1>3. ASSUME NEW w \in 1 .. NumWorkers, EventLoopNext(w)
      PROVE  SizeInv'
  <2>1. CASE ProcessEvent(w)
    <3>. DEFINE e == Head(batchingQueue[w])
                new == NeedNewGroup(currentGroup[w], e)
                group == IF new THEN <<e>> ELSE Append(currentGroup[w], e)
                full == Len(group) >= BatchSize
                pushed == (IF new THEN <<currentGroup[w]>> ELSE <<>>)
                       \o (IF full THEN <<group>> ELSE <<>>)
    <3>0. /\ batchingQueue \in [1 .. NumWorkers -> Seq(Registered)]
          /\ currentGroup \in [1 .. NumWorkers -> Seq(Registered)]
          /\ batchWriteQueue \in [1 .. NumWorkers -> Seq(Groups)]
      BY DEF HoldsRegistered
    <3>1. \A v \in 1 .. NumWorkers : Len(batchingQueue'[v]) <= BatchingCapacity
      <4>1. /\ batchingQueue[w] \in Seq(Registered) /\ batchingQueue[w] # <<>>
            /\ batchingQueue' = [batchingQueue EXCEPT ![w] = Tail(@)]
        BY <2>1, <3>0 DEF ProcessEvent
      <4>2. Len(batchingQueue'[w]) = Len(batchingQueue[w]) - 1 /\ Len(batchingQueue[w]) \in Nat
        BY <3>0, <4>1, HeadTailProperties
      <4>3. \A v \in 1 .. NumWorkers : v # w => batchingQueue'[v] = batchingQueue[v]
        BY <3>0, <4>1
      <4>4. Len(batchingQueue'[w]) <= BatchingCapacity
        <5>1. Len(batchingQueue[w]) <= BatchingCapacity
          BY DEF SizeInv
        <5>. QED BY <1>0, <4>2, <5>1
      <4>. QED BY <4>3, <4>4 DEF SizeInv
    <3>2. CASE UNCHANGED <<currentGroup, batchWriteQueue>>
      BY <2>1, <3>1, <3>2 DEF ProcessEvent, SizeInv
    <3>3. CASE /\ Len(batchWriteQueue[w] \o pushed) <= WriteCapacity
               /\ batchWriteQueue' = [batchWriteQueue EXCEPT ![w] = @ \o pushed]
               /\ currentGroup' = [currentGroup EXCEPT ![w] = IF full THEN <<>> ELSE group]
      <4>1. currentGroup[w] \in Seq(Registered) /\ Len(currentGroup[w]) < BatchSize
            /\ Len(currentGroup[w]) \in Nat
        BY <3>0 DEF SizeInv
      <4>2. e \in Registered
        BY <2>1, <3>0, HeadTailProperties DEF ProcessEvent
      <4>. HIDE DEF e, new
      <4>3. group \in Seq(Registered) /\ Len(group) <= BatchSize /\ Len(group) \in Nat
        <5>1. Len(Append(currentGroup[w], e)) = Len(currentGroup[w]) + 1
              /\ Append(currentGroup[w], e) \in Seq(Registered)
          BY <4>1, <4>2
        <5>2. Len(<<e>>) = 1 /\ <<e>> \in Seq(Registered)
          BY <4>2
        <5>. QED BY <1>0, <4>1, <5>1, <5>2
      <4>. HIDE DEF group
      <4>4. ~ full => Len(group) < BatchSize
        BY <1>0, <4>3
      <4>. HIDE DEF full
      <4>5. pushed \in Seq(Seq(Registered)) /\ Bounded(pushed)
        <5>1. new \in BOOLEAN /\ full \in BOOLEAN
          BY DEF new, full, NeedNewGroup
        <5>2. Len(currentGroup[w]) <= BatchSize
          BY <1>0, <4>1
        <5>3. /\ (IF new THEN <<currentGroup[w]>> ELSE <<>>) \in Seq(Seq(Registered))
              /\ Bounded(IF new THEN <<currentGroup[w]>> ELSE <<>>)
          BY <4>1, <5>1, <5>2, BoundedOne
        <5>4. /\ (IF full THEN <<group>> ELSE <<>>) \in Seq(Seq(Registered))
              /\ Bounded(IF full THEN <<group>> ELSE <<>>)
          BY <4>3, <5>1, BoundedOne
        <5>. QED BY <5>3, <5>4, BoundedConcat
      <4>. HIDE DEF pushed
      <4>6. Bounded(batchWriteQueue[w] \o pushed)
        <5>1. batchWriteQueue[w] \in Seq(Seq(Registered)) /\ Bounded(batchWriteQueue[w])
          BY <3>0 DEF Groups, SizeInv
        <5>. QED BY <4>5, <5>1, BoundedConcat
      <4>7. \A v \in 1 .. NumWorkers :
              /\ Len(currentGroup'[v]) < BatchSize
              /\ Len(batchWriteQueue'[v]) <= WriteCapacity
              /\ Bounded(batchWriteQueue'[v])
        <5>1. /\ batchWriteQueue'[w] = batchWriteQueue[w] \o pushed
              /\ currentGroup'[w] = IF full THEN <<>> ELSE group
              /\ \A v \in 1 .. NumWorkers : v # w => /\ batchWriteQueue'[v] = batchWriteQueue[v]
                                                    /\ currentGroup'[v] = currentGroup[v]
          BY <3>0, <3>3
        <5>2. Len(<<>>) = 0
          OBVIOUS
        <5>3. Len(currentGroup'[w]) < BatchSize
          BY <1>0, <4>4, <5>1, <5>2
        <5>. QED BY <3>3, <4>6, <5>1, <5>3 DEF SizeInv
      <4>. QED BY <2>1, <3>1, <4>7 DEF ProcessEvent, SizeInv
    <3>. QED BY <2>1, <3>2, <3>3 DEF ProcessEvent
  <2>2. CASE FlushTick(w) \/ EventLoopExits(w)
    <3>1. flushCurrentGroup(w) /\ UNCHANGED <<ingestQueue, router, routed, batchingQueue, writer, main>>
      BY <2>2 DEF FlushTick, EventLoopExits
    <3>. QED BY <3>1, FlushFits DEF SizeInv
  <2>. QED BY <1>3, <2>1, <2>2 DEF EventLoopNext
<1>4. ASSUME NEW w \in 1 .. NumWorkers, WriterNext(w)
      PROVE  SizeInv'
  <2>0. /\ batchWriteQueue \in [1 .. NumWorkers -> Seq(Groups)]
        /\ writer \in [1 .. NumWorkers -> WriterStates]
    BY DEF HoldsRegistered
  <2>1. CASE StartWrite(w)
    <3>1. /\ batchWriteQueue[w] \in Seq(Groups) /\ batchWriteQueue[w] # <<>>
          /\ batchWriteQueue' = [batchWriteQueue EXCEPT ![w] = Tail(@)]
          /\ writer' = [writer EXCEPT ![w] =
               [phase |-> "write", group |-> Head(batchWriteQueue[w]), graceful |-> cancelled]]
      BY <2>0, <2>1 DEF StartWrite
    <3>2. /\ Len(Tail(batchWriteQueue[w])) = Len(batchWriteQueue[w]) - 1
          /\ \A i \in 1 .. Len(Tail(batchWriteQueue[w])) :
               Tail(batchWriteQueue[w])[i] = batchWriteQueue[w][i + 1]
          /\ Head(batchWriteQueue[w]) = batchWriteQueue[w][1]
          /\ Len(batchWriteQueue[w]) \in Nat \ {0}
      BY <3>1, HeadTailProperties
    <3>3. /\ Len(Tail(batchWriteQueue[w])) <= WriteCapacity
          /\ Bounded(Tail(batchWriteQueue[w]))
          /\ Len(Head(batchWriteQueue[w])) <= BatchSize
      <4>1. \A i \in 1 .. Len(Tail(batchWriteQueue[w])) : i + 1 \in 1 .. Len(batchWriteQueue[w])
        BY <3>2
      <4>2. 1 \in 1 .. Len(batchWriteQueue[w])
        BY <3>2
      <4>3. Len(batchWriteQueue[w]) <= WriteCapacity
        BY DEF SizeInv
      <4>4. Len(Tail(batchWriteQueue[w])) <= WriteCapacity
        BY <1>0, <3>2, <4>3
      <4>. QED BY <3>2, <4>1, <4>2, <4>4 DEF SizeInv, Bounded
    <3>4. /\ batchWriteQueue'[w] = Tail(batchWriteQueue[w])
          /\ writer'[w].group = Head(batchWriteQueue[w])
          /\ \A v \in 1 .. NumWorkers : v # w => /\ batchWriteQueue'[v] = batchWriteQueue[v]
                                                /\ writer'[v] = writer[v]
      BY <2>0, <3>1
    <3>5. \A v \in 1 .. NumWorkers :
            /\ Len(batchWriteQueue'[v]) <= WriteCapacity
            /\ Bounded(batchWriteQueue'[v])
            /\ Len(writer'[v].group) <= BatchSize
      BY <3>3, <3>4 DEF SizeInv
    <3>. QED BY <2>1, <3>5 DEF StartWrite, SizeInv
  <2>2. CASE EndWrite(w) \/ WriterExits(w)
    <3>1. \A v \in 1 .. NumWorkers : writer'[v].group = writer[v].group
      <4>1. PICK p : writer' = [writer EXCEPT ![w] = [writer[w] EXCEPT !.phase = p]]
        BY <2>2 DEF EndWrite, WriterExits
      <4>2. writer[w] \in WriterStates /\ DOMAIN writer = 1 .. NumWorkers
        BY <2>0
      <4>3. [writer[w] EXCEPT !.phase = p].group = writer[w].group
        BY <4>2 DEF WriterStates
      <4>. QED BY <4>1, <4>2, <4>3
    <3>. QED BY <2>2, <3>1 DEF EndWrite, WriterExits, SizeInv
  <2>3. CASE AckOperation(w)
    <3>1. writer[w].group \in Seq(Registered) /\ writer[w].group # <<>> /\ Len(writer[w].group) \in Nat
      BY <2>0, <2>3 DEF AckOperation, HoldsRegistered, WriterStates
    <3>2. Len(Tail(writer[w].group)) = Len(writer[w].group) - 1
      BY <3>1, HeadTailProperties
    <3>. DEFINE rest == Tail(writer[w].group)
                next == IF rest = <<>> THEN WriterIdle ELSE [writer[w] EXCEPT !.group = rest]
    <3>3. writer' = [writer EXCEPT ![w] = next]
      BY <2>3 DEF AckOperation
    <3>6. rest \in Seq(Registered) /\ Len(rest) <= BatchSize
      <4>1. Len(writer[w].group) <= BatchSize
        BY DEF SizeInv
      <4>. QED BY <1>0, <3>1, <3>2, <4>1, HeadTailProperties
    <3>. HIDE DEF rest
    <3>7. Len(next.group) <= BatchSize
      <4>1. CASE rest = <<>>
        BY <1>0, <4>1 DEF WriterIdle
      <4>2. CASE rest # <<>>
        <5>1. writer[w] \in WriterStates
          BY <2>0
        <5>. QED BY <4>2, <5>1, <3>6 DEF WriterStates
      <4>. QED BY <4>1, <4>2
    <3>. HIDE DEF next
    <3>4. Len(writer'[w].group) <= BatchSize
      BY <2>0, <3>3, <3>7
    <3>5. \A v \in 1 .. NumWorkers : v # w => writer'[v] = writer[v]
      BY <2>0, <2>3 DEF AckOperation
    <3>. QED BY <2>3, <3>4, <3>5 DEF AckOperation, SizeInv
  <2>. QED BY <1>4, <2>1, <2>2, <2>3 DEF WriterNext
<1>5. CASE MainNext
  <2>1. CASE Shutdown
    <3>1. main' \in 0 .. Closed
      BY <1>0, <2>1 DEF Shutdown, Workers, Closed
    <3>. QED BY <2>1, <3>1 DEF Shutdown, SizeInv
  <2>2. CASE CloseTracker
    <3>1. main' \in 0 .. Closed
      BY <1>0, <2>2 DEF CloseTracker, Closed
    <3>. QED BY <2>2, <3>1 DEF CloseTracker, SizeInv
  <2>. QED BY <1>5, <2>1, <2>2 DEF MainNext
<1>6. CASE TrackerTicks \/ Cancel \/ UNCHANGED vars
  BY <1>6 DEF TrackerTicks, Cancel, vars, stages, SizeInv
<1>7. CASE Restart
  <2>1. /\ ingestQueue' = <<>> /\ router' = "select" /\ routed' = <<>> /\ main' = 0
        /\ \A w \in 1 .. NumWorkers :
             /\ batchingQueue'[w] = <<>> /\ currentGroup'[w] = <<>> /\ batchWriteQueue'[w] = <<>>
             /\ writer'[w].group = <<>>
    BY <1>7 DEF Restart, Workers, WriterIdle
  <2>2. Len(<<>>) = 0 /\ 0 \in 0 .. Closed /\ Bounded(<<>>)
    BY <1>0 DEF Closed, Bounded
  <2>. QED BY <1>0, <2>1, <2>2 DEF SizeInv
<1>. QED
  BY <1>1, <1>2, <1>3, <1>4, <1>5, <1>6, <1>7 DEF Next, Workers

(* The histories speak of positions of the streams. *)
LEMMA HistoriesKept ==
  ASSUME TrackerTypeOK, WithinStream, HoldsRegistered, HistoryInv, [Next]_vars
  PROVE  HistoryInv'
<1>0. ASSUME \/ settled' = settled
             \/ \E E \in SUBSET Registered : Settle(E),
             \/ abandoned' = abandoned
             \/ \E E \in SUBSET Registered : Abandon(E),
             latest' \in [Docs -> 0 .. MaxPosition]
      PROVE  HistoryInv'
  BY <1>0, HistoryGrows DEF HistoryInv, InStream
<1>1. latest \in [Docs -> 0 .. MaxPosition]
  BY DEF HistoryInv
<1>2. ASSUME NEW s \in Streams, ReaderNext(s) \/ StreamFails(s)
      PROVE  HistoryInv'
  <2>1. UNCHANGED <<settled, latest>>
    BY <1>2 DEF ReaderNext, Read, Push, ReaderQuits, StreamFails, history
  <2>2. \/ abandoned' = abandoned
        \/ \E E \in SUBSET Registered : Abandon(E)
    <3>1. CASE reader[s] = "push" /\ Abandon({Held(s)})
      <4>1. {Held(s)} \in SUBSET Registered
        BY <3>1, HeldRegistered
      <4>. QED BY <3>1, <4>1
    <3>. QED BY <1>2, <3>1 DEF ReaderNext, Read, Push, ReaderQuits, StreamFails, history
  <2>. QED BY <1>0, <1>1, <2>1, <2>2
<1>3. CASE RouterNext
  <2>1. latest' = latest
    BY <1>3 DEF RouterNext, RouterReceives, RouterPushes, RouterQuits, RouterDone, history
  <2>2. CASE RouterReceives
    <3>1. {Head(ingestQueue)} \in SUBSET Registered
      <4>1. ingestQueue \in Seq(Registered) /\ ingestQueue # <<>>
        BY <2>2 DEF RouterReceives, HoldsRegistered
      <4>. QED BY <4>1, HeadTailProperties
    <3>2. abandoned' = abandoned /\ (settled' = settled \/ Settle({Head(ingestQueue)}))
      BY <2>2 DEF RouterReceives
    <3>. QED BY <1>0, <1>1, <2>1, <3>1, <3>2
  <2>3. CASE RouterQuits
    <3>1. settled' = settled /\ (abandoned' = abandoned \/ (router = "push" /\ Abandon({routed[1]})))
      BY <2>3 DEF RouterQuits
    <3>2. router = "push" => {routed[1]} \in SUBSET Registered
      BY ElementOfSeq, EmptySeq DEF HoldsRegistered
    <3>. QED BY <1>0, <1>1, <2>1, <3>1, <3>2
  <2>4. CASE RouterPushes \/ RouterDone
    <3>1. UNCHANGED <<settled, abandoned>>
      BY <2>4 DEF RouterPushes, RouterDone, history
    <3>. QED BY <1>0, <1>1, <2>1, <3>1
  <2>. QED BY <1>3, <2>2, <2>3, <2>4 DEF RouterNext
<1>4. ASSUME NEW w \in 1 .. NumWorkers, EventLoopNext(w)
      PROVE  HistoryInv'
  <2>1. CASE ProcessEvent(w)
    <3>1. {Head(batchingQueue[w])} \in SUBSET Registered
      <4>1. batchingQueue[w] \in Seq(Registered) /\ batchingQueue[w] # <<>>
        BY <2>1 DEF ProcessEvent, HoldsRegistered
      <4>. QED BY <4>1, HeadTailProperties
    <3>2. /\ UNCHANGED <<abandoned, latest>>
          /\ settled' = settled \/ Settle({Head(batchingQueue[w])})
      BY <2>1 DEF ProcessEvent
    <3>. QED BY <1>0, <1>1, <3>1, <3>2
  <2>2. CASE FlushTick(w) \/ EventLoopExits(w)
    <3>1. UNCHANGED <<settled, abandoned, latest>>
      BY <2>2 DEF FlushTick, EventLoopExits, history
    <3>. QED BY <1>0, <1>1, <3>1
  <2>. QED BY <1>4, <2>1, <2>2 DEF EventLoopNext
<1>5. ASSUME NEW w \in 1 .. NumWorkers, WriterNext(w)
      PROVE  HistoryInv'
  <2>1. CASE EndWrite(w)
    <3>0. PICK ops : ops = Elements(writer[w].group)
      OBVIOUS
    <3>1. ops \subseteq Registered
      <4>1. writer[w].group \in Seq(Registered)
        BY DEF HoldsRegistered, WriterStates
      <4>. QED BY <3>0, <4>1, ElementsIn
    <3>2. PICK done \in SUBSET ops :
            /\ Settle(done)
            /\ Abandon(ops \ done)
            /\ \E recorded \in SUBSET done : Write(done \ recorded)
      BY <2>1, <3>0 DEF EndWrite
    <3>3. PICK E \in SUBSET Registered : Write(E)
      BY <3>1, <3>2
    <3>4. latest' \in [Docs -> 0 .. MaxPosition]
      <4>1. \A d \in Docs : (IF Written(d, E) = {} THEN latest[d] ELSE Max(Written(d, E)))
                               \in 0 .. MaxPosition
        BY <1>1, WrittenPositions DEF InStream
      <4>. QED BY <3>3, <4>1 DEF Write
    <3>5. done \in SUBSET Registered /\ ops \ done \in SUBSET Registered
      BY <3>1
    <3>. QED BY <1>0, <3>2, <3>4, <3>5
  <2>2. CASE StartWrite(w) \/ AckOperation(w) \/ WriterExits(w)
    <3>1. UNCHANGED <<settled, abandoned, latest>>
      BY <2>2 DEF StartWrite, AckOperation, WriterExits, history
    <3>. QED BY <1>0, <1>1, <3>1
  <2>. QED BY <1>5, <2>1, <2>2 DEF WriterNext
<1>6. CASE MainNext \/ TrackerTicks \/ Cancel \/ UNCHANGED vars
  <2>1. UNCHANGED <<settled, abandoned, latest>>
    BY <1>6 DEF MainNext, Shutdown, CloseTracker, TrackerTicks, Cancel, vars, history
  <2>. QED BY <1>0, <1>1, <2>1
<1>7. CASE Restart
  <2>1. UNCHANGED <<settled, abandoned>> /\ latest' = [d \in Docs |-> 0]
    BY <1>7 DEF Restart
  <2>2. latest' \in [Docs -> 0 .. MaxPosition]
    BY <2>1, TrackerAssumption
  <2>. QED BY <1>0, <2>1, <2>2
<1>. QED
  BY <1>2, <1>3, <1>4, <1>5, <1>6, <1>7 DEF Next, Workers

(* Both hold in the initial states. *)
LEMMA InitialSizes == Init => SizeInv /\ HistoryInv
<1> SUFFICES ASSUME Init PROVE SizeInv /\ HistoryInv
  OBVIOUS
<1>1. Len(<<>>) = 0 /\ Bounded(<<>>)
  BY DEF Bounded
<1>2. /\ ingestQueue = <<>> /\ router = "select" /\ routed = <<>> /\ main = 0
      /\ \A w \in 1 .. NumWorkers :
           /\ batchingQueue[w] = <<>> /\ currentGroup[w] = <<>> /\ batchWriteQueue[w] = <<>>
           /\ writer[w].group = <<>>
  BY DEF Init, FreshStages, Workers, WriterIdle
<1>3. SizeInv
  BY <1>1, <1>2, PipelineAssumption DEF SizeInv, Closed
<1>4. HistoryInv
  BY TrackerAssumption DEF Init, HistoryInv
<1>. QED BY <1>3, <1>4

(* The queues stay within their capacities and the groups within the batch size,
   an event loop never keeps a full group, and no position that does not exist is
   settled, abandoned or written. *)
THEOREM PipelineTypeCorrect == Spec => []TypeOK
<1>1. Init => SizeInv /\ HistoryInv
  BY InitialSizes
<1>2. /\ TrackerTypeOK /\ WithinStream /\ HoldsRegistered /\ SizeInv /\ HistoryInv
      /\ [Next]_vars
      => SizeInv' /\ HistoryInv'
  BY SizesKept, HistoriesKept
<1>3. Init => Drained
  BY DEF Init, FreshStages, Workers, WriterIdle, Drained
<1>4. HoldsRegistered /\ Drained /\ [Next]_vars => Drained'
  BY DrainedKept
<1>5. TrackerTypeOK /\ WithinStream /\ HoldsRegistered /\ SizeInv /\ HistoryInv /\ Drained
        => TypeOK
  <2> SUFFICES ASSUME TrackerTypeOK, WithinStream, HoldsRegistered, SizeInv, HistoryInv, Drained
               PROVE  TypeOK
    OBVIOUS
  <2>. DEFINE Events == [stream : Streams, seq : 1 .. MaxPosition]
              OfEvents(seq, n) == Len(seq) <= n /\ Elements(seq) \subseteq Events
              OfGroups(seq, n) == Len(seq) <= n /\ \A g \in Elements(seq) :
                                     g # <<>> /\ OfEvents(g, BatchSize)
  <2>1. Registered \subseteq Events
    <3>1. \A e \in Registered : e \in [stream : Streams, seq : Nat]
      BY DEF Registered
    <3>. QED BY <3>1, RegisteredInStream DEF InStream
  <2>2. ASSUME NEW seq \in Seq(Registered), NEW n, Len(seq) <= n PROVE OfEvents(seq, n)
    BY <2>1, <2>2, ElementsIn
  <2>3. /\ OfEvents(ingestQueue, IngestCapacity)
        /\ OfEvents(routed, 1) /\ (routed # <<>> <=> router = "push")
    <3>1. ingestQueue \in Seq(Registered) /\ routed \in Seq(Registered)
      BY DEF HoldsRegistered
    <3>. QED BY <2>2, <3>1 DEF SizeInv, HoldsRegistered
  <2>4. ASSUME NEW w \in Workers
        PROVE  /\ OfEvents(batchingQueue[w], BatchingCapacity)
               /\ OfEvents(currentGroup[w], BatchSize - 1)
               /\ OfGroups(batchWriteQueue[w], WriteCapacity)
               /\ OfEvents(writer[w].group, BatchSize)
               /\ writer[w].phase \in {"receive", "write", "ack", "exited"}
               /\ writer[w].graceful \in BOOLEAN
    <3>1. w \in 1 .. NumWorkers
      BY DEF Workers
    <3>2. /\ batchingQueue[w] \in Seq(Registered) /\ currentGroup[w] \in Seq(Registered)
          /\ batchWriteQueue[w] \in Seq(Groups) /\ writer[w] \in WriterStates
      BY <3>1 DEF HoldsRegistered
    <3>3. writer[w].group \in Seq(Registered)
      BY <3>2 DEF WriterStates
    <3>4. Len(currentGroup[w]) <= BatchSize - 1
      <4>1. Len(currentGroup[w]) \in Nat /\ Len(currentGroup[w]) < BatchSize /\ BatchSize \in Nat
        BY <3>1, <3>2, PipelineAssumption DEF SizeInv
      <4>. QED BY <4>1
    <3>5. OfGroups(batchWriteQueue[w], WriteCapacity)
      <4>1. ASSUME NEW g \in Elements(batchWriteQueue[w]) PROVE g # <<>> /\ OfEvents(g, BatchSize)
        <5>1. PICK i \in 1 .. Len(batchWriteQueue[w]) : g = batchWriteQueue[w][i]
          BY <3>2, ElementsIn
        <5>2. g \in Groups
          BY <3>2, <4>1, ElementsIn
        <5>3. Len(g) <= BatchSize
          BY <3>1, <5>1 DEF SizeInv, Bounded
        <5>. QED BY <2>2, <5>2, <5>3 DEF Groups
      <4>. QED BY <3>1, <4>1 DEF SizeInv
    <3>6. /\ Len(batchingQueue[w]) <= BatchingCapacity
          /\ Len(writer[w].group) <= BatchSize
      BY <3>1 DEF SizeInv
    <3>. HIDE DEF OfEvents, OfGroups
    <3>. QED BY <2>2, <3>2, <3>3, <3>4, <3>5, <3>6 DEF WriterStates
  <2>5. /\ reader \in [Streams -> {"next", "push", "done"}]
        /\ router \in {"select", "push", "returned"}
        /\ eventLoop \in [Workers -> {"running", "exited"}]
        /\ cancelled \in BOOLEAN
        /\ main \in 0 .. Closed
        /\ settled \in [Streams -> SUBSET (1 .. MaxPosition)]
        /\ abandoned \in [Streams -> SUBSET (1 .. MaxPosition)]
        /\ latest \in [Docs -> 0 .. MaxPosition]
    BY DEF HoldsRegistered, SizeInv, HistoryInv, Drained, Workers, InStream
  <2>. QED BY <2>3, <2>4, <2>5 DEF TypeOK
<1>. QED
  BY <1>1, <1>2, <1>3, <1>4, <1>5, PipelineIsTracker, WithinStreamAlways, Inductive, PTL
     DEF Spec

-----------------------------------------------------------------------------
(* The order of the events of a stream in the stages they pass through. *)
Before(S, T) == \A e \in S : \A f \in T : e.stream = f.stream => e.seq < f.seq

(* Of six stages, the first holds the earliest events. *)
Chain(a, b, c, d, e, f) ==
  /\ Before(a, b \cup c \cup d \cup e \cup f)
  /\ Before(b, c \cup d \cup e \cup f)
  /\ Before(c, d \cup e \cup f)
  /\ Before(d, e \cup f)
  /\ Before(e, f)

InOrder(seq) ==
  \A i, j \in 1 .. Len(seq) : i < j /\ seq[i].stream = seq[j].stream => seq[i].seq < seq[j].seq

Queued(groups) == UNION {Elements(groups[i]) : i \in 1 .. Len(groups)}

GroupsInOrder(groups) ==
  \A i, j \in 1 .. Len(groups) : i < j => Before(Elements(groups[i]), Elements(groups[j]))

LEMMA BeforeParts ==
  ASSUME NEW A, NEW B, NEW S, NEW T, Before(S, T)
  PROVE  /\ A \subseteq S /\ B \subseteq T => Before(A, B)
         /\ Before(S, A) => Before(S, T \cup A)
         /\ Before(A, T) => Before(S \cup A, T)
BY DEF Before

LEMMA BeforeEmpty == ASSUME NEW S PROVE Before(S, {}) /\ Before({}, S)
BY DEF Before

(* Stages may lose events, and the first events of a stage may go on to the next. *)
LEMMA ChainLoses ==
  ASSUME NEW a, NEW b, NEW c, NEW d, NEW e, NEW f, Chain(a, b, c, d, e, f),
         NEW a1 \in SUBSET a, NEW b1 \in SUBSET b, NEW c1 \in SUBSET c,
         NEW d1 \in SUBSET d, NEW e1 \in SUBSET e, NEW f1 \in SUBSET f
  PROVE  Chain(a1, b1, c1, d1, e1, f1)
BY DEF Chain, Before

LEMMA ChainMoves ==
  ASSUME NEW a, NEW b, NEW c, NEW d, NEW e, NEW f, Chain(a, b, c, d, e, f),
         NEW X, NEW rest, Before(X, rest)
  PROVE  /\ X \cup rest \subseteq f => Chain(a, b, c, d, e \cup X, rest)
         /\ X \cup rest \subseteq e => Chain(a, b, c, d \cup X, rest, f)
         /\ X \cup rest \subseteq d => Chain(a, b, c \cup X, rest, e, f)
         /\ X \cup rest \subseteq c => Chain(a, b \cup X, rest, d, e, f)
         /\ X \cup rest \subseteq b => Chain(a \cup X, rest, c, d, e, f)
<1>1. ASSUME X \cup rest \subseteq f PROVE Chain(a, b, c, d, e \cup X, rest)
  BY <1>1 DEF Chain, Before
<1>2. ASSUME X \cup rest \subseteq e PROVE Chain(a, b, c, d \cup X, rest, f)
  BY <1>2 DEF Chain, Before
<1>3. ASSUME X \cup rest \subseteq d PROVE Chain(a, b, c \cup X, rest, e, f)
  BY <1>3 DEF Chain, Before
<1>4. ASSUME X \cup rest \subseteq c PROVE Chain(a, b \cup X, rest, d, e, f)
  BY <1>4 DEF Chain, Before
<1>5. ASSUME X \cup rest \subseteq b PROVE Chain(a \cup X, rest, c, d, e, f)
  BY <1>5 DEF Chain, Before
<1>. QED BY <1>1, <1>2, <1>3, <1>4, <1>5

(* The last stage takes an event later than all others. *)
LEMMA ChainGrows ==
  ASSUME NEW a, NEW b, NEW c, NEW d, NEW e, NEW f, Chain(a, b, c, d, e, f),
         NEW X, Before(a \cup b \cup c \cup d \cup e, X)
  PROVE  Chain(a, b, c, d, e, f \cup X)
BY DEF Chain, Before

(* Putting an event at the end of a queue in order, and taking the first one. *)
LEMMA PutLast ==
  ASSUME NEW S, NEW seq \in Seq(S), NEW x \in S
  PROVE  /\ Append(seq, x) \in Seq(S)
         /\ Elements(Append(seq, x)) = Elements(seq) \cup {x}
         /\ InOrder(seq) /\ Before(Elements(seq), {x}) => InOrder(Append(seq, x))
<1>1. /\ Append(seq, x) \in Seq(S) /\ Len(Append(seq, x)) = Len(seq) + 1 /\ Len(seq) \in Nat
      /\ \A i \in 1 .. Len(seq) : Append(seq, x)[i] = seq[i]
      /\ Append(seq, x)[Len(seq) + 1] = x
  BY AppendProperties
<1>2. /\ Elements(seq) = {seq[i] : i \in 1 .. Len(seq)}
      /\ Elements(Append(seq, x)) = {Append(seq, x)[i] : i \in 1 .. Len(seq) + 1}
  BY <1>1, ElementsIn
<1>3. PICK n \in Nat : n = Len(seq)
  BY <1>1
<1>4. PICK new : new = Append(seq, x)
  OBVIOUS
<1>5. \A i \in 1 .. n + 1 : i \in 1 .. n \/ i = n + 1
  OBVIOUS
<1>6. 1 .. n \subseteq 1 .. n + 1 /\ n + 1 \in 1 .. n + 1
  OBVIOUS
<1>7. Elements(Append(seq, x)) = Elements(seq) \cup {x}
  BY <1>1, <1>2, <1>3, <1>5, <1>6
<1>8. ASSUME InOrder(seq), Before(Elements(seq), {x}) PROVE InOrder(Append(seq, x))
  <2>1. ASSUME NEW i \in 1 .. n + 1, NEW j \in 1 .. n + 1, i < j,
               new[i].stream = new[j].stream
        PROVE  new[i].seq < new[j].seq
    <3>1. i \in 1 .. n
      BY <2>1
    <3>2. CASE j \in 1 .. n
      <4>1. new[i] = seq[i] /\ new[j] = seq[j]
        BY <1>1, <1>3, <1>4, <3>1, <3>2
      <4>2. seq[i].stream = seq[j].stream
        BY <2>1, <4>1
      <4>3. seq[i].seq < seq[j].seq
        BY <1>3, <1>8, <2>1, <3>1, <3>2, <4>2 DEF InOrder
      <4>. QED BY <4>1, <4>3
    <3>3. CASE j = n + 1
      <4>1. new[i] = seq[i] /\ new[j] = x /\ seq[i] \in Elements(seq)
        BY <1>1, <1>2, <1>3, <1>4, <3>1, <3>3
      <4>2. seq[i].stream = x.stream
        BY <2>1, <4>1
      <4>3. seq[i].seq < x.seq
        BY <1>8, <4>1, <4>2 DEF Before
      <4>. QED BY <4>1, <4>3
    <3>. QED BY <1>5, <3>2, <3>3
  <2>. QED BY <1>1, <1>3, <1>4, <2>1 DEF InOrder
<1>. QED BY <1>1, <1>7, <1>8

LEMMA TakeFirst ==
  ASSUME NEW S, NEW seq \in Seq(S), seq # <<>>
  PROVE  /\ Head(seq) \in S /\ Tail(seq) \in Seq(S)
         /\ Elements(seq) = {Head(seq)} \cup Elements(Tail(seq))
         /\ InOrder(seq) => /\ InOrder(Tail(seq))
                            /\ Before({Head(seq)}, Elements(Tail(seq)))
<1>1. /\ Head(seq) \in S /\ Tail(seq) \in Seq(S) /\ Head(seq) = seq[1]
      /\ Len(Tail(seq)) = Len(seq) - 1 /\ Len(seq) \in Nat \ {0}
      /\ \A i \in 1 .. Len(Tail(seq)) : Tail(seq)[i] = seq[i + 1]
  BY HeadTailProperties
<1>2. PICK n \in Nat : n = Len(Tail(seq)) /\ n + 1 = Len(seq)
  <2>1. Len(Tail(seq)) \in Nat /\ Len(Tail(seq)) + 1 = Len(seq)
    BY <1>1
  <2>. QED BY <2>1
<1>3. PICK rest : rest = Tail(seq)
  OBVIOUS
<1>4. /\ Elements(seq) = {seq[i] : i \in 1 .. n + 1}
      /\ Elements(rest) = {rest[i] : i \in 1 .. n}
  <2>1. Elements(seq) = {seq[i] : i \in 1 .. Len(seq)}
    BY ElementsIn
  <2>2. rest \in Seq(S) /\ Len(rest) = n
    BY <1>1, <1>2, <1>3
  <2>3. Elements(rest) = {rest[i] : i \in 1 .. Len(rest)}
    BY <2>2, ElementsIn
  <2>. QED BY <1>2, <2>1, <2>2, <2>3
<1>5. /\ \A i \in 1 .. n + 1 : i = 1 \/ (i - 1 \in 1 .. n /\ (i - 1) + 1 = i)
      /\ \A i \in 1 .. n : i + 1 \in 1 .. n + 1
      /\ 1 \in 1 .. n + 1
  OBVIOUS
<1>6. \A i \in 1 .. n : rest[i] = seq[i + 1]
  BY <1>1, <1>2, <1>3
<1>7. Elements(seq) = {Head(seq)} \cup Elements(rest)
  <2>1. ASSUME NEW i \in 1 .. n + 1 PROVE seq[i] \in {Head(seq)} \cup Elements(rest)
    <3>1. CASE i = 1
      BY <1>1, <3>1
    <3>2. CASE i - 1 \in 1 .. n /\ (i - 1) + 1 = i
      <4>1. seq[i] = rest[i - 1]
        BY <1>6, <3>2
      <4>. QED BY <1>4, <3>2, <4>1
    <3>. QED BY <1>5, <3>1, <3>2
  <2>2. ASSUME NEW i \in 1 .. n PROVE rest[i] \in Elements(seq)
    BY <1>4, <1>5, <1>6
  <2>3. Head(seq) \in Elements(seq)
    BY <1>1, <1>4, <1>5
  <2>4. Elements(seq) \subseteq {Head(seq)} \cup Elements(rest)
    BY <1>4, <2>1
  <2>5. Elements(rest) \subseteq Elements(seq)
    BY <1>4, <2>2
  <2>. QED BY <2>3, <2>4, <2>5
<1>8. ASSUME InOrder(seq)
      PROVE  InOrder(rest) /\ Before({Head(seq)}, Elements(rest))
  <2>1. \A i, j \in 1 .. n + 1 : i < j /\ seq[i].stream = seq[j].stream => seq[i].seq < seq[j].seq
    BY <1>2, <1>8 DEF InOrder
  <2>2. ASSUME NEW i \in 1 .. n, NEW j \in 1 .. n, i < j, rest[i].stream = rest[j].stream
        PROVE  rest[i].seq < rest[j].seq
    <3>1. i + 1 < j + 1 /\ i + 1 \in 1 .. n + 1 /\ j + 1 \in 1 .. n + 1
      BY <2>2
    <3>2. rest[i] = seq[i + 1] /\ rest[j] = seq[j + 1]
      BY <1>6
    <3>. QED BY <2>1, <2>2, <3>1, <3>2
  <2>3. ASSUME NEW i \in 1 .. n, Head(seq).stream = rest[i].stream
        PROVE  Head(seq).seq < rest[i].seq
    <3>1. 1 < i + 1 /\ i + 1 \in 1 .. n + 1 /\ 1 \in 1 .. n + 1
      OBVIOUS
    <3>2. rest[i] = seq[i + 1] /\ Head(seq) = seq[1]
      BY <1>1, <1>6
    <3>. QED BY <2>1, <2>3, <3>1, <3>2
  <2>4. InOrder(rest)
    BY <1>2, <1>3, <2>2 DEF InOrder
  <2>. QED BY <1>4, <2>3, <2>4 DEF Before
<1>. QED BY <1>1, <1>3, <1>7, <1>8

(* The same for a queue of groups. *)
LEMMA PutGroup ==
  ASSUME NEW S, NEW q \in Seq(S), NEW g \in S
  PROVE  /\ q \o <<g>> \in Seq(S)
         /\ Queued(q \o <<g>>) = Queued(q) \cup Elements(g)
         /\ GroupsInOrder(q) /\ Before(Queued(q), Elements(g)) => GroupsInOrder(q \o <<g>>)
<1>1. /\ Append(q, g) \in Seq(S) /\ Len(Append(q, g)) = Len(q) + 1 /\ Len(q) \in Nat
      /\ \A i \in 1 .. Len(q) : Append(q, g)[i] = q[i]
      /\ Append(q, g)[Len(q) + 1] = g
      /\ Append(q, g) = q \o <<g>>
  BY AppendProperties, AppendIsConcat
<1>2. PICK n \in Nat : n = Len(q)
  BY <1>1
<1>3. PICK new : new = q \o <<g>>
  OBVIOUS
<1>4. /\ Len(new) = n + 1 /\ new[n + 1] = g
      /\ \A i \in 1 .. n : new[i] = q[i]
  BY <1>1, <1>2, <1>3
<1>5. /\ \A i \in 1 .. n + 1 : i \in 1 .. n \/ i = n + 1
      /\ 1 .. n \subseteq 1 .. n + 1 /\ n + 1 \in 1 .. n + 1
  OBVIOUS
<1>6. Queued(new) = Queued(q) \cup Elements(g)
  BY <1>2, <1>4, <1>5 DEF Queued
<1>7. ASSUME GroupsInOrder(q), Before(Queued(q), Elements(g)) PROVE GroupsInOrder(new)
  <2>1. ASSUME NEW i \in 1 .. n + 1, NEW j \in 1 .. n + 1, i < j
        PROVE  Before(Elements(new[i]), Elements(new[j]))
    <3>1. i \in 1 .. n
      BY <2>1
    <3>2. CASE j \in 1 .. n
      <4>1. Before(Elements(q[i]), Elements(q[j]))
        BY <1>2, <1>7, <2>1, <3>1, <3>2 DEF GroupsInOrder
      <4>. QED BY <1>4, <3>1, <3>2, <4>1
    <3>3. CASE j = n + 1
      <4>1. Elements(q[i]) \subseteq Queued(q)
        BY <1>2, <3>1 DEF Queued
      <4>2. Before(Elements(q[i]), Elements(g))
        BY <1>7, <4>1, BeforeParts
      <4>. QED BY <1>4, <3>1, <3>3, <4>2
    <3>. QED BY <1>5, <3>2, <3>3
  <2>. QED BY <1>4, <2>1 DEF GroupsInOrder
<1>. QED BY <1>1, <1>3, <1>6, <1>7

LEMMA TakeGroup ==
  ASSUME NEW S, NEW q \in Seq(S), q # <<>>
  PROVE  /\ Head(q) \in S /\ Tail(q) \in Seq(S)
         /\ Queued(q) = Elements(Head(q)) \cup Queued(Tail(q))
         /\ GroupsInOrder(q) => /\ GroupsInOrder(Tail(q))
                                /\ Before(Elements(Head(q)), Queued(Tail(q)))
<1>1. /\ Head(q) \in S /\ Tail(q) \in Seq(S) /\ Head(q) = q[1]
      /\ Len(Tail(q)) = Len(q) - 1 /\ Len(q) \in Nat \ {0}
      /\ \A i \in 1 .. Len(Tail(q)) : Tail(q)[i] = q[i + 1]
  BY HeadTailProperties
<1>2. PICK n \in Nat : n = Len(Tail(q)) /\ n + 1 = Len(q)
  <2>1. Len(Tail(q)) \in Nat /\ Len(Tail(q)) + 1 = Len(q)
    BY <1>1
  <2>. QED BY <2>1
<1>3. PICK rest : rest = Tail(q)
  OBVIOUS
<1>5. /\ \A i \in 1 .. n + 1 : i = 1 \/ (i - 1 \in 1 .. n /\ (i - 1) + 1 = i)
      /\ \A i \in 1 .. n : i + 1 \in 1 .. n + 1
      /\ 1 \in 1 .. n + 1
  OBVIOUS
<1>6. \A i \in 1 .. n : rest[i] = q[i + 1]
  BY <1>1, <1>2, <1>3
<1>7. Queued(q) = Elements(Head(q)) \cup Queued(rest)
  <2>1. ASSUME NEW i \in 1 .. n + 1 PROVE Elements(q[i]) \subseteq Elements(Head(q)) \cup Queued(rest)
    <3>1. CASE i = 1
      BY <1>1, <3>1
    <3>2. CASE i - 1 \in 1 .. n /\ (i - 1) + 1 = i
      <4>1. q[i] = rest[i - 1]
        BY <1>6, <3>2
      <4>. QED BY <1>2, <1>3, <3>2, <4>1 DEF Queued
    <3>. QED BY <1>5, <3>1, <3>2
  <2>2. ASSUME NEW i \in 1 .. n PROVE Elements(rest[i]) \subseteq Queued(q)
    BY <1>2, <1>5, <1>6 DEF Queued
  <2>3. Elements(Head(q)) \subseteq Queued(q)
    BY <1>1, <1>2, <1>5 DEF Queued
  <2>4. Queued(q) \subseteq Elements(Head(q)) \cup Queued(rest)
    BY <1>2, <2>1 DEF Queued
  <2>5. Queued(rest) \subseteq Queued(q)
    BY <1>2, <1>3, <2>2 DEF Queued
  <2>. QED BY <2>3, <2>4, <2>5
<1>8. ASSUME GroupsInOrder(q)
      PROVE  GroupsInOrder(rest) /\ Before(Elements(Head(q)), Queued(rest))
  <2>1. \A i, j \in 1 .. n + 1 : i < j => Before(Elements(q[i]), Elements(q[j]))
    BY <1>2, <1>8 DEF GroupsInOrder
  <2>2. ASSUME NEW i \in 1 .. n, NEW j \in 1 .. n, i < j
        PROVE  Before(Elements(rest[i]), Elements(rest[j]))
    <3>1. i + 1 < j + 1 /\ i + 1 \in 1 .. n + 1 /\ j + 1 \in 1 .. n + 1
      BY <2>2
    <3>2. rest[i] = q[i + 1] /\ rest[j] = q[j + 1]
      BY <1>6
    <3>. QED BY <2>1, <3>1, <3>2
  <2>3. ASSUME NEW i \in 1 .. n PROVE Before(Elements(Head(q)), Elements(rest[i]))
    <3>1. 1 < i + 1 /\ i + 1 \in 1 .. n + 1 /\ 1 \in 1 .. n + 1
      OBVIOUS
    <3>2. rest[i] = q[i + 1] /\ Head(q) = q[1]
      BY <1>1, <1>6
    <3>. QED BY <2>1, <3>1, <3>2
  <2>4. GroupsInOrder(rest)
    BY <1>2, <1>3, <2>2 DEF GroupsInOrder
  <2>5. Before(Elements(Head(q)), Queued(rest))
    BY <1>2, <1>3, <2>3 DEF Before, Queued
  <2>. QED BY <2>4, <2>5
<1>. QED BY <1>1, <1>3, <1>7, <1>8

LEMMA NoElements == Elements(<<>>) = {} /\ Queued(<<>>) = {} /\ InOrder(<<>>) /\ GroupsInOrder(<<>>)
<1>1. DOMAIN <<>> = {} /\ Len(<<>>) = 0 /\ 1 .. 0 = {}
  OBVIOUS
<1>. QED BY <1>1 DEF Elements, Queued, InOrder, GroupsInOrder

(* The events of a queue of groups and of a group. *)
Together(q, g) == Queued(q) \cup Elements(g)

(* A group goes to the queue of its writer. *)
LEMMA PushGroup ==
  ASSUME NEW q \in Seq(Seq(Registered)), NEW g \in Seq(Registered),
         NEW a, NEW d, NEW e, NEW f, Chain(a, Queued(q), Elements(g), d, e, f),
         GroupsInOrder(q)
  PROVE  /\ q \o <<g>> \in Seq(Seq(Registered)) /\ GroupsInOrder(q \o <<g>>)
         /\ Queued(q \o <<g>>) = Queued(q) \cup Elements(g)
         /\ Chain(a, Queued(q \o <<g>>), {}, d, e, f)
<1>1. Before(Queued(q), Elements(g))
  BY DEF Chain, Before
<1>2. /\ q \o <<g>> \in Seq(Seq(Registered)) /\ GroupsInOrder(q \o <<g>>)
      /\ Queued(q \o <<g>>) = Queued(q) \cup Elements(g)
  BY <1>1, PutGroup
<1>3. Elements(g) \cup {} \subseteq Elements(g) /\ Before(Elements(g), {})
  BY BeforeEmpty
<1>4. Chain(a, Queued(q) \cup Elements(g), {}, d, e, f)
  BY <1>3, ChainMoves
<1>. QED BY <1>2, <1>4

(* What is in front of the writer and behind it is in order. *)
Feeds(q, g, a, d, e, f) == GroupsInOrder(q) /\ Chain(a, Queued(q), Elements(g), d, e, f)

(* The group goes to the queue, or stays. *)
Handed(x, g1, g) == (x = <<g>> /\ g1 = <<>>) \/ (x = <<>> /\ g1 = g)

LEMMA HandedFeeds ==
  ASSUME NEW q \in Seq(Seq(Registered)), NEW g \in Seq(Registered), NEW x, NEW g1,
         Handed(x, g1, g), NEW a, NEW d, NEW e, NEW f, Feeds(q, g, a, d, e, f)
  PROVE  Feeds(q \o x, g1, a, d, e, f)
<1>1. CASE x = <<g>> /\ g1 = <<>>
  <2>1. /\ GroupsInOrder(q \o <<g>>)
        /\ Chain(a, Queued(q \o <<g>>), {}, d, e, f)
    BY PushGroup DEF Feeds
  <2>2. Elements(g1) = {}
    BY <1>1, NoElements
  <2>. QED BY <1>1, <2>1, <2>2 DEF Feeds
<1>2. CASE x = <<>> /\ g1 = g
  <2>1. q \o x = q
    BY <1>2, ConcatEmptySeq
  <2>. QED BY <1>2, <2>1
<1>. QED BY <1>1, <1>2 DEF Handed

LEMMA HandedTogether ==
  ASSUME NEW q \in Seq(Seq(Registered)), NEW g \in Seq(Registered), NEW x, NEW g1,
         Handed(x, g1, g)
  PROVE  Together(q \o x, g1) = Together(q, g)
<1>1. CASE x = <<g>> /\ g1 = <<>>
  <2>1. Queued(q \o <<g>>) = Queued(q) \cup Elements(g)
    BY PutGroup
  <2>2. Elements(g1) = {}
    BY <1>1, NoElements
  <2>. QED BY <1>1, <2>1, <2>2 DEF Together
<1>2. CASE x = <<>> /\ g1 = g
  <2>1. q \o x = q
    BY <1>2, ConcatEmptySeq
  <2>. QED BY <1>2, <2>1
<1>. QED BY <1>1, <1>2 DEF Handed

LEMMA HandedTypes ==
  ASSUME NEW q \in Seq(Seq(Registered)), NEW g \in Seq(Registered), NEW x, NEW g1,
         Handed(x, g1, g)
  PROVE  x \in Seq(Seq(Registered)) /\ g1 \in Seq(Registered) /\ q \o x \in Seq(Seq(Registered))
<1>1. CASE x = <<g>> /\ g1 = <<>>
  BY <1>1, PutGroup
<1>2. CASE x = <<>> /\ g1 = g
  BY <1>2, ConcatEmptySeq
<1>. QED BY <1>1, <1>2 DEF Handed

-----------------------------------------------------------------------------
(* The events that worker w is writing, and those that are on their way to it. *)
InHand(w) == IF writer[w].phase = "write" THEN Elements(writer[w].group) ELSE {}

Own(w) ==
  InHand(w) \cup Queued(batchWriteQueue[w]) \cup Elements(currentGroup[w])
            \cup Elements(batchingQueue[w])

Shared == Elements(routed) \cup Elements(ingestQueue)

WorkerChain(w) ==
  Chain(InHand(w), Queued(batchWriteQueue[w]), Elements(currentGroup[w]),
        Elements(batchingQueue[w]), Elements(routed), Elements(ingestQueue))

(* The next sequence number that a reader will put in ingestQueue. *)
NextOut(s) == IF reader[s] = "push" THEN SeqToGive(s) - 1 ELSE SeqToGive(s)

(* Seen from each worker, the events of a stream are in its order. *)
ChainInv ==
  /\ InOrder(ingestQueue)
  /\ \A w \in 1 .. NumWorkers :
       /\ InOrder(batchingQueue[w])
       /\ GroupsInOrder(batchWriteQueue[w])
       /\ WorkerChain(w)

(* No event overtakes its reader, and none goes to the wrong worker. *)
PlaceInv ==
  \A w \in 1 .. NumWorkers :
    /\ \A e \in Own(w) : WorkerOf[DocOf(e)] = w
    /\ \A e \in Own(w) \cup Shared : e.seq < NextOut(e.stream)

(* What a step of the running pipeline may bring to the stages. *)
StagesMove ==
  /\ \A w \in 1 .. NumWorkers :
       Own(w)' \subseteq Own(w) \cup {x \in Elements(routed) : WorkerOf[DocOf(x)] = w}
  /\ Shared' \subseteq Shared \cup
       {Held(s) : s \in {t \in Streams : reader[t] = "push" /\ reader'[t] = "next"}}

LEMMA SameStages ==
  ASSUME ChainInv, UNCHANGED <<ingestQueue, routed, batchingQueue, currentGroup, batchWriteQueue>>,
         \A w \in 1 .. NumWorkers : InHand(w)' \subseteq InHand(w)
  PROVE  ChainInv' /\ StagesMove
<1>1. ASSUME NEW w \in 1 .. NumWorkers PROVE WorkerChain(w)'
  <2>1. WorkerChain(w) /\ InHand(w)' \subseteq InHand(w)
    BY DEF ChainInv
  <2>2. Chain(InHand(w)', Queued(batchWriteQueue[w]), Elements(currentGroup[w]),
              Elements(batchingQueue[w]), Elements(routed), Elements(ingestQueue))
    BY <2>1, ChainLoses DEF WorkerChain
  <2>. QED BY <2>2 DEF WorkerChain
<1>2. ChainInv'
  BY <1>1 DEF ChainInv
<1>. QED BY <1>2 DEF StagesMove, Own, Shared

LEMMA ReaderOrdered ==
  ASSUME HoldsRegistered, ChainInv, PlaceInv, NEW s \in Streams, ReaderNext(s) \/ StreamFails(s)
  PROVE  ChainInv' /\ StagesMove
<1>1. CASE Push(s)
  <2>1. /\ reader[s] = "push" /\ reader'[s] = "next"
        /\ ingestQueue' = Append(ingestQueue, Held(s))
        /\ UNCHANGED <<routed, batchingQueue, currentGroup, batchWriteQueue, writer>>
    BY <1>1 DEF Push, HoldsRegistered
  <2>2. /\ ingestQueue \in Seq(Registered) /\ Held(s) \in Registered
        /\ Held(s).stream = s /\ Held(s).seq = NextOut(s)
    BY <2>1, HeldRegistered DEF HoldsRegistered, NextOut, Held, Event
  <2>3. ASSUME NEW w \in 1 .. NumWorkers PROVE Before(Own(w) \cup Shared, {Held(s)})
    BY <2>2 DEF PlaceInv, Before
  <2>4. Before(Elements(ingestQueue), {Held(s)})
    <3>1. 1 \in 1 .. NumWorkers
      BY PipelineAssumption
    <3>2. Before(Own(1) \cup Shared, {Held(s)})
      BY <2>3, <3>1
    <3>. QED BY <3>2 DEF Shared, Before
  <2>5. /\ Elements(ingestQueue') = Elements(ingestQueue) \cup {Held(s)}
        /\ InOrder(ingestQueue')
    BY <2>1, <2>2, <2>4, PutLast DEF ChainInv
  <2>6. ASSUME NEW w \in 1 .. NumWorkers PROVE WorkerChain(w)'
    <3>1. Before(InHand(w) \cup Queued(batchWriteQueue[w]) \cup Elements(currentGroup[w])
                   \cup Elements(batchingQueue[w]) \cup Elements(routed), {Held(s)})
      BY <2>3 DEF Before, Own, Shared
    <3>2. WorkerChain(w)
      BY DEF ChainInv
    <3>3. Chain(InHand(w), Queued(batchWriteQueue[w]), Elements(currentGroup[w]),
                Elements(batchingQueue[w]), Elements(routed),
                Elements(ingestQueue) \cup {Held(s)})
      BY <3>1, <3>2, ChainGrows DEF WorkerChain
    <3>. QED BY <2>1, <2>5, <3>3 DEF WorkerChain, InHand
  <2>7. ChainInv'
    BY <2>1, <2>5, <2>6 DEF ChainInv
  <2>8. Shared' \subseteq Shared \cup {Held(s)}
    BY <2>1, <2>5 DEF Shared
  <2>. QED BY <2>1, <2>7, <2>8 DEF StagesMove, Own, InHand
<1>2. CASE Read(s) \/ ReaderQuits(s) \/ StreamFails(s)
  <2>1. UNCHANGED <<ingestQueue, routed, batchingQueue, currentGroup, batchWriteQueue, writer>>
    BY <1>2 DEF Read, ReaderQuits, StreamFails
  <2>. QED BY <2>1, SameStages DEF InHand
<1>. QED BY <1>1, <1>2 DEF ReaderNext

LEMMA RouterOrdered ==
  ASSUME TrackerTypeOK, WithinStream, HoldsRegistered, SizeInv, ChainInv, RouterNext
  PROVE  ChainInv' /\ StagesMove
<1>0. ingestQueue \in Seq(Registered) /\ routed \in Seq(Registered)
  BY DEF HoldsRegistered
<1>1. CASE RouterReceives
  <2>1. /\ router = "select" /\ ingestQueue # <<>> /\ ingestQueue' = Tail(ingestQueue)
        /\ routed' = routed \/ routed' = <<Head(ingestQueue)>>
        /\ UNCHANGED <<batchingQueue, currentGroup, batchWriteQueue, writer>>
    BY <1>1 DEF RouterReceives
  <2>2. routed = <<>> /\ Elements(routed) = {}
    BY <2>1, NoElements DEF SizeInv
  <2>3. /\ Elements(ingestQueue) = {Head(ingestQueue)} \cup Elements(ingestQueue')
        /\ InOrder(ingestQueue')
        /\ Before({Head(ingestQueue)}, Elements(ingestQueue'))
    BY <1>0, <2>1, TakeFirst DEF ChainInv
  <2>4. Elements(routed') \subseteq {Head(ingestQueue)}
    <3>1. Elements(<<Head(ingestQueue)>>) = {Head(ingestQueue)}
      BY DEF Elements
    <3>. QED BY <2>1, <2>2, <3>1
  <2>5. ASSUME NEW w \in 1 .. NumWorkers PROVE WorkerChain(w)'
    <3>1. WorkerChain(w)
      BY DEF ChainInv
    <3>2. Chain(InHand(w), Queued(batchWriteQueue[w]), Elements(currentGroup[w]),
                Elements(batchingQueue[w]), Elements(routed) \cup {Head(ingestQueue)},
                Elements(ingestQueue'))
      BY <2>3, <3>1, ChainMoves DEF WorkerChain
    <3>3. Chain(InHand(w), Queued(batchWriteQueue[w]), Elements(currentGroup[w]),
                Elements(batchingQueue[w]), Elements(routed'), Elements(ingestQueue'))
      <4>1. Elements(routed') \subseteq Elements(routed) \cup {Head(ingestQueue)}
        BY <2>4
      <4>. QED BY <3>2, <4>1, ChainLoses
    <3>. QED BY <2>1, <3>3 DEF WorkerChain, InHand
  <2>6. ChainInv'
    BY <2>1, <2>3, <2>5 DEF ChainInv
  <2>7. Shared' \subseteq Shared
    BY <2>2, <2>3, <2>4 DEF Shared
  <2>. QED BY <2>1, <2>6, <2>7 DEF StagesMove, Own, InHand
<1>2. CASE RouterPushes
  <2>0. PICK x \in Registered : x = routed[1] /\ Elements(routed) = {x}
    <3>1. routed # <<>> /\ Len(routed) <= 1 /\ Len(routed) \in Nat
      BY <1>0, <1>2 DEF RouterPushes, HoldsRegistered, SizeInv
    <3>2. Len(routed) = 1
      <4>1. Len(routed) # 0
        BY <1>0, <3>1
      <4>. QED BY <3>1, <4>1
    <3>3. Elements(routed) = {routed[i] : i \in 1 .. 1}
      BY <1>0, <3>2, ElementsIn
    <3>4. routed[1] \in Registered
      <4>1. 1 \in 1 .. Len(routed)
        BY <3>2
      <4>. QED BY <1>0, <4>1, ElementOfSeq
    <3>5. \A i \in 1 .. 1 : i = 1
      OBVIOUS
    <3>. QED BY <3>3, <3>4, <3>5
  <2>1. PICK w : w = WorkerOf[DocOf(x)]
    OBVIOUS
  <2>2. /\ batchingQueue' = [batchingQueue EXCEPT ![w] = Append(@, x)]
        /\ routed' = <<>>
        /\ UNCHANGED <<ingestQueue, currentGroup, batchWriteQueue, writer>>
    BY <1>2, <2>0, <2>1 DEF RouterPushes
  <2>3. w \in 1 .. NumWorkers
    <3>1. x.stream \in Streams /\ Position(x) \in 1 .. MaxPosition
      BY RegisteredInStream DEF InStream
    <3>2. DocOf(x) \in Docs
      <4>1. Source[x.stream] \in [1 .. MaxPosition -> [doc : Docs, opType : OpTypes]]
        BY <3>1, PipelineAssumption
      <4>2. Source[x.stream][Position(x)] \in [doc : Docs, opType : OpTypes]
        BY <3>1, <4>1
      <4>. QED BY <4>2 DEF DocOf, Change
    <3>. QED BY <2>1, <3>2, PipelineAssumption DEF Workers
  <2>4. /\ batchingQueue'[w] = Append(batchingQueue[w], x)
        /\ \A v \in 1 .. NumWorkers : v # w => batchingQueue'[v] = batchingQueue[v]
        /\ batchingQueue[w] \in Seq(Registered)
    BY <2>2, <2>3 DEF HoldsRegistered
  <2>5. Elements(routed') = {}
    BY <2>2, NoElements
  <2>6. /\ Elements(batchingQueue'[w]) = Elements(batchingQueue[w]) \cup {x}
        /\ InOrder(batchingQueue'[w])
    <3>1. InOrder(batchingQueue[w]) /\ Before(Elements(batchingQueue[w]), {x})
      BY <2>0, <2>3 DEF ChainInv, WorkerChain, Chain, Before
    <3>. QED BY <2>4, <3>1, PutLast
  <2>7. WorkerChain(w)'
    <3>1. WorkerChain(w)
      BY <2>3 DEF ChainInv
    <3>2. {x} \cup {} \subseteq Elements(routed) /\ Before({x}, {})
      BY <2>0, BeforeEmpty
    <3>3. Chain(InHand(w), Queued(batchWriteQueue[w]), Elements(currentGroup[w]),
                Elements(batchingQueue[w]) \cup {x}, {}, Elements(ingestQueue))
      BY <3>1, <3>2, ChainMoves DEF WorkerChain
    <3>. QED BY <2>2, <2>5, <2>6, <3>3 DEF WorkerChain, InHand
  <2>8. ASSUME NEW v \in 1 .. NumWorkers, v # w PROVE WorkerChain(v)'
    <3>1. WorkerChain(v) /\ {} \subseteq Elements(routed)
      BY DEF ChainInv
    <3>2. Chain(InHand(v), Queued(batchWriteQueue[v]), Elements(currentGroup[v]),
                Elements(batchingQueue[v]), {}, Elements(ingestQueue))
      BY <3>1, ChainLoses DEF WorkerChain
    <3>. QED BY <2>2, <2>4, <2>5, <2>8, <3>2 DEF WorkerChain, InHand
  <2>9. ChainInv'
    BY <2>2, <2>4, <2>6, <2>7, <2>8 DEF ChainInv
  <2>10. ASSUME NEW v \in 1 .. NumWorkers
         PROVE  Own(v)' \subseteq Own(v) \cup {y \in Elements(routed) : WorkerOf[DocOf(y)] = v}
    <3>1. CASE v = w
      BY <2>0, <2>1, <2>2, <2>6, <3>1 DEF Own, InHand
    <3>2. CASE v # w
      BY <2>2, <2>4, <3>2 DEF Own, InHand
    <3>. QED BY <3>1, <3>2
  <2>11. Shared' \subseteq Shared
    BY <2>2, <2>5 DEF Shared
  <2>. QED BY <2>9, <2>10, <2>11 DEF StagesMove
<1>3. CASE RouterQuits \/ RouterDone
  <2>1. /\ routed' = <<>>  \/ routed' = routed
        /\ UNCHANGED <<ingestQueue, batchingQueue, currentGroup, batchWriteQueue, writer>>
    BY <1>3 DEF RouterQuits, RouterDone
  <2>2. Elements(routed') \subseteq Elements(routed)
    BY <2>1, NoElements
  <2>3. ASSUME NEW w \in 1 .. NumWorkers PROVE WorkerChain(w)'
    <3>1. WorkerChain(w)
      BY DEF ChainInv
    <3>2. Chain(InHand(w), Queued(batchWriteQueue[w]), Elements(currentGroup[w]),
                Elements(batchingQueue[w]), Elements(routed'), Elements(ingestQueue))
      BY <2>2, <3>1, ChainLoses DEF WorkerChain
    <3>. QED BY <2>1, <3>2 DEF WorkerChain, InHand
  <2>4. ChainInv'
    BY <2>1, <2>3 DEF ChainInv
  <2>. QED BY <2>1, <2>2, <2>4 DEF StagesMove, Own, Shared, InHand
<1>. QED BY <1>1, <1>2, <1>3 DEF RouterNext

LEMMA EventLoopOrdered ==
  ASSUME HoldsRegistered, ChainInv, NEW w \in 1 .. NumWorkers, EventLoopNext(w)
  PROVE  ChainInv' /\ StagesMove
<1>0. /\ batchingQueue \in [1 .. NumWorkers -> Seq(Registered)]
      /\ currentGroup \in [1 .. NumWorkers -> Seq(Registered)]
      /\ batchWriteQueue \in [1 .. NumWorkers -> Seq(Seq(Registered))]
  <2>1. Seq(Groups) \subseteq Seq(Seq(Registered))
    BY DEF Groups
  <2>. QED BY <2>1 DEF HoldsRegistered
<1>1. UNCHANGED <<ingestQueue, routed, writer>>
  BY DEF EventLoopNext, ProcessEvent, FlushTick, EventLoopExits
<1>2. \A v \in 1 .. NumWorkers : v # w => /\ batchingQueue'[v] = batchingQueue[v]
                                         /\ currentGroup'[v] = currentGroup[v]
                                         /\ batchWriteQueue'[v] = batchWriteQueue[v]
  BY <1>0 DEF EventLoopNext, ProcessEvent, FlushTick, EventLoopExits, flushCurrentGroup
<1>3. /\ WorkerChain(w) /\ InOrder(batchingQueue[w]) /\ GroupsInOrder(batchWriteQueue[w])
      /\ InHand(w)' = InHand(w)
  BY <1>1 DEF ChainInv, InHand
<1>4. ASSUME Chain(InHand(w), Queued(batchWriteQueue'[w]), Elements(currentGroup'[w]),
                   Elements(batchingQueue'[w]), Elements(routed), Elements(ingestQueue)),
             InOrder(batchingQueue'[w]), GroupsInOrder(batchWriteQueue'[w]),
             Queued(batchWriteQueue'[w]) \cup Elements(currentGroup'[w])
               \cup Elements(batchingQueue'[w])
               \subseteq Queued(batchWriteQueue[w]) \cup Elements(currentGroup[w])
                           \cup Elements(batchingQueue[w])
      PROVE  ChainInv' /\ StagesMove
  <2>1. ASSUME NEW v \in 1 .. NumWorkers
        PROVE  InOrder(batchingQueue'[v]) /\ GroupsInOrder(batchWriteQueue'[v]) /\ WorkerChain(v)'
    <3>1. CASE v = w
      BY <1>1, <1>3, <1>4, <3>1 DEF WorkerChain
    <3>2. CASE v # w
      BY <1>1, <1>2, <3>2 DEF ChainInv, WorkerChain, InHand
    <3>. QED BY <3>1, <3>2
  <2>2. ASSUME NEW v \in 1 .. NumWorkers PROVE Own(v)' \subseteq Own(v)
    <3>1. CASE v = w
      BY <1>3, <1>4, <3>1 DEF Own
    <3>2. CASE v # w
      BY <1>1, <1>2, <3>2 DEF Own, InHand
    <3>. QED BY <3>1, <3>2
  <2>. QED BY <1>1, <2>1, <2>2 DEF ChainInv, StagesMove, Shared
<1>5. CASE ProcessEvent(w)
  <2>1. /\ batchingQueue[w] \in Seq(Registered) /\ batchingQueue[w] # <<>>
        /\ batchingQueue'[w] = Tail(batchingQueue[w])
    BY <1>0, <1>5 DEF ProcessEvent
  <2>2. PICK e \in Registered :
          /\ e = Head(batchingQueue[w])
          /\ Elements(batchingQueue[w]) = {e} \cup Elements(batchingQueue'[w])
          /\ InOrder(batchingQueue'[w])
          /\ Before({e}, Elements(batchingQueue'[w]))
    BY <1>3, <2>1, TakeFirst
  <2>3. CASE UNCHANGED <<currentGroup, batchWriteQueue>>
    <3>1. Elements(batchingQueue'[w]) \subseteq Elements(batchingQueue[w])
      BY <2>2
    <3>2. Chain(InHand(w), Queued(batchWriteQueue[w]), Elements(currentGroup[w]),
                Elements(batchingQueue'[w]), Elements(routed), Elements(ingestQueue))
      BY <1>3, <3>1, ChainLoses DEF WorkerChain
    <3>. QED BY <1>3, <1>4, <2>2, <2>3, <3>1, <3>2
  <2>4. ASSUME ~ UNCHANGED <<currentGroup, batchWriteQueue>> PROVE ChainInv' /\ StagesMove
    <3>. DEFINE new == NeedNewGroup(currentGroup[w], e)
                group == IF new THEN <<e>> ELSE Append(currentGroup[w], e)
                full == Len(group) >= BatchSize
                first == IF new THEN <<currentGroup[w]>> ELSE <<>>
                second == IF full THEN <<group>> ELSE <<>>
                rest == IF new THEN <<>> ELSE currentGroup[w]
    <3>1. /\ batchWriteQueue' = [batchWriteQueue EXCEPT ![w] = @ \o (first \o second)]
          /\ currentGroup' = [currentGroup EXCEPT ![w] = IF full THEN <<>> ELSE group]
      BY <1>5, <2>2, <2>4 DEF ProcessEvent
    <3>2. Handed(first, rest, currentGroup[w])
      BY DEF Handed
    <3>3. group = Append(rest, e)
      <4>1. <<e>> = Append(<<>>, e)
        OBVIOUS
      <4>. QED BY <4>1
    <3>. HIDE DEF new, first, rest
    <3>4. Handed(second, currentGroup'[w], group)
      BY <1>0, <3>1 DEF Handed
    <3>. HIDE DEF group, full, second
    <3>5. batchWriteQueue'[w] = batchWriteQueue[w] \o (first \o second)
      BY <1>0, <3>1
    <3>6. batchWriteQueue[w] \in Seq(Seq(Registered)) /\ currentGroup[w] \in Seq(Registered)
      BY <1>0
    <3>7. Feeds(batchWriteQueue[w], currentGroup[w], InHand(w), Elements(batchingQueue[w]),
                Elements(routed), Elements(ingestQueue))
      BY <1>3 DEF WorkerChain, Feeds
    <3>8. /\ first \in Seq(Seq(Registered)) /\ rest \in Seq(Registered)
          /\ batchWriteQueue[w] \o first \in Seq(Seq(Registered))
      BY <3>2, <3>6, HandedTypes
    <3>9. Feeds(batchWriteQueue[w] \o first, rest, InHand(w), Elements(batchingQueue[w]),
                Elements(routed), Elements(ingestQueue))
      BY <3>2, <3>6, <3>7, HandedFeeds
    <3>10. group \in Seq(Registered) /\ Elements(group) = Elements(rest) \cup {e}
      <4>1. rest \in Seq(Registered)
        BY <3>8
      <4>2. Append(rest, e) \in Seq(Registered) /\ Elements(Append(rest, e)) = Elements(rest) \cup {e}
        BY <4>1, PutLast
      <4>. QED BY <3>3, <4>2
    <3>11. Feeds(batchWriteQueue[w] \o first, group, InHand(w), Elements(batchingQueue'[w]),
                 Elements(routed), Elements(ingestQueue))
      <4>1. {e} \cup Elements(batchingQueue'[w]) \subseteq Elements(batchingQueue[w])
        BY <2>2
      <4>2. Chain(InHand(w), Queued(batchWriteQueue[w] \o first), Elements(rest) \cup {e},
                  Elements(batchingQueue'[w]), Elements(routed), Elements(ingestQueue))
        BY <2>2, <3>9, <4>1, ChainMoves DEF Feeds
      <4>. QED BY <3>9, <3>10, <4>2 DEF Feeds
    <3>12. PICK q1 \in Seq(Seq(Registered)) : q1 = batchWriteQueue[w] \o first
      BY <3>8
    <3>13. Feeds(q1 \o second, currentGroup'[w], InHand(w), Elements(batchingQueue'[w]),
                 Elements(routed), Elements(ingestQueue))
      BY <3>4, <3>10, <3>11, <3>12, HandedFeeds
    <3>14. /\ Together(q1, rest) = Together(batchWriteQueue[w], currentGroup[w])
           /\ Together(q1 \o second, currentGroup'[w]) = Together(q1, group)
      <4>1. Together(batchWriteQueue[w] \o first, rest) = Together(batchWriteQueue[w], currentGroup[w])
        BY <3>2, <3>6, HandedTogether
      <4>2. Together(q1 \o second, currentGroup'[w]) = Together(q1, group)
        BY <3>4, <3>10, HandedTogether
      <4>. QED BY <3>12, <4>1, <4>2
    <3>15. batchWriteQueue'[w] = q1 \o second
      <4>0. PICK S : S = Seq(Registered)
        OBVIOUS
      <4>1. PICK q \in Seq(S) : q = batchWriteQueue[w]
        BY <3>6, <4>0
      <4>2. PICK x \in Seq(S) : x = first
        BY <3>8, <4>0
      <4>3. PICK y \in Seq(S) : y = second
        BY <3>4, <3>10, <3>12, <4>0, HandedTypes
      <4>4. (q \o x) \o y = q \o (x \o y)
        BY ConcatAssociative
      <4>. QED BY <3>5, <3>12, <4>1, <4>2, <4>3, <4>4
    <3>16. Queued(batchWriteQueue'[w]) \cup Elements(currentGroup'[w])
             = Queued(batchWriteQueue[w]) \cup Elements(currentGroup[w]) \cup {e}
      BY <3>10, <3>14, <3>15 DEF Together
    <3>. QED BY <1>4, <2>2, <3>13, <3>15, <3>16 DEF Feeds
  <2>. QED BY <2>3, <2>4
<1>6. CASE FlushTick(w) \/ EventLoopExits(w)
  <2>1. batchingQueue' = batchingQueue /\ flushCurrentGroup(w)
    BY <1>6 DEF FlushTick, EventLoopExits
  <2>2. PICK pushed :
          /\ Handed(pushed, currentGroup'[w], currentGroup[w])
          /\ batchWriteQueue'[w] = batchWriteQueue[w] \o pushed
    <3>1. CASE currentGroup[w] = <<>>
      BY <1>0, <2>1, <3>1 DEF flushCurrentGroup, Handed
    <3>2. CASE currentGroup[w] # <<>>
      BY <1>0, <2>1, <3>2 DEF flushCurrentGroup, Handed
    <3>. QED BY <3>1, <3>2
  <2>3. batchWriteQueue[w] \in Seq(Seq(Registered)) /\ currentGroup[w] \in Seq(Registered)
    BY <1>0
  <2>4. Feeds(batchWriteQueue[w], currentGroup[w], InHand(w), Elements(batchingQueue[w]),
              Elements(routed), Elements(ingestQueue))
    BY <1>3 DEF WorkerChain, Feeds
  <2>5. Feeds(batchWriteQueue'[w], currentGroup'[w], InHand(w), Elements(batchingQueue[w]),
              Elements(routed), Elements(ingestQueue))
    BY <2>2, <2>3, <2>4, HandedFeeds
  <2>6. Together(batchWriteQueue'[w], currentGroup'[w]) = Together(batchWriteQueue[w], currentGroup[w])
    BY <2>2, <2>3, HandedTogether
  <2>. QED BY <1>3, <1>4, <2>1, <2>5, <2>6 DEF Together, Feeds
<1>. QED BY <1>5, <1>6 DEF EventLoopNext

LEMMA WriterOrdered ==
  ASSUME HoldsRegistered, ChainInv, NEW w \in 1 .. NumWorkers, WriterNext(w)
  PROVE  ChainInv' /\ StagesMove
<1>0. /\ batchWriteQueue \in [1 .. NumWorkers -> Seq(Groups)]
      /\ writer \in [1 .. NumWorkers -> WriterStates]
  BY DEF HoldsRegistered
<1>1. CASE StartWrite(w)
  <2>1. /\ batchWriteQueue[w] \in Seq(Groups) /\ batchWriteQueue[w] # <<>>
        /\ batchWriteQueue' = [batchWriteQueue EXCEPT ![w] = Tail(@)]
        /\ writer[w].phase = "receive"
        /\ writer' = [writer EXCEPT ![w] =
             [phase |-> "write", group |-> Head(batchWriteQueue[w]), graceful |-> cancelled]]
        /\ UNCHANGED <<ingestQueue, routed, batchingQueue, currentGroup>>
    BY <1>0, <1>1 DEF StartWrite
  <2>2. /\ batchWriteQueue'[w] = Tail(batchWriteQueue[w])
        /\ writer'[w].phase = "write" /\ writer'[w].group = Head(batchWriteQueue[w])
        /\ \A v \in 1 .. NumWorkers : v # w => /\ batchWriteQueue'[v] = batchWriteQueue[v]
                                              /\ writer'[v] = writer[v]
    BY <1>0, <2>1
  <2>3. InHand(w) = {} /\ InHand(w)' = Elements(Head(batchWriteQueue[w]))
    BY <2>1, <2>2 DEF InHand
  <2>4. /\ WorkerChain(w) /\ GroupsInOrder(batchWriteQueue[w])
        /\ \A v \in 1 .. NumWorkers : WorkerChain(v) /\ GroupsInOrder(batchWriteQueue[v])
    BY DEF ChainInv
  <2>5. /\ Queued(batchWriteQueue[w]) = Elements(Head(batchWriteQueue[w])) \cup Queued(batchWriteQueue'[w])
        /\ GroupsInOrder(batchWriteQueue'[w])
        /\ Before(Elements(Head(batchWriteQueue[w])), Queued(batchWriteQueue'[w]))
    BY <2>1, <2>2, <2>4, TakeGroup
  <2>6. WorkerChain(w)'
    <3>1. Chain(InHand(w) \cup Elements(Head(batchWriteQueue[w])), Queued(batchWriteQueue'[w]),
                Elements(currentGroup[w]), Elements(batchingQueue[w]), Elements(routed),
                Elements(ingestQueue))
      BY <2>4, <2>5, ChainMoves DEF WorkerChain
    <3>2. InHand(w) \cup Elements(Head(batchWriteQueue[w])) = InHand(w)'
      BY <2>3
    <3>. QED BY <2>1, <3>1, <3>2 DEF WorkerChain
  <2>7. ASSUME NEW v \in 1 .. NumWorkers
        PROVE  GroupsInOrder(batchWriteQueue'[v]) /\ WorkerChain(v)' /\ Own(v)' \subseteq Own(v)
    <3>1. CASE v = w
      BY <2>1, <2>3, <2>5, <2>6, <3>1 DEF Own
    <3>2. CASE v # w
      BY <2>1, <2>2, <2>4, <3>2 DEF WorkerChain, InHand, Own
    <3>. QED BY <3>1, <3>2
  <2>. QED BY <2>1, <2>7 DEF ChainInv, StagesMove, Shared
<1>2. CASE EndWrite(w) \/ WriterExits(w) \/ AckOperation(w)
  <2>1. UNCHANGED <<ingestQueue, routed, batchingQueue, currentGroup, batchWriteQueue>>
    BY <1>2 DEF EndWrite, WriterExits, AckOperation
  <2>2. InHand(w)' = {}
    <3>1. writer'[w].phase # "write"
      <4>1. CASE EndWrite(w) \/ WriterExits(w)
        <5>1. PICK p \in {"ack", "exited"} : writer' = [writer EXCEPT ![w] = [writer[w] EXCEPT !.phase = p]]
          BY <4>1 DEF EndWrite, WriterExits
        <5>2. writer'[w] = [writer[w] EXCEPT !.phase = p] /\ writer[w] \in WriterStates
          BY <1>0, <5>1
        <5>3. writer'[w].phase = p
          BY <5>2 DEF WriterStates
        <5>. QED BY <5>3
      <4>2. CASE AckOperation(w)
        <5>1. PICK rest : writer' = [writer EXCEPT ![w] =
                            IF rest = <<>> THEN WriterIdle ELSE [writer[w] EXCEPT !.group = rest]]
          BY <4>2 DEF AckOperation
        <5>2. /\ writer'[w] = IF rest = <<>> THEN WriterIdle ELSE [writer[w] EXCEPT !.group = rest]
              /\ writer[w] \in WriterStates /\ writer[w].phase = "ack"
          BY <1>0, <4>2, <5>1 DEF AckOperation
        <5>3. [writer[w] EXCEPT !.group = rest].phase = "ack"
          BY <5>2 DEF WriterStates
        <5>4. WriterIdle.phase = "receive"
          BY DEF WriterIdle
        <5>. QED BY <5>2, <5>3, <5>4
      <4>. QED BY <1>2, <4>1, <4>2
    <3>. QED BY <3>1 DEF InHand
  <2>3. \A v \in 1 .. NumWorkers : v # w => writer'[v] = writer[v]
    BY <1>0, <1>2 DEF EndWrite, WriterExits, AckOperation
  <2>4. \A v \in 1 .. NumWorkers : InHand(v)' \subseteq InHand(v)
    BY <2>2, <2>3 DEF InHand
  <2>. QED BY <2>1, <2>4, SameStages
<1>. QED BY <1>1, <1>2 DEF WriterNext

LEMMA StagesOrdered ==
  ASSUME TrackerTypeOK, WithinStream, HoldsRegistered, SizeInv, ChainInv, PlaceInv,
         [Next]_vars, ~ Restart
  PROVE  ChainInv' /\ StagesMove
<1>1. CASE MainNext \/ TrackerTicks \/ Cancel \/ UNCHANGED vars
  <2>1. UNCHANGED <<ingestQueue, routed, batchingQueue, currentGroup, batchWriteQueue, writer>>
    BY <1>1 DEF MainNext, Shutdown, CloseTracker, TrackerTicks, Cancel, vars, stages
  <2>. QED BY <2>1, SameStages DEF InHand
<1>. QED
  BY <1>1, ReaderOrdered, RouterOrdered, EventLoopOrdered, WriterOrdered DEF Next, Workers

(* A pipeline that starts holds nothing. *)
LEMMA FreshOrdered ==
  ASSUME FreshStages PROVE ChainInv /\ \A w \in 1 .. NumWorkers : Own(w) \cup Shared = {}
<1>1. \A w \in 1 .. NumWorkers :
        /\ InHand(w) = {} /\ Queued(batchWriteQueue[w]) = {} /\ Elements(currentGroup[w]) = {}
        /\ Elements(batchingQueue[w]) = {} /\ Elements(routed) = {} /\ Elements(ingestQueue) = {}
  BY NoElements DEF FreshStages, Workers, InHand, WriterIdle
<1>2. Chain({}, {}, {}, {}, {}, {})
  BY DEF Chain, Before
<1>. QED BY <1>1, <1>2, NoElements DEF ChainInv, WorkerChain, FreshStages, Workers, Own, Shared

(* All of them are registered. *)
LEMMA StagesRegistered ==
  ASSUME HoldsRegistered, NEW w \in 1 .. NumWorkers
  PROVE  Own(w) \cup Shared \subseteq Registered
<1>1. /\ batchingQueue[w] \in Seq(Registered) /\ currentGroup[w] \in Seq(Registered)
      /\ batchWriteQueue[w] \in Seq(Groups) /\ writer[w] \in WriterStates
      /\ ingestQueue \in Seq(Registered) /\ routed \in Seq(Registered)
  BY DEF HoldsRegistered
<1>2. writer[w].group \in Seq(Registered)
  BY <1>1 DEF WriterStates
<1>3. /\ Elements(writer[w].group) \subseteq Registered
      /\ Elements(batchingQueue[w]) \subseteq Registered
      /\ Elements(currentGroup[w]) \subseteq Registered
      /\ Elements(ingestQueue) \subseteq Registered /\ Elements(routed) \subseteq Registered
  BY <1>1, <1>2, ElementsIn
<1>4. Queued(batchWriteQueue[w]) \subseteq Registered
  <2>1. ASSUME NEW i \in 1 .. Len(batchWriteQueue[w])
        PROVE  Elements(batchWriteQueue[w][i]) \subseteq Registered
    <3>1. batchWriteQueue[w][i] \in Groups
      BY <1>1, ElementOfSeq
    <3>2. batchWriteQueue[w][i] \in Seq(Registered)
      BY <3>1 DEF Groups
    <3>. QED BY <3>2, ElementsIn
  <2>. QED BY <2>1 DEF Queued
<1>. QED BY <1>3, <1>4 DEF Own, Shared, InHand

(* What is registered speaks of the documents, and each document has one stream. *)
LEMMA OneStreamPerDocument ==
  ASSUME TrackerTypeOK, WithinStream, NEW e \in Registered
  PROVE  /\ DocOf(e) \in Docs
         /\ \A s \in Streams : \A p \in InStream : Source[s][p].doc = DocOf(e) => s = e.stream
         /\ \A f \in Registered : DocOf(f) = DocOf(e) => f.stream = e.stream
<1>1. \A f \in Registered : f.stream \in Streams /\ Position(f) \in 1 .. MaxPosition
  BY RegisteredInStream DEF InStream
<1>2. DocOf(e) \in Docs
  <2>1. Source[e.stream] \in [1 .. MaxPosition -> [doc : Docs, opType : OpTypes]]
    BY <1>1, PipelineAssumption
  <2>2. Source[e.stream][Position(e)] \in [doc : Docs, opType : OpTypes]
    BY <1>1, <2>1
  <2>. QED BY <2>2 DEF DocOf, Change
<1>3. \A s \in Streams : \A p \in 1 .. MaxPosition :
        Source[s][p].doc = Source[e.stream][Position(e)].doc => s = e.stream
  BY <1>1, PipelineAssumption
<1>. QED BY <1>1, <1>2, <1>3 DEF DocOf, Change, InStream

(* Within a run the readers only go forward. *)
LEMMA ReadersAdvance ==
  ASSUME HoldsRegistered, [Next]_vars, ~ Restart
  PROVE  /\ resumedAt' = resumedAt
         /\ \A s \in Streams : /\ NextOut(s) \in Nat /\ NextOut(s)' \in Nat
                               /\ NextOut(s) <= NextOut(s)'
                               /\ reader[s] = "push" /\ reader'[s] = "next"
                                    => /\ Held(s).stream = s /\ Held(s).seq = NextOut(s)
                                       /\ NextOut(s) < NextOut(s)'
<1>0. /\ nextSeqNum \in [Streams -> Nat] /\ reader \in [Streams -> {"next", "push", "done"}]
      /\ \A s \in Streams : /\ SeqToGive(s) \in Nat
                            /\ reader[s] = "push" => SeqToGive(s) > 1
                            /\ Held(s).stream = s
                            /\ reader[s] = "push" => Held(s).seq = NextOut(s)
  BY DEF HoldsRegistered, SeqToGive, Held, Event, NextOut
<1>1. \A s \in Streams : NextOut(s) \in Nat
  BY <1>0 DEF NextOut
<1>2. ASSUME UNCHANGED <<nextSeqNum, resumedAt>>,
             \A s \in Streams : reader'[s] = reader[s] \/ (reader[s] = "push" /\ reader'[s] # "push")
                                  \/ (reader[s] # "push" /\ reader'[s] # "push")
      PROVE  /\ resumedAt' = resumedAt
             /\ \A s \in Streams : /\ NextOut(s) \in Nat /\ NextOut(s)' \in Nat
                                   /\ NextOut(s) <= NextOut(s)'
                                   /\ reader[s] = "push" /\ reader'[s] = "next"
                                        => /\ Held(s).stream = s /\ Held(s).seq = NextOut(s)
                                           /\ NextOut(s) < NextOut(s)'
  <2>1. ASSUME NEW s \in Streams
        PROVE  /\ NextOut(s)' = IF reader'[s] = "push" THEN SeqToGive(s) - 1 ELSE SeqToGive(s)
               /\ NextOut(s)  = IF reader[s] = "push" THEN SeqToGive(s) - 1 ELSE SeqToGive(s)
    BY <1>2 DEF NextOut, SeqToGive
  <2>2. ASSUME NEW s \in Streams
        PROVE  /\ NextOut(s)' \in Nat /\ NextOut(s) <= NextOut(s)'
               /\ reader[s] = "push" /\ reader'[s] = "next" => NextOut(s) < NextOut(s)'
    <3>1. SeqToGive(s) \in Nat /\ (reader[s] = "push" => SeqToGive(s) > 1)
      BY <1>0
    <3>. QED BY <1>2, <2>1, <3>1
  <2>. QED BY <1>0, <1>1, <1>2, <2>2
<1>3. ASSUME NEW s \in Streams, Read(s)
      PROVE  /\ resumedAt' = resumedAt
             /\ \A t \in Streams : /\ NextOut(t)' = NextOut(t)
                                   /\ ~ (reader[t] = "push" /\ reader'[t] = "next")
  <2>1. /\ reader[s] = "next" /\ reader' = [reader EXCEPT ![s] = "push"]
        /\ nextSeqNum' = [nextSeqNum EXCEPT ![s] = SeqToGive(s) + 1]
        /\ resumedAt' = resumedAt
    BY <1>3 DEF Read, Register
  <2>2. ASSUME NEW t \in Streams, t # s
        PROVE  NextOut(t)' = NextOut(t) /\ ~ (reader[t] = "push" /\ reader'[t] = "next")
    <3>1. nextSeqNum'[t] = nextSeqNum[t] /\ reader'[t] = reader[t]
      BY <1>0, <2>1, <2>2
    <3>. QED BY <3>1 DEF NextOut, SeqToGive
  <2>3. NextOut(s)' = NextOut(s) /\ ~ (reader[s] = "push" /\ reader'[s] = "next")
    <3>1. nextSeqNum'[s] = SeqToGive(s) + 1 /\ reader'[s] = "push"
      BY <1>0, <2>1
    <3>2. SeqToGive(s)' = SeqToGive(s) + 1
      <4>1. SeqToGive(s) \in Nat
        BY <1>0
      <4>2. nextSeqNum'[s] # 0
        BY <3>1, <4>1
      <4>. QED BY <3>1, <4>2 DEF SeqToGive
    <3>3. NextOut(s)' = SeqToGive(s)' - 1 /\ NextOut(s) = SeqToGive(s)
      BY <2>1, <3>1 DEF NextOut
    <3>. QED BY <1>0, <2>1, <3>2, <3>3
  <2>. QED BY <2>1, <2>2, <2>3
<1>4. ASSUME NEW s \in Streams, Push(s) \/ ReaderQuits(s) \/ StreamFails(s)
      PROVE  /\ UNCHANGED <<nextSeqNum, resumedAt>>
             /\ \A t \in Streams : reader'[t] = reader[t] \/ (reader[t] = "push" /\ reader'[t] # "push")
                                  \/ (reader[t] # "push" /\ reader'[t] # "push")
  <2>1. UNCHANGED <<nextSeqNum, resumedAt>>
    BY <1>4 DEF Push, ReaderQuits, StreamFails, Ack, trackerVars, memory
  <2>2. reader' = [reader EXCEPT ![s] = "next"] \/ reader' = [reader EXCEPT ![s] = "done"]
    BY <1>4 DEF Push, ReaderQuits, StreamFails
  <2>. QED BY <1>0, <2>1, <2>2
<1>5. ASSUME RouterNext \/ MainNext \/ TrackerTicks \/ Cancel \/ UNCHANGED vars
               \/ \E w \in Workers : EventLoopNext(w) \/ WriterNext(w)
      PROVE  UNCHANGED <<nextSeqNum, resumedAt, reader>>
  <2>1. CASE RouterNext
    BY <2>1 DEF RouterNext, RouterReceives, RouterPushes, RouterQuits, RouterDone, Ack,
                trackerVars, memory
  <2>2. ASSUME NEW w \in Workers, EventLoopNext(w)
        PROVE  UNCHANGED <<nextSeqNum, resumedAt, reader>>
    BY <2>2 DEF EventLoopNext, ProcessEvent, FlushTick, EventLoopExits, Ack, trackerVars, memory
  <2>3. ASSUME NEW w \in Workers, WriterNext(w)
        PROVE  UNCHANGED <<nextSeqNum, resumedAt, reader>>
    BY <2>3 DEF WriterNext, StartWrite, EndWrite, AckOperation, WriterExits, Ack, trackerVars, memory
  <2>4. CASE MainNext \/ TrackerTicks \/ Cancel \/ UNCHANGED vars
    BY <2>4 DEF MainNext, Shutdown, CloseTracker, Close, TrackerTicks, Tick, Cancel, vars, stages,
                trackerVars, memory
  <2>. QED BY <1>5, <2>1, <2>2, <2>3, <2>4
<1>6. CASE \E s \in Streams : Read(s)
  BY <1>0, <1>1, <1>3, <1>6
<1>7. CASE \E s \in Streams : Push(s) \/ ReaderQuits(s) \/ StreamFails(s)
  BY <1>2, <1>4, <1>7
<1>8. CASE RouterNext \/ MainNext \/ TrackerTicks \/ Cancel \/ UNCHANGED vars
             \/ \E w \in Workers : EventLoopNext(w) \/ WriterNext(w)
  BY <1>2, <1>5, <1>8
<1>. QED BY <1>6, <1>7, <1>8 DEF Next, ReaderNext

(* So the events stay where they belong. *)
LEMMA PlaceKept ==
  ASSUME TrackerTypeOK, WithinStream, HoldsRegistered, HoldsRegistered', PlaceInv, StagesMove,
         [Next]_vars, ~ Restart
  PROVE  PlaceInv'
<1>1. resumedAt' = resumedAt
  BY ReadersAdvance
<1>2. \A e : DocOf(e)' = DocOf(e)
  BY <1>1 DEF DocOf, Change, Position
<1>3. ASSUME NEW w \in 1 .. NumWorkers, NEW e \in Own(w)'
      PROVE  WorkerOf[DocOf(e)'] = w
  <2>1. e \in Own(w) \/ WorkerOf[DocOf(e)] = w
    BY <1>3 DEF StagesMove
  <2>. QED BY <1>2, <1>3, <2>1 DEF PlaceInv
<1>4. ASSUME NEW w \in 1 .. NumWorkers, NEW e \in Own(w)' \cup Shared'
      PROVE  e.seq < NextOut(e.stream)'
  <2>1. CASE e \in Own(w) \cup Shared
    <3>1. e \in Registered
      BY <2>1, StagesRegistered
    <3>2. e.stream \in Streams /\ e.seq \in Nat
      BY <3>1 DEF Registered
    <3>3. e.seq < NextOut(e.stream)
      BY <2>1 DEF PlaceInv
    <3>4. /\ NextOut(e.stream) \in Nat /\ NextOut(e.stream)' \in Nat
          /\ NextOut(e.stream) <= NextOut(e.stream)'
      BY <3>2, ReadersAdvance
    <3>. QED BY <3>2, <3>3, <3>4
  <2>2. ASSUME NEW s \in Streams, reader[s] = "push", reader'[s] = "next", e = Held(s)
        PROVE  e.seq < NextOut(e.stream)'
    BY <2>2, ReadersAdvance
  <2>3. CASE e \in Elements(routed)
    BY <2>1, <2>3 DEF Shared
  <2>. QED BY <2>1, <2>2, <2>3 DEF StagesMove
<1>5. \A w \in 1 .. NumWorkers :
        /\ \A e \in Own(w)' : WorkerOf[DocOf(e)'] = w
        /\ \A e \in Own(w)' \cup Shared' : e.seq < NextOut(e.stream)'
  BY <1>3, <1>4
<1>. QED BY <1>5 DEF PlaceInv

(* What has been written of a document lies before every event of it that is in
   a stage, and before every one that no reader has handed over. *)
LatestInv ==
  /\ \A w \in 1 .. NumWorkers : \A e \in Own(w) \cup Shared : latest[DocOf(e)] < Position(e)
  /\ \A s \in Streams : \A p \in InStream :
       resumedAt[s] + NextOut(s) <= p => latest[Source[s][p].doc] < p

(* Steps that do not write keep it. *)
LEMMA LatestStays ==
  ASSUME TrackerTypeOK, WithinStream, HoldsRegistered, LatestInv, StagesMove,
         [Next]_vars, ~ Restart, latest' = latest
  PROVE  LatestInv'
<1>1. resumedAt' = resumedAt
  BY ReadersAdvance
<1>2. \A e : DocOf(e)' = DocOf(e) /\ Position(e)' = Position(e)
  BY <1>1 DEF DocOf, Change, Position
<1>3. ASSUME NEW w \in 1 .. NumWorkers, NEW e \in Own(w)' \cup Shared'
      PROVE  latest[DocOf(e)] < Position(e)
  <2>1. CASE e \in Own(w) \cup Shared
    BY <2>1 DEF LatestInv
  <2>2. ASSUME NEW s \in Streams, reader[s] = "push", reader'[s] = "next", e = Held(s)
        PROVE  latest[DocOf(e)] < Position(e)
    <3>1. e \in Registered /\ e.stream = s /\ e.seq = NextOut(s)
      BY <2>2, HeldRegistered, ReadersAdvance
    <3>2. Position(e) = resumedAt[s] + NextOut(s) /\ Position(e) \in InStream
      BY <3>1, RegisteredInStream DEF Position
    <3>3. resumedAt[s] + NextOut(s) <= Position(e)
      BY <3>2 DEF InStream
    <3>4. latest[Source[s][Position(e)].doc] < Position(e)
      BY <3>2, <3>3 DEF LatestInv
    <3>. QED BY <3>1, <3>4 DEF DocOf, Change
  <2>3. CASE e \in Elements(routed)
    BY <2>1, <2>3 DEF Shared
  <2>. QED BY <2>1, <2>2, <2>3 DEF StagesMove
<1>4. ASSUME NEW s \in Streams, NEW p \in InStream, resumedAt'[s] + NextOut(s)' <= p
      PROVE  latest[Source[s][p].doc] < p
  <2>1. /\ resumedAt[s] \in Nat /\ NextOut(s) \in Nat /\ NextOut(s)' \in Nat
        /\ NextOut(s) <= NextOut(s)' /\ p \in Int
    BY ReadersAdvance DEF TrackerTypeOK, InStream
  <2>2. resumedAt[s] + NextOut(s) <= p
    BY <1>1, <1>4, <2>1
  <2>. QED BY <2>2 DEF LatestInv
<1>. QED BY <1>2, <1>3, <1>4 DEF LatestInv, InStream

(* A write is of events that come before all others of their documents. *)
LEMMA LatestWritten ==
  ASSUME TrackerTypeOK, WithinStream, HoldsRegistered, ChainInv, PlaceInv, LatestInv,
         HistoryInv, [Next]_vars, ~ Restart, NEW w \in 1 .. NumWorkers, EndWrite(w)
  PROVE  LatestInv' /\ \A d \in Docs : ~ (latest'[d] < latest[d])
<1>0. /\ resumedAt' = resumedAt
      /\ \A s \in Streams : NextOut(s)' \in Nat /\ NextOut(s) \in Nat /\ NextOut(s) <= NextOut(s)'
  BY ReadersAdvance
<1>1. /\ writer[w].phase = "write"
      /\ UNCHANGED <<reader, ingestQueue, routed, batchingQueue, currentGroup, batchWriteQueue>>
  BY DEF EndWrite
<1>2. InHand(w)' = {} /\ \A v \in 1 .. NumWorkers : v # w => InHand(v)' = InHand(v)
  <2>1. writer' = [writer EXCEPT ![w].phase = "ack"] /\ writer \in [1 .. NumWorkers -> WriterStates]
    BY DEF EndWrite, HoldsRegistered
  <2>2. writer'[w] = [writer[w] EXCEPT !.phase = "ack"] /\ writer[w] \in WriterStates
    BY <2>1
  <2>3. writer'[w].phase = "ack"
    BY <2>2 DEF WriterStates
  <2>4. \A v \in 1 .. NumWorkers : v # w => writer'[v] = writer[v]
    BY <2>1
  <2>. QED BY <2>3, <2>4 DEF InHand
<1>3. PICK E \in SUBSET InHand(w) : Write(E)
  <2>1. PICK ops : ops = Elements(writer[w].group)
    OBVIOUS
  <2>2. PICK done \in SUBSET ops : \E recorded \in SUBSET done : Write(done \ recorded)
    BY <2>1 DEF EndWrite
  <2>3. PICK recorded \in SUBSET done : Write(done \ recorded)
    BY <2>2
  <2>. QED BY <1>1, <2>1, <2>3 DEF InHand
<1>4. E \subseteq Own(w) /\ E \subseteq Registered
  BY StagesRegistered DEF Own
<1>5. \A x \in E : /\ x.stream \in Streams /\ x.seq \in Nat /\ Position(x) = resumedAt[x.stream] + x.seq
                   /\ Position(x) \in InStream /\ resumedAt[x.stream] \in Nat
  BY <1>4, RegisteredInStream DEF Position, InStream, TrackerTypeOK, Registered
<1>6. ASSUME NEW d \in Docs, Written(d, E) # {}
      PROVE  \E x \in E : DocOf(x) = d /\ latest'[d] = Position(x)
  <2>1. Max(Written(d, E)) \in Written(d, E)
    BY <1>4, <1>6, WrittenPositions
  <2>2. latest'[d] = Max(Written(d, E))
    BY <1>3, <1>6 DEF Write
  <2>. QED BY <2>1, <2>2 DEF Written
<1>7. ASSUME NEW d \in Docs, Written(d, E) = {}
      PROVE  latest'[d] = latest[d]
  BY <1>3, <1>7 DEF Write
<1>8. ASSUME NEW v \in 1 .. NumWorkers, NEW e \in Own(v)' \cup Shared'
      PROVE  latest'[DocOf(e)] < Position(e)
  <2>1. e \in Own(v) \cup Shared /\ e \in Registered
    <3>1. e \in Own(v) \cup Shared
      BY <1>1, <1>2, <1>8 DEF Own, Shared
    <3>. QED BY <3>1, StagesRegistered
  <2>2. DocOf(e) \in Docs /\ latest[DocOf(e)] < Position(e)
    BY <2>1, OneStreamPerDocument DEF LatestInv
  <2>3. CASE Written(DocOf(e), E) = {}
    BY <1>7, <2>2, <2>3
  <2>4. CASE Written(DocOf(e), E) # {}
    <3>1. PICK x \in E : DocOf(x) = DocOf(e) /\ latest'[DocOf(e)] = Position(x)
      BY <1>6, <2>2, <2>4
    <3>2. x.stream = e.stream
      BY <1>4, <2>1, <3>1, OneStreamPerDocument
    <3>3. x.seq < e.seq
      <4>1. CASE v # w /\ e \in Own(v)'
        <5>1. e \in Own(v)
          BY <1>1, <1>2, <4>1 DEF Own
        <5>2. WorkerOf[DocOf(e)] = v /\ WorkerOf[DocOf(x)] = w
          BY <1>4, <5>1 DEF PlaceInv
        <5>. QED BY <3>1, <4>1, <5>2
      <4>2. CASE v = w \/ e \in Shared'
        <5>1. e \in Queued(batchWriteQueue[w]) \cup Elements(currentGroup[w])
                      \cup Elements(batchingQueue[w]) \cup Elements(routed) \cup Elements(ingestQueue)
          BY <1>1, <1>2, <1>8, <4>2 DEF Own, Shared
        <5>2. Before(InHand(w), Queued(batchWriteQueue[w]) \cup Elements(currentGroup[w])
                      \cup Elements(batchingQueue[w]) \cup Elements(routed) \cup Elements(ingestQueue))
          BY DEF ChainInv, WorkerChain, Chain
        <5>. QED BY <3>2, <5>1, <5>2 DEF Before
      <4>. QED BY <1>8, <4>1, <4>2
    <3>4. e.seq \in Nat
      BY <2>1 DEF Registered
    <3>5. Position(e) = resumedAt[x.stream] + e.seq
      BY <3>2 DEF Position
    <3>. QED BY <1>5, <3>1, <3>3, <3>4, <3>5
  <2>. QED BY <2>3, <2>4
<1>9. ASSUME NEW s \in Streams, NEW p \in InStream, resumedAt[s] + NextOut(s)' <= p
      PROVE  latest'[Source[s][p].doc] < p
  <2>1. resumedAt[s] \in Nat /\ p \in Int /\ resumedAt[s] + NextOut(s) <= p
    <3>1. resumedAt[s] \in Nat /\ p \in Int
      BY DEF TrackerTypeOK, InStream
    <3>. QED BY <1>0, <1>9, <3>1
  <2>2. PICK d \in Docs : d = Source[s][p].doc
    <3>1. Source[s] \in [1 .. MaxPosition -> [doc : Docs, opType : OpTypes]]
      BY PipelineAssumption
    <3>2. Source[s][p] \in [doc : Docs, opType : OpTypes]
      BY <3>1 DEF InStream
    <3>. QED BY <3>2
  <2>3. latest[d] < p
    BY <2>1, <2>2 DEF LatestInv
  <2>4. CASE Written(d, E) = {}
    BY <1>7, <2>2, <2>3, <2>4
  <2>5. CASE Written(d, E) # {}
    <3>1. PICK x \in E : DocOf(x) = d /\ latest'[d] = Position(x)
      BY <1>6, <2>5
    <3>2. x.stream = s
      BY <1>4, <2>2, <3>1, OneStreamPerDocument
    <3>3. x.seq < NextOut(s)
      BY <1>4, <3>2 DEF PlaceInv
    <3>4. Position(x) < p
      <4>1. Position(x) = resumedAt[s] + x.seq /\ x.seq \in Nat /\ NextOut(s) \in Nat
        BY <1>0, <1>5, <3>2
      <4>. QED BY <2>1, <3>3, <4>1
    <3>. QED BY <2>2, <3>1, <3>4
  <2>. QED BY <2>4, <2>5
<1>10. \A e : DocOf(e)' = DocOf(e) /\ Position(e)' = Position(e)
  BY <1>0 DEF DocOf, Change, Position
<1>11. LatestInv'
  BY <1>0, <1>8, <1>9, <1>10 DEF LatestInv, InStream
<1>12. ASSUME NEW d \in Docs PROVE ~ (latest'[d] < latest[d])
  <2>1. CASE Written(d, E) = {}
    <3>1. latest'[d] = latest[d] /\ latest[d] \in Int
      BY <1>7, <2>1 DEF HistoryInv
    <3>. QED BY <3>1
  <2>2. CASE Written(d, E) # {}
    <3>1. PICK x \in E : DocOf(x) = d /\ latest'[d] = Position(x)
      BY <1>6, <2>2
    <3>2. latest[d] < Position(x) /\ latest[d] \in Int /\ Position(x) \in Int
      BY <1>4, <1>5, <3>1 DEF LatestInv, HistoryInv, InStream
    <3>. QED BY <3>1, <3>2
  <2>. QED BY <2>1, <2>2
<1>. QED BY <1>11, <1>12

(* Only the end of a write moves a document. *)
LEMMA WritersWrite ==
  ASSUME [Next]_vars, ~ Restart, latest' # latest
  PROVE  \E w \in 1 .. NumWorkers : EndWrite(w)
<1>1. ASSUME NEW s \in Streams, ReaderNext(s) \/ StreamFails(s) PROVE FALSE
  BY <1>1 DEF ReaderNext, Read, Push, ReaderQuits, StreamFails, history
<1>2. ~ RouterNext
  BY DEF RouterNext, RouterReceives, RouterPushes, RouterQuits, RouterDone, history
<1>3. ASSUME NEW w \in Workers, EventLoopNext(w) PROVE FALSE
  BY <1>3 DEF EventLoopNext, ProcessEvent, FlushTick, EventLoopExits, history
<1>4. ~ MainNext /\ ~ TrackerTicks /\ ~ Cancel /\ ~ UNCHANGED vars
  BY DEF MainNext, Shutdown, CloseTracker, TrackerTicks, Cancel, vars, history
<1>5. PICK w \in Workers : WriterNext(w)
  BY <1>1, <1>2, <1>3, <1>4 DEF Next
<1>6. EndWrite(w)
  BY <1>5 DEF WriterNext, StartWrite, AckOperation, WriterExits, history
<1>. QED BY <1>6 DEF Workers

(* A process that has just started. *)
Fresh ==
  /\ FreshStages
  /\ nextSeqNum = NothingGiven
  /\ resumedAt \in [Streams -> Nat]
  /\ latest = [d \in Docs |-> 0]

LEMMA FreshInOrder == Fresh => ChainInv /\ PlaceInv /\ LatestInv
<1> SUFFICES ASSUME Fresh PROVE ChainInv /\ PlaceInv /\ LatestInv
  OBVIOUS
<1>1. ChainInv /\ \A w \in 1 .. NumWorkers : Own(w) \cup Shared = {}
  BY FreshOrdered DEF Fresh
<1>2. PlaceInv
  BY <1>1 DEF PlaceInv
<1>3. ASSUME NEW s \in Streams, NEW p \in InStream
      PROVE  latest[Source[s][p].doc] < p
  <2>1. Source[s] \in [1 .. MaxPosition -> [doc : Docs, opType : OpTypes]]
    BY PipelineAssumption
  <2>2. Source[s][p] \in [doc : Docs, opType : OpTypes]
    BY <2>1 DEF InStream
  <2>3. latest[Source[s][p].doc] = 0
    BY <2>2 DEF Fresh
  <2>. QED BY <2>3 DEF InStream
<1>. QED BY <1>1, <1>2, <1>3 DEF LatestInv

(* A restart begins such a process. *)
LEMMA RestartIsFresh == TrackerTypeOK /\ Restart => Fresh'
BY DEF TrackerTypeOK, Restart, RestartTracker, Fresh, FreshStages

(* Within a run the operations on a document reach the target in the order of
   its stream: over all queues, workers, groups, flushes and the shutdown, no write
   is followed by one of an earlier event of the same document. *)
THEOREM WritesAreOrdered == Spec => OrderPerDocument
<1>. DEFINE Ordered == ChainInv /\ PlaceInv /\ LatestInv
            Typed == TrackerTypeOK /\ WithinStream /\ HoldsRegistered /\ SizeInv /\ HistoryInv
            Step == [\A d \in Docs : latest'[d] < latest[d] => Restart]_vars
<1>1. Init => SizeInv /\ HistoryInv /\ Fresh
  <2>1. Init => SizeInv /\ HistoryInv
    BY InitialSizes
  <2>2. Init => Fresh
    BY TrackerAssumption DEF Init, TrackerInit, Fresh, NothingGiven
  <2>. QED BY <2>1, <2>2
<1>2. Typed /\ [Next]_vars => SizeInv' /\ HistoryInv'
  BY SizesKept, HistoriesKept
<1>3. Typed /\ HoldsRegistered' /\ Ordered /\ [Next]_vars /\ ~ Restart => Ordered' /\ Step
  <2> SUFFICES ASSUME Typed, HoldsRegistered', Ordered, [Next]_vars, ~ Restart
               PROVE  Ordered' /\ Step
    OBVIOUS
  <2>1. ChainInv' /\ StagesMove
    BY StagesOrdered
  <2>2. PlaceInv'
    BY <2>1, PlaceKept
  <2>3. CASE latest' = latest
    <3>1. LatestInv'
      BY <2>1, <2>3, LatestStays
    <3>2. \A d \in Docs : ~ (latest'[d] < latest[d])
      <4>1. \A d \in Docs : latest[d] \in Int
        BY DEF HistoryInv
      <4>. QED BY <2>3, <4>1
    <3>. QED BY <2>1, <2>2, <3>1, <3>2
  <2>4. CASE latest' # latest
    <3>1. PICK w \in 1 .. NumWorkers : EndWrite(w)
      BY <2>4, WritersWrite
    <3>2. LatestInv' /\ \A d \in Docs : ~ (latest'[d] < latest[d])
      BY <3>1, LatestWritten
    <3>. QED BY <2>1, <2>2, <3>2
  <2>. QED BY <2>3, <2>4
<1>4. Restart => Step
  OBVIOUS
<1>5. TrackerTypeOK /\ Restart => Fresh'
  BY RestartIsFresh
<1>6. Fresh => Ordered
  BY FreshInOrder
<1>7. Step <=> [\A d \in Docs : latest'[d] < latest[d] => Restart]_vars
  OBVIOUS
<1>. HIDE DEF Ordered, Step
<1>8. Spec => [][\A d \in Docs : latest'[d] < latest[d] => Restart]_vars
  BY <1>1, <1>2, <1>3, <1>4, <1>5, <1>6, <1>7, PipelineIsTracker, WithinStreamAlways, Inductive, PTL
     DEF Spec
<1>. QED BY <1>8 DEF OrderPerDocument
=============================================================================
