--------------------------- MODULE BackfillProofs ---------------------------
(***************************************************************************)
(* Why a backfill may be stopped anywhere and continued from its file.     *)
(*                                                                         *)
(* The bookmark of a type is the greatest _id of the acknowledged batches  *)
(* that have no gap before them.  Batches are cut in _id order, so what    *)
(* lies below the bookmark is in such a batch or was handled by an earlier *)
(* run; what is acknowledged was handled.  Hence a document without an     *)
(* outcome is always matched by the filter made from the checkpoint, in    *)
(* memory and on disk (Safe), which is what the invariant says.            *)
(*                                                                         *)
(* The last part is about what the saves of the tracker may do to the      *)
(* checkpoint file: a bookmark never moves back, and the collection is     *)
(* marked as completed only when every document has an outcome.  Two more  *)
(* invariants are needed: every document that a later save may bookmark    *)
(* lies at or behind the bookmark it replaces (Forward), and a batch that  *)
(* is not acknowledged is somewhere between the reader and the workers     *)
(* (Accounted).                                                            *)
(***************************************************************************)
EXTENDS Backfill, Extrema, SequenceTheorems, FiniteSetTheorems

(* Every _id has a type the discovery looks for, and the discovery works. *)
KnownTypes ==
  /\ \A d \in Docs : IdType[d] \in CandidateBSONTypes
  /\ ~ DiscoveryCanFail

WorkerStates == [at : {"receive", "write", "ack", "exited"}, seq : Nat]

TypeInv ==
  /\ file \in Checkpoints /\ checkpoint \in Checkpoints
  /\ batches \in Seq(SUBSET Docs)
  /\ pruned \in Nat /\ pruned <= Len(batches)
  /\ acked \subseteq 1 .. Len(batches)
  /\ 1 .. pruned \subseteq acked
  /\ ackCountSinceSave \in Nat
  /\ phase \in {"plan", "read", "send", "last", "wait", "close", "returned"}
  /\ phase \in {"send", "last"} => batches # <<>>
  /\ unread \subseteq Docs
  /\ batchChan \in Seq(1 .. Len(batches))
  /\ worker \in [Workers -> WorkerStates]
  /\ \A w \in Workers :
       worker[w].at \in {"write", "ack"} => worker[w].seq \in 1 .. Len(batches)

(* Batches are cut in _id order. *)
Ordered ==
  /\ \A i, j \in 1 .. Len(batches) : i < j =>
       \A d \in batches[i], e \in batches[j] : d < e
  /\ \A i \in 1 .. Len(batches) : \A d \in batches[i], e \in unread : d < e

(* What is acknowledged was handled. *)
AckedHandled ==
  /\ \A q \in acked : batches[q] \subseteq Handled
  /\ \A w \in Workers :
       worker[w].at = "ack" /\ ~ cancelled => batches[worker[w].seq] \subseteq Handled

(* A document without an outcome is in a batch or still to be read. *)
Covered ==
  ~ Fresh(checkpoint) =>
    \A d \in Docs \ Handled : d \in unread \/ \E q \in 1 .. Len(batches) : d \in batches[q]

(* The filter made from a checkpoint matches every document without an outcome. *)
Safe(cp) == Fresh(cp) \/ \A d \in Docs \ Handled : InRange(d, cp)

(* Before a plan is made, and when the collection is completed already, the
   tracker is empty. *)
Dormant ==
  /\ phase = "plan" => Fresh(checkpoint)
  /\ Fresh(checkpoint) =>
       /\ phase \in {"plan", "returned"}
       /\ batches = <<>>
       /\ ackCountSinceSave = 0
       /\ batchChan = <<>>
       /\ \A w \in Workers : worker[w].at \notin {"write", "ack"}

Inv ==
  /\ TypeInv
  /\ Ordered
  /\ AckedHandled
  /\ Covered
  /\ Safe(file) /\ Safe(checkpoint)
  /\ Dormant

-----------------------------------------------------------------------------
(* OfType, when every type is known: the documents of the type. *)
LEMMA TypesOfDocs ==
  ASSUME KnownTypes, NEW docs \in SUBSET Docs, NEW t
  PROVE  OfType(docs, t) = {d \in docs : IdType[d] = t}
<1>1. \A d \in docs : GetBSONType(d) = IdType[d] /\ IdType[d] # "null"
  BY DEF KnownTypes, GetBSONType, CandidateBSONTypes
<1>. QED BY <1>1 DEF OfType

(* RegisterBatch: the bookmark of a batch is its greatest _id of the type. *)
LEMMA BookmarkOfBatch ==
  ASSUME KnownTypes, NEW docs \in SUBSET Docs, NEW t, OfType(docs, t) # {}
  PROVE  /\ MaxDocID(docs, t) \in docs
         /\ IdType[MaxDocID(docs, t)] = t
         /\ \A d \in docs : IdType[d] = t => d <= MaxDocID(docs, t)
<1> DEFINE S == OfType(docs, t)
<1>1. S = {d \in docs : IdType[d] = t} /\ S # {}
  BY TypesOfDocs
<1>2. S \in SUBSET (0 .. NumDocs) /\ S \in SUBSET Nat /\ NumDocs \in Nat
  <2>1. NumDocs \in Nat
    BY BackfillAssumption
  <2>2. S \subseteq 1 .. NumDocs
    BY <1>1 DEF Docs
  <2>. HIDE DEF S
  <2>. QED BY <2>1, <2>2
<1>. HIDE DEF S
<1>3. Min(S) \in S
  BY <1>1, <1>2, MinOfNats
<1>4. IdType[Min(S)] = t
  BY <1>1, <1>3
<1>5. {d \in S : IdType[d] = t} = S
  BY <1>1
<1>6. MaxDocID(docs, t) = Max(S)
  BY <1>4, <1>5 DEF MaxDocID, S
<1>7. Max(S) \in S /\ \A q \in S : q <= Max(S)
  BY <1>1, <1>2, MaxInRange
<1>. QED BY <1>1, <1>6, <1>7

(* The acknowledged batches behind the pruned ones that have no gap before
   them, and what pruning them comes to. *)
LEMMA PrefixOfBatches ==
  ASSUME TypeInv, NEW a \in SUBSET (1 .. Len(batches)), acked \subseteq a
  PROVE  /\ AckedPrefix(a) \subseteq a
         /\ AckedPrefix(a) \subseteq pruned + 1 .. Len(batches)
         /\ pruned + Cardinality(AckedPrefix(a)) \in Nat
         /\ pruned + Cardinality(AckedPrefix(a)) <= Len(batches)
         /\ AckedPrefix(a) = pruned + 1 .. pruned + Cardinality(AckedPrefix(a))
         /\ 1 .. pruned + Cardinality(AckedPrefix(a)) \subseteq a
<1> DEFINE P == AckedPrefix(a)
           n == Len(batches)
<1>0. n \in Nat /\ pruned \in Nat /\ pruned <= n /\ 1 .. pruned \subseteq a
  BY LenProperties DEF TypeInv
<1>1. P = {q \in pruned + 1 .. n : \A p \in pruned + 1 .. q : p \in a}
  BY DEF AckedPrefix
<1>. HIDE DEF P, n
<1>2. P \subseteq a /\ P \subseteq pruned + 1 .. n
  BY <1>0, <1>1
<1>3. CASE P = {}
  <2>1. Cardinality(P) = 0
    BY <1>3, FS_EmptySet
  <2>. QED BY <1>0, <1>2, <1>3, <2>1 DEF P, n
<1>4. CASE P # {}
  <2> DEFINE m == Max(P)
  <2>1. m \in P /\ \A q \in P : q <= m
    <3>1. P \in SUBSET (0 .. n)
      BY <1>0, <1>2
    <3>. QED BY <1>0, <1>4, <3>1, MaxInRange
  <2>. HIDE DEF m
  <2>2. m \in pruned + 1 .. n
    BY <1>2, <2>1
  <2>3. P = pruned + 1 .. m
    BY <1>0, <1>1, <2>1, <2>2
  <2>4. Cardinality(P) = m - pruned
    <3>1. Cardinality(pruned + 1 .. m) = IF pruned + 1 > m THEN 0 ELSE m - (pruned + 1) + 1
      BY <1>0, <2>2, FS_Interval
    <3>. QED BY <1>0, <2>2, <2>3, <3>1
  <2>5. pruned + Cardinality(P) = m
    BY <1>0, <2>2, <2>4
  <2>6. 1 .. m \subseteq a
    BY <1>0, <1>2, <2>2, <2>3
  <2>. QED BY <1>0, <1>2, <2>2, <2>3, <2>5, <2>6 DEF P, n
<1>. QED BY <1>3, <1>4

(* The new bookmarks: of each type, the old one or a document behind which all
   of its type are in later batches. *)
LEMMA AdvancedBookmarks ==
  ASSUME KnownTypes, TypeInv, ~ Fresh(checkpoint),
         NEW a \in SUBSET (1 .. Len(batches)), acked \subseteq a
  PROVE  LET progress == Advanced(AckedPrefix(a)) IN
           /\ progress \in UNION {[T -> 0 .. NumDocs] : T \in SUBSET CandidateBSONTypes}
           /\ DOMAIN checkpoint.progress \subseteq DOMAIN progress
           /\ \A t \in DOMAIN progress :
                \/ /\ \A q \in AckedPrefix(a) : \A d \in batches[q] : IdType[d] # t
                   /\ t \in DOMAIN checkpoint.progress
                   /\ progress[t] = checkpoint.progress[t]
                \/ \E q \in AckedPrefix(a) :
                     /\ progress[t] \in batches[q]
                     /\ IdType[progress[t]] = t
                     /\ \A d \in batches[q] : IdType[d] = t => d <= progress[t]
                     /\ \A p \in AckedPrefix(a) : \A d \in batches[p] : IdType[d] = t => p <= q
<1> DEFINE P == AckedPrefix(a)
           having(t) == {q \in P : OfType(batches[q], t) # {}}
           types == DOMAIN checkpoint.progress
                      \cup {t \in CandidateBSONTypes : having(t) # {}}
           bookmark(t) == IF having(t) = {} THEN checkpoint.progress[t]
                                            ELSE MaxDocID(batches[Max(having(t))], t)
<1>1. PICK T \in SUBSET CandidateBSONTypes : checkpoint.progress \in [T -> 0 .. NumDocs]
  BY DEF TypeInv, Checkpoints
<1>2. /\ P \subseteq 1 .. Len(batches)
      /\ Len(batches) \in Nat
      /\ \A q \in 1 .. Len(batches) : batches[q] \in SUBSET Docs
  BY PrefixOfBatches, LenProperties, ElementOfSeq DEF TypeInv
<1>3. Advanced(P) = [t \in types |-> bookmark(t)]
  BY DEF Advanced
<1>. HIDE DEF P
<1>4. \A q \in P : \A t : OfType(batches[q], t) = {d \in batches[q] : IdType[d] = t}
  BY <1>2, TypesOfDocs
<1>5. ASSUME NEW t, having(t) # {}
      PROVE  /\ Max(having(t)) \in P
             /\ bookmark(t) \in batches[Max(having(t))]
             /\ bookmark(t) \in Docs
             /\ IdType[bookmark(t)] = t
             /\ \A d \in batches[Max(having(t))] : IdType[d] = t => d <= bookmark(t)
             /\ \A p \in P : \A d \in batches[p] : IdType[d] = t => p <= Max(having(t))
  <2> DEFINE h == having(t)
             m == Max(h)
  <2>1. h \in SUBSET (0 .. Len(batches))
    <3>1. h \subseteq P
      OBVIOUS
    <3>. HIDE DEF h
    <3>. QED BY <1>2, <3>1
  <2>2. m \in h /\ \A q \in h : q <= m
    <3>. HIDE DEF h
    <3>. QED BY <1>2, <1>5, <2>1, MaxInRange DEF h
  <2>3. m \in P /\ OfType(batches[m], t) # {} /\ batches[m] \in SUBSET Docs
    BY <1>2, <2>2
  <2>4. \A p \in P : \A d \in batches[p] : IdType[d] = t => p \in h
    BY <1>4
  <2>5. bookmark(t) = MaxDocID(batches[m], t)
    BY <1>5
  <2>. HIDE DEF h, m, bookmark, having
  <2>6. /\ bookmark(t) \in batches[m]
        /\ IdType[bookmark(t)] = t
        /\ \A d \in batches[m] : IdType[d] = t => d <= bookmark(t)
    BY <2>3, <2>5, BookmarkOfBatch
  <2>. QED BY <2>2, <2>3, <2>4, <2>6 DEF m, h
<1>6. ASSUME NEW t \in types PROVE bookmark(t) \in 0 .. NumDocs
  <2>1. CASE having(t) = {}
    BY <1>1, <2>1
  <2>2. CASE having(t) # {}
    <3>1. bookmark(t) \in Docs
      BY <1>5, <2>2
    <3>. HIDE DEF bookmark
    <3>. QED BY <3>1, BackfillAssumption DEF Docs
  <2>. QED BY <2>1, <2>2
<1>7. types \in SUBSET CandidateBSONTypes
  BY <1>1
<1>8. ASSUME NEW t \in types, having(t) = {}
      PROVE  /\ \A q \in P : \A d \in batches[q] : IdType[d] # t
             /\ t \in DOMAIN checkpoint.progress
             /\ bookmark(t) = checkpoint.progress[t]
  BY <1>4, <1>8
<1>. HIDE DEF types, bookmark, having
<1>9. Advanced(P) \in [types -> 0 .. NumDocs]
  BY <1>3, <1>6
<1>10. DOMAIN checkpoint.progress \subseteq types
  BY DEF types
<1>11. ASSUME NEW t \in types
       PROVE  \/ /\ \A q \in P : \A d \in batches[q] : IdType[d] # t
                 /\ t \in DOMAIN checkpoint.progress
                 /\ Advanced(P)[t] = checkpoint.progress[t]
              \/ \E q \in P :
                   /\ Advanced(P)[t] \in batches[q]
                   /\ IdType[Advanced(P)[t]] = t
                   /\ \A d \in batches[q] : IdType[d] = t => d <= Advanced(P)[t]
                   /\ \A p \in P : \A d \in batches[p] : IdType[d] = t => p <= q
  <2>1. Advanced(P)[t] = bookmark(t)
    BY <1>3
  <2>2. CASE having(t) = {}
    BY <1>8, <2>1, <2>2
  <2>3. CASE having(t) # {}
    BY <1>5, <2>1, <2>3
  <2>. QED BY <2>2, <2>3
<1>12. DOMAIN Advanced(P) = types
  BY <1>9
<1>. QED BY <1>7, <1>9, <1>10, <1>11, <1>12 DEF P

(* A save keeps the filter safe: below a new bookmark every document of its type
   is in an acknowledged batch. *)
LEMMA SaveIsSafe ==
  ASSUME KnownTypes, Inv, ~ Fresh(checkpoint),
         NEW a \in SUBSET (1 .. Len(batches)), acked \subseteq a,
         \A q \in a : batches[q] \subseteq Handled,
         NEW count \in Nat, NEW finished \in BOOLEAN,
         saveCheckpointsLocked(a, count, finished),
         UNCHANGED <<batches, unread, outcome>>
  PROVE  /\ file' \in Checkpoints /\ checkpoint' \in Checkpoints
         /\ pruned' \in Nat /\ pruned' <= Len(batches)
         /\ acked' = a
         /\ 1 .. pruned' \subseteq a
         /\ ackCountSinceSave' \in Nat
         /\ ~ Fresh(checkpoint')
         /\ Safe(file)' /\ Safe(checkpoint)'
<1> DEFINE P == AckedPrefix(a)
<1>0. /\ TypeInv /\ Ordered /\ Covered /\ Safe(file) /\ Safe(checkpoint)
      /\ Handled' = Handled
  BY DEF Inv, outcome, Handled
<1>1. CASE UNCHANGED <<file, checkpoint, pruned>>
  <2>1. acked' = a /\ ackCountSinceSave' \in Nat
    BY DEF saveCheckpointsLocked
  <2>. QED BY <1>0, <1>1, <2>1 DEF TypeInv, Safe
<1>2. CASE ~ UNCHANGED <<file, checkpoint, pruned>>
  <2> DEFINE progress == Advanced(P)
  <2>1. /\ acked' = a
        /\ file' = [progress |-> progress, completed |-> checkpoint.completed \/ finished]
        /\ checkpoint' = file'
        /\ pruned' = pruned + Cardinality(P)
        /\ ackCountSinceSave' = 0
    BY <1>2 DEF saveCheckpointsLocked
  <2>2. /\ progress \in UNION {[T -> 0 .. NumDocs] : T \in SUBSET CandidateBSONTypes}
        /\ DOMAIN checkpoint.progress \subseteq DOMAIN progress
        /\ \A t \in DOMAIN progress :
             progress[t] # checkpoint.progress[t] =>
               \E q \in P :
                 /\ progress[t] \in batches[q]
                 /\ IdType[progress[t]] = t
                 /\ \A d \in batches[q] : IdType[d] = t => d <= progress[t]
                 /\ \A p \in P : \A d \in batches[p] : IdType[d] = t => p <= q
    BY <1>0, AdvancedBookmarks
  <2>3. checkpoint.completed \in BOOLEAN
    BY <1>0 DEF TypeInv, Checkpoints
  <2>4. file' \in Checkpoints
    <3>. HIDE DEF progress
    <3>. QED BY <2>1, <2>2, <2>3 DEF Checkpoints
  <2>5. ~ Fresh(file')
    BY <2>1, <2>2 DEF Fresh
  <2>6. ASSUME NEW d \in Docs \ Handled
        PROVE  InRange(d, file')
    <3> DEFINE t == IdType[d]
               b == progress[t]
    <3>1. InRange(d, checkpoint)
      BY <1>0 DEF Safe
    <3>2. t \in DOMAIN progress
      BY <2>2, <3>1 DEF InRange
    <3>. HIDE DEF progress
    <3>3. CASE b = checkpoint.progress[t]
      BY <2>1, <3>1, <3>2, <3>3 DEF InRange
    <3>4. CASE b # checkpoint.progress[t]
      <4>1. PICK q \in P : /\ b \in batches[q]
                           /\ IdType[b] = t
                           /\ \A e \in batches[q] : IdType[e] = t => e <= b
                           /\ \A p \in P : \A e \in batches[p] : IdType[e] = t => p <= q
        BY <2>2, <3>2, <3>4
      <4>2. /\ q \in 1 .. Len(batches)
            /\ \A p \in 1 .. Len(batches) : p <= q => p \in a
        <5>1. /\ q \in 1 .. pruned + Cardinality(P)
              /\ pruned + Cardinality(P) \in Nat
              /\ 1 .. pruned + Cardinality(P) \subseteq a
              /\ a \subseteq 1 .. Len(batches)
          BY <1>0, PrefixOfBatches DEF TypeInv
        <5>. QED BY <5>1
      <4>3. b \in Docs /\ d \in Docs
        BY <1>0, <4>1, <4>2, ElementOfSeq DEF TypeInv
      <4>4. CASE d \in unread
        <5>1. b < d
          BY <1>0, <4>1, <4>2, <4>4 DEF Ordered
        <5>. QED BY <2>1, <3>2, <4>1, <4>3, <5>1 DEF InRange, Docs
      <4>5. ASSUME NEW p \in 1 .. Len(batches), d \in batches[p]
            PROVE  b < d
        <5>1. p \notin a
          BY <4>5
        <5>2. Len(batches) \in Nat
          BY <1>0, LenProperties DEF TypeInv
        <5>3. q < p
          BY <4>2, <5>1, <5>2
        <5>. QED BY <1>0, <4>1, <4>2, <4>5, <5>3 DEF Ordered
      <4>. QED BY <1>0, <2>1, <3>2, <4>1, <4>3, <4>4, <4>5 DEF Covered, InRange, Docs
    <3>. QED BY <3>3, <3>4
  <2>7. Safe(file)' /\ Safe(checkpoint)'
    BY <1>0, <2>1, <2>6 DEF Safe, InRange, Fresh
  <2>8. /\ pruned' \in Nat /\ pruned' <= Len(batches)
        /\ 1 .. pruned' \subseteq a
    BY <1>0, <2>1, PrefixOfBatches
  <2>. QED BY <2>1, <2>4, <2>5, <2>7, <2>8
<1>. QED BY <1>1, <1>2

-----------------------------------------------------------------------------
(* No file: a checkpoint without types, from which a run starts fresh. *)
LEMMA NoCheckpointYet == NoCheckpoint \in Checkpoints /\ Fresh(NoCheckpoint)
<1>1. <<>> \in [{} -> 0 .. NumDocs]
  OBVIOUS
<1>2. {} \in SUBSET CandidateBSONTypes
  OBVIOUS
<1>3. <<>> \in UNION {[T -> 0 .. NumDocs] : T \in SUBSET CandidateBSONTypes}
  BY <1>1, <1>2
<1>4. NoCheckpoint.progress = <<>> /\ DOMAIN <<>> = {}
  BY DEF NoCheckpoint
<1>. QED BY <1>3, <1>4 DEF NoCheckpoint, Checkpoints, Fresh

(* Nothing is read and nothing is bookmarked at the start. *)
LEMMA InitialInv == Init => Inv
<1> SUFFICES ASSUME Init PROVE Inv
  OBVIOUS
<1>2. TypeInv
  <2>1. \A S : <<>> \in Seq(S)
    OBVIOUS
  <2>2. Len(<<>>) = 0
    OBVIOUS
  <2>. QED BY NoCheckpointYet, <2>1, <2>2 DEF Init, TypeInv, WorkerStates, Idle
<1>. QED
  BY NoCheckpointYet, <1>2
     DEF Init, Inv, Ordered, AckedHandled, Covered, Safe, Dormant, Idle

(* DetermineBackfillResumptionPlan: the plan reads all that has no outcome. *)
LEMMA PlanKeepsInv == ASSUME KnownTypes, Inv, PlanNext PROVE Inv'
<1>0. /\ TypeInv /\ Ordered /\ AckedHandled /\ Covered /\ Dormant
      /\ Safe(file) /\ Safe(checkpoint)
      /\ Handled' = Handled
  BY DEF Inv, PlanNext, AlreadyCompleted, ResumeDirectly, StartFresh, outcome, Handled
<1>1. CASE AlreadyCompleted
  BY <1>0, <1>1
     DEF AlreadyCompleted, tracker, outcome, Inv, TypeInv, Ordered, AckedHandled, Covered,
         Safe, Dormant, Handled, InRange, Fresh
<1>2. CASE ResumeDirectly \/ StartFresh
  <2>1. /\ UNCHANGED <<batches, pruned, acked, ackCountSinceSave, completed, batchChan,
                       errorChan, worker, cancelled, outcome>>
        /\ phase = "plan" /\ phase' = "read"
    BY <1>2 DEF ResumeDirectly, StartFresh
  <2>2. /\ file' \in Checkpoints /\ checkpoint' \in Checkpoints
        /\ unread' \in SUBSET Docs
        /\ ~ Fresh(checkpoint')
        /\ \A d \in Docs \ Handled : d \in unread' /\ InRange(d, checkpoint')
        /\ file' = checkpoint' \/ Fresh(file')
    <3>1. CASE ResumeDirectly
      BY <1>0, <3>1 DEF ResumeDirectly, TypeInv, Safe, ToRead
    <3>2. CASE StartFresh
      <4> DEFINE types == {IdType[d] : d \in Docs} \cap CandidateBSONTypes
      <4>1. /\ file' = NoCheckpoint
            /\ checkpoint' = [progress |-> [t \in types |-> 0], completed |-> FALSE]
            /\ unread' = Docs
        BY <3>2 DEF StartFresh, KnownTypes
      <4>2. \A d \in Docs : IdType[d] \in types
        BY DEF KnownTypes
      <4>3. 1 \in Docs
        BY BackfillAssumption DEF Docs
      <4>4. types # {} /\ types \in SUBSET CandidateBSONTypes
        BY <4>2, <4>3
      <4>. HIDE DEF types
      <4>5. [t \in types |-> 0] \in [types -> 0 .. NumDocs]
        BY BackfillAssumption
      <4>6. checkpoint' \in Checkpoints
        BY <4>1, <4>4, <4>5 DEF Checkpoints
      <4>7. file' \in Checkpoints /\ Fresh(file')
        BY <4>1, NoCheckpointYet
      <4>8. \A d \in Docs : InRange(d, checkpoint')
        BY <4>1, <4>2 DEF InRange
      <4>. QED BY <4>1, <4>4, <4>6, <4>7, <4>8 DEF Fresh
    <3>. QED BY <1>2, <3>1, <3>2
  <2>3. TypeInv'
    BY <1>0, <2>1, <2>2 DEF TypeInv
  <2>4. batches = <<>>
    BY <1>0, <2>1 DEF Dormant
  <2>5. Ordered'
    BY <2>1, <2>4 DEF Ordered
  <2>6. AckedHandled'
    BY <1>0, <2>1 DEF AckedHandled
  <2>7. Covered' /\ Safe(file)' /\ Safe(checkpoint)' /\ Dormant'
    BY <1>0, <2>1, <2>2 DEF Covered, Safe, Dormant, Fresh, InRange
  <2>. QED BY <2>3, <2>5, <2>6, <2>7 DEF Inv
<1>. QED BY <1>1, <1>2 DEF PlanNext

(* migrateCollection: what leaves the cursor is registered, in order, before it
   is sent; its last save is as safe as any other. *)
LEMMA ReaderKeepsInv == ASSUME KnownTypes, Inv, ReaderNext PROVE Inv'
<1>0. /\ TypeInv /\ Ordered /\ AckedHandled /\ Covered /\ Dormant
      /\ Safe(file) /\ Safe(checkpoint)
      /\ Handled' = Handled
  BY DEF Inv, ReaderNext, ReadBatch, SendBatch, StopOnError, StopOnCancel, ReadFails, Finish,
         CloseTracker, outcome, Handled
<1>a. ~ Fresh(checkpoint)
  BY <1>0 DEF ReaderNext, ReadBatch, SendBatch, StopOnError, StopOnCancel, ReadFails, Finish,
              CloseTracker, Dormant
<1>b. Len(batches) \in Nat /\ \A q \in 1 .. Len(batches) : batches[q] \in SUBSET Docs
  BY <1>0, LenProperties, ElementOfSeq DEF TypeInv
<1>1. CASE ReadBatch
  <2>1. PICK docs \in NextDocs :
          /\ unread' = unread \ docs
          /\ batches' = IF docs = {} THEN batches ELSE Append(batches, docs)
          /\ phase' = CASE docs = {} -> "wait"
                        [] Cardinality(docs) = BatchSize -> "send"
                        [] OTHER -> "last"
    BY <1>1 DEF ReadBatch
  <2>2. UNCHANGED <<file, checkpoint, pruned, acked, ackCountSinceSave, completed,
                    batchChan, errorChan, worker, cancelled, outcome>>
    BY <1>1 DEF ReadBatch
  <2>3. /\ docs \in SUBSET unread
        /\ \A d \in docs, e \in unread \ docs : d < e
    BY DEF NextDocs
  <2>4. /\ docs = {} => phase' = "wait"
        /\ docs # {} => phase' \in {"send", "last"}
    <3>1. Cardinality({}) # BatchSize
      BY FS_EmptySet, BackfillAssumption
    <3>2. CASE docs = {}
      BY <2>1, <3>1, <3>2
    <3>3. CASE docs # {}
      BY <2>1, <3>3
    <3>. QED BY <3>2, <3>3
  <2>5. unread \in SUBSET Docs
    BY <1>0 DEF TypeInv
  <2>6. CASE docs = {}
    <3>1. UNCHANGED <<batches, unread>> /\ phase' = "wait"
      BY <2>1, <2>4, <2>6
    <3>. QED
      BY <1>0, <1>a, <2>2, <3>1
         DEF Inv, TypeInv, Ordered, AckedHandled, Covered, Safe, Dormant, Fresh, InRange
  <2>7. CASE docs # {}
    <3> DEFINE n == Len(batches)
    <3>1. /\ batches' = Append(batches, docs)
          /\ batches' \in Seq(SUBSET Docs)
          /\ Len(batches') = n + 1
          /\ \A i \in 1 .. n : batches'[i] = batches[i]
          /\ batches'[n + 1] = docs
          /\ batches' # <<>>
      BY <1>0, <1>b, <2>1, <2>3, <2>5, <2>7, AppendProperties DEF TypeInv
    <3>2. n \in Nat /\ 1 .. n \subseteq 1 .. n + 1
      BY <1>b
    <3>. HIDE DEF n
    <3>3. /\ acked \subseteq 1 .. n
          /\ pruned \in Nat /\ pruned <= n
          /\ \A w \in Workers : worker[w].at \in {"write", "ack"} => worker[w].seq \in 1 .. n
      BY <1>0 DEF TypeInv, n
    <3>4. TypeInv'
      <4>1. batchChan \in Seq(1 .. n)
        BY <1>0 DEF TypeInv, n
      <4>2. batchChan' \in Seq(1 .. Len(batches'))
        BY <2>2, <3>1, <3>2, <4>1
      <4>3. unread' \subseteq Docs
        BY <2>1, <2>5
      <4>4. /\ acked' \subseteq 1 .. Len(batches')
            /\ pruned' \in Nat /\ pruned' <= Len(batches')
            /\ \A w \in Workers :
                 worker'[w].at \in {"write", "ack"} => worker'[w].seq \in 1 .. Len(batches')
        BY <2>2, <3>1, <3>2, <3>3
      <4>. QED
        BY <1>0, <2>2, <2>4, <3>1, <4>2, <4>3, <4>4 DEF TypeInv
    <3>5. Ordered'
      <4>1. ASSUME NEW i \in 1 .. n + 1, NEW j \in 1 .. n + 1, i < j,
                   NEW d \in batches'[i], NEW e \in batches'[j]
            PROVE  d < e
        <5>1. i \in 1 .. n /\ batches'[i] = batches[i]
          BY <3>1, <3>2, <4>1
        <5>2. CASE j = n + 1
          BY <1>0, <2>3, <3>1, <4>1, <5>1, <5>2 DEF Ordered, n
        <5>3. CASE j # n + 1
          <6>1. j \in 1 .. n /\ batches'[j] = batches[j]
            BY <3>1, <3>2, <5>3
          <6>. QED BY <1>0, <4>1, <5>1, <6>1 DEF Ordered, n
        <5>. QED BY <5>2, <5>3
      <4>2. ASSUME NEW i \in 1 .. n + 1, NEW d \in batches'[i], NEW e \in unread'
            PROVE  d < e
        <5>1. CASE i = n + 1
          BY <2>1, <2>3, <3>1, <4>2, <5>1
        <5>2. CASE i # n + 1
          <6>1. i \in 1 .. n /\ batches'[i] = batches[i]
            BY <3>1, <3>2, <5>2
          <6>. QED BY <1>0, <2>1, <4>2, <6>1 DEF Ordered, n
        <5>. QED BY <5>1, <5>2
      <4>. QED BY <3>1, <4>1, <4>2 DEF Ordered
    <3>6. AckedHandled'
      BY <1>0, <2>2, <3>1, <3>3 DEF AckedHandled
    <3>7. Covered'
      <4>1. ASSUME NEW d \in Docs \ Handled
            PROVE  d \in unread' \/ \E q \in 1 .. n + 1 : d \in batches'[q]
        <5>1. CASE d \in docs
          BY <3>1, <3>2, <5>1
        <5>2. CASE d \in unread /\ d \notin docs
          BY <2>1, <5>2
        <5>3. ASSUME NEW q \in 1 .. n, d \in batches[q]
              PROVE  \E p \in 1 .. n + 1 : d \in batches'[p]
          BY <3>1, <3>2, <5>3
        <5>. QED BY <1>0, <1>a, <5>1, <5>2, <5>3 DEF Covered, n
      <4>. QED BY <1>0, <3>1, <4>1 DEF Covered
    <3>8. Safe(file)' /\ Safe(checkpoint)' /\ Dormant'
      BY <1>0, <1>a, <2>2, <2>4 DEF Safe, Dormant, Fresh, InRange
    <3>. QED BY <3>4, <3>5, <3>6, <3>7, <3>8 DEF Inv
  <2>. QED BY <2>6, <2>7
<1>2. CASE SendBatch
  <2>1. /\ batchChan' = Append(batchChan, Len(batches))
        /\ phase \in {"send", "last"} /\ phase' \in {"read", "wait"}
        /\ UNCHANGED <<file, tracker, unread, errorChan, worker, cancelled, outcome>>
    BY <1>2 DEF SendBatch
  <2>2. Len(batches) \in 1 .. Len(batches)
    BY <1>0, <1>b, <2>1, EmptySeq DEF TypeInv
  <2>3. batchChan' \in Seq(1 .. Len(batches))
    <3>1. batchChan \in Seq(1 .. Len(batches))
      BY <1>0 DEF TypeInv
    <3>. QED BY <2>1, <2>2, <3>1, AppendProperties
  <2>. QED
    BY <1>0, <1>a, <2>1, <2>3
       DEF Inv, TypeInv, Ordered, AckedHandled, Covered, Safe, Dormant, Fresh, InRange, tracker
<1>3. CASE StopOnError \/ StopOnCancel \/ ReadFails
  <2>1. /\ phase' = "close"
        /\ UNCHANGED <<file, tracker, unread, batchChan, worker, cancelled, outcome>>
    BY <1>3 DEF StopOnError, StopOnCancel, ReadFails
  <2>. QED
    BY <1>0, <1>a, <2>1
       DEF Inv, TypeInv, Ordered, AckedHandled, Covered, Safe, Dormant, Fresh, InRange, tracker
<1>4. CASE Finish \/ CloseTracker
  <2>1. PICK finished \in BOOLEAN : saveCheckpointsLocked(acked, ackCountSinceSave, finished)
    BY <1>4 DEF Finish, CloseTracker
  <2>2. /\ phase' = "returned"
        /\ UNCHANGED <<batches, unread, batchChan, errorChan, worker, cancelled, outcome>>
    BY <1>4 DEF Finish, CloseTracker
  <2>3. /\ file' \in Checkpoints /\ checkpoint' \in Checkpoints
        /\ pruned' \in Nat /\ pruned' <= Len(batches)
        /\ acked' = acked
        /\ 1 .. pruned' \subseteq acked
        /\ ackCountSinceSave' \in Nat
        /\ ~ Fresh(checkpoint')
        /\ Safe(file)' /\ Safe(checkpoint)'
    BY <1>0, <1>a, <2>1, <2>2, SaveIsSafe DEF TypeInv, AckedHandled
  <2>. QED
    BY <1>0, <1>a, <2>2, <2>3 DEF Inv, TypeInv, Ordered, AckedHandled, Covered, Dormant, Fresh
<1>. QED BY <1>1, <1>2, <1>3, <1>4 DEF ReaderNext

(* The workers: an acknowledged batch was handled, and the save that follows the
   acknowledgement bookmarks nothing else. *)
LEMMA WorkerKeepsInv == ASSUME KnownTypes, Inv, NEW w \in Workers, WorkerNext(w) PROVE Inv'
<1>0. /\ TypeInv /\ Ordered /\ AckedHandled /\ Covered /\ Dormant
      /\ Safe(file) /\ Safe(checkpoint)
  BY DEF Inv
<1>b. Len(batches) \in Nat
  BY <1>0, LenProperties DEF TypeInv
<1>1. CASE Receive(w)
  <2>1. /\ batchChan # <<>>
        /\ worker' = [worker EXCEPT ![w] = [at |-> "write", seq |-> Head(batchChan)]]
        /\ batchChan' = Tail(batchChan)
        /\ UNCHANGED <<file, tracker, phase, unread, errorChan, cancelled, outcome>>
    BY <1>1 DEF Receive
  <2>2. Head(batchChan) \in 1 .. Len(batches) /\ batchChan' \in Seq(1 .. Len(batches))
    BY <1>0, <2>1, HeadTailProperties DEF TypeInv
  <2>3. ~ Fresh(checkpoint)
    BY <1>0, <2>1 DEF Dormant
  <2>4. [at |-> "write", seq |-> Head(batchChan)] \in WorkerStates
    BY <1>b, <2>2 DEF WorkerStates
  <2>5. TypeInv'
    BY <1>0, <2>1, <2>2, <2>4 DEF TypeInv, tracker
  <2>. QED
    BY <1>0, <2>1, <2>3, <2>5
       DEF Inv, TypeInv, Ordered, AckedHandled, Covered, Safe, Dormant, Fresh, InRange, tracker,
           outcome, Handled
<1>2. CASE WorkerExits(w) \/ WriteFails(w) \/ SkipAck(w)
  <2>1. /\ worker' = [worker EXCEPT ![w] = Gone] \/ worker' = [worker EXCEPT ![w] = Idle]
        /\ UNCHANGED <<file, tracker, phase, unread, batchChan, cancelled, outcome>>
    BY <1>2 DEF WorkerExits, WriteFails, SkipAck
  <2>2. /\ worker' \in [Workers -> WorkerStates]
        /\ \A x \in Workers :
             worker'[x].at \in {"write", "ack"} => worker'[x] = worker[x]
    BY <1>0, <2>1 DEF TypeInv, WorkerStates, Gone, Idle
  <2>. HIDE <2>1
  <2>3. UNCHANGED <<file, tracker, phase, unread, batchChan, cancelled, outcome>>
    BY <2>1
  <2>. QED
    BY <1>0, <2>2, <2>3
       DEF Inv, TypeInv, Ordered, AckedHandled, Covered, Safe, Dormant, Fresh, InRange, tracker,
           outcome, Handled
<1>3. CASE Insert(w) \/ RecordFailure(w)
  <2>1. Handled \subseteq Handled'
    BY <1>3 DEF Insert, RecordFailure, Handled
  <2>2. UNCHANGED <<file, tracker, stages>>
    BY <1>3 DEF Insert, RecordFailure
  <2>3. TypeInv'
    BY <1>0, <2>2 DEF TypeInv, tracker, stages
  <2>4. Ordered' /\ AckedHandled'
    BY <1>0, <2>1, <2>2 DEF Ordered, AckedHandled, tracker, stages
  <2>5. Covered' /\ Dormant'
    BY <1>0, <2>1, <2>2 DEF Covered, Dormant, tracker, stages, Fresh
  <2>6. Safe(file)' /\ Safe(checkpoint)'
    BY <1>0, <2>1, <2>2 DEF Safe, Fresh, InRange, tracker
  <2>. QED BY <2>3, <2>4, <2>5, <2>6 DEF Inv
<1>4. CASE EndWrite(w)
  <2>1. /\ worker[w].at = "write"
        /\ batches[worker[w].seq] \subseteq Handled \/ cancelled
        /\ worker' = [worker EXCEPT ![w].at = "ack"]
        /\ UNCHANGED <<file, tracker, phase, unread, batchChan, errorChan, cancelled, outcome>>
    BY <1>4 DEF EndWrite, Batch
  <2>2. /\ worker' \in [Workers -> WorkerStates]
        /\ \A x \in Workers : x # w => worker'[x] = worker[x]
        /\ worker'[w].seq = worker[w].seq
    BY <1>0, <2>1 DEF TypeInv, WorkerStates
  <2>3. ~ Fresh(checkpoint)
    BY <1>0, <2>1 DEF Dormant
  <2>4. TypeInv'
    BY <1>0, <2>1, <2>2 DEF TypeInv, tracker
  <2>5. AckedHandled'
    BY <1>0, <2>1, <2>2 DEF AckedHandled, tracker, outcome, Handled
  <2>. QED
    BY <1>0, <2>1, <2>3, <2>4, <2>5
       DEF Inv, Ordered, Covered, Safe, Dormant, Fresh, InRange, tracker, outcome, Handled
<1>5. CASE AckBatch(w)
  <2> DEFINE a == acked \cup {worker[w].seq}
             count == ackCountSinceSave + 1
  <2>1. /\ worker[w].at = "ack" /\ ~ cancelled
        /\ worker' = [worker EXCEPT ![w] = Idle]
        /\ UNCHANGED <<batches, completed, phase, unread, batchChan, errorChan, cancelled, outcome>>
    BY <1>5 DEF AckBatch
  <2>2. /\ worker' \in [Workers -> WorkerStates]
        /\ \A x \in Workers :
             worker'[x].at \in {"write", "ack"} => worker'[x] = worker[x]
    BY <1>0, <2>1 DEF TypeInv, WorkerStates, Idle
  <2>3. /\ a \in SUBSET (1 .. Len(batches)) /\ acked \subseteq a
        /\ \A q \in a : batches[q] \subseteq Handled
        /\ count \in Nat
    <3>1. worker[w].seq \in 1 .. Len(batches)
      BY <1>0, <2>1 DEF TypeInv
    <3>2. batches[worker[w].seq] \subseteq Handled
      BY <1>0, <2>1 DEF AckedHandled
    <3>3. \A q \in acked : batches[q] \subseteq Handled
      BY <1>0 DEF AckedHandled
    <3>4. acked \subseteq 1 .. Len(batches) /\ ackCountSinceSave \in Nat
      BY <1>0 DEF TypeInv
    <3>5. \A q \in a : q \in acked \/ q = worker[w].seq
      OBVIOUS
    <3>6. a \subseteq 1 .. Len(batches) /\ acked \subseteq a
      BY <3>1, <3>4
    <3>7. \A q \in a : batches[q] \subseteq Handled
      <4>. HIDE DEF a
      <4>. QED BY <3>2, <3>3, <3>5
    <3>. QED BY <3>4, <3>6, <3>7
  <2>4. ~ Fresh(checkpoint)
    BY <1>0, <2>1 DEF Dormant
  <2>5. Handled' = Handled
    BY <2>1 DEF outcome, Handled
  <2>6. /\ file' \in Checkpoints /\ checkpoint' \in Checkpoints
        /\ pruned' \in Nat /\ pruned' <= Len(batches)
        /\ acked' = a
        /\ 1 .. pruned' \subseteq a
        /\ ackCountSinceSave' \in Nat
        /\ ~ Fresh(checkpoint')
        /\ Safe(file)' /\ Safe(checkpoint)'
    <3>1. CASE saveCheckpointsLocked(a, count, FALSE)
      <4>. HIDE DEF a, count
      <4>. QED BY <2>1, <2>3, <2>4, <3>1, SaveIsSafe
    <3>2. CASE /\ acked' = a
               /\ ackCountSinceSave' = count
               /\ UNCHANGED <<file, checkpoint, pruned>>
      BY <1>0, <2>3, <2>4, <2>5, <3>2 DEF TypeInv, Safe, Fresh, InRange
    <3>. QED BY <1>5, <3>1, <3>2 DEF AckBatch
  <2>. HIDE DEF a, count
  <2>7. TypeInv'
    BY <1>0, <2>1, <2>2, <2>3, <2>6 DEF TypeInv
  <2>8. AckedHandled'
    BY <1>0, <2>1, <2>2, <2>3, <2>5, <2>6 DEF AckedHandled
  <2>. QED
    BY <1>0, <2>1, <2>4, <2>5, <2>6, <2>7, <2>8
       DEF Inv, Ordered, Covered, Dormant, Fresh
<1>. QED BY <1>1, <1>2, <1>3, <1>4, <1>5 DEF WorkerNext

(* Every step, those of the ticker, of a signal and of a restart included. *)
LEMMA BackfillKeepsInv == ASSUME KnownTypes, Inv, [Next]_vars PROVE Inv'
<1>0. /\ TypeInv /\ Ordered /\ AckedHandled /\ Covered /\ Dormant
      /\ Safe(file) /\ Safe(checkpoint)
  BY DEF Inv
<1>1. CASE Tick
  <2>1. /\ phase # "plan" /\ ackCountSinceSave > 0
        /\ saveCheckpointsLocked(acked, ackCountSinceSave, FALSE)
        /\ UNCHANGED <<batches, completed, stages, outcome>>
    BY <1>1 DEF Tick
  <2>2. ~ Fresh(checkpoint)
    BY <1>0, <2>1 DEF Dormant
  <2>3. UNCHANGED unread /\ Handled' = Handled
    BY <2>1 DEF stages, outcome, Handled
  <2>4. /\ file' \in Checkpoints /\ checkpoint' \in Checkpoints
        /\ pruned' \in Nat /\ pruned' <= Len(batches)
        /\ acked' = acked
        /\ 1 .. pruned' \subseteq acked
        /\ ackCountSinceSave' \in Nat
        /\ ~ Fresh(checkpoint')
        /\ Safe(file)' /\ Safe(checkpoint)'
    BY <1>0, <2>1, <2>2, <2>3, SaveIsSafe DEF TypeInv, AckedHandled
  <2>. QED
    BY <1>0, <2>1, <2>2, <2>3, <2>4
       DEF Inv, TypeInv, Ordered, AckedHandled, Covered, Dormant, Fresh, stages
<1>2. CASE Cancel \/ UNCHANGED vars
  <2>1. /\ UNCHANGED <<file, tracker, phase, unread, batchChan, worker, outcome>>
        /\ cancelled' = cancelled \/ cancelled' = TRUE
    BY <1>2 DEF Cancel, vars, stages
  <2>. QED
    BY <1>0, <2>1
       DEF Inv, TypeInv, Ordered, AckedHandled, Covered, Safe, Dormant, Fresh, InRange, tracker,
           outcome, Handled
<1>3. CASE Restart
  <2>1. /\ checkpoint' = NoCheckpoint /\ batches' = <<>> /\ pruned' = 0 /\ acked' = {}
        /\ ackCountSinceSave' = 0 /\ phase' = "plan" /\ unread' = {} /\ batchChan' = <<>>
        /\ worker' = [x \in Workers |-> Idle]
        /\ UNCHANGED <<file, outcome>>
    BY <1>3 DEF Restart
  <2>2. TypeInv'
    <3>1. \A S : <<>> \in Seq(S)
      OBVIOUS
    <3>2. Len(<<>>) = 0
      OBVIOUS
    <3>. QED BY <1>0, <2>1, <3>1, <3>2, NoCheckpointYet DEF TypeInv, WorkerStates, Idle
  <2>. QED
    BY <1>0, <2>1, <2>2, NoCheckpointYet
       DEF Inv, Ordered, AckedHandled, Covered, Safe, Dormant, Fresh, InRange, Idle, outcome,
           Handled
<1>. QED
  BY <1>1, <1>2, <1>3, PlanKeepsInv, ReaderKeepsInv, WorkerKeepsInv DEF Next

(* migrateCollection, "to ensure no documents are skipped or duplicated upon
   resume": for any number of documents of known types, workers, batch size,
   threshold and order of acknowledgements, and whatever fails, is cancelled or
   crashes, the next run reads every document that has no outcome. *)
THEOREM ResumptionIsSafe ==
  ASSUME KnownTypes
  PROVE  Spec => []BookmarkIsSafe
<1>1. Inv /\ [Next]_vars => Inv'
  BY BackfillKeepsInv
<1>2. Inv => BookmarkIsSafe
  BY DEF Inv, Safe, BookmarkIsSafe, ToRead
<1>. QED BY <1>1, <1>2, InitialInv, PTL DEF Spec
-----------------------------------------------------------------------------
(* No batch is handed out twice: it is with one worker, or once in the channel, or
   still with the reader, or acknowledged. *)
Busy(w) == worker[w].at \in {"write", "ack"}

HandedOutOnce ==
  /\ \A i, j \in 1 .. Len(batchChan) : i # j => batchChan[i] # batchChan[j]
  /\ \A i \in 1 .. Len(batchChan) : batchChan[i] \notin acked
  /\ \A w \in Workers : Busy(w) => worker[w].seq \notin acked
  /\ \A w \in Workers, i \in 1 .. Len(batchChan) : Busy(w) => worker[w].seq # batchChan[i]
  /\ \A v, w \in Workers : Busy(v) /\ Busy(w) /\ v # w => worker[v].seq # worker[w].seq
  /\ phase \in {"send", "last"} =>
       /\ Len(batches) \notin acked
       /\ \A i \in 1 .. Len(batchChan) : batchChan[i] # Len(batches)
       /\ \A w \in Workers : Busy(w) => worker[w].seq # Len(batches)

(* What TypeOK says beyond Inv. *)
Bounds ==
  /\ \A q \in 1 .. Len(batches) : batches[q] # {}
  /\ ackCountSinceSave <= Cardinality(acked)
  /\ {completed, errorChan, cancelled} \subseteq BOOLEAN
  /\ Len(batchChan) <= ChannelCapacity
  /\ \A w \in Workers : ~ Busy(w) => worker[w].seq = 0
  /\ target \subseteq Docs /\ dlq \subseteq Docs

(* A save leaves the count of acknowledgements or starts it anew. *)
LEMMA SaveCounts ==
  ASSUME NEW a, IsFiniteSet(a), NEW count \in Nat, count <= Cardinality(a),
         NEW finished \in BOOLEAN, saveCheckpointsLocked(a, count, finished)
  PROVE  acked' = a /\ ackCountSinceSave' <= Cardinality(acked')
<1>1. Cardinality(a) \in Nat
  BY FS_CardinalityType
<1>. QED BY <1>1 DEF saveCheckpointsLocked

(* There are as many acknowledged batches as can be counted. *)
LEMMA AckedIsFinite == ASSUME TypeInv PROVE IsFiniteSet(acked) /\ Cardinality(acked) \in Nat
<1>1. Len(batches) \in Nat /\ acked \in SUBSET (1 .. Len(batches))
  BY LenProperties DEF TypeInv
<1>2. IsFiniteSet(1 .. Len(batches))
  BY <1>1, FS_Interval
<1>3. IsFiniteSet(acked)
  BY <1>1, <1>2, FS_Subset
<1>. QED BY <1>3, FS_CardinalityType

LEMMA ReaderKeepsBounds ==
  ASSUME KnownTypes, Inv, HandedOutOnce, Bounds, ReaderNext
  PROVE  HandedOutOnce' /\ Bounds'
<1>0. TypeInv
  BY DEF Inv
<1>a. /\ Len(batches) \in Nat /\ Len(batchChan) \in Nat
      /\ \A i \in 1 .. Len(batchChan) : batchChan[i] \in 1 .. Len(batches)
      /\ batchChan \in Seq(1 .. Len(batches))
      /\ acked \subseteq 1 .. Len(batches)
      /\ \A w \in Workers : Busy(w) => worker[w].seq \in 1 .. Len(batches)
  BY <1>0, LenProperties, ElementOfSeq DEF TypeInv, Busy
<1>b. IsFiniteSet(acked)
  BY <1>0, AckedIsFinite
<1>1. CASE ReadBatch
  <2>1. PICK docs \in NextDocs :
          /\ batches' = IF docs = {} THEN batches ELSE Append(batches, docs)
          /\ phase' = CASE docs = {} -> "wait"
                        [] Cardinality(docs) = BatchSize -> "send"
                        [] OTHER -> "last"
    BY <1>1 DEF ReadBatch
  <2>2. UNCHANGED <<file, checkpoint, pruned, acked, ackCountSinceSave, completed,
                    batchChan, errorChan, worker, cancelled, outcome>>
    BY <1>1 DEF ReadBatch
  <2>3. CASE docs = {}
    <3>1. Cardinality(docs) # BatchSize
      BY <2>3, FS_EmptySet, BackfillAssumption
    <3>2. batches' = batches /\ phase' = "wait"
      BY <2>1, <2>3, <3>1
    <3>. QED BY <2>2, <3>2 DEF HandedOutOnce, Bounds, Busy, outcome
  <2>4. CASE docs # {}
    <3>1. /\ Len(batches') = Len(batches) + 1
          /\ \A q \in 1 .. Len(batches) : batches'[q] = batches[q]
          /\ batches'[Len(batches) + 1] = docs
      BY <1>0, <2>1, <2>4, AppendProperties DEF TypeInv
    <3>2. \A q \in 1 .. Len(batches') : batches'[q] # {}
      BY <1>a, <2>4, <3>1 DEF Bounds
    <3>3. /\ Len(batches') \notin acked
          /\ \A i \in 1 .. Len(batchChan) : batchChan[i] # Len(batches')
          /\ \A w \in Workers : Busy(w) => worker[w].seq # Len(batches')
      BY <1>a, <3>1
    <3>4. HandedOutOnce'
      BY <2>2, <3>3 DEF HandedOutOnce, Busy
    <3>. QED BY <2>2, <3>2, <3>4 DEF Bounds, Busy, outcome
  <2>. QED BY <2>3, <2>4
<1>2. CASE SendBatch
  <2>1. /\ phase \in {"send", "last"} /\ phase' \in {"read", "wait"}
        /\ Len(batchChan) < ChannelCapacity
        /\ batchChan' = Append(batchChan, Len(batches))
        /\ UNCHANGED <<file, tracker, unread, errorChan, worker, cancelled, outcome>>
    BY <1>2 DEF SendBatch
  <2>2. /\ Len(batchChan') = Len(batchChan) + 1
        /\ \A i \in 1 .. Len(batchChan) : batchChan'[i] = batchChan[i]
        /\ batchChan'[Len(batchChan) + 1] = Len(batches)
    BY <1>a, <2>1, AppendProperties
  <2>3. \A i \in 1 .. Len(batchChan') : i \in 1 .. Len(batchChan) \/ i = Len(batchChan) + 1
    BY <1>a, <2>2
  <2>4. HandedOutOnce'
    BY <2>1, <2>2, <2>3 DEF HandedOutOnce, Busy, tracker
  <2>5. Len(batchChan') <= ChannelCapacity
    BY <1>a, <2>1, <2>2, BackfillAssumption
  <2>. QED BY <2>1, <2>4, <2>5 DEF Bounds, Busy, tracker, outcome
<1>3. CASE StopOnError \/ StopOnCancel \/ ReadFails
  <2>1. /\ phase' = "close"
        /\ errorChan' \in {errorChan, FALSE}
        /\ UNCHANGED <<file, tracker, unread, batchChan, worker, cancelled, outcome>>
    BY <1>3 DEF StopOnError, StopOnCancel, ReadFails
  <2>. QED BY <2>1 DEF HandedOutOnce, Bounds, Busy, tracker, outcome
<1>4. CASE Finish \/ CloseTracker
  <2>1. PICK finished \in BOOLEAN : saveCheckpointsLocked(acked, ackCountSinceSave, finished)
    BY <1>4 DEF Finish, CloseTracker
  <2>2. /\ phase' = "returned" /\ completed' \in {completed, TRUE}
        /\ UNCHANGED <<batches, unread, batchChan, errorChan, worker, cancelled, outcome>>
    BY <1>4 DEF Finish, CloseTracker
  <2>3. acked' = acked /\ ackCountSinceSave' <= Cardinality(acked')
    BY <1>0, <1>b, <2>1, SaveCounts DEF TypeInv, Bounds
  <2>. QED BY <2>2, <2>3 DEF HandedOutOnce, Bounds, Busy, outcome
<1>. QED BY <1>1, <1>2, <1>3, <1>4 DEF ReaderNext

LEMMA WorkerKeepsBounds ==
  ASSUME KnownTypes, Inv, HandedOutOnce, Bounds, NEW w \in Workers, WorkerNext(w)
  PROVE  HandedOutOnce' /\ Bounds'
<1>0. TypeInv
  BY DEF Inv
<1>a. /\ Len(batches) \in Nat /\ Len(batchChan) \in Nat
      /\ batchChan \in Seq(1 .. Len(batches))
      /\ acked \subseteq 1 .. Len(batches)
      /\ worker \in [Workers -> WorkerStates]
  BY <1>0, LenProperties DEF TypeInv
<1>b. IsFiniteSet(acked)
  BY <1>0, AckedIsFinite
<1>1. CASE Receive(w)
  <2>1. /\ worker[w].at = "receive" /\ batchChan # <<>>
        /\ worker' = [worker EXCEPT ![w] = [at |-> "write", seq |-> Head(batchChan)]]
        /\ batchChan' = Tail(batchChan)
        /\ UNCHANGED <<file, tracker, phase, unread, errorChan, cancelled, outcome>>
    BY <1>1 DEF Receive
  <2>2. /\ Len(batchChan) \in Nat \ {0}
        /\ Head(batchChan) = batchChan[1]
        /\ Len(batchChan') = Len(batchChan) - 1
        /\ \A i \in 1 .. Len(batchChan') : i + 1 \in 1 .. Len(batchChan) /\ batchChan'[i] = batchChan[i + 1]
    BY <1>a, <2>1, HeadTailProperties, EmptySeq
  <2>3. /\ worker'[w] = [at |-> "write", seq |-> batchChan[1]]
        /\ \A v \in Workers : v # w => worker'[v] = worker[v]
    BY <1>a, <2>1, <2>2
  <2>4. 1 \in 1 .. Len(batchChan) /\ \A i \in 1 .. Len(batchChan') : i + 1 # 1
    BY <2>2
  <2>5. HandedOutOnce'
    <3>1. \A i, j \in 1 .. Len(batchChan') : i # j => batchChan'[i] # batchChan'[j]
      BY <2>2 DEF HandedOutOnce
    <3>2. \A i \in 1 .. Len(batchChan') : batchChan'[i] \notin acked'
      BY <2>1, <2>2 DEF HandedOutOnce, tracker
    <3>3. \A v \in Workers : Busy(v)' => worker'[v].seq \notin acked'
      BY <2>1, <2>3, <2>4 DEF HandedOutOnce, Busy, tracker
    <3>4. \A v \in Workers, i \in 1 .. Len(batchChan') : Busy(v)' => worker'[v].seq # batchChan'[i]
      BY <2>1, <2>2, <2>3, <2>4 DEF HandedOutOnce, Busy
    <3>5. \A v, x \in Workers : Busy(v)' /\ Busy(x)' /\ v # x => worker'[v].seq # worker'[x].seq
      BY <2>1, <2>3, <2>4 DEF HandedOutOnce, Busy
    <3>6. phase' \in {"send", "last"} =>
            /\ Len(batches') \notin acked'
            /\ \A i \in 1 .. Len(batchChan') : batchChan'[i] # Len(batches')
            /\ \A v \in Workers : Busy(v)' => worker'[v].seq # Len(batches')
      BY <2>1, <2>2, <2>3, <2>4 DEF HandedOutOnce, Busy, tracker
    <3>. QED BY <3>1, <3>2, <3>3, <3>4, <3>5, <3>6 DEF HandedOutOnce
  <2>6. Len(batchChan') <= ChannelCapacity
    BY <1>a, <2>2, BackfillAssumption DEF Bounds
  <2>7. \A v \in Workers : ~ Busy(v)' => worker'[v].seq = 0
    BY <2>3 DEF Busy, Bounds
  <2>. QED BY <2>1, <2>5, <2>6, <2>7 DEF Bounds, tracker, outcome
<1>2. CASE WorkerExits(w) \/ WriteFails(w) \/ SkipAck(w)
  <2>1. /\ worker' = [worker EXCEPT ![w] = Gone] \/ worker' = [worker EXCEPT ![w] = Idle]
        /\ errorChan' \in {errorChan, TRUE}
        /\ UNCHANGED <<file, tracker, phase, unread, batchChan, cancelled, outcome>>
    BY <1>2 DEF WorkerExits, WriteFails, SkipAck
  <2>2. \A x \in Workers : worker'[x] = worker[x] \/ (~ Busy(x)' /\ worker'[x].seq = 0)
    BY <1>a, <2>1 DEF Gone, Idle, Busy
  <2>3. UNCHANGED <<file, tracker, phase, unread, batchChan, cancelled, outcome>>
    BY <2>1
  <2>4. HandedOutOnce'
    BY <2>2, <2>3 DEF HandedOutOnce, Busy, tracker
  <2>. QED BY <2>1, <2>2, <2>3, <2>4 DEF Bounds, Busy, tracker, outcome
<1>3. CASE Insert(w) \/ RecordFailure(w)
  <2>1. UNCHANGED <<file, tracker, stages>> /\ worker[w].at = "write"
    BY <1>3 DEF Insert, RecordFailure
  <2>2. Batch(w) \subseteq Docs
    <3>1. worker[w].seq \in 1 .. Len(batches) /\ batches \in Seq(SUBSET Docs)
      BY <1>0, <2>1 DEF TypeInv
    <3>. QED BY <3>1, ElementOfSeq DEF Batch
  <2>3. target' \subseteq Docs /\ dlq' \subseteq Docs
    BY <1>3, <2>2 DEF Insert, RecordFailure, Bounds
  <2>. QED BY <2>1, <2>3 DEF HandedOutOnce, Bounds, Busy, tracker, stages
<1>4. CASE EndWrite(w)
  <2>1. /\ worker[w].at = "write"
        /\ worker' = [worker EXCEPT ![w].at = "ack"]
        /\ UNCHANGED <<file, tracker, phase, unread, batchChan, errorChan, cancelled, outcome>>
    BY <1>4 DEF EndWrite
  <2>2. \A x \in Workers : worker'[x].seq = worker[x].seq /\ (Busy(x)' <=> Busy(x))
    BY <1>a, <2>1 DEF WorkerStates, Busy
  <2>. QED BY <2>1, <2>2 DEF HandedOutOnce, Bounds, tracker, outcome
<1>5. CASE AckBatch(w)
  <2> DEFINE a == acked \cup {worker[w].seq}
             count == ackCountSinceSave + 1
  <2>1. /\ worker[w].at = "ack"
        /\ worker' = [worker EXCEPT ![w] = Idle]
        /\ UNCHANGED <<batches, completed, phase, unread, batchChan, errorChan, cancelled, outcome>>
    BY <1>5 DEF AckBatch
  <2>2. /\ ~ Busy(w)' /\ worker'[w].seq = 0
        /\ \A x \in Workers : x # w => worker'[x] = worker[x]
    BY <1>a, <2>1 DEF Idle, Busy
  <2>3. worker[w].seq \notin acked /\ Busy(w)
    BY <2>1 DEF HandedOutOnce, Busy
  <2>4. IsFiniteSet(a) /\ Cardinality(a) = Cardinality(acked) + 1
    BY <1>b, <2>3, FS_AddElement
  <2>5. count \in Nat /\ count <= Cardinality(a)
    <3>1. ackCountSinceSave \in Nat /\ Cardinality(acked) \in Nat
      BY <1>0, <1>b, FS_CardinalityType DEF TypeInv
    <3>2. ackCountSinceSave <= Cardinality(acked)
      BY DEF Bounds
    <3>. QED BY <2>4, <3>1, <3>2
  <2>6. acked' = a /\ ackCountSinceSave' <= Cardinality(acked')
    <3>1. \/ saveCheckpointsLocked(a, count, FALSE)
          \/ acked' = a /\ ackCountSinceSave' = count
      BY <1>5 DEF AckBatch
    <3>. HIDE DEF a, count
    <3>. QED BY <2>4, <2>5, <3>1, SaveCounts
  <2>7. HandedOutOnce'
    BY <2>1, <2>2, <2>3, <2>6 DEF HandedOutOnce, Busy
  <2>. QED BY <2>1, <2>2, <2>6, <2>7 DEF Bounds, Busy, outcome
<1>. QED BY <1>1, <1>2, <1>3, <1>4, <1>5 DEF WorkerNext

(* Type correctness of the copy, with its bounds: the channel keeps its capacity,
   the save counter counts acknowledgements that happened, each batch once, and no
   batch is empty. *)
THEOREM TypeCorrect ==
  ASSUME KnownTypes
  PROVE  Spec => []TypeOK
<1>1. Init => HandedOutOnce /\ Bounds
  <2> SUFFICES ASSUME Init PROVE HandedOutOnce /\ Bounds
    OBVIOUS
  <2>1. Len(<<>>) = 0 /\ Cardinality({}) = 0
    BY FS_EmptySet
  <2>2. batches = <<>> /\ batchChan = <<>> /\ acked = {} /\ ackCountSinceSave = 0
    BY DEF Init
  <2>3. \A w \in Workers : ~ Busy(w) /\ worker[w].seq = 0
    BY DEF Init, Busy, Idle
  <2>4. /\ {completed, errorChan, cancelled} \subseteq BOOLEAN
        /\ target \subseteq Docs /\ dlq \subseteq Docs
        /\ phase = "plan"
    BY DEF Init
  <2>5. HandedOutOnce
    BY <2>1, <2>2, <2>3, <2>4 DEF HandedOutOnce
  <2>6. 0 <= ChannelCapacity
    BY BackfillAssumption
  <2>. QED BY <2>1, <2>2, <2>3, <2>4, <2>5, <2>6 DEF Bounds
<1>2. Inv /\ HandedOutOnce /\ Bounds /\ [Next]_vars => (HandedOutOnce /\ Bounds)'
  <2> SUFFICES ASSUME Inv, HandedOutOnce, Bounds, [Next]_vars PROVE (HandedOutOnce /\ Bounds)'
    OBVIOUS
  <2>1. CASE PlanNext
    <3>1. UNCHANGED <<batches, acked, ackCountSinceSave, completed, batchChan, errorChan,
                      worker, cancelled, outcome>>
      BY <2>1 DEF PlanNext, AlreadyCompleted, ResumeDirectly, StartFresh, tracker
    <3>2. phase' \in {"returned", "read"}
      BY <2>1 DEF PlanNext, AlreadyCompleted, ResumeDirectly, StartFresh
    <3>. QED BY <3>1, <3>2 DEF HandedOutOnce, Bounds, Busy, outcome
  <2>2. CASE Tick
    <3>1. IsFiniteSet(acked) /\ ackCountSinceSave \in Nat
      BY AckedIsFinite DEF Inv, TypeInv
    <3>2. acked' = acked /\ ackCountSinceSave' <= Cardinality(acked')
      BY <2>2, <3>1, SaveCounts DEF Tick, Bounds
    <3>. QED BY <2>2, <3>2 DEF Tick, stages, HandedOutOnce, Bounds, Busy, outcome
  <2>3. CASE Cancel \/ UNCHANGED vars
    <3>1. /\ UNCHANGED <<file, tracker, phase, unread, batchChan, worker, errorChan, outcome>>
          /\ cancelled' \in {cancelled, TRUE}
      BY <2>3 DEF Cancel, vars, stages
    <3>. QED BY <3>1 DEF HandedOutOnce, Bounds, Busy, tracker, outcome
  <2>4. CASE Restart
    <3>1. Len(<<>>) = 0 /\ Cardinality({}) = 0
      BY FS_EmptySet
    <3>2. /\ batches' = <<>> /\ batchChan' = <<>> /\ acked' = {} /\ ackCountSinceSave' = 0
          /\ phase' = "plan" /\ ~ completed' /\ completed' \in BOOLEAN
          /\ errorChan' \in BOOLEAN /\ cancelled' \in BOOLEAN
          /\ worker' = [x \in Workers |-> Idle] /\ UNCHANGED outcome
      BY <2>4 DEF Restart
    <3>. QED BY <3>1, <3>2, BackfillAssumption DEF HandedOutOnce, Bounds, Busy, Idle, outcome
  <2>. QED BY <2>1, <2>2, <2>3, <2>4, ReaderKeepsBounds, WorkerKeepsBounds DEF Next
<1>3. Inv /\ HandedOutOnce /\ Bounds => TypeOK
  <2> SUFFICES ASSUME Inv, HandedOutOnce, Bounds PROVE TypeOK
    OBVIOUS
  <2>1. TypeInv
    BY DEF Inv
  <2>2. batches \in Seq((SUBSET Docs) \ {{}})
    <3>1. batches \in Seq(SUBSET Docs) /\ \A q \in 1 .. Len(batches) : batches[q] # {}
      BY <2>1 DEF TypeInv, Bounds
    <3>2. \A q \in 1 .. Len(batches) : batches[q] \in (SUBSET Docs) \ {{}}
      BY <3>1, ElementOfSeq
    <3>. QED BY <3>1, <3>2, SeqDef
  <2>3. Len(batches) \in Nat /\ Cardinality(acked) \in Nat
    BY <2>1, AckedIsFinite, LenProperties DEF TypeInv
  <2>4. pruned \in 0 .. Len(batches) /\ ackCountSinceSave \in 0 .. Cardinality(acked)
    BY <2>1, <2>3 DEF TypeInv, Bounds
  <2>5. ASSUME NEW w \in Workers
        PROVE  \/ worker[w].at \in {"receive", "exited"} /\ worker[w].seq = 0
               \/ worker[w].at \in {"write", "ack"} /\ worker[w].seq \in 1 .. Len(batches)
    BY <2>1 DEF TypeInv, WorkerStates, Bounds, Busy
  <2>. QED BY <2>1, <2>2, <2>4, <2>5 DEF TypeOK, TypeInv, Bounds
<1>4. Inv /\ [Next]_vars => Inv'
  BY BackfillKeepsInv
<1>. QED BY <1>1, <1>2, <1>3, <1>4, InitialInv, PTL DEF Spec

-----------------------------------------------------------------------------
(* The documents that a later save may bookmark. *)
Ahead(d) == d \in unread \/ \E q \in pruned + 1 .. Len(batches) : d \in batches[q]

(* They lie at or behind the bookmark of their type. *)
Forward ==
  ~ Fresh(checkpoint) =>
    \A t \in DOMAIN checkpoint.progress : \A d \in Docs :
      IdType[d] = t /\ Ahead(d) => checkpoint.progress[t] <= d

(* The checkpoint in memory is the one on disk, unless a plan just replaced a
   file that said nothing. *)
Matches ==
  /\ Fresh(checkpoint) \/ Fresh(file) \/ file = checkpoint
  /\ checkpoint.completed => file.completed

(* Where a batch can be. *)
OnTheWay(q) ==
  \/ q \in acked
  \/ \E i \in 1 .. Len(batchChan) : batchChan[i] = q
  \/ \E w \in Workers : worker[w].at \in {"write", "ack"} /\ worker[w].seq = q
  \/ phase \in {"send", "last"} /\ q = Len(batches)

(* A run that was not cancelled and saw no error loses no batch, has read all
   when it waits, and its workers return only after the last batch. *)
Healthy == ~ cancelled /\ ~ errorChan /\ phase \in {"read", "send", "last", "wait"}

Accounted ==
  /\ Healthy =>
       /\ \A q \in 1 .. Len(batches) : OnTheWay(q)
       /\ phase \in {"last", "wait"} => unread = {}
       /\ \A w \in Workers : worker[w].at = "exited" => phase = "wait" /\ batchChan = <<>>
  /\ phase = "plan" => \A w \in Workers : worker[w].at # "exited"

ProgressInv == Matches /\ Forward /\ Accounted

(* No bookmark on disk moves back. *)
StepsForward ==
  \A t \in DOMAIN file.progress :
    t \in DOMAIN file'.progress /\ file.progress[t] <= file'.progress[t]

(* A step that marks the collection completed does so with reason. *)
StepEarnsCompletion ==
  ~ file.completed /\ file'.completed => cancelled \/ errorChan \/ Docs \subseteq Handled'

-----------------------------------------------------------------------------
(* saveCheckpointsLocked replaces a bookmark by one of a later batch only, and
   marks the collection completed only when it is told to. *)
LEMMA SaveAdvances ==
  ASSUME KnownTypes, Inv, Matches, Forward, ~ Fresh(checkpoint),
         NEW a \in SUBSET (1 .. Len(batches)), acked \subseteq a,
         NEW count \in Nat, NEW finished \in BOOLEAN,
         saveCheckpointsLocked(a, count, finished),
         UNCHANGED <<batches, unread>>
  PROVE  /\ Matches' /\ Forward'
         /\ StepsForward
         /\ file'.completed => file.completed \/ finished
<1> DEFINE P == AckedPrefix(a)
<1>0. TypeInv /\ Ordered
  BY DEF Inv
<1>1. CASE UNCHANGED <<file, checkpoint, pruned>>
  <2>1. PICK T \in SUBSET CandidateBSONTypes : file.progress \in [T -> 0 .. NumDocs]
    BY <1>0 DEF TypeInv, Checkpoints
  <2>2. \A n \in 0 .. NumDocs : n <= n
    BY BackfillAssumption
  <2>3. StepsForward
    BY <1>1, <2>1, <2>2 DEF StepsForward
  <2>. QED BY <1>1, <2>3 DEF Matches, Forward, Ahead, Fresh
<1>2. CASE ~ UNCHANGED <<file, checkpoint, pruned>>
  <2> DEFINE progress == Advanced(P)
             m == pruned + Cardinality(P)
  <2>1. /\ file' = [progress |-> progress, completed |-> checkpoint.completed \/ finished]
        /\ checkpoint' = file'
        /\ pruned' = m
    BY <1>2 DEF saveCheckpointsLocked
  <2>2. /\ progress \in UNION {[T -> 0 .. NumDocs] : T \in SUBSET CandidateBSONTypes}
        /\ DOMAIN checkpoint.progress \subseteq DOMAIN progress
        /\ \A t \in DOMAIN progress :
             \/ /\ t \in DOMAIN checkpoint.progress
                /\ progress[t] = checkpoint.progress[t]
             \/ \E q \in P : progress[t] \in batches[q] /\ IdType[progress[t]] = t
    BY <1>0, AdvancedBookmarks
  <2>3. /\ m \in Nat /\ pruned \in Nat /\ Len(batches) \in Nat
        /\ m <= Len(batches)
        /\ P = pruned + 1 .. m
        /\ \A q \in 1 .. Len(batches) : batches[q] \in SUBSET Docs
    BY <1>0, PrefixOfBatches, LenProperties, ElementOfSeq DEF TypeInv
  <2>4. pruned <= m
    <3>1. P \subseteq pruned + 1 .. Len(batches)
      BY <1>0, PrefixOfBatches
    <3>2. IsFiniteSet(P)
      BY <2>3, <3>1, FS_Interval, FS_Subset
    <3>3. Cardinality(P) \in Nat
      BY <3>2, FS_CardinalityType
    <3>. HIDE DEF P
    <3>. QED BY <2>3, <3>3
  <2>. HIDE DEF progress, m, P
  <2>5. ASSUME NEW t \in DOMAIN progress, NEW q \in P,
               progress[t] \in batches[q], IdType[progress[t]] = t
        PROVE  /\ t \in DOMAIN checkpoint.progress => checkpoint.progress[t] <= progress[t]
               /\ \A d \in unread : progress[t] <= d
               /\ \A p \in m + 1 .. Len(batches) : \A d \in batches[p] : progress[t] <= d
    <3> DEFINE b == progress[t]
    <3>1. q \in pruned + 1 .. Len(batches) /\ q \in 1 .. Len(batches) /\ q <= m
      BY <2>3
    <3>2. b \in Docs /\ Ahead(b)
      BY <2>3, <2>5, <3>1 DEF Ahead
    <3>3. t \in DOMAIN checkpoint.progress => checkpoint.progress[t] <= b
      BY <2>5, <3>2 DEF Forward
    <3>4. b \in Nat /\ Docs \subseteq Nat
      BY <3>2, BackfillAssumption DEF Docs
    <3>5. \A d \in unread : b < d /\ d \in Nat
      BY <1>0, <2>5, <3>1, <3>4 DEF Ordered, TypeInv
    <3>6. \A p \in m + 1 .. Len(batches) : \A d \in batches[p] : b < d /\ d \in Nat
      <4>1. \A p \in m + 1 .. Len(batches) : p \in 1 .. Len(batches) /\ q < p
        BY <2>3, <3>1
      <4>. QED BY <1>0, <2>3, <2>5, <3>1, <3>4, <4>1 DEF Ordered
    <3>. HIDE DEF b
    <3>7. (\A d \in unread : b <= d)
          /\ (\A p \in m + 1 .. Len(batches) : \A d \in batches[p] : b <= d)
      BY <3>4, <3>5, <3>6
    <3>. QED BY <3>3, <3>7 DEF b
  <2>6. Matches'
    BY <2>1 DEF Matches
  <2>7. Forward'
    <3>1. ASSUME NEW t \in DOMAIN progress, NEW d \in Docs, IdType[d] = t,
                 d \in unread \/ \E p \in m + 1 .. Len(batches) : d \in batches[p]
          PROVE  progress[t] <= d
      <4>1. CASE t \in DOMAIN checkpoint.progress /\ progress[t] = checkpoint.progress[t]
        <5>1. \A p \in m + 1 .. Len(batches) : p \in pruned + 1 .. Len(batches)
          BY <2>3, <2>4
        <5>2. Ahead(d)
          BY <3>1, <5>1 DEF Ahead
        <5>. QED BY <3>1, <4>1, <5>2 DEF Forward
      <4>2. CASE \E q \in P : progress[t] \in batches[q] /\ IdType[progress[t]] = t
        BY <2>5, <3>1, <4>2
      <4>. QED BY <2>2, <4>1, <4>2
    <3>2. checkpoint'.progress = progress
      BY <2>1
    <3>. QED BY <2>1, <3>1, <3>2 DEF Forward, Ahead
  <2>8. StepsForward
    <3>1. ASSUME NEW t \in DOMAIN checkpoint.progress
          PROVE  t \in DOMAIN progress /\ checkpoint.progress[t] <= progress[t]
      <4>1. t \in DOMAIN progress
        BY <2>2
      <4>2. CASE progress[t] = checkpoint.progress[t]
        <5>1. progress[t] \in 0 .. NumDocs
          BY <2>2, <4>1
        <5>. QED BY <4>1, <4>2, <5>1, BackfillAssumption
      <4>. QED BY <2>2, <2>5, <4>1, <4>2
    <3>2. Fresh(file) \/ file = checkpoint
      BY DEF Matches
    <3>3. file'.progress = progress
      BY <2>1
    <3>. QED BY <3>1, <3>2, <3>3 DEF StepsForward, Fresh
  <2>9. file'.completed => file.completed \/ finished
    BY <2>1 DEF Matches
  <2>. QED BY <2>6, <2>7, <2>8, <2>9
<1>. QED BY <1>1, <1>2

-----------------------------------------------------------------------------
(* A save that accompanies a step of a worker, of the ticker or of the reader's
   last step, as the lemmas below use it. *)
Saves(finished) ==
  /\ \E a \in SUBSET (1 .. Len(batches)), count \in Nat :
       acked \subseteq a /\ saveCheckpointsLocked(a, count, finished)
  /\ UNCHANGED <<batches, unread>>

(* Every step either leaves the checkpoints alone, makes a plan or saves. *)
LEMMA WhoSaves ==
  ASSUME KnownTypes, Inv, [Next]_vars
  PROVE  \/ UNCHANGED <<file, checkpoint, pruned>>
         \/ PlanNext \/ Restart
         \/ ~ Fresh(checkpoint) /\ Saves(FALSE)
         \/ ~ Fresh(checkpoint) /\ Finish /\ Saves(TRUE)
<1>0. TypeInv /\ Dormant
  BY DEF Inv
<1>1. acked \in SUBSET (1 .. Len(batches)) /\ ackCountSinceSave \in Nat
  BY <1>0 DEF TypeInv
<1>2. CASE ReaderNext
  <2>1. CASE ReadBatch \/ SendBatch \/ StopOnError \/ StopOnCancel \/ ReadFails
    BY <2>1 DEF ReadBatch, SendBatch, StopOnError, StopOnCancel, ReadFails, tracker
  <2>2. CASE Finish
    <3>1. phase = "wait" /\ UNCHANGED <<batches, unread>>
          /\ saveCheckpointsLocked(acked, ackCountSinceSave, TRUE)
      BY <2>2 DEF Finish
    <3>. QED BY <1>0, <1>1, <2>2, <3>1 DEF Saves, Dormant
  <2>3. CASE CloseTracker
    <3>1. phase = "close" /\ UNCHANGED <<batches, unread>>
          /\ saveCheckpointsLocked(acked, ackCountSinceSave, FALSE)
      BY <2>3 DEF CloseTracker
    <3>. QED BY <1>0, <1>1, <3>1 DEF Saves, Dormant
  <2>. QED BY <1>2, <2>1, <2>2, <2>3 DEF ReaderNext
<1>3. ASSUME NEW w \in Workers, WorkerNext(w)
      PROVE  UNCHANGED <<file, checkpoint, pruned>> \/ (~ Fresh(checkpoint) /\ Saves(FALSE))
  <2>1. CASE ~ AckBatch(w)
    BY <1>3, <2>1 DEF WorkerNext, Receive, WorkerExits, Insert, RecordFailure, EndWrite, WriteFails,
                      SkipAck, tracker
  <2>2. CASE AckBatch(w)
    <3> DEFINE a == acked \cup {worker[w].seq}
    <3>1. worker[w].at = "ack" /\ UNCHANGED <<batches, unread>>
      BY <2>2 DEF AckBatch
    <3>2. worker[w].seq \in 1 .. Len(batches) /\ ~ Fresh(checkpoint)
      BY <1>0, <3>1 DEF TypeInv, Dormant
    <3>3. a \in SUBSET (1 .. Len(batches)) /\ acked \subseteq a /\ ackCountSinceSave + 1 \in Nat
      <4>1. a \subseteq 1 .. Len(batches) /\ acked \subseteq a
        BY <1>1, <3>2
      <4>2. ackCountSinceSave + 1 \in Nat
        BY <1>1
      <4>. QED BY <4>1, <4>2
    <3>4. \/ saveCheckpointsLocked(a, ackCountSinceSave + 1, FALSE)
          \/ UNCHANGED <<file, checkpoint, pruned>>
      BY <2>2 DEF AckBatch
    <3>. QED BY <3>1, <3>2, <3>3, <3>4 DEF Saves
  <2>. QED BY <2>1, <2>2
<1>4. CASE Tick
  <2>1. /\ ackCountSinceSave > 0
        /\ saveCheckpointsLocked(acked, ackCountSinceSave, FALSE)
        /\ UNCHANGED <<batches, unread>>
    BY <1>4 DEF Tick, stages
  <2>2. ~ Fresh(checkpoint)
    BY <1>0, <2>1 DEF Dormant
  <2>3. Saves(FALSE)
    BY <1>1, <2>1 DEF Saves
  <2>. QED BY <2>2, <2>3
<1>5. CASE Cancel \/ UNCHANGED vars
  BY <1>5 DEF Cancel, vars, tracker
<1>. QED
  <2>1. \/ PlanNext \/ Restart \/ ReaderNext \/ (\E w \in Workers : WorkerNext(w))
        \/ Tick \/ Cancel \/ UNCHANGED vars
    BY DEF Next
  <2>. QED BY <1>2, <1>3, <1>4, <1>5, <2>1

(* What a step does to the bookmarks. *)
LEMMA StepKeepsBookmarks ==
  ASSUME KnownTypes, Inv, Matches, Forward, [Next]_vars
  PROVE  /\ Matches' /\ StepsForward
         /\ file'.completed => file.completed \/ Finish
<1>0. TypeInv /\ Dormant
  BY DEF Inv
<1>1. ASSUME NEW finished \in BOOLEAN, ~ Fresh(checkpoint), Saves(finished)
      PROVE  /\ Matches' /\ StepsForward
             /\ file'.completed => file.completed \/ finished
  BY <1>1, SaveAdvances DEF Saves
<1>2. ASSUME file' = file
      PROVE  StepsForward
  <2>1. PICK T \in SUBSET CandidateBSONTypes : file.progress \in [T -> 0 .. NumDocs]
    BY <1>0 DEF TypeInv, Checkpoints
  <2>2. \A n \in 0 .. NumDocs : n <= n
    BY BackfillAssumption
  <2>. QED BY <1>2, <2>1, <2>2 DEF StepsForward
<1>3. CASE UNCHANGED <<file, checkpoint, pruned>>
  BY <1>2, <1>3 DEF Matches, Fresh
<1>4. CASE AlreadyCompleted
  BY <1>2, <1>4 DEF AlreadyCompleted, tracker, Matches, Fresh
<1>5. CASE ResumeDirectly
  BY <1>2, <1>5 DEF ResumeDirectly, Matches
<1>6. CASE StartFresh
  <2>1. /\ Fresh(file) /\ file' = NoCheckpoint /\ checkpoint'.completed = FALSE
    BY <1>6 DEF StartFresh
  <2>2. Fresh(file') /\ file'.completed = FALSE
    BY <2>1, NoCheckpointYet DEF NoCheckpoint
  <2>3. StepsForward
    BY <2>1 DEF StepsForward, Fresh
  <2>. QED BY <2>1, <2>2, <2>3 DEF Matches, Fresh
<1>7. CASE Restart
  <2>1. file' = file /\ checkpoint' = NoCheckpoint
    BY <1>7 DEF Restart
  <2>2. Fresh(checkpoint') /\ checkpoint'.completed = FALSE
    BY <2>1, NoCheckpointYet DEF NoCheckpoint
  <2>. QED BY <1>2, <2>1, <2>2 DEF Matches, Fresh
<1>. QED BY <1>1, <1>3, <1>4, <1>5, <1>6, <1>7, WhoSaves DEF PlanNext

(* Reading and planning put no document behind its bookmark. *)
LEMMA StepKeepsForward ==
  ASSUME KnownTypes, Inv, Matches, Forward, [Next]_vars
  PROVE  Forward'
<1>0. TypeInv /\ Dormant
  BY DEF Inv
<1>1. CASE ~ Fresh(checkpoint) /\ (Saves(TRUE) \/ Saves(FALSE))
  BY <1>1, SaveAdvances DEF Saves
<1>2. CASE AlreadyCompleted
  BY <1>2 DEF AlreadyCompleted, tracker, Forward, Ahead, Fresh
<1>3. CASE ResumeDirectly \/ StartFresh
  <2>1. batches' = <<>> /\ pruned' = pruned /\ pruned \in Nat
    BY <1>0, <1>3 DEF ResumeDirectly, StartFresh, Dormant, TypeInv
  <2>2. \A d : Ahead(d)' => d \in unread'
    BY <2>1 DEF Ahead
  <2>3. CASE ResumeDirectly
    <3>1. checkpoint' = file /\ unread' = ToRead(file) /\ ~ Fresh(file)
      BY <2>3 DEF ResumeDirectly
    <3>2. \A d \in unread' : \A t \in DOMAIN file.progress :
            IdType[d] = t => file.progress[t] = 0 \/ file.progress[t] <= d
      BY <3>1 DEF ToRead, InRange
    <3>3. \A d \in Docs : 0 <= d
      BY BackfillAssumption DEF Docs
    <3>. QED BY <2>2, <3>1, <3>2, <3>3 DEF Forward
  <2>4. CASE StartFresh
    <3>1. \A t \in DOMAIN checkpoint'.progress : checkpoint'.progress[t] = 0
      BY <2>4 DEF StartFresh
    <3>2. \A d \in Docs : 0 <= d
      BY BackfillAssumption DEF Docs
    <3>. QED BY <3>1, <3>2 DEF Forward
  <2>. QED BY <1>3, <2>3, <2>4
<1>4. CASE Restart
  BY <1>4, NoCheckpointYet DEF Restart, Forward, Fresh
<1>5. CASE ReadBatch
  <2>1. PICK docs \in NextDocs :
          /\ unread' = unread \ docs
          /\ batches' = IF docs = {} THEN batches ELSE Append(batches, docs)
    BY <1>5 DEF ReadBatch
  <2>2. UNCHANGED <<checkpoint, pruned>> /\ docs \in SUBSET unread
    BY <1>5, <2>1 DEF ReadBatch, NextDocs
  <2>3. ASSUME NEW d, Ahead(d)'
        PROVE  Ahead(d)
    <3>1. CASE docs = {}
      BY <2>1, <2>2, <2>3, <3>1 DEF Ahead
    <3>2. CASE docs # {}
      <4>1. /\ Len(batches) \in Nat /\ Len(batches') = Len(batches) + 1
            /\ \A i \in 1 .. Len(batches) : batches'[i] = batches[i]
            /\ batches'[Len(batches) + 1] = docs
            /\ pruned \in Nat
        <5>1. docs \in SUBSET Docs
          BY <1>0, <2>2 DEF TypeInv
        <5>. QED BY <1>0, <2>1, <3>2, <5>1, LenProperties, AppendProperties DEF TypeInv
      <4>2. ASSUME NEW q \in pruned + 1 .. Len(batches'), d \in batches'[q]
            PROVE  Ahead(d)
        <5>1. CASE q = Len(batches) + 1
          BY <2>2, <4>1, <4>2, <5>1 DEF Ahead
        <5>2. CASE q # Len(batches) + 1
          <6>1. q \in pruned + 1 .. Len(batches) /\ q \in 1 .. Len(batches)
            BY <4>1, <5>2
          <6>. QED BY <4>1, <4>2, <6>1 DEF Ahead
        <5>. QED BY <5>1, <5>2
      <4>3. CASE d \in unread'
        BY <2>1, <4>3 DEF Ahead
      <4>. QED BY <2>2, <2>3, <4>2, <4>3 DEF Ahead
    <3>. QED BY <3>1, <3>2
  <2>. QED BY <2>2, <2>3 DEF Forward, Fresh
<1>6. CASE UNCHANGED <<checkpoint, pruned, batches, unread>>
  BY <1>6 DEF Forward, Ahead, Fresh
<1>7. CASE SendBatch \/ StopOnError \/ StopOnCancel \/ ReadFails
  BY <1>6, <1>7 DEF SendBatch, StopOnError, StopOnCancel, ReadFails, tracker
<1>8. CASE \E w \in Workers : WorkerNext(w)
  <2>1. UNCHANGED <<batches, unread>>
    BY <1>8 DEF WorkerNext, Receive, WorkerExits, Insert, RecordFailure, EndWrite, WriteFails,
                SkipAck, AckBatch, tracker, stages
  <2>. QED BY <1>1, <1>6, <2>1, WhoSaves, <1>2, <1>3, <1>4 DEF PlanNext
<1>9. CASE Finish \/ CloseTracker \/ Tick \/ Cancel \/ UNCHANGED vars
  <2>1. UNCHANGED <<batches, unread>>
    BY <1>9 DEF Finish, CloseTracker, Tick, Cancel, vars, tracker, stages
  <2>. QED BY <1>1, <1>6, <2>1, WhoSaves, <1>2, <1>3, <1>4 DEF PlanNext
<1>. QED
  BY <1>2, <1>3, <1>4, <1>5, <1>7, <1>8, <1>9 DEF Next, PlanNext, ReaderNext

-----------------------------------------------------------------------------
(* ReadBatch: only the end of the cursor gives less than a full batch. *)
LEMMA LastBatch ==
  ASSUME NEW docs \in NextDocs, docs = {} \/ Cardinality(docs) # BatchSize
  PROVE  docs = unread
<1>1. Cardinality({}) # BatchSize
  BY FS_EmptySet, BackfillAssumption
<1>2. Cardinality(docs) # BatchSize
  BY <1>1
<1>. QED BY <1>2 DEF NextDocs

(* No batch is lost between the reader, the channel and the workers. *)
LEMMA StepKeepsAccounts ==
  ASSUME KnownTypes, Inv, Accounted, [Next]_vars
  PROVE  Accounted'
<1>0. TypeInv /\ Dormant
  BY DEF Inv
<1>b. /\ Len(batches) \in Nat
      /\ batchChan \in Seq(1 .. Len(batches))
      /\ Len(batchChan) \in Nat
  BY <1>0, LenProperties DEF TypeInv
<1>1. CASE PlanNext
  <2>1. /\ phase = "plan" /\ phase' \in {"read", "returned"}
        /\ UNCHANGED <<batches, worker>>
    BY <1>1 DEF PlanNext, AlreadyCompleted, ResumeDirectly, StartFresh, tracker
  <2>2. Len(batches) = 0
    BY <1>0, <2>1 DEF Dormant
  <2>. QED BY <2>1, <2>2 DEF Accounted, Healthy
<1>2. CASE ReadBatch
  <2>1. PICK docs \in NextDocs :
          /\ unread' = unread \ docs
          /\ batches' = IF docs = {} THEN batches ELSE Append(batches, docs)
          /\ phase' = CASE docs = {} -> "wait"
                        [] Cardinality(docs) = BatchSize -> "send"
                        [] OTHER -> "last"
    BY <1>2 DEF ReadBatch
  <2>2. /\ phase = "read"
        /\ UNCHANGED <<acked, batchChan, errorChan, worker, cancelled>>
    BY <1>2 DEF ReadBatch
  <2>3. Cardinality({}) # BatchSize
    BY FS_EmptySet, BackfillAssumption
  <2>4. CASE docs = {}
    <3>1. batches' = batches /\ phase' = "wait" /\ unread' = {}
      BY <2>1, <2>3, <2>4, LastBatch
    <3>. QED BY <2>2, <3>1 DEF Accounted, Healthy, OnTheWay
  <2>5. CASE docs # {}
    <3>1. /\ phase' \in {"send", "last"}
          /\ phase' = "last" => unread' = {}
      <4>1. CASE Cardinality(docs) = BatchSize
        BY <2>1, <2>5, <4>1
      <4>2. CASE Cardinality(docs) # BatchSize
        BY <2>1, <2>5, <4>2, LastBatch
      <4>. QED BY <4>1, <4>2
    <3>2. Len(batches') = Len(batches) + 1
      <4>1. batches \in Seq(SUBSET Docs) /\ docs \in SUBSET Docs
        BY <1>0 DEF TypeInv, NextDocs
      <4>. QED BY <2>1, <2>5, <4>1, AppendProperties
    <3>3. ASSUME Healthy', NEW q \in 1 .. Len(batches')
          PROVE  OnTheWay(q)'
      <4>1. CASE q = Len(batches')
        BY <3>1, <4>1 DEF OnTheWay
      <4>2. CASE q # Len(batches')
        <5>1. q \in 1 .. Len(batches)
          BY <1>b, <3>2, <4>2
        <5>2. Healthy
          BY <2>2, <3>3 DEF Healthy
        <5>. QED BY <2>2, <5>1, <5>2 DEF Accounted, OnTheWay
      <4>. QED BY <4>1, <4>2
    <3>. QED BY <2>2, <3>1, <3>3 DEF Accounted, Healthy
  <2>. QED BY <2>4, <2>5
<1>3. CASE SendBatch
  <2>1. /\ batchChan' = Append(batchChan, Len(batches))
        /\ phase \in {"send", "last"}
        /\ phase' = IF phase = "send" THEN "read" ELSE "wait"
        /\ UNCHANGED <<batches, acked, unread, errorChan, worker, cancelled>>
    BY <1>3 DEF SendBatch, tracker
  <2>2. /\ Len(batchChan') = Len(batchChan) + 1
        /\ \A i \in 1 .. Len(batchChan) : batchChan'[i] = batchChan[i]
        /\ batchChan'[Len(batchChan) + 1] = Len(batches)
    BY <1>b, <2>1, AppendProperties
  <2>3. /\ \A i \in 1 .. Len(batchChan) : i \in 1 .. Len(batchChan')
        /\ Len(batchChan) + 1 \in 1 .. Len(batchChan')
    BY <1>b, <2>2
  <2>4. ASSUME NEW q, OnTheWay(q)
        PROVE  OnTheWay(q)'
    BY <2>1, <2>2, <2>3, <2>4 DEF OnTheWay
  <2>. QED BY <2>1, <2>4 DEF Accounted, Healthy
<1>4. CASE StopOnError \/ StopOnCancel \/ ReadFails \/ Finish \/ CloseTracker
  <2>1. phase' \in {"close", "returned"}
    BY <1>4 DEF StopOnError, StopOnCancel, ReadFails, Finish, CloseTracker
  <2>. QED BY <2>1 DEF Accounted, Healthy
<1>5. ASSUME NEW w \in Workers, WorkerNext(w)
      PROVE  Accounted'
  <2>0. worker \in [Workers -> WorkerStates]
    BY <1>0 DEF TypeInv
  <2>1. CASE Receive(w)
    <3>1. /\ worker[w].at = "receive" /\ batchChan # <<>>
          /\ worker' = [worker EXCEPT ![w] = [at |-> "write", seq |-> Head(batchChan)]]
          /\ batchChan' = Tail(batchChan)
          /\ UNCHANGED <<batches, acked, phase, unread, errorChan, cancelled>>
      BY <2>1 DEF Receive, tracker
    <3>2. /\ worker'[w].at = "write" /\ worker'[w].seq = batchChan[1]
          /\ \A x \in Workers : x # w => worker'[x] = worker[x]
      BY <2>0, <3>1, HeadTailProperties
    <3>3. \A i \in 1 .. Len(batchChan) :
            i # 1 => i - 1 \in 1 .. Len(batchChan') /\ batchChan'[i - 1] = batchChan[i]
      <4>1. Len(batchChan') = Len(batchChan) - 1
        BY <1>b, <3>1, HeadTailProperties
      <4>2. \A i \in 1 .. Len(batchChan') : batchChan'[i] = batchChan[i + 1]
        BY <1>b, <3>1, HeadTailProperties
      <4>3. ASSUME NEW i \in 1 .. Len(batchChan), i # 1
            PROVE  i - 1 \in 1 .. Len(batchChan') /\ batchChan'[i - 1] = batchChan[i]
        <5>1. i - 1 \in 1 .. Len(batchChan') /\ (i - 1) + 1 = i
          BY <1>b, <4>1, <4>3
        <5>. QED BY <4>2, <5>1
      <4>. QED BY <4>3
    <3>4. ASSUME NEW q, OnTheWay(q)
          PROVE  OnTheWay(q)'
      <4>1. CASE q \in acked \/ (phase \in {"send", "last"} /\ q = Len(batches))
        BY <3>1, <4>1 DEF OnTheWay
      <4>2. ASSUME NEW x \in Workers, worker[x].at \in {"write", "ack"}, worker[x].seq = q
            PROVE  OnTheWay(q)'
        BY <3>1, <3>2, <4>2 DEF OnTheWay
      <4>3. ASSUME NEW i \in 1 .. Len(batchChan), batchChan[i] = q
            PROVE  OnTheWay(q)'
        BY <3>2, <3>3, <4>3 DEF OnTheWay
      <4>. QED BY <3>4, <4>1, <4>2, <4>3 DEF OnTheWay
    <3>5. phase # "plan"
      BY <1>0, <3>1 DEF Dormant
    <3>. QED BY <3>1, <3>2, <3>4, <3>5 DEF Accounted, Healthy
  <2>2. CASE WorkerExits(w)
    <3>1. /\ worker[w].at = "receive" /\ batchChan = <<>>
          /\ phase \in {"wait", "close", "returned"}
          /\ worker' = [worker EXCEPT ![w] = Gone]
          /\ UNCHANGED <<batches, acked, phase, unread, batchChan, errorChan, cancelled>>
      BY <2>2 DEF WorkerExits, tracker
    <3>2. \A x \in Workers : worker[x].at \in {"write", "ack"} => worker'[x] = worker[x]
      BY <2>0, <3>1
    <3>3. ASSUME NEW q, OnTheWay(q)
          PROVE  OnTheWay(q)'
      BY <3>1, <3>2, <3>3 DEF OnTheWay
    <3>. QED BY <3>1, <3>3 DEF Accounted, Healthy
  <2>3. CASE WriteFails(w)
    <3>1. errorChan' /\ worker[w].at = "write" /\ phase' = phase
      BY <2>3 DEF WriteFails
    <3>. QED BY <1>0, <3>1 DEF Accounted, Healthy, Dormant
  <2>4. CASE SkipAck(w)
    <3>1. cancelled' /\ worker[w].at = "ack" /\ phase' = phase
      BY <2>4 DEF SkipAck
    <3>. QED BY <1>0, <3>1 DEF Accounted, Healthy, Dormant
  <2>5. CASE Insert(w) \/ RecordFailure(w)
    BY <2>5 DEF Insert, RecordFailure, tracker, stages, Accounted, Healthy, OnTheWay
  <2>6. CASE EndWrite(w)
    <3>1. /\ worker' = [worker EXCEPT ![w].at = "ack"]
          /\ UNCHANGED <<batches, acked, phase, unread, batchChan, errorChan, cancelled>>
      BY <2>6 DEF EndWrite, tracker
    <3>2. /\ worker'[w].at = "ack" /\ worker'[w].seq = worker[w].seq
          /\ \A x \in Workers : x # w => worker'[x] = worker[x]
      <4>1. worker[w] \in WorkerStates
        BY <2>0
      <4>. QED BY <2>0, <3>1, <4>1 DEF WorkerStates
    <3>3. ASSUME NEW q, OnTheWay(q)
          PROVE  OnTheWay(q)'
      BY <3>1, <3>2, <3>3 DEF OnTheWay
    <3>. QED BY <3>1, <3>2, <3>3 DEF Accounted, Healthy
  <2>7. CASE AckBatch(w)
    <3>1. /\ worker' = [worker EXCEPT ![w] = Idle]
          /\ UNCHANGED <<batches, phase, unread, batchChan, errorChan, cancelled>>
      BY <2>7 DEF AckBatch
    <3>2. acked' = acked \cup {worker[w].seq}
      BY <2>7 DEF AckBatch, saveCheckpointsLocked
    <3>3. /\ worker'[w].at = "receive"
          /\ \A x \in Workers : x # w => worker'[x] = worker[x]
      BY <2>0, <3>1 DEF Idle
    <3>4. ASSUME NEW q, OnTheWay(q)
          PROVE  OnTheWay(q)'
      BY <3>1, <3>2, <3>3, <3>4 DEF OnTheWay
    <3>. QED BY <3>1, <3>3, <3>4 DEF Accounted, Healthy
  <2>. QED BY <1>5, <2>1, <2>2, <2>3, <2>4, <2>5, <2>6, <2>7 DEF WorkerNext
<1>6. CASE Tick
  <2>1. UNCHANGED <<batches, acked, phase, unread, batchChan, errorChan, worker, cancelled>>
    BY <1>6 DEF Tick, stages, saveCheckpointsLocked
  <2>. QED BY <2>1 DEF Accounted, Healthy, OnTheWay
<1>7. CASE Cancel
  <2>1. cancelled' /\ UNCHANGED <<phase, worker>>
    BY <1>7 DEF Cancel
  <2>. QED BY <2>1 DEF Accounted, Healthy
<1>8. CASE Restart
  <2>1. phase' = "plan" /\ \A w \in Workers : worker'[w].at = "receive"
    BY <1>8 DEF Restart, Idle
  <2>. QED BY <2>1 DEF Accounted, Healthy
<1>9. CASE UNCHANGED vars
  BY <1>9 DEF vars, tracker, stages, Accounted, Healthy, OnTheWay
<1>. QED
  BY <1>1, <1>2, <1>3, <1>4, <1>5, <1>6, <1>7, <1>8, <1>9 DEF Next, ReaderNext

(* Finish: when all workers have returned although nothing disturbed the run,
   every batch is acknowledged and nothing is left to read. *)
LEMMA FinishIsEarned ==
  ASSUME KnownTypes, Workers # {}, Inv, Accounted, Finish, ~ cancelled, ~ errorChan
  PROVE  Docs \subseteq Handled'
<1>0. TypeInv /\ AckedHandled /\ Covered /\ Dormant
  BY DEF Inv
<1>1. /\ phase = "wait"
      /\ \A w \in Workers : worker[w].at = "exited"
      /\ Handled' = Handled
  BY DEF Finish, outcome, Handled
<1>2. Healthy /\ ~ Fresh(checkpoint)
  BY <1>0, <1>1 DEF Healthy, Dormant
<1>3. unread = {} /\ batchChan = <<>>
  BY <1>1, <1>2 DEF Accounted
<1>4. Len(batchChan) = 0
  BY <1>3
<1>5. \A q \in 1 .. Len(batches) : q \in acked
  BY <1>1, <1>2, <1>4 DEF Accounted, OnTheWay
<1>. QED BY <1>0, <1>1, <1>2, <1>3, <1>5 DEF Covered, AckedHandled

-----------------------------------------------------------------------------
(* The three invariants hold from the start and are kept by every step. *)
LEMMA ProgressKept ==
  ASSUME KnownTypes
  PROVE  /\ Init => Inv /\ ProgressInv
         /\ Inv /\ ProgressInv /\ [Next]_vars => (Inv /\ ProgressInv)'
<1>1. ASSUME Init PROVE ProgressInv
  <2>1. Fresh(checkpoint) /\ checkpoint.completed = FALSE
    BY <1>1, NoCheckpointYet DEF Init, NoCheckpoint
  <2>2. phase = "plan" /\ \A w \in Workers : worker[w].at = "receive"
    BY <1>1 DEF Init, Idle
  <2>. QED BY <2>1, <2>2 DEF ProgressInv, Matches, Forward, Accounted, Healthy
<1>2. ASSUME Inv, ProgressInv, [Next]_vars PROVE (Inv /\ ProgressInv)'
  BY <1>2, BackfillKeepsInv, StepKeepsBookmarks, StepKeepsForward, StepKeepsAccounts
     DEF ProgressInv
<1>. QED BY <1>1, <1>2, InitialInv

(* saveCheckpointsLocked, called by the workers, the ticker and the reader in
   any order, in one run or in several: no bookmark on disk ever moves back, so
   that a later run never reads again what an earlier one had passed. *)
THEOREM BookmarksOnlyAdvance ==
  ASSUME KnownTypes
  PROVE  Spec => BookmarksAdvance
<1>1. Inv /\ ProgressInv /\ [Next]_vars => StepsForward
  BY StepKeepsBookmarks DEF ProgressInv
<1>2. Inv /\ ProgressInv /\ [Next]_vars =>
        [\A t \in DOMAIN file.progress :
           /\ t \in DOMAIN file'.progress
           /\ file.progress[t] <= file'.progress[t]]_vars
  BY <1>1 DEF StepsForward
<1>. QED BY <1>2, ProgressKept, PTL DEF Spec, BookmarksAdvance

(* migrateCollection marks a collection completed, so that no later run looks
   at it again, only when every document is written or recorded, or when the
   run was cancelled or a worker failed as it ended. *)
THEOREM CompletionEarned ==
  ASSUME KnownTypes, Workers # {}
  PROVE  Spec => CompletionIsEarned
<1>1. Inv /\ ProgressInv /\ [Next]_vars =>
        [~ file.completed /\ file'.completed =>
           cancelled \/ errorChan \/ Docs \subseteq Handled']_vars
  BY StepKeepsBookmarks, FinishIsEarned DEF ProgressInv
<1>. QED BY <1>1, ProgressKept, PTL DEF Spec, CompletionIsEarned
=============================================================================
