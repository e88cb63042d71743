-------------------------- MODULE BatchWriteProofs --------------------------
(***************************************************************************)
(* Whatever the target refuses, however replies are lost, and however the  *)
(* batch is repeated, converted, halved and skipped: a resilient write     *)
(* that returns leaves every document on the target or in the DLQ, and a   *)
(* fail-fast write that reports success leaves every document on the       *)
(* target.  For batches of any size, any number of retries and any         *)
(* smallest part, where _ids stay distinct and no other index is unique.   *)
(* The last part needs neither: the halving keeps the order of the batch,  *)
(* and the retries their limit, whatever collides.                         *)
(***************************************************************************)
EXTENDS BatchWrite, Extrema, FiniteSetTheorems, SequenceTheorems

Shape ==
  /\ input.invalid \subseteq Docs /\ input.convertFirst \in BOOLEAN
  /\ target \in [Ids -> Docs \cup {Absent}]
  /\ batch \subseteq Docs /\ fallback \subseteq Docs
  /\ parts \in Seq(Seq(Docs))
  /\ phase \in {"replace", "individual"} => fallback # {} /\ Resilient
  /\ phase \in {"start", "insert", "retry"} => Resilient
  /\ phase \in {"split", "convert", "backoff", "upsert"} => parts # <<>> /\ ~ Resilient
  /\ phase = "start" => batch = Docs
  /\ result = "none" <=> phase # "done"

(* Documents lie under their own _ids, given or converted. *)
Owned ==
  \A id \in Ids : target[id] # Absent =>
    id = target[id] \/ (target[id] \in Invalid /\ id = NumDocs + target[id])

InParts(d) == \E i \in 1 .. Len(parts) : \E k \in 1 .. Len(parts[i]) : parts[i][k] = d

(* No document falls between what is done and what is still to be done. *)
NoneForgotten ==
  /\ phase \in {"insert", "retry"} => \A d \in Docs : Holds(d) \/ d \in batch
  /\ Resilient /\ ~ canceled /\ phase \in {"replace", "individual"} =>
       \A d \in Docs : Holds(d) \/ d \in ledger \/ d \in fallback
  /\ phase \in {"split", "convert", "backoff", "upsert"} =>
       \A d \in Docs : Holds(d) \/ failed \/ InParts(d)
  /\ phase # "upsert"

Settled == Shape /\ Owned /\ NoneForgotten /\ WrittenOrRecorded /\ SuccessIsWritten

WriteInv == Undisturbed => Settled

-----------------------------------------------------------------------------
(* Different documents have different _ids. *)
LEMMA DistinctIds ==
  ASSUME Undisturbed, NEW c \in Docs, NEW d \in Docs, NEW convert,
         IdOf(c, convert) = IdOf(d, convert)
  PROVE  c = d
BY BatchAssumption DEF Undisturbed, IdOf, Converted, Docs

LEMMA IdsInRange ==
  ASSUME Undisturbed, NEW d \in Docs, NEW convert
  PROVE  IdOf(d, convert) \in Ids
BY BatchAssumption DEF Undisturbed, IdOf, Converted, Docs, Ids

(* A document whose _id is taken is on the target. *)
LEMMA TakenHolds ==
  ASSUME Shape, Owned, Undisturbed, NEW d \in Docs, NEW convert,
         target[IdOf(d, convert)] # Absent
  PROVE  Holds(d)
<1>. DEFINE id == IdOf(d, convert)
           e == target[id]
<1>1. id \in Ids
  BY IdsInRange
<1>2. e \in Docs
  BY <1>1 DEF Shape
<1>3. id = e \/ (e \in Invalid /\ id = NumDocs + e)
  BY <1>1 DEF Owned
<1>4. id = d \/ (d \in Invalid /\ id = NumDocs + d /\ id = Converted(d))
  BY DEF IdOf, Converted, Undisturbed
<1>5. e = d
  <2>. HIDE DEF id, e
  <2>. QED BY <1>2, <1>3, <1>4, BatchAssumption DEF Docs
<1>. QED BY <1>4, <1>5 DEF Holds

(* What an insert refuses as a duplicate is on the target. *)
LEMMA DuplicatesHold ==
  ASSUME Shape, Owned, Undisturbed, NEW P \in SUBSET Docs, NEW B, NEW convert
  PROVE  \A d \in Duplicates(P, B, convert) : d \in Docs /\ Holds(d)
<1>. SUFFICES ASSUME NEW d \in Duplicates(P, B, convert)
              PROVE  d \in Docs /\ Holds(d)
  OBVIOUS
<1>1. d \in Docs
  BY DEF Duplicates
<1>2. target[IdOf(d, convert)] # Absent
  <2>1. \/ target[IdOf(d, convert)] # Absent
        \/ \E c \in P : c < d /\ IdOf(c, convert) = IdOf(d, convert)
    BY DEF Duplicates, Undisturbed
  <2>2. ASSUME NEW c \in P, c < d, IdOf(c, convert) = IdOf(d, convert) PROVE FALSE
    <3>1. c = d
      BY <1>1, <2>2, DistinctIds
    <3>. QED BY <3>1, <2>2, <1>1 DEF Docs
  <2>. QED BY <2>1, <2>2
<1>. QED BY <1>1, <1>2, TakenHolds

(* Stored documents hold, and nothing that held is lost. *)
LEMMA StoredHold ==
  ASSUME Shape, Owned, Undisturbed, UNCHANGED input,
         NEW W \in SUBSET Docs, NEW convert, target' = Stored(W, convert)
  PROVE  /\ target' \in [Ids -> Docs \cup {Absent}]
         /\ Owned'
         /\ \A d \in W : Holds(d)'
         /\ \A d \in Docs : Holds(d) => Holds(d)'
<1>. DEFINE writers(id) == {d \in W : IdOf(d, convert) = id}
<1>1. \A id \in Ids : target'[id] = IF writers(id) = {} THEN target[id] ELSE Max(writers(id))
  BY DEF Stored
<1>2. ASSUME NEW id \in Ids, writers(id) # {}
      PROVE  /\ target'[id] \in W /\ IdOf(target'[id], convert) = id
             /\ target'[id] \in Docs
  <2>1. NumDocs \in Nat /\ writers(id) \in SUBSET (0 .. NumDocs)
    <3>1. NumDocs \in Nat /\ Docs \subseteq 0 .. NumDocs
      BY BatchAssumption DEF Docs
    <3>2. writers(id) \subseteq W
      OBVIOUS
    <3>. QED BY <3>1, <3>2
  <2>2. Max(writers(id)) \in writers(id)
    <3>. HIDE DEF writers
    <3>. QED BY <2>1, <1>2, MaxInRange
  <2>. QED BY <1>1, <1>2, <2>2
<1>3. ASSUME NEW id \in Ids, writers(id) = {}
      PROVE  target'[id] = target[id]
  BY <1>1, <1>3
<1>4. Invalid' = Invalid /\ (\A d \in Docs : Converted(d)' = Converted(d))
  BY DEF Invalid, Converted
<1>5. target' \in [Ids -> Docs \cup {Absent}]
  <2>1. \A id \in Ids : target'[id] \in Docs \cup {Absent}
    BY <1>2, <1>3 DEF Shape
  <2>2. target' = [id \in Ids |-> target'[id]]
    BY DEF Stored
  <2>. QED BY <2>1, <2>2
<1>6. Owned'
  <2>. SUFFICES ASSUME NEW id \in Ids, target'[id] # Absent
                PROVE  id = target'[id] \/ (target'[id] \in Invalid /\ id = NumDocs + target'[id])
    BY <1>4 DEF Owned
  <2>1. CASE writers(id) # {}
    BY <2>1, <1>2 DEF IdOf, Converted, Undisturbed
  <2>2. CASE writers(id) = {}
    BY <2>2, <1>3 DEF Owned
  <2>. QED BY <2>1, <2>2
<1>7. ASSUME NEW d \in W PROVE Holds(d)'
  <2>1. IdOf(d, convert) \in Ids /\ d \in writers(IdOf(d, convert)) /\ d \in Docs
    BY IdsInRange
  <2>2. target'[IdOf(d, convert)] = d
    <3>1. /\ target'[IdOf(d, convert)] \in Docs
          /\ IdOf(target'[IdOf(d, convert)], convert) = IdOf(d, convert)
      BY <2>1, <1>2
    <3>. QED BY <3>1, <2>1, DistinctIds
  <2>. QED BY <2>1, <2>2, <1>4 DEF Holds, IdOf
<1>8. ASSUME NEW d \in Docs, Holds(d) PROVE Holds(d)'
  <2>1. PICK id \in Ids : /\ target[id] = d
                          /\ id = d \/ (d \in Invalid /\ id = Converted(d))
    <3>1. d \in Ids /\ Converted(d) \in Ids
      BY BatchAssumption DEF Ids, Docs, Converted
    <3>. QED BY <3>1, <1>8 DEF Holds
  <2>2. CASE writers(id) = {}
    BY <2>1, <2>2, <1>3, <1>4 DEF Holds
  <2>3. CASE writers(id) # {}
    <3>1. PICK c \in W : c = target'[id] /\ IdOf(c, convert) = id /\ c \in Docs
      BY <2>3, <1>2
    <3>2. c = d
      <4>1. id = c \/ id = NumDocs + c
        BY <3>1 DEF IdOf, Converted, Undisturbed
      <4>2. id = d \/ id = NumDocs + d
        BY <2>1 DEF Converted, Undisturbed
      <4>. QED BY <4>1, <4>2, <3>1, BatchAssumption DEF Docs
    <3>. QED BY <2>1, <3>1, <3>2, <1>4 DEF Holds
  <2>. QED BY <2>2, <2>3
<1>. QED BY <1>5, <1>6, <1>7, <1>8

(* An interrupted call stores some of its documents. *)
LEMMA BreaksStores ==
  ASSUME NEW P \in SUBSET Docs, NEW convert, Breaks(P, convert)
  PROVE  \E W \in SUBSET Docs : target' = Stored(W, convert)
<1>1. PICK B \in Refusable(P, convert) :
        \E W \in SUBSET Accepted(P, B, convert) : target' = Stored(W, convert)
  BY DEF Breaks
<1>2. Accepted(P, B, convert) \subseteq P
  BY DEF Accepted
<1>3. PICK W \in SUBSET Accepted(P, B, convert) : target' = Stored(W, convert)
  BY <1>1
<1>4. W \in SUBSET Docs
  BY <1>2
<1>. QED BY <1>3, <1>4

(* What a call of processBatch that fails has stored. *)
LEMMA FailureStores ==
  ASSUME NEW P \in SUBSET Docs, NEW convert, NEW class, ProcessBatchFails(P, convert, class)
  PROVE  \/ target' = target
         \/ \E W \in SUBSET Docs : target' = Stored(W, convert)
<1>1. CASE UNCHANGED target
  BY <1>1
<1>2. CASE \E B \in Refusable(P, convert) : target' = Stored(Accepted(P, B, convert), convert)
  <2>1. PICK B \in Refusable(P, convert) : target' = Stored(Accepted(P, B, convert), convert)
    BY <1>2
  <2>2. Accepted(P, B, convert) \in SUBSET Docs
    BY DEF Accepted
  <2>. QED BY <2>1, <2>2
<1>3. CASE target' = Stored(P \ input.conflicting, convert)
  <2>1. P \ input.conflicting \in SUBSET Docs
    OBVIOUS
  <2>. QED BY <1>3, <2>1
<1>4. CASE Breaks(P, convert)
  BY <1>4, BreaksStores
<1>. QED BY <1>1, <1>2, <1>3, <1>4 DEF ProcessBatchFails

(* The target after any step. *)
LEMMA TargetStep ==
  ASSUME Shape, Owned, Undisturbed, UNCHANGED input,
         \/ target' = target
         \/ \E W \in SUBSET Docs, convert \in BOOLEAN : target' = Stored(W, convert)
  PROVE  /\ target' \in [Ids -> Docs \cup {Absent}]
         /\ Owned'
         /\ \A d \in Docs : Holds(d) => Holds(d)'
<1>1. CASE target' = target
  BY <1>1 DEF Shape, Owned, Holds, Invalid, Converted
<1>2. CASE \E W \in SUBSET Docs, convert \in BOOLEAN : target' = Stored(W, convert)
  <2>1. PICK W \in SUBSET Docs, convert \in BOOLEAN : target' = Stored(W, convert)
    BY <1>2
  <2>. QED BY <2>1, StoredHold
<1>. QED BY <1>1, <1>2

(* The part being written. *)
LEMMA PartIsDocs ==
  ASSUME Shape, parts # <<>>
  PROVE  /\ Part \in SUBSET Docs
         /\ Head(parts) = parts[1] /\ Head(parts) \in Seq(Docs)
         /\ Tail(parts) \in Seq(Seq(Docs))
         /\ Len(parts) \in Nat \ {0} /\ Len(Tail(parts)) = Len(parts) - 1
         /\ \A i \in 1 .. Len(parts) - 1 : Tail(parts)[i] = parts[i + 1]
         /\ \A d \in Docs : InParts(d) =>
              d \in Part \/ \E i \in 1 .. Len(Tail(parts)) :
                              \E k \in 1 .. Len(Tail(parts)[i]) : Tail(parts)[i][k] = d
<1>1. parts \in Seq(Seq(Docs))
  BY DEF Shape
<1>2. /\ Head(parts) \in Seq(Docs) /\ Tail(parts) \in Seq(Seq(Docs))
      /\ Len(Tail(parts)) = Len(parts) - 1
      /\ \A i \in 1 .. Len(Tail(parts)) : Tail(parts)[i] = parts[i + 1]
  BY <1>1, HeadTailProperties
<1>3. Head(parts) = parts[1] /\ Len(parts) \in Nat \ {0}
  BY <1>1
<1>4. Part = {parts[1][k] : k \in 1 .. Len(parts[1])}
  BY <1>2, <1>3 DEF Part, Range
<1>5. Part \in SUBSET Docs
  BY <1>2, <1>3, <1>4
<1>6. ASSUME NEW d \in Docs, InParts(d)
      PROVE  d \in Part \/ \E i \in 1 .. Len(Tail(parts)) :
                             \E k \in 1 .. Len(Tail(parts)[i]) : Tail(parts)[i][k] = d
  <2>1. PICK i \in 1 .. Len(parts) : \E k \in 1 .. Len(parts[i]) : parts[i][k] = d
    BY <1>6 DEF InParts
  <2>2. CASE i = 1
    BY <2>1, <2>2, <1>4
  <2>3. CASE i # 1
    <3>1. i - 1 \in 1 .. Len(Tail(parts)) /\ Tail(parts)[i - 1] = parts[i]
      <4>1. i - 1 \in 1 .. Len(Tail(parts)) /\ (i - 1) + 1 = i
        BY <2>3, <1>2, <1>3
      <4>. QED BY <4>1, <1>2
    <3>. QED BY <2>1, <3>1
  <2>. QED BY <2>2, <2>3
<1>. QED BY <1>2, <1>3, <1>5, <1>6

-----------------------------------------------------------------------------
(* Every _id that the presence check counts stands for a document of its own. *)
LEMMA WholeBatchFound ==
  ASSUME Shape, phase = "start", NEW found \in Found, Cardinality(found) = Cardinality(batch)
  PROVE  \A d \in Docs : target[Id(d)] # Absent
<1>. DEFINE owner == [id \in found |-> CHOOSE d \in batch : Id(d) = id]
<1>1. batch = Docs /\ IsFiniteSet(Docs)
  <2>1. IsFiniteSet(1 .. NumDocs)
    BY BatchAssumption, FS_Interval
  <2>. QED BY <2>1 DEF Shape, Docs
<1>2. \A id \in found : (\E d \in batch : Id(d) = id) /\ target[id] # Absent
  BY DEF Found
<1>3. \A id \in found : owner[id] \in batch /\ Id(owner[id]) = id
  BY <1>2
<1>4. owner \in Injection(found, batch)
  <2>1. owner \in [found -> batch]
    BY <1>3
  <2>2. \A a, b \in found : owner[a] = owner[b] => a = b
    BY <1>3
  <2>. HIDE DEF owner
  <2>. QED BY <2>1, <2>2 DEF Injection, IsInjective
<1>5. owner \in Surjection(found, batch)
  <2>. HIDE DEF owner
  <2>. QED BY <1>1, <1>4, FS_Injection
<1>6. \A d \in batch : \E id \in found : owner[id] = d
  <2>. HIDE DEF owner
  <2>. QED BY <1>5 DEF Surjection
<1>. HIDE DEF owner
<1>. QED BY <1>1, <1>2, <1>3, <1>6

(* From the start of a resilient write to its bulk insert. *)
LEMMA StartSettles ==
  ASSUME Settled, Undisturbed,
         TransformFails \/ SkipBatch \/ SkipPresent \/ NoSkip \/ ThrottlerInterrupted
  PROVE  Settled'
<1>1. /\ UNCHANGED <<input, target, fallback, parts, failed, canceled>>
      /\ Shape /\ Owned
  BY DEF Settled, TransformFails, SkipBatch, SkipPresent, NoSkip, ThrottlerInterrupted,
         resilientVars, failFastVars
<1>2. /\ target' \in [Ids -> Docs \cup {Absent}]
      /\ Owned'
      /\ \A d \in Docs : Holds(d) => Holds(d)'
  BY <1>1, TargetStep
<1>3. Undisturbed' /\ (Resilient' <=> Resilient)
  BY <1>1 DEF Undisturbed, Resilient
<1>4. CASE TransformFails
  <2>1. /\ ledger' = ledger \cup Docs /\ Resilient
        /\ phase' = "done" /\ result' = "ok" /\ batch' = batch
    BY <1>4 DEF TransformFails, Return, resilientVars
  <2>2. Shape'
    BY <1>1, <1>2, <2>1 DEF Shape, Resilient
  <2>. QED BY <1>2, <1>3, <2>1, <2>2
       DEF Settled, NoneForgotten, WrittenOrRecorded, SuccessIsWritten
<1>5. CASE SkipBatch
  <2>1. /\ Resilient /\ phase = "start"
        /\ phase' = "done" /\ result' = "ok" /\ batch' = batch /\ ledger' = ledger
    BY <1>5 DEF SkipBatch, Return, resilientVars
  <2>2. \A d \in Docs : Holds(d)
    <3>1. PICK found \in Found : Cardinality(found) = Cardinality(batch)
      BY <1>5 DEF SkipBatch
    <3>2. \A d \in Docs : target[Id(d)] # Absent
      BY <1>1, <2>1, <3>1, WholeBatchFound
    <3>. QED BY <1>1, <3>2, TakenHolds DEF Id
  <2>3. Shape'
    BY <1>1, <1>2, <2>1 DEF Shape, Resilient
  <2>. QED BY <1>2, <1>3, <2>1, <2>2, <2>3
       DEF Settled, NoneForgotten, WrittenOrRecorded, SuccessIsWritten
<1>6. CASE SkipPresent
  <2>1. /\ Resilient /\ phase = "start" /\ batch = Docs
        /\ phase' = "insert" /\ result' = result /\ ledger' = ledger
    BY <1>1, <1>6 DEF SkipPresent, Shape
  <2>2. PICK found \in Found : batch' = {d \in batch : Id(d) \notin found}
    BY <1>6 DEF SkipPresent
  <2>3. \A d \in Docs : Holds(d) \/ d \in batch'
    <3>1. \A id \in found : target[id] # Absent
      BY DEF Found
    <3>. QED BY <1>1, <2>1, <2>2, <3>1, TakenHolds DEF Id
  <2>4. Shape'
    BY <1>1, <1>2, <2>1, <2>2 DEF Shape, Resilient
  <2>. QED BY <1>2, <1>3, <2>1, <2>3, <2>4, <1>1
       DEF Settled, NoneForgotten, WrittenOrRecorded, SuccessIsWritten, Shape
<1>7. CASE NoSkip
  <2>1. /\ Resilient /\ phase = "start" /\ batch = Docs
        /\ phase' = "insert" /\ UNCHANGED <<batch, result, ledger>>
    BY <1>1, <1>7 DEF NoSkip, Shape, resilientVars
  <2>2. Shape'
    BY <1>1, <1>2, <2>1 DEF Shape, Resilient
  <2>. QED BY <1>2, <1>3, <2>1, <2>2, <1>1
       DEF Settled, NoneForgotten, WrittenOrRecorded, SuccessIsWritten, Shape
<1>8. CASE ThrottlerInterrupted
  <2>1. phase' = "done" /\ result' = "error" /\ UNCHANGED <<batch, ledger>>
    BY <1>8 DEF ThrottlerInterrupted, Return, resilientVars
  <2>2. Shape'
    BY <1>1, <1>2, <2>1 DEF Shape, Resilient
  <2>. QED BY <1>2, <1>3, <2>1, <2>2
       DEF Settled, NoneForgotten, WrittenOrRecorded, SuccessIsWritten
<1>. QED BY <1>4, <1>5, <1>6, <1>7, <1>8

(* The bulk insert, its retries, and the beginning of a fallback: the documents
   that hold, and those handed to the fallback, are all. *)
LEMMA BulkSettles ==
  ASSUME Settled, Undisturbed, Resilient, phase \in {"insert", "retry"},
         UNCHANGED <<input, ledger, batch, parts, failed, canceled>>,
         \/ target' = target
         \/ \E W \in SUBSET Docs, convert \in BOOLEAN : target' = Stored(W, convert),
         \/ /\ phase' = "retry" /\ UNCHANGED <<fallback, result>>
         \/ /\ phase' = "done" /\ result' = "ok" /\ fallback' \in {fallback, {}}
            /\ canceled \/ \A d \in batch : Holds(d)'
         \/ /\ phase' \in {"replace", "individual"} /\ result' = result
            /\ fallback' # {} /\ fallback' \subseteq Docs
            /\ canceled \/ \A d \in batch : Holds(d)' \/ d \in fallback'
  PROVE  Settled'
<1>1. Shape /\ Owned
  BY DEF Settled
<1>2. /\ target' \in [Ids -> Docs \cup {Absent}]
      /\ Owned'
      /\ \A d \in Docs : Holds(d) => Holds(d)'
  BY <1>1, TargetStep
<1>3. Undisturbed' /\ (Resilient' <=> Resilient)
  BY DEF Undisturbed, Resilient
<1>4. \A d \in Docs : Holds(d)' \/ d \in batch
  BY <1>2 DEF Settled, NoneForgotten
<1>5. Shape'
  BY <1>1, <1>2, <1>3 DEF Shape
<1>6. NoneForgotten'
  BY <1>2, <1>3, <1>4 DEF NoneForgotten
<1>7. WrittenOrRecorded' /\ SuccessIsWritten'
  <2>1. result' = "ok" => phase' = "done"
    BY <1>1, <1>5 DEF Shape
  <2>. QED BY <1>3, <1>4, <2>1, <1>1 DEF WrittenOrRecorded, SuccessIsWritten, Shape
<1>. QED BY <1>2, <1>5, <1>6, <1>7 DEF Settled

LEMMA BulkStep ==
  ASSUME Settled, Undisturbed, BulkInserted \/ InsertRefused \/ InsertBreaks
                               \/ RetryFails \/ RetryInterrupted
  PROVE  Settled'
<1> DEFINE convert == input.convertFirst
<1>0. /\ Shape /\ Owned /\ batch \in SUBSET Docs
      /\ Resilient /\ phase \in {"insert", "retry"}
      /\ UNCHANGED <<input, ledger, parts, failed, canceled, batch>>
  BY DEF Settled, Shape, BulkInserted, InsertRefused, InsertBreaks, RetryFails, RetryInterrupted,
         resilientVars, failFastVars
<1>c. convert \in BOOLEAN
  BY DEF Settled, Shape
<1>1. CASE BulkInserted
  <2>1. target' = Stored(batch, convert) /\ phase' = "done" /\ result' = "ok" /\ fallback' = fallback
    BY <1>1 DEF BulkInserted, Return, resilientVars
  <2>2. \A d \in batch : Holds(d)'
    BY <1>0, <2>1, StoredHold
  <2>. QED BY <1>0, <1>c, <2>1, <2>2, BulkSettles
<1>2. ASSUME NEW refused \in SUBSET batch, NEW dups \in SUBSET batch,
             BulkWriteException(refused, dups)
      PROVE  /\ \E W \in SUBSET Docs, c \in BOOLEAN : target' = Stored(W, c)
             /\ \A d \in batch : Holds(d)' \/ d \in refused
  <2>1. /\ target' = Stored(batch \ (refused \cup dups), convert)
        /\ dups = Duplicates(batch, refused, convert)
    BY <1>2 DEF BulkWriteException
  <2>2. batch \ (refused \cup dups) \in SUBSET Docs
    BY <1>0
  <2>3. \A d \in dups : d \in Docs /\ Holds(d)
    BY <1>0, <2>1, DuplicatesHold
  <2>4. /\ \A d \in batch \ (refused \cup dups) : Holds(d)'
        /\ \A d \in Docs : Holds(d) => Holds(d)'
    BY <1>0, <2>1, <2>2, StoredHold
  <2>. QED BY <1>c, <2>1, <2>2, <2>3, <2>4
<1>3. CASE InsertRefused
  <2>1. PICK refused, dups \in SUBSET batch :
          BulkWriteException(refused, dups) /\ FallBack("replace", refused)
    BY <1>3 DEF InsertRefused
  <2>. QED BY <1>0, <2>1, <1>2, BulkSettles DEF FallBack, Return
<1>4. CASE InsertBreaks
  <2>1. \E W \in SUBSET Docs : target' = Stored(W, convert)
    BY <1>0, <1>4, BreaksStores DEF InsertBreaks
  <2>2. \/ phase' = "retry" /\ UNCHANGED <<fallback, result>>
        \/ FallBack("individual", batch)
    BY <1>4 DEF InsertBreaks
  <2>. QED BY <1>0, <1>c, <2>1, <2>2, BulkSettles DEF FallBack, Return
<1>5. CASE RetryFails
  <2>0. phase = "retry"
    BY <1>5 DEF RetryFails
  <2>1. CASE \E refused, dups \in SUBSET batch :
               /\ BulkWriteException(refused, dups)
               /\ \/ ~ LastAttempt /\ UNCHANGED <<skipping, fallback, phase, result>>
                  \/ /\ LastAttempt /\ ~ canceled /\ refused = {}
                     /\ skipping' = TRUE
                     /\ Return("ok")
                     /\ UNCHANGED fallback
                  \/ /\ LastAttempt /\ (canceled \/ refused # {})
                     /\ FallBack("individual", batch)
                     /\ UNCHANGED skipping
    <3>1. PICK refused, dups \in SUBSET batch :
               /\ BulkWriteException(refused, dups)
               /\ \/ UNCHANGED <<fallback, phase, result>>
                  \/ refused = {} /\ Return("ok") /\ UNCHANGED fallback
                  \/ FallBack("individual", batch)
      BY <2>1
    <3>. QED BY <1>0, <2>0, <3>1, <1>2, BulkSettles DEF FallBack, Return
  <2>2. CASE Breaks(batch, convert) /\ (FallBack("individual", batch)
                                        \/ UNCHANGED <<fallback, phase, result>>)
    <3>1. \E W \in SUBSET Docs : target' = Stored(W, convert)
      BY <1>0, <2>2, BreaksStores
    <3>. QED BY <1>0, <1>c, <2>0, <2>2, <3>1, BulkSettles DEF FallBack, Return
  <2>. QED BY <1>5, <2>1, <2>2 DEF RetryFails
<1>6. CASE RetryInterrupted
  <2>1. FallBack("individual", batch) /\ target' = target /\ canceled
    BY <1>6 DEF RetryInterrupted
  <2>. QED BY <1>0, <2>1, BulkSettles DEF FallBack, Return
<1>. QED BY <1>1, <1>3, <1>4, <1>5, <1>6

-----------------------------------------------------------------------------
(* The document whose turn it is, is one of the fallback. *)
LEMMA CurrentInFallback ==
  ASSUME Shape, phase \in {"replace", "individual"}
  PROVE  Current \in fallback /\ Current \in Docs
<1>1. Docs \subseteq Nat
  BY BatchAssumption DEF Docs
<1>2. fallback \in SUBSET Nat /\ fallback # {} /\ fallback \subseteq Docs
  BY <1>1 DEF Shape
<1>. QED BY <1>2, MinOfNats DEF Current

(* The fallback takes one document after the other. *)
LEMMA DocumentSettles ==
  ASSUME Settled, Undisturbed, phase \in {"replace", "individual"}, NextDocument,
         NEW c \in Docs, c = Current,
         \/ target' = target
         \/ \E W \in SUBSET Docs, convert \in BOOLEAN : target' = Stored(W, convert),
         ledger \subseteq ledger',
         canceled \/ Holds(c)' \/ c \in ledger'
  PROVE  Settled'
<1>1. /\ Shape /\ Owned /\ Resilient /\ fallback \subseteq Docs
      /\ UNCHANGED <<input, batch, parts, failed, canceled>>
      /\ fallback' = fallback \ {c}
      /\ \/ fallback' = {} /\ phase' = "done" /\ result' = "ok"
         \/ fallback' # {} /\ phase' = phase /\ result' = result
  BY DEF Settled, Shape, NextDocument, FallBack, Return, failFastVars
<1>2. /\ target' \in [Ids -> Docs \cup {Absent}]
      /\ Owned'
      /\ \A d \in Docs : Holds(d) => Holds(d)'
  BY <1>1, TargetStep
<1>3. Undisturbed' /\ (Resilient' <=> Resilient)
  BY <1>1 DEF Undisturbed, Resilient
<1>4. Shape'
  BY <1>1, <1>2, <1>3 DEF Shape
<1>5. canceled \/ \A d \in Docs : Holds(d)' \/ d \in ledger' \/ d \in fallback'
  <2>. SUFFICES ASSUME ~ canceled, NEW d \in Docs
                PROVE  Holds(d)' \/ d \in ledger' \/ d \in fallback'
    OBVIOUS
  <2>1. Holds(d) \/ d \in ledger \/ d \in fallback
    BY <1>1 DEF Settled, NoneForgotten
  <2>2. CASE d = c
    BY <2>2
  <2>3. CASE d # c
    BY <2>1, <2>3, <1>1, <1>2
  <2>. QED BY <2>2, <2>3
<1>6. NoneForgotten'
  BY <1>1, <1>3, <1>5 DEF NoneForgotten
<1>7. WrittenOrRecorded' /\ SuccessIsWritten'
  <2>1. fallback' # {} => result' # "ok"
    BY <1>1 DEF Shape
  <2>. QED BY <1>1, <1>3, <1>5, <2>1 DEF WrittenOrRecorded, SuccessIsWritten
<1>. QED BY <1>2, <1>4, <1>6, <1>7 DEF Settled

LEMMA FallbackStep ==
  ASSUME Settled, Undisturbed, WritesOne \/ SkipsOne \/ FailsOne
  PROVE  Settled'
<1> DEFINE convert == input.convertFirst
<1>1. /\ Shape /\ Owned /\ phase \in {"replace", "individual"} /\ NextDocument
      /\ convert \in BOOLEAN /\ UNCHANGED input
  BY DEF Settled, Shape, WritesOne, SkipsOne, FailsOne, NextDocument
<1>2. PICK c \in Docs : c = Current /\ {c} \in SUBSET Docs
  BY <1>1, CurrentInFallback
<1>3. CASE WritesOne
  <2>1. target' = Stored({c}, convert) /\ ledger' = ledger
    BY <1>2, <1>3 DEF WritesOne
  <2>2. Holds(c)'
    <3>1. \A d \in {c} : Holds(d)'
      BY <1>1, <1>2, <2>1, StoredHold
    <3>. QED BY <3>1
  <2>. QED BY <1>1, <1>2, <2>1, <2>2, DocumentSettles
<1>4. CASE SkipsOne
  <2>1. Taken /\ UNCHANGED <<target, ledger>>
    BY <1>4 DEF SkipsOne
  <2>2. Holds(c)
    <3>1. PICK d \in Duplicates({c}, {}, convert) : TRUE
      BY <1>2, <2>1 DEF Taken
    <3>2. d = c
      BY <3>1 DEF Duplicates
    <3>. QED BY <1>1, <1>2, <3>1, <3>2, DuplicatesHold
  <2>3. Holds(c)'
    BY <1>1, <2>1, <2>2, TargetStep
  <2>. QED BY <1>1, <1>2, <2>1, <2>3, DocumentSettles
<1>5. CASE FailsOne
  <2>1. canceled \/ c \in ledger'
    BY <1>2, <1>5 DEF FailsOne, Record
  <2>2. ledger \subseteq ledger'
    BY <1>5 DEF FailsOne, Record
  <2>3. target' = target \/ target' = Stored({c}, convert)
    BY <1>2, <1>5 DEF FailsOne
  <2>. QED BY <1>1, <1>2, <2>1, <2>2, <2>3, DocumentSettles
<1>. QED BY <1>3, <1>4, <1>5

-----------------------------------------------------------------------------
(* A part that is done is written, or the write has failed. *)
LEMMA PartSettles ==
  ASSUME Settled, Undisturbed, phase \in {"split", "convert", "backoff"},
         NEW bad \in BOOLEAN, FinishPart(bad),
         \/ target' = target
         \/ \E W \in SUBSET Docs, convert \in BOOLEAN : target' = Stored(W, convert),
         bad \/ \A d \in Part : Holds(d)'
  PROVE  Settled'
<1>1. /\ Shape /\ Owned /\ ~ Resilient /\ parts # <<>>
      /\ UNCHANGED <<input, ledger, batch, fallback, canceled>>
      /\ failed' = (failed \/ bad)
      /\ parts' = Tail(parts)
  BY DEF Settled, Shape, FinishPart, resilientVars
<1>2. \/ phase' = "done" /\ result' = "error"
      \/ parts' = <<>> /\ phase' = "done" /\ result' = "ok" /\ ~ failed'
      \/ parts' # <<>> /\ phase' = "split" /\ result' = result
  BY DEF FinishPart, Return
<1>3. /\ target' \in [Ids -> Docs \cup {Absent}]
      /\ Owned'
      /\ \A d \in Docs : Holds(d) => Holds(d)'
  BY <1>1, TargetStep
<1>4. Undisturbed' /\ (Resilient' <=> Resilient)
  BY <1>1 DEF Undisturbed, Resilient
<1>5. parts' \in Seq(Seq(Docs))
  BY <1>1, PartIsDocs
<1>6. Shape'
  BY <1>1, <1>2, <1>3, <1>4, <1>5 DEF Shape
<1>7. \A d \in Docs : Holds(d)' \/ failed' \/ InParts(d)'
  <2>. SUFFICES ASSUME NEW d \in Docs, ~ failed'
                PROVE  Holds(d)' \/ InParts(d)'
    OBVIOUS
  <2>1. Holds(d) \/ InParts(d)
    BY <1>1 DEF Settled, NoneForgotten
  <2>2. InParts(d) => d \in Part \/ InParts(d)'
    <3>1. InParts(d)' <=> \E i \in 1 .. Len(Tail(parts)) :
                            \E k \in 1 .. Len(Tail(parts)[i]) : Tail(parts)[i][k] = d
      BY <1>1 DEF InParts
    <3>. QED BY <1>1, <3>1, PartIsDocs
  <2>. QED BY <1>1, <1>3, <2>1, <2>2
<1>8. parts' = <<>> => \A d \in Docs : ~ InParts(d)'
  BY DEF InParts
<1>9. NoneForgotten'
  BY <1>2, <1>4, <1>1, <1>7 DEF NoneForgotten
<1>10. WrittenOrRecorded' /\ SuccessIsWritten'
  <2>1. phase' = "split" => result' # "ok"
    BY <1>1, <1>2, <1>6 DEF Shape
  <2>. QED BY <1>1, <1>2, <1>4, <1>7, <1>8, <2>1 DEF WrittenOrRecorded, SuccessIsWritten
<1>. QED BY <1>3, <1>6, <1>9, <1>10 DEF Settled

(* The same part is tried again. *)
LEMMA SamePart ==
  ASSUME Settled, Undisturbed, phase \in {"split", "convert", "backoff"},
         phase' \in {"split", "convert", "backoff"},
         UNCHANGED <<input, ledger, batch, fallback, parts, failed, result, canceled>>,
         \/ target' = target
         \/ \E W \in SUBSET Docs, convert \in BOOLEAN : target' = Stored(W, convert)
  PROVE  Settled'
<1>1. Shape /\ Owned
  BY DEF Settled
<1>2. /\ target' \in [Ids -> Docs \cup {Absent}]
      /\ Owned'
      /\ \A d \in Docs : Holds(d) => Holds(d)'
  BY <1>1, TargetStep
<1>3. Undisturbed' /\ (Resilient' <=> Resilient) /\ (\A d : InParts(d)' <=> InParts(d))
  BY DEF Undisturbed, Resilient, InParts
<1>4. Shape'
  BY <1>1, <1>2, <1>3 DEF Shape
<1>5. NoneForgotten'
  BY <1>1, <1>2, <1>3 DEF Settled, Shape, NoneForgotten
<1>6. WrittenOrRecorded' /\ SuccessIsWritten'
  BY <1>1, <1>4 DEF Shape, WrittenOrRecorded, SuccessIsWritten
<1>. QED BY <1>2, <1>4, <1>5, <1>6 DEF Settled

(* A sequence of parts, the first of which was cut in two, still holds what it held. *)
Cut(part, rest) ==
  LET mid == Len(part) \div 2
  IN <<SubSeq(part, 1, mid), SubSeq(part, mid + 1, Len(part))>> \o rest

Keeps(new, part, rest) ==
  /\ new \in Seq(Seq(Docs)) /\ new # <<>>
  /\ \A k \in 1 .. Len(part) :
       \E i \in 1 .. Len(new) : \E j \in 1 .. Len(new[i]) : new[i][j] = part[k]
  /\ \A i \in 1 .. Len(rest) : \E j \in 1 .. Len(new) : new[j] = rest[i]

IsCut(new, part, rest, mid) ==
  /\ new \in Seq(Seq(Docs)) /\ Len(new) = 2 + Len(rest)
  /\ Len(new[1]) = mid /\ \A k \in 1 .. mid : new[1][k] = part[k]
  /\ Len(new[2]) = Len(part) - mid /\ \A k \in 1 .. Len(part) - mid : new[2][k] = part[mid + k]
  /\ \A i \in 1 .. Len(rest) : new[i + 2] = rest[i]

LEMMA CutShape ==
  ASSUME NEW part \in Seq(Docs), NEW rest \in Seq(Seq(Docs)), Len(part) > 1
  PROVE  \E mid \in 1 .. Len(part) - 1 : IsCut(Cut(part, rest), part, rest, mid)
<1>. DEFINE mid == Len(part) \div 2
            first == SubSeq(part, 1, mid)
            second == SubSeq(part, mid + 1, Len(part))
            head == <<first, second>>
<1>0. PICK new : new = Cut(part, rest)
  OBVIOUS
<1>1. /\ Len(part) \in Nat /\ mid \in Nat /\ mid >= 1 /\ mid < Len(part)
      /\ \A k \in 1 .. Len(part) : part[k] \in Docs
  <2>1. PICK n \in Nat : n = Len(part) /\ n > 1
    OBVIOUS
  <2>2. n \div 2 \in Nat /\ n \div 2 >= 1 /\ n \div 2 < n
    BY <2>1
  <2>. QED BY <2>1, <2>2
<1>2. /\ first \in Seq(Docs) /\ Len(first) = mid
      /\ \A k \in 1 .. mid : first[k] = part[k]
  <2>1. \A k \in 1 .. mid : part[k] \in Docs
    BY <1>1
  <2>2. /\ SubSeq(part, 1, mid) \in Seq(Docs)
        /\ Len(SubSeq(part, 1, mid)) = IF 1 <= mid THEN mid - 1 + 1 ELSE 0
        /\ \A i \in 1 .. mid - 1 + 1 : SubSeq(part, 1, mid)[i] = part[1 + i - 1]
    BY <1>1, <2>1, SubSeqProperties
  <2>. QED BY <1>1, <2>2
<1>3. /\ second \in Seq(Docs) /\ Len(second) = Len(part) - mid
      /\ \A k \in 1 .. Len(part) - mid : second[k] = part[mid + k]
  <2>1. \A k \in mid + 1 .. Len(part) : part[k] \in Docs
    BY <1>1
  <2>2. /\ SubSeq(part, mid + 1, Len(part)) \in Seq(Docs)
        /\ Len(SubSeq(part, mid + 1, Len(part)))
             = IF mid + 1 <= Len(part) THEN Len(part) - (mid + 1) + 1 ELSE 0
        /\ \A i \in 1 .. Len(part) - (mid + 1) + 1 :
             SubSeq(part, mid + 1, Len(part))[i] = part[(mid + 1) + i - 1]
    BY <1>1, <2>1, SubSeqProperties
  <2>3. Len(part) - (mid + 1) + 1 = Len(part) - mid /\ mid + 1 <= Len(part)
    BY <1>1
  <2>4. ASSUME NEW k \in 1 .. Len(part) - mid PROVE second[k] = part[mid + k]
    <3>1. (mid + 1) + k - 1 = mid + k /\ k \in 1 .. Len(part) - (mid + 1) + 1
      BY <1>1
    <3>2. SubSeq(part, mid + 1, Len(part))[k] = part[(mid + 1) + k - 1]
      BY <2>2, <3>1
    <3>. QED BY <3>1, <3>2
  <2>5. second \in Seq(Docs) /\ Len(second) = Len(part) - mid
    BY <2>2, <2>3
  <2>. QED BY <2>4, <2>5
<1>4. new = head \o rest
  BY <1>0 DEF Cut
<1>. HIDE DEF first, second, mid
<1>5. head \in Seq(Seq(Docs)) /\ Len(head) = 2 /\ head[1] = first /\ head[2] = second
  BY <1>2, <1>3
<1>. HIDE DEF head
<1>6. /\ new \in Seq(Seq(Docs)) /\ Len(new) = Len(head) + Len(rest)
      /\ \A i \in 1 .. Len(head) + Len(rest) :
           new[i] = IF i <= Len(head) THEN head[i] ELSE rest[i - Len(head)]
  <2>1. rest \in Seq(Seq(Docs)) /\ head \in Seq(Seq(Docs))
    BY <1>5
  <2>2. /\ head \o rest \in Seq(Seq(Docs)) /\ Len(head \o rest) = Len(head) + Len(rest)
        /\ \A i \in 1 .. Len(head) + Len(rest) :
             (head \o rest)[i] = IF i <= Len(head) THEN head[i] ELSE rest[i - Len(head)]
    BY ONLY <2>1, ConcatProperties
  <2>. QED BY ONLY <1>4, <2>2
<1>7. /\ Len(rest) \in Nat /\ Len(new) = 2 + Len(rest)
      /\ new[1] = first /\ new[2] = second
      /\ \A i \in 1 .. Len(rest) : new[i + 2] = rest[i]
  <2>1. Len(rest) \in Nat
    OBVIOUS
  <2>2. \A i \in 1 .. 2 + Len(rest) : new[i] = IF i <= 2 THEN head[i] ELSE rest[i - 2]
    BY <1>5, <1>6
  <2>3. ASSUME NEW i \in 1 .. Len(rest) PROVE new[i + 2] = rest[i]
    <3>1. i + 2 \in 1 .. 2 + Len(rest) /\ ~ (i + 2 <= 2) /\ (i + 2) - 2 = i
      BY <2>1
    <3>. QED BY <2>2, <3>1
  <2>4. 1 \in 1 .. 2 + Len(rest) /\ 2 \in 1 .. 2 + Len(rest)
    BY <2>1
  <2>. QED BY <1>5, <1>6, <2>1, <2>2, <2>3, <2>4
<1>8. mid \in 1 .. Len(part) - 1 /\ Len(part) \in Nat
  BY <1>1
<1>9. IsCut(new, part, rest, mid)
  BY <1>2, <1>3, <1>6, <1>7 DEF IsCut
<1>10. \E m \in 1 .. Len(part) - 1 : IsCut(new, part, rest, m)
  BY ONLY <1>8, <1>9
<1>. QED BY ONLY <1>0, <1>10, Zenon

LEMMA CutInTwo ==
  ASSUME NEW part \in Seq(Docs), NEW rest \in Seq(Seq(Docs)), Len(part) > 1
  PROVE  Keeps(Cut(part, rest), part, rest)
<1>0. PICK new : new = Cut(part, rest)
  OBVIOUS
<1>1. PICK mid \in 1 .. Len(part) - 1 : IsCut(new, part, rest, mid)
  <2>1. \E mid \in 1 .. Len(part) - 1 : IsCut(Cut(part, rest), part, rest, mid)
    BY CutShape
  <2>. QED BY ONLY <1>0, <2>1
<1>2. /\ Len(part) \in Nat /\ mid \in Nat /\ 1 <= mid /\ mid < Len(part) /\ Len(rest) \in Nat
  OBVIOUS
<1>3. /\ new \in Seq(Seq(Docs)) /\ Len(new) = 2 + Len(rest)
      /\ Len(new[1]) = mid /\ \A k \in 1 .. mid : new[1][k] = part[k]
      /\ Len(new[2]) = Len(part) - mid
      /\ \A k \in 1 .. Len(part) - mid : new[2][k] = part[mid + k]
      /\ \A i \in 1 .. Len(rest) : new[i + 2] = rest[i]
  BY <1>1 DEF IsCut
<1>4. 1 \in 1 .. Len(new) /\ 2 \in 1 .. Len(new)
  BY <1>2, <1>3
<1>8. ASSUME NEW k \in 1 .. Len(part)
      PROVE  \E i \in 1 .. Len(new) : \E j \in 1 .. Len(new[i]) : new[i][j] = part[k]
  <2>1. CASE k <= mid
    <3>1. k \in 1 .. Len(new[1]) /\ new[1][k] = part[k]
      BY <1>2, <1>3, <2>1
    <3>2. \E j \in 1 .. Len(new[1]) : new[1][j] = part[k]
      BY ONLY <3>1
    <3>. QED BY ONLY <1>4, <3>2
  <2>2. CASE k > mid
    <3>1. k - mid \in 1 .. Len(part) - mid /\ mid + (k - mid) = k
      BY <1>2, <2>2
    <3>2. k - mid \in 1 .. Len(new[2]) /\ new[2][k - mid] = part[k]
      <4>1. new[2][k - mid] = part[mid + (k - mid)]
        BY ONLY <3>1, <1>3
      <4>. QED BY <1>3, <3>1, <4>1
    <3>3. \E j \in 1 .. Len(new[2]) : new[2][j] = part[k]
      BY ONLY <3>2
    <3>. QED BY ONLY <1>4, <3>3
  <2>. QED BY <1>2, <2>1, <2>2
<1>9. ASSUME NEW i \in 1 .. Len(rest)
      PROVE  \E j \in 1 .. Len(new) : new[j] = rest[i]
  <2>1. i + 2 \in 1 .. Len(new)
    BY <1>2, <1>3
  <2>. QED BY <1>3, <2>1
<1>10. new # <<>>
  BY <1>2, <1>3
<1>. QED BY <1>0, <1>3, <1>8, <1>9, <1>10 DEF Keeps

(* The halves of a part hold its documents. *)
LEMMA HalvesCover ==
  ASSUME Shape, parts # <<>>, Len(Head(parts)) > 1,
         LET part == Head(parts)
             mid == Len(part) \div 2
         IN parts' = <<SubSeq(part, 1, mid), SubSeq(part, mid + 1, Len(part))>> \o Tail(parts)
  PROVE  /\ parts' \in Seq(Seq(Docs)) /\ parts' # <<>>
         /\ \A d \in Docs : InParts(d) => InParts(d)'
<1>1. /\ Head(parts) \in Seq(Docs) /\ Tail(parts) \in Seq(Seq(Docs))
      /\ Part = {Head(parts)[k] : k \in 1 .. Len(Head(parts))}
  BY PartIsDocs DEF Part, Range
<1>2. /\ parts' \in Seq(Seq(Docs)) /\ parts' # <<>>
      /\ \A k \in 1 .. Len(Head(parts)) : \E i \in 1 .. Len(parts') :
           \E j \in 1 .. Len(parts'[i]) : parts'[i][j] = Head(parts)[k]
      /\ \A i \in 1 .. Len(Tail(parts)) : \E j \in 1 .. Len(parts') : parts'[j] = Tail(parts)[i]
  <2>1. Keeps(Cut(Head(parts), Tail(parts)), Head(parts), Tail(parts))
    BY <1>1, CutInTwo
  <2>2. parts' = Cut(Head(parts), Tail(parts))
    BY DEF Cut
  <2>3. Keeps(parts', Head(parts), Tail(parts))
    BY ONLY <2>1, <2>2, Zenon
  <2>. QED BY ONLY <2>3, Zenon DEF Keeps
<1>3. ASSUME NEW d \in Docs, InParts(d) PROVE InParts(d)'
  <2>1. CASE d \in Part
    BY <2>1, <1>1, <1>2 DEF InParts
  <2>2. CASE \E i \in 1 .. Len(Tail(parts)) :
               \E k \in 1 .. Len(Tail(parts)[i]) : Tail(parts)[i][k] = d
    <3>1. PICK i \in 1 .. Len(Tail(parts)) :
            \E k \in 1 .. Len(Tail(parts)[i]) : Tail(parts)[i][k] = d
      BY <2>2
    <3>2. PICK j \in 1 .. Len(parts') : parts'[j] = Tail(parts)[i]
      BY <1>2
    <3>. QED BY <3>1, <3>2 DEF InParts
  <2>. QED BY <1>3, <2>1, <2>2, PartIsDocs
<1>. QED BY <1>2, <1>3

LEMMA FailFastStep ==
  ASSUME Settled, Undisturbed,
         PartWritten \/ ConvertIds \/ Halve \/ RetryDuplicates
           \/ BackOff \/ BackoffFails \/ BackoffInterrupted \/ PartFails
  PROVE  Settled'
<1>1. /\ Shape /\ Owned /\ phase # "upsert"
      /\ phase \in {"split", "convert", "backoff"}
      /\ parts # <<>> /\ Part \in SUBSET Docs
  <2>1. /\ Shape /\ Owned /\ phase # "upsert"
        /\ phase \in {"split", "convert", "backoff"}
    BY DEF Settled, NoneForgotten, PartWritten, ConvertIds, Halve, RetryDuplicates,
           BackOff, BackoffFails, BackoffInterrupted, PartFails
  <2>2. parts # <<>>
    BY <2>1 DEF Shape
  <2>. QED BY <2>1, <2>2, PartIsDocs
<1>2. ASSUME NEW convert \in BOOLEAN, NEW class, ProcessBatchFails(Part, convert, class)
      PROVE  \/ target' = target
             \/ \E W \in SUBSET Docs, c \in BOOLEAN : target' = Stored(W, c)
  BY <1>1, <1>2, FailureStores
<1>3. CASE PartWritten
  <2>1. PICK convert \in BOOLEAN : ProcessBatch(Part, convert)
    BY <1>1, <1>3 DEF PartWritten
  <2>2. target' = Stored(Part, convert) /\ FinishPart(FALSE) /\ UNCHANGED input
    BY <1>3, <2>1 DEF PartWritten, ProcessBatch, FinishPart
  <2>3. \A d \in Part : Holds(d)'
    BY <1>1, <2>2, StoredHold
  <2>. QED BY <1>1, <2>2, <2>3, PartSettles
<1>4. CASE ConvertIds
  <2>1. /\ ProcessBatchFails(Part, FALSE, "invalid id")
        /\ phase' = "convert"
        /\ UNCHANGED <<input, ledger, batch, fallback, parts, failed, result, canceled>>
    BY <1>4 DEF ConvertIds, resilientVars, failFastVars
  <2>. QED BY <1>1, <1>2, <2>1, SamePart
<1>5. CASE Halve
  <2>1. /\ ProcessBatchFails(Part, FALSE, "contention") /\ Splittable
        /\ phase' = phase
        /\ UNCHANGED <<input, ledger, batch, fallback, failed, result, canceled>>
        /\ LET part == Head(parts)
               mid == Len(part) \div 2
           IN parts' = <<SubSeq(part, 1, mid), SubSeq(part, mid + 1, Len(part))>> \o Tail(parts)
    BY <1>5 DEF Halve, resilientVars, failFastVars
  <2>2. Len(Head(parts)) > 1
    <3>1. Len(Head(parts)) \in Nat /\ MinBatchSize \in Nat \ {0}
      BY <1>1, PartIsDocs, BatchAssumption
    <3>. QED BY <2>1, <3>1 DEF Splittable
  <2>3. /\ parts' \in Seq(Seq(Docs)) /\ parts' # <<>>
        /\ \A d \in Docs : InParts(d) => InParts(d)'
    BY <1>1, <2>1, <2>2, HalvesCover
  <2>4. /\ target' \in [Ids -> Docs \cup {Absent}]
        /\ Owned'
        /\ \A d \in Docs : Holds(d) => Holds(d)'
    BY <1>1, <1>2, <2>1, TargetStep
  <2>5. Undisturbed' /\ (Resilient' <=> Resilient)
    BY <2>1 DEF Undisturbed, Resilient
  <2>6. Shape'
    BY <1>1, <2>1, <2>3, <2>4, <2>5 DEF Shape
  <2>7. NoneForgotten'
    BY <1>1, <2>1, <2>3, <2>4, <2>5 DEF Settled, Shape, NoneForgotten
  <2>8. WrittenOrRecorded' /\ SuccessIsWritten'
    BY <1>1, <2>1, <2>6 DEF Shape, WrittenOrRecorded, SuccessIsWritten
  <2>. QED BY <2>4, <2>6, <2>7, <2>8 DEF Settled
<1>6. CASE RetryDuplicates
  <2>1. ProcessBatchFails(Part, FALSE, "duplicate")
    BY <1>6 DEF RetryDuplicates
  <2>. QED BY <2>1 DEF ProcessBatchFails, Classes, Undisturbed
<1>7. CASE BackOff
  <2>1. PICK class : ProcessBatchFails(Part, FALSE, class)
    BY <1>7 DEF BackOff
  <2>2. /\ phase' = "backoff"
        /\ UNCHANGED <<input, ledger, batch, fallback, parts, failed, result, canceled>>
    BY <1>7 DEF BackOff, resilientVars, failFastVars
  <2>. QED BY <1>1, <1>2, <2>1, <2>2, SamePart
<1>8. CASE BackoffFails
  <2>1. PICK class : ProcessBatchFails(Part, FALSE, class)
    BY <1>8 DEF BackoffFails
  <2>2. CASE FinishPart(TRUE)
    BY <1>1, <1>2, <2>1, <2>2, PartSettles
  <2>3. CASE UNCHANGED <<input, ledger, resilientVars, phase, failFastVars, result, canceled>>
    <3>1. UNCHANGED <<input, ledger, batch, fallback, parts, failed, result, canceled, phase>>
      BY <2>3 DEF resilientVars, failFastVars
    <3>. QED BY <1>1, <1>2, <2>1, <3>1, SamePart
  <2>. QED BY <1>8, <2>2, <2>3 DEF BackoffFails
<1>9. CASE BackoffInterrupted
  <2>1. FinishPart(TRUE) /\ target' = target
    BY <1>9 DEF BackoffInterrupted
  <2>. QED BY <1>1, <2>1, PartSettles
<1>10. CASE PartFails
  <2>1. PICK class : ProcessBatchFails(Part, TRUE, class)
    BY <1>1, <1>10 DEF PartFails
  <2>2. FinishPart(TRUE)
    BY <1>10 DEF PartFails
  <2>. QED BY <1>1, <1>2, <2>1, <2>2, PartSettles
<1>. QED BY <1>3, <1>4, <1>5, <1>6, <1>7, <1>8, <1>9, <1>10
-----------------------------------------------------------------------------
(* Any part of the batch may be on the target before the write; none of it is
   forgotten yet. *)
LEMMA StartsSettled == Init => WriteInv
<1>. SUFFICES ASSUME Init, Undisturbed PROVE Settled
  BY DEF WriteInv
<1>1. /\ input.invalid \subseteq Docs /\ input.convertFirst \in BOOLEAN
      /\ input.mode \in Modes
  BY DEF Init
<1>2. PICK present \in SUBSET Docs :
        target = [id \in Ids |->
                    IF id \in present \ Invalid THEN id
                    ELSE IF id - NumDocs \in present \cap Invalid THEN id - NumDocs
                    ELSE Absent]
  BY DEF Init
<1>3. /\ result = "none" /\ ~ failed /\ fallback = {}
      /\ phase = IF Resilient THEN "start" ELSE "split"
      /\ batch = IF Resilient THEN Docs ELSE {}
      /\ parts = IF Resilient THEN <<>> ELSE <<[d \in Docs |-> d]>>
  BY DEF Init, Resilient
<1>4. NumDocs \in Nat \ {0}
  BY BatchAssumption
<1>5. target \in [Ids -> Docs \cup {Absent}] /\ Owned
  <2>1. ASSUME NEW id \in Ids
        PROVE  /\ target[id] \in Docs \cup {Absent}
               /\ target[id] # Absent =>
                    id = target[id] \/ (target[id] \in Invalid /\ id = NumDocs + target[id])
    BY <1>2, <1>4 DEF Docs, Absent, Ids
  <2>2. target = [id \in Ids |-> target[id]]
    BY <1>2
  <2>. QED BY <2>1, <2>2 DEF Owned
<1>6. [d \in Docs |-> d] \in Seq(Docs) /\ Len([d \in Docs |-> d]) = NumDocs
  BY <1>4 DEF Docs
<1>7. parts \in Seq(Seq(Docs)) /\ (~ Resilient => parts # <<>>)
  BY <1>3, <1>6
<1>8. ~ Resilient => \A d \in Docs : InParts(d)
  <2>. SUFFICES ASSUME ~ Resilient, NEW d \in Docs PROVE InParts(d)
    OBVIOUS
  <2>1. Len(parts) = 1 /\ parts[1] = [e \in Docs |-> e]
    BY <1>3
  <2>2. d \in 1 .. Len(parts[1])
    BY <2>1, <1>6 DEF Docs
  <2>3. parts[1][d] = d
    BY <2>1
  <2>. QED BY <2>1, <2>2, <2>3 DEF InParts
<1>9. Shape
  BY <1>1, <1>3, <1>5, <1>7 DEF Shape
<1>. QED BY <1>3, <1>5, <1>8, <1>9
     DEF Settled, NoneForgotten, WrittenOrRecorded, SuccessIsWritten

LEMMA CancelStep ==
  ASSUME Settled, Cancel \/ UNCHANGED vars
  PROVE  Settled'
<1>1. /\ UNCHANGED <<input, target, ledger, batch, fallback, parts, phase, failed, result>>
      /\ canceled => canceled'
  BY DEF Cancel, vars, resilientVars, failFastVars
<1>. QED BY <1>1
     DEF Settled, Shape, Owned, NoneForgotten, WrittenOrRecorded, SuccessIsWritten, InParts,
         Holds, Resilient, Undisturbed, Invalid, Converted

LEMMA StaysSettled == WriteInv /\ [Next]_vars => WriteInv'
<1>. SUFFICES ASSUME WriteInv, [Next]_vars, Undisturbed'
              PROVE  Settled'
  BY DEF WriteInv
<1>1. UNCHANGED input
  BY DEF Next, Write, vars, TransformFails, SkipBatch, SkipPresent, NoSkip,
         ThrottlerInterrupted, BulkInserted, InsertRefused, InsertBreaks, RetryFails,
         RetryInterrupted, WritesOne, SkipsOne, FailsOne, NextDocument, PartWritten,
         ConvertIds, Halve, RetryDuplicates, BackOff, BackoffFails, BackoffInterrupted,
         PartFails, FinishPart, Cancel
<1>2. Undisturbed /\ Settled
  BY <1>1 DEF Undisturbed, WriteInv
<1>3. CASE TransformFails \/ SkipBatch \/ SkipPresent \/ NoSkip \/ ThrottlerInterrupted
  BY <1>2, <1>3, StartSettles
<1>4. CASE BulkInserted \/ InsertRefused \/ InsertBreaks \/ RetryFails \/ RetryInterrupted
  BY <1>2, <1>4, BulkStep
<1>5. CASE WritesOne \/ SkipsOne \/ FailsOne
  BY <1>2, <1>5, FallbackStep
<1>6. CASE PartWritten \/ ConvertIds \/ Halve \/ RetryDuplicates
             \/ BackOff \/ BackoffFails \/ BackoffInterrupted \/ PartFails
  BY <1>2, <1>6, FailFastStep
<1>7. CASE Cancel \/ UNCHANGED vars
  BY <1>2, <1>7, CancelStep
<1>. QED BY <1>3, <1>4, <1>5, <1>6, <1>7 DEF Next, Write

(* A resilient write that returns, whatever was refused, lost, repeated or skipped,
   leaves every document on the target or in the DLQ (migrator.go:1904-2238). *)
THEOREM NothingDropped == Spec => []WrittenOrRecorded
<1>1. WriteInv => WrittenOrRecorded
  BY DEF WriteInv, Settled, WrittenOrRecorded
<1>. QED BY <1>1, StartsSettled, StaysSettled, PTL DEF Spec

(* A fail-fast write that reports success, however the batch was halved, converted
   and repeated, has every document on the target (retry.go:179-301). *)
THEOREM SuccessMeansWritten == Spec => []SuccessIsWritten
<1>1. WriteInv => SuccessIsWritten
  BY DEF WriteInv, Settled, SuccessIsWritten
<1>. QED BY <1>1, StartsSettled, StaysSettled, PTL DEF Spec
-----------------------------------------------------------------------------
(* What every write keeps, with or without collisions and unique indexes: the
   parts are ascending runs of the batch one behind the other, and the retries
   are counted from 0 by whoever counts them. *)
Ascending(ps) ==
  /\ ps \in Seq(Seq(Docs))
  /\ \A i \in 1 .. Len(ps) : Len(ps[i]) >= 1
  /\ \A i \in 1 .. Len(ps) : \A k, l \in 1 .. Len(ps[i]) : k < l => ps[i][k] < ps[i][l]
  /\ \A i, j \in 1 .. Len(ps) : i < j =>
       \A k \in 1 .. Len(ps[i]) : \A l \in 1 .. Len(ps[j]) : ps[i][k] < ps[j][l]

StoreInv ==
  /\ target \in [Ids -> Docs \cup {Absent}]
  /\ ledger \subseteq Docs /\ failedBatch \subseteq Docs
  /\ skipping \in BOOLEAN /\ failed \in BOOLEAN /\ canceled \in BOOLEAN

BatchInv ==
  /\ batch \subseteq Docs /\ fallback \subseteq batch
  /\ phase = "start" => fallback = {}
  /\ phase \in {"replace", "individual"} => fallback # {}

PartsInv ==
  /\ Ascending(parts)
  /\ phase \in {"split", "convert", "backoff", "upsert"} => parts # <<>>

PhaseInv ==
  /\ phase \in {"start", "insert", "retry", "replace", "individual",
                "split", "convert", "backoff", "upsert", "done"}
  /\ phase = "done" <=> result # "none"

AttemptsInv ==
  /\ attempts \in 0 .. MaxRetries
  /\ phase \in {"start", "insert"} => attempts = 0
  /\ phase \in {"retry", "backoff"} => attempts < MaxRetries

TypeInv == StoreInv /\ BatchInv /\ PartsInv /\ PhaseInv /\ AttemptsInv

LEMMA TypeInvImplies == TypeInv => TypeOK
<1>. SUFFICES ASSUME TypeInv PROVE TypeOK
  OBVIOUS
<1>1. DOMAIN parts = 1 .. Len(parts) /\ Ascending(parts) /\ parts \in Seq(Seq(Docs))
  BY DEF TypeInv, PartsInv, Ascending
<1>2. \A i \in DOMAIN parts : parts[i] # <<>>
  BY <1>1 DEF Ascending
<1>3. \A i \in DOMAIN parts : parts[i] \in Seq(Docs) /\ DOMAIN parts[i] = 1 .. Len(parts[i])
  BY <1>1
<1>4. \A i, j \in DOMAIN parts :
        i < j => \A d \in Range(parts[i]), e \in Range(parts[j]) : d < e
  <2>. SUFFICES ASSUME NEW i \in DOMAIN parts, NEW j \in DOMAIN parts, i < j,
                       NEW d \in Range(parts[i]), NEW e \in Range(parts[j])
                PROVE  d < e
    OBVIOUS
  <2>1. PICK k \in 1 .. Len(parts[i]) : parts[i][k] = d
    BY <1>3 DEF Range
  <2>2. PICK l \in 1 .. Len(parts[j]) : parts[j][l] = e
    BY <1>3 DEF Range
  <2>3. parts[i][k] < parts[j][l]
    BY <1>1 DEF Ascending
  <2>. QED BY <2>1, <2>2, <2>3
<1>5. /\ ledger \subseteq Docs
      /\ batch \subseteq Docs /\ fallback \subseteq batch /\ failedBatch \subseteq Docs
  BY DEF TypeInv, StoreInv, BatchInv
<1>6. attempts \in 0 .. MaxRetries
  BY DEF TypeInv, AttemptsInv
<1>7. target \in [Ids -> Docs \cup {Absent}]
      /\ skipping \in BOOLEAN /\ failed \in BOOLEAN /\ canceled \in BOOLEAN
  BY DEF TypeInv, StoreInv
<1>8. phase \in {"replace", "individual"} => fallback # {}
  BY DEF TypeInv, BatchInv
<1>9. phase \in {"split", "convert", "backoff", "upsert"} => parts # <<>>
  BY DEF TypeInv, PartsInv
<1>10. /\ phase \in {"start", "insert", "retry", "replace", "individual",
                     "split", "convert", "backoff", "upsert", "done"}
       /\ phase = "done" <=> result # "none"
  BY DEF TypeInv, PhaseInv
<1>. QED BY <1>2, <1>4, <1>5, <1>6, <1>7, <1>8, <1>9, <1>10 DEF TypeOK

(* The last of the writers of an _id is one of the documents. *)
LEMMA StoredTyped ==
  ASSUME StoreInv, NEW W \in SUBSET Docs, NEW convert
  PROVE  Stored(W, convert) \in [Ids -> Docs \cup {Absent}]
<1>. SUFFICES ASSUME NEW id \in Ids
              PROVE  LET writers == {d \in W : IdOf(d, convert) = id}
                     IN (IF writers = {} THEN target[id] ELSE Max(writers)) \in Docs \cup {Absent}
  BY DEF Stored
<1>. DEFINE writers == {d \in W : IdOf(d, convert) = id}
<1>1. NumDocs \in Nat /\ Docs \subseteq 0 .. NumDocs
  BY BatchAssumption DEF Docs
<1>2. writers \in SUBSET W
  OBVIOUS
<1>. HIDE DEF writers
<1>3. (IF writers = {} THEN target[id] ELSE Max(writers)) \in Docs \cup {Absent}
  <2>1. CASE writers = {}
    BY <2>1 DEF StoreInv
  <2>2. CASE writers # {}
    <3>1. writers \in SUBSET (0 .. NumDocs)
      BY <1>1, <1>2
    <3>2. Max(writers) \in writers
      BY <1>1, <2>2, <3>1, MaxInRange
    <3>. QED BY <1>2, <2>2, <3>2
  <2>. QED BY <2>1, <2>2
<1>. QED BY <1>3 DEF writers

LEMMA TargetTyped ==
  ASSUME StoreInv,
         target' = target \/ \E W \in SUBSET Docs : \E c : target' = Stored(W, c)
  PROVE  target' \in [Ids -> Docs \cup {Absent}]
BY StoredTyped DEF StoreInv

LEMMA PartIsPart ==
  ASSUME PartsInv, parts # <<>>
  PROVE  /\ Part \in SUBSET Docs
         /\ Head(parts) = parts[1] /\ Head(parts) \in Seq(Docs)
         /\ Part = {Head(parts)[k] : k \in 1 .. Len(Head(parts))}
         /\ Tail(parts) \in Seq(Seq(Docs))
         /\ Len(parts) \in Nat \ {0} /\ Len(Tail(parts)) = Len(parts) - 1
         /\ \A i \in 1 .. Len(parts) - 1 : Tail(parts)[i] = parts[i + 1]
<1>1. parts \in Seq(Seq(Docs))
  BY DEF PartsInv, Ascending
<1>2. /\ Head(parts) \in Seq(Docs) /\ Tail(parts) \in Seq(Seq(Docs))
      /\ Len(Tail(parts)) = Len(parts) - 1
      /\ \A i \in 1 .. Len(Tail(parts)) : Tail(parts)[i] = parts[i + 1]
  BY <1>1, HeadTailProperties
<1>3. Head(parts) = parts[1] /\ Len(parts) \in Nat \ {0}
  BY <1>1
<1>4. Part = {Head(parts)[k] : k \in 1 .. Len(Head(parts))}
  BY <1>2 DEF Part, Range
<1>5. Part \in SUBSET Docs
  BY <1>2, <1>4
<1>. QED BY <1>2, <1>3, <1>4, <1>5

LEMMA TailAscending ==
  ASSUME PartsInv, parts # <<>>
  PROVE  Ascending(Tail(parts))
<1>. DEFINE rest == Tail(parts)
<1>1. /\ rest \in Seq(Seq(Docs)) /\ Len(parts) \in Nat \ {0} /\ Len(rest) = Len(parts) - 1
      /\ \A i \in 1 .. Len(rest) : i + 1 \in 1 .. Len(parts) /\ rest[i] = parts[i + 1]
  BY PartIsPart
<1>2. Ascending(parts)
  BY DEF PartsInv
<1>. HIDE DEF rest
<1>3. \A i \in 1 .. Len(rest) : Len(rest[i]) >= 1
  BY <1>1, <1>2 DEF Ascending
<1>4. \A i \in 1 .. Len(rest) : \A k, l \in 1 .. Len(rest[i]) :
        k < l => rest[i][k] < rest[i][l]
  BY <1>1, <1>2 DEF Ascending
<1>5. ASSUME NEW i \in 1 .. Len(rest), NEW j \in 1 .. Len(rest), i < j,
             NEW k \in 1 .. Len(rest[i]), NEW l \in 1 .. Len(rest[j])
      PROVE  rest[i][k] < rest[j][l]
  <2>1. /\ i + 1 \in 1 .. Len(parts) /\ j + 1 \in 1 .. Len(parts) /\ i + 1 < j + 1
        /\ rest[i] = parts[i + 1] /\ rest[j] = parts[j + 1]
    BY <1>1, <1>5
  <2>. QED BY <1>2, <2>1 DEF Ascending
<1>6. Ascending(rest)
  BY <1>1, <1>3, <1>4, <1>5 DEF Ascending
<1>. QED BY <1>6 DEF rest

(* Cutting the first part in two leaves ascending parts. *)
LEMMA CutAscending ==
  ASSUME PartsInv, parts # <<>>, Len(Head(parts)) > 1
  PROVE  Ascending(Cut(Head(parts), Tail(parts)))
<1>. DEFINE part == Head(parts)
            rest == Tail(parts)
<1>0. PICK new : new = Cut(part, rest)
  OBVIOUS
<1>1. /\ part \in Seq(Docs) /\ rest \in Seq(Seq(Docs)) /\ part = parts[1]
      /\ Len(parts) \in Nat \ {0} /\ Len(rest) = Len(parts) - 1
      /\ \A i \in 1 .. Len(rest) : i + 1 \in 1 .. Len(parts) /\ rest[i] = parts[i + 1]
  BY PartIsPart
<1>2. Ascending(parts)
  BY DEF PartsInv
<1>3. PICK mid \in 1 .. Len(part) - 1 : IsCut(new, part, rest, mid)
  <2>1. \E mid \in 1 .. Len(part) - 1 : IsCut(Cut(part, rest), part, rest, mid)
    BY <1>1, CutShape
  <2>. QED BY ONLY <1>0, <2>1
<1>. HIDE DEF part, rest
<1>4. /\ Len(part) \in Nat /\ Len(rest) \in Nat /\ mid \in Nat /\ mid >= 1 /\ mid < Len(part)
  BY <1>1
<1>5. /\ new \in Seq(Seq(Docs)) /\ Len(new) = 2 + Len(rest)
      /\ Len(new[1]) = mid /\ \A k \in 1 .. mid : new[1][k] = part[k]
      /\ Len(new[2]) = Len(part) - mid
      /\ \A k \in 1 .. Len(part) - mid : new[2][k] = part[mid + k]
      /\ \A i \in 1 .. Len(rest) : new[i + 2] = rest[i]
  BY <1>3 DEF IsCut
<1>6. ASSUME NEW i \in 1 .. Len(new)
      PROVE  \/ i = 1
             \/ i = 2
             \/ i - 1 \in 2 .. Len(parts) /\ new[i] = parts[i - 1]
  <2>1. CASE i > 2
    <3>1. i - 2 \in 1 .. Len(rest) /\ (i - 2) + 2 = i /\ (i - 2) + 1 = i - 1
      BY <1>4, <1>5, <2>1
    <3>2. new[(i - 2) + 2] = rest[i - 2] /\ rest[i - 2] = parts[(i - 2) + 1]
      BY ONLY <3>1, <1>5, <1>1
    <3>3. i - 1 \in 2 .. Len(parts)
      BY <1>1, <3>1
    <3>. QED BY <3>1, <3>2, <3>3
  <2>. QED BY <2>1, <1>4, <1>5
<1>7. /\ 1 \in 1 .. Len(parts)
      /\ \A k, l \in 1 .. Len(part) : k < l => part[k] < part[l]
      /\ \A i \in 2 .. Len(parts) : i \in 1 .. Len(parts) /\ 1 < i
  <2>1. 1 \in 1 .. Len(parts)
    BY <1>1
  <2>2. \A i \in 2 .. Len(parts) : i \in 1 .. Len(parts) /\ 1 < i
    BY <1>1
  <2>3. \A k, l \in 1 .. Len(parts[1]) : k < l => parts[1][k] < parts[1][l]
    BY ONLY <1>2, <2>1 DEF Ascending
  <2>. QED BY ONLY <1>1, <2>1, <2>2, <2>3
<1>8. ASSUME NEW i \in 2 .. Len(parts), NEW k \in 1 .. Len(part), NEW l \in 1 .. Len(parts[i])
      PROVE  part[k] < parts[i][l]
  <2>1. \A m \in 1 .. Len(parts[1]) : \A n \in 1 .. Len(parts[i]) : parts[1][m] < parts[i][n]
    BY ONLY <1>2, <1>7 DEF Ascending
  <2>. QED BY <1>1, <2>1
<1>9. \A i \in 1 .. Len(new) : Len(new[i]) >= 1
  <2>1. \A i \in 1 .. Len(parts) : Len(parts[i]) >= 1
    BY <1>2 DEF Ascending
  <2>. SUFFICES ASSUME NEW i \in 1 .. Len(new) PROVE Len(new[i]) >= 1
    OBVIOUS
  <2>2. CASE i = 1
    BY <1>4, <1>5, <2>2
  <2>3. CASE i = 2
    BY <1>4, <1>5, <2>3
  <2>4. CASE i - 1 \in 2 .. Len(parts) /\ new[i] = parts[i - 1]
    BY <1>7, <2>1, <2>4
  <2>. QED BY <1>6, <2>2, <2>3, <2>4
<1>10. ASSUME NEW i \in 1 .. Len(new), NEW k \in 1 .. Len(new[i]), NEW l \in 1 .. Len(new[i]), k < l
       PROVE  new[i][k] < new[i][l]
  <2>1. CASE i = 1
    <3>1. k \in 1 .. mid /\ l \in 1 .. mid /\ k \in 1 .. Len(part) /\ l \in 1 .. Len(part)
      BY <1>4, <1>5, <2>1
    <3>. QED BY <2>1, <3>1, <1>5, <1>7, <1>10
  <2>2. CASE i = 2
    <3>1. k \in 1 .. Len(part) - mid /\ l \in 1 .. Len(part) - mid
      BY <1>5, <2>2
    <3>2. mid + k \in 1 .. Len(part) /\ mid + l \in 1 .. Len(part) /\ mid + k < mid + l
      BY <1>4, <3>1, <1>10
    <3>. QED BY <2>2, <3>1, <3>2, <1>5, <1>7
  <2>3. CASE i - 1 \in 2 .. Len(parts) /\ new[i] = parts[i - 1]
    <3>1. \A m, n \in 1 .. Len(parts[i - 1]) : m < n => parts[i - 1][m] < parts[i - 1][n]
      BY <1>2, <1>7, <2>3 DEF Ascending
    <3>. QED BY <2>3, <3>1, <1>10
  <2>. QED BY <1>6, <2>1, <2>2, <2>3
<1>11. ASSUME NEW i \in 1 .. Len(new), NEW j \in 1 .. Len(new), i < j,
              NEW k \in 1 .. Len(new[i]), NEW l \in 1 .. Len(new[j])
       PROVE  new[i][k] < new[j][l]
  <2>1. CASE i = 1 /\ j = 2
    <3>1. k \in 1 .. mid /\ l \in 1 .. Len(part) - mid
      BY <1>5, <2>1
    <3>2. k \in 1 .. Len(part) /\ mid + l \in 1 .. Len(part) /\ k < mid + l
      BY <1>4, <3>1
    <3>. QED BY <2>1, <3>1, <3>2, <1>5, <1>7
  <2>2. CASE i = 1 /\ j - 1 \in 2 .. Len(parts) /\ new[j] = parts[j - 1]
    <3>1. k \in 1 .. mid /\ k \in 1 .. Len(part)
      BY <1>4, <1>5, <2>2
    <3>. QED BY <2>2, <3>1, <1>5, <1>8
  <2>3. CASE i = 2 /\ j - 1 \in 2 .. Len(parts) /\ new[j] = parts[j - 1]
    <3>1. k \in 1 .. Len(part) - mid /\ mid + k \in 1 .. Len(part)
      BY <1>4, <1>5, <2>3
    <3>. QED BY <2>3, <3>1, <1>5, <1>8
  <2>4. CASE /\ i - 1 \in 2 .. Len(parts) /\ new[i] = parts[i - 1]
             /\ j - 1 \in 2 .. Len(parts) /\ new[j] = parts[j - 1]
    <3>1. i - 1 \in 1 .. Len(parts) /\ j - 1 \in 1 .. Len(parts) /\ i - 1 < j - 1
      BY <1>7, <1>11, <2>4
    <3>2. \A m \in 1 .. Len(parts[i - 1]) : \A n \in 1 .. Len(parts[j - 1]) :
            parts[i - 1][m] < parts[j - 1][n]
      BY ONLY <1>2, <3>1 DEF Ascending
    <3>. QED BY <2>4, <3>2
  <2>5. j # 1 /\ (i = 2 => j # 2) /\ (j - 1 \in 2 .. Len(parts) \/ j = 2)
    BY <1>6, <1>11, <1>5
  <2>6. j = 2 => ~ (i - 1 \in 2 .. Len(parts))
    BY <1>11, <1>5
  <2>. QED BY <1>6, <2>1, <2>2, <2>3, <2>4, <2>5, <2>6
<1>12. Ascending(new)
  BY ONLY <1>5, <1>9, <1>10, <1>11 DEF Ascending
<1>. QED BY ONLY <1>0, <1>12 DEF part, rest

(* Counting the upserts that come before a document never leaves its part. *)
LEMMA IndexInPart ==
  ASSUME NEW part \in Seq(Docs), NEW P, P = {part[k] : k \in 1 .. Len(part)},
         NEW upserted \in SUBSET P, NEW d \in upserted
  PROVE  Cardinality({u \in upserted : u <= d}) \in 1 .. Len(part)
<1>. DEFINE before == {u \in upserted : u <= d}
<1>1. Len(part) \in Nat /\ IsFiniteSet(1 .. Len(part)) /\ Cardinality(1 .. Len(part)) = Len(part)
  BY FS_Interval
<1>2. part \in Surjection(1 .. Len(part), P)
  BY DEF Surjection
<1>3. IsFiniteSet(P) /\ Cardinality(P) <= Len(part)
  BY <1>1, <1>2, FS_Surjection
<1>4. before \in SUBSET P /\ d \in before
  <2>1. d \in Nat
    <3>1. d \in Docs
      <4>1. \A k \in 1 .. Len(part) : part[k] \in Docs
        OBVIOUS
      <4>2. d \in P
        OBVIOUS
      <4>. QED BY ONLY <4>1, <4>2, P = {part[k] : k \in 1 .. Len(part)}
    <3>. QED BY <3>1, BatchAssumption DEF Docs
  <2>. QED BY <2>1
<1>. HIDE DEF before
<1>5. IsFiniteSet(before) /\ Cardinality(before) <= Cardinality(P)
  BY <1>3, <1>4, FS_Subset
<1>6. Cardinality(before) \in Nat /\ Cardinality(before) # 0 /\ Cardinality(P) \in Nat
  BY <1>3, <1>4, <1>5, FS_EmptySet, FS_CardinalityType
<1>7. Cardinality(before) \in 1 .. Len(part)
  BY <1>1, <1>3, <1>5, <1>6
<1>. QED BY <1>7 DEF before

LEMMA InitTyped == Init => TypeInv
<1>. SUFFICES ASSUME Init PROVE TypeInv
  OBVIOUS
<1>1. /\ result = "none" /\ failed = FALSE /\ canceled = FALSE
      /\ ledger = {} /\ fallback = {} /\ failedBatch = {} /\ attempts = 0
      /\ phase = IF Resilient THEN "start" ELSE "split"
      /\ batch = IF Resilient THEN Docs ELSE {}
      /\ parts = IF Resilient THEN <<>> ELSE <<[d \in Docs |-> d]>>
      /\ skipping \in IF Resilient THEN BOOLEAN ELSE {FALSE}
  BY DEF Init
<1>2. NumDocs \in Nat \ {0} /\ MaxRetries \in Nat \ {0}
  BY BatchAssumption
<1>3. target \in [Ids -> Docs \cup {Absent}]
  <2>1. PICK present \in SUBSET Docs :
          target = [id \in Ids |->
                      IF id \in present \ Invalid THEN id
                      ELSE IF id - NumDocs \in present \cap Invalid THEN id - NumDocs
                      ELSE Absent]
    BY DEF Init
  <2>2. \A id \in Ids : (IF id \in present \ Invalid THEN id
                         ELSE IF id - NumDocs \in present \cap Invalid THEN id - NumDocs
                         ELSE Absent) \in Docs \cup {Absent}
    OBVIOUS
  <2>. QED BY <2>1, <2>2
<1>4. StoreInv
  BY <1>1, <1>3 DEF StoreInv
<1>5. Ascending(parts)
  <2>1. CASE Resilient
    <3>1. parts = <<>> /\ Len(<<>>) = 0 /\ <<>> \in Seq(Seq(Docs))
      BY <1>1, <2>1
    <3>. QED BY <3>1 DEF Ascending
  <2>2. CASE ~ Resilient
    <3>. DEFINE whole == [d \in Docs |-> d]
    <3>1. whole \in Seq(Docs) /\ Len(whole) = NumDocs /\ \A k \in 1 .. NumDocs : whole[k] = k
      BY <1>2 DEF Docs
    <3>2. parts = <<whole>>
      BY <1>1, <2>2
    <3>. HIDE DEF whole
    <3>3. /\ parts \in Seq(Seq(Docs)) /\ Len(parts) = 1 /\ parts[1] = whole
          /\ \A i \in 1 .. Len(parts) : i = 1
      BY <3>1, <3>2
    <3>4. \A i, j \in 1 .. Len(parts) : ~ (i < j)
      BY <3>3
    <3>. QED BY <1>2, <3>1, <3>3, <3>4 DEF Ascending
  <2>. QED BY <2>1, <2>2
<1>6. PartsInv
  BY <1>1, <1>5 DEF PartsInv
<1>7. BatchInv /\ PhaseInv /\ AttemptsInv
  BY <1>1, <1>2 DEF BatchInv, PhaseInv, AttemptsInv
<1>. QED BY <1>4, <1>6, <1>7 DEF TypeInv

LEMMA StartTyped ==
  ASSUME TypeInv, TransformFails \/ SkipBatch \/ SkipPresent \/ NoSkip \/ ThrottlerInterrupted
  PROVE  TypeInv'
<1>1. /\ UNCHANGED <<target, fallback, parts, failedBatch, failed, attempts, canceled>>
      /\ ledger' \in {ledger, ledger \cup Docs}
      /\ skipping' \in {skipping, FALSE}
      /\ \/ phase' = "done" /\ result' \in {"ok", "error"} /\ batch' = batch
         \/ phase = "start" /\ phase' = "insert" /\ result' = result /\ batch' \subseteq batch
  BY DEF TransformFails, SkipBatch, SkipPresent, NoSkip, ThrottlerInterrupted, Return,
         resilientVars, failFastVars
<1>2. StoreInv'
  BY <1>1 DEF TypeInv, StoreInv
<1>3. BatchInv'
  BY <1>1 DEF TypeInv, BatchInv
<1>4. PartsInv'
  BY <1>1 DEF TypeInv, PartsInv
<1>5. PhaseInv'
  BY <1>1 DEF TypeInv, PhaseInv
<1>6. AttemptsInv'
  BY <1>1 DEF TypeInv, AttemptsInv
<1>. QED BY <1>2, <1>3, <1>4, <1>5, <1>6 DEF TypeInv

(* The bulk insert and its retries: the context ends or the retries are used up
   before the count passes its limit. *)
LEMMA BulkTyped ==
  ASSUME TypeInv, BulkInserted \/ InsertRefused \/ InsertBreaks \/ RetryFails \/ RetryInterrupted
  PROVE  TypeInv'
<1>1. /\ UNCHANGED <<ledger, batch, parts, failedBatch, failed, canceled>>
      /\ phase \in {"insert", "retry"}
      /\ batch \in SUBSET Docs
  BY DEF BulkInserted, InsertRefused, InsertBreaks, RetryFails, RetryInterrupted,
         resilientVars, failFastVars, TypeInv, BatchInv
<1>2. target' = target \/ \E W \in SUBSET Docs : \E c : target' = Stored(W, c)
  <2>1. ASSUME NEW refused, NEW dups, BulkWriteException(refused, dups)
        PROVE  \E W \in SUBSET Docs : \E c : target' = Stored(W, c)
    <3>1. /\ batch \ (refused \cup dups) \in SUBSET Docs
          /\ target' = Stored(batch \ (refused \cup dups), input.convertFirst)
      BY <1>1, <2>1 DEF BulkWriteException
    <3>. QED BY <3>1
  <2>2. ASSUME Breaks(batch, input.convertFirst)
        PROVE  \E W \in SUBSET Docs : \E c : target' = Stored(W, c)
    BY <1>1, <2>2, BreaksStores
  <2>3. CASE BulkInserted
    BY <1>1, <2>3 DEF BulkInserted
  <2>4. CASE InsertRefused
    BY <2>1, <2>4 DEF InsertRefused
  <2>5. CASE InsertBreaks
    BY <2>2, <2>5 DEF InsertBreaks
  <2>6. CASE RetryFails
    BY <2>1, <2>2, <2>6 DEF RetryFails
  <2>7. CASE RetryInterrupted
    BY <2>7 DEF RetryInterrupted
  <2>. QED BY <2>3, <2>4, <2>5, <2>6, <2>7
<1>3. skipping' \in BOOLEAN
  <2>1. skipping \in BOOLEAN
    BY DEF TypeInv, StoreInv
  <2>2. CASE BulkInserted \/ InsertBreaks \/ RetryInterrupted
    BY <2>1, <2>2 DEF BulkInserted, InsertBreaks, RetryInterrupted, resilientVars
  <2>3. CASE InsertRefused
    BY <2>3 DEF InsertRefused
  <2>4. CASE RetryFails
    BY <2>1, <2>4 DEF RetryFails
  <2>. QED BY <2>2, <2>3, <2>4
<1>4. target' \in [Ids -> Docs \cup {Absent}]
  BY <1>2, TargetTyped DEF TypeInv
<1>5. StoreInv'
  BY <1>1, <1>3, <1>4 DEF TypeInv, StoreInv
<1>6. \/ phase' = "done" /\ result' = "ok" /\ (fallback' = fallback \/ fallback' \subseteq batch)
      \/ phase' = "retry" /\ result' = result /\ fallback' = fallback
      \/ /\ phase' \in {"replace", "individual"} /\ result' = result
         /\ fallback' # {} /\ fallback' \subseteq batch
  <2>1. ASSUME NEW how \in {"replace", "individual"}, NEW D \in SUBSET batch, FallBack(how, D)
        PROVE  \/ phase' = "done" /\ result' = "ok" /\ fallback' \subseteq batch
               \/ /\ phase' \in {"replace", "individual"} /\ result' = result
                  /\ fallback' # {} /\ fallback' \subseteq batch
    BY <2>1 DEF FallBack, Return
  <2>2. batch \in SUBSET batch
    OBVIOUS
  <2>3. CASE BulkInserted
    BY <2>3 DEF BulkInserted, Return, resilientVars
  <2>4. CASE InsertRefused
    BY <2>1, <2>4 DEF InsertRefused
  <2>5. CASE InsertBreaks
    BY <2>1, <2>2, <2>5 DEF InsertBreaks
  <2>6. CASE RetryFails
    <3>1. \/ UNCHANGED <<fallback, phase, result>>
          \/ Return("ok") /\ UNCHANGED fallback
          \/ FallBack("individual", batch)
      BY <2>6 DEF RetryFails
    <3>2. phase = "retry"
      BY <2>6 DEF RetryFails
    <3>. QED BY <2>1, <2>2, <3>1, <3>2 DEF Return
  <2>7. CASE RetryInterrupted
    BY <2>1, <2>2, <2>7 DEF RetryInterrupted
  <2>. QED BY <2>3, <2>4, <2>5, <2>6, <2>7
<1>7. BatchInv'
  BY <1>1, <1>6 DEF TypeInv, BatchInv
<1>8. PartsInv'
  BY <1>1, <1>6 DEF TypeInv, PartsInv
<1>9. PhaseInv'
  BY <1>1, <1>6 DEF TypeInv, PhaseInv
<1>10. AttemptsInv'
  <2>1. /\ attempts \in 0 .. MaxRetries /\ attempts < MaxRetries /\ MaxRetries \in Nat \ {0}
        /\ phase' \notin {"start", "insert", "backoff"}
    BY <1>1, <1>6, BatchAssumption DEF TypeInv, AttemptsInv
  <2>2. CASE attempts' = attempts
    BY <2>1, <2>2 DEF AttemptsInv
  <2>3. CASE RetryFails
    <3>1. attempts' = attempts + 1 /\ (LastAttempt \/ attempts + 1 # MaxRetries)
      BY <2>3 DEF RetryFails, LastAttempt
    <3>2. LastAttempt => phase' # "retry"
      BY <2>3 DEF RetryFails, FallBack, Return
    <3>. QED BY <2>1, <3>1, <3>2 DEF AttemptsInv
  <2>. QED BY <2>2, <2>3 DEF BulkInserted, InsertRefused, InsertBreaks, RetryInterrupted
<1>. QED BY <1>5, <1>7, <1>8, <1>9, <1>10 DEF TypeInv

LEMMA FallbackTyped ==
  ASSUME TypeInv, WritesOne \/ SkipsOne \/ FailsOne
  PROVE  TypeInv'
<1>1. /\ UNCHANGED <<batch, parts, failedBatch, skipping, failed, canceled, attempts>>
      /\ phase \in {"replace", "individual"}
      /\ FallBack(phase, fallback \ {Current})
  BY DEF WritesOne, SkipsOne, FailsOne, NextDocument, failFastVars
<1>2. \/ fallback' \subseteq batch /\ phase' = "done" /\ result' = "ok"
      \/ /\ fallback' \subseteq batch /\ fallback' # {}
         /\ phase' = phase /\ result' = result
  BY <1>1 DEF FallBack, Return, TypeInv, BatchInv
<1>3. Current \in Docs
  <2>1. Docs \subseteq Nat
    BY BatchAssumption DEF Docs
  <2>2. fallback \in SUBSET Nat /\ fallback # {} /\ fallback \subseteq Docs
    BY <1>1, <2>1 DEF TypeInv, BatchInv
  <2>. QED BY <2>2, MinOfNats DEF Current
<1>4. target' = target \/ \E W \in SUBSET Docs : \E c : target' = Stored(W, c)
  <2>1. target' = target \/ target' = Stored({Current}, input.convertFirst)
    BY DEF WritesOne, SkipsOne, FailsOne
  <2>2. {Current} \in SUBSET Docs
    BY <1>3
  <2>. QED BY <2>1, <2>2
<1>5. target' \in [Ids -> Docs \cup {Absent}]
  BY <1>4, TargetTyped DEF TypeInv
<1>6. ledger' \subseteq Docs
  BY <1>3 DEF WritesOne, SkipsOne, FailsOne, Record, TypeInv, StoreInv
<1>7. StoreInv'
  BY <1>1, <1>5, <1>6 DEF TypeInv, StoreInv
<1>8. BatchInv'
  BY <1>1, <1>2 DEF TypeInv, BatchInv
<1>9. PartsInv'
  BY <1>1, <1>2 DEF TypeInv, PartsInv
<1>10. PhaseInv'
  BY <1>1, <1>2 DEF TypeInv, PhaseInv
<1>11. AttemptsInv'
  BY <1>1, <1>2 DEF TypeInv, AttemptsInv
<1>. QED BY <1>7, <1>8, <1>9, <1>10, <1>11 DEF TypeInv

(* Of the duplicates that the split takes up again, each is a document of the part. *)
LEMMA DuplicatesInPart ==
  ASSUME TypeInv, RetryDuplicates
  PROVE  failedBatch' \subseteq Docs
<1>. DEFINE upserted == IF input.upsertMode THEN Part ELSE Duplicates(Part, {}, FALSE)
            index(d) == Cardinality({u \in upserted : u <= d})
<1>1. failedBatch' = {Head(parts)[index(d)] : d \in Part \cap input.conflicting}
  BY DEF RetryDuplicates
<1>2. PartsInv /\ parts # <<>>
  BY DEF TypeInv, PartsInv, RetryDuplicates
<1>3. Head(parts) \in Seq(Docs) /\ Part = {Head(parts)[k] : k \in 1 .. Len(Head(parts))}
  BY <1>2, PartIsPart
<1>4. upserted \in SUBSET Part /\ \A d \in Part \cap input.conflicting : d \in upserted
  BY DEF Duplicates
<1>. HIDE DEF upserted
<1>5. ASSUME NEW d \in Part \cap input.conflicting
      PROVE  Head(parts)[index(d)] \in Docs
  <2>1. index(d) \in 1 .. Len(Head(parts))
    <3>1. d \in upserted
      BY <1>4
    <3>. QED BY <1>3, <1>4, <3>1, IndexInPart
  <2>. HIDE DEF index
  <2>. QED BY <1>3, <2>1
<1>. HIDE DEF index
<1>. QED BY <1>1, <1>5

LEMMA FailFastTyped ==
  ASSUME TypeInv,
         PartWritten \/ ConvertIds \/ Halve \/ RetryDuplicates
           \/ BackOff \/ BackoffFails \/ BackoffInterrupted \/ PartFails
  PROVE  TypeInv'
<1>1. /\ UNCHANGED <<ledger, batch, fallback, skipping, canceled>>
      /\ phase \in {"split", "convert", "backoff", "upsert"}
  BY DEF PartWritten, ConvertIds, Halve, RetryDuplicates, BackOff, BackoffFails,
         BackoffInterrupted, PartFails, FinishPart, resilientVars, failFastVars
<1>2. /\ PartsInv /\ parts # <<>> /\ failedBatch \in SUBSET Docs /\ failed \in BOOLEAN
      /\ Part \in SUBSET Docs
  <2>1. PartsInv /\ parts # <<>> /\ failedBatch \in SUBSET Docs /\ failed \in BOOLEAN
    BY <1>1 DEF TypeInv, PartsInv, StoreInv
  <2>. QED BY <2>1, PartIsPart
<1>3. target' \in [Ids -> Docs \cup {Absent}]
  <2>1. ASSUME NEW P \in {Part, failedBatch}, NEW convert, NEW class,
               ProcessBatchFails(P, convert, class)
        PROVE  target' = target \/ \E W \in SUBSET Docs : \E c : target' = Stored(W, c)
    <3>1. P \in SUBSET Docs
      BY <1>2
    <3>. QED BY <2>1, <3>1, FailureStores
  <2>2. ASSUME NEW P \in {Part, failedBatch}, NEW convert, ProcessBatch(P, convert)
        PROVE  target' = target \/ \E W \in SUBSET Docs : \E c : target' = Stored(W, c)
    BY <1>2, <2>2 DEF ProcessBatch
  <2>3. target' = target \/ \E W \in SUBSET Docs : \E c : target' = Stored(W, c)
    <3>1. CASE PartWritten
      BY <2>2, <3>1 DEF PartWritten
    <3>2. CASE ConvertIds \/ Halve \/ RetryDuplicates
      BY <2>1, <3>2 DEF ConvertIds, Halve, RetryDuplicates
    <3>3. CASE BackOff \/ BackoffFails
      BY <2>1, <3>3 DEF BackOff, BackoffFails
    <3>4. CASE BackoffInterrupted
      BY <3>4 DEF BackoffInterrupted
    <3>5. CASE PartFails
      BY <2>1, <3>5 DEF PartFails
    <3>. QED BY <3>1, <3>2, <3>3, <3>4, <3>5
  <2>. QED BY <2>3, TargetTyped DEF TypeInv
<1>4. failedBatch' \subseteq Docs
  <2>1. CASE RetryDuplicates
    BY <2>1, DuplicatesInPart
  <2>2. CASE ~ RetryDuplicates
    <3>1. failedBatch' = failedBatch
      BY <2>2 DEF PartWritten, ConvertIds, Halve, BackOff, BackoffFails,
                  BackoffInterrupted, PartFails, FinishPart, failFastVars
    <3>. QED BY <1>2, <3>1
  <2>. QED BY <2>1, <2>2
<1>5. \/ (\E bad \in BOOLEAN : FinishPart(bad)) /\ attempts' \in {attempts, attempts + 1}
         /\ (attempts' = attempts + 1 => phase = "backoff")
      \/ /\ UNCHANGED <<failed, result>>
         /\ phase' \in {"split", "convert", "backoff", "upsert"}
         /\ parts' = parts \/ (Splittable /\ parts' = Cut(Head(parts), Tail(parts)))
         /\ \/ attempts' = attempts /\ phase' # "backoff"
            \/ attempts' = 0
            \/ attempts' = attempts + 1 /\ phase = "backoff" /\ ~ LastAttempt
  <2>0. attempts \in Nat
    BY BatchAssumption DEF TypeInv, AttemptsInv
  <2>1. CASE PartWritten \/ BackoffInterrupted \/ PartFails
    <3>1. FinishPart(FALSE) \/ FinishPart(TRUE)
      BY <2>1 DEF PartWritten, BackoffInterrupted, PartFails
    <3>2. attempts' = attempts
      BY <2>1 DEF PartWritten, BackoffInterrupted, PartFails
    <3>3. \E bad \in BOOLEAN : FinishPart(bad)
      BY ONLY <3>1
    <3>. QED BY <2>0, <3>2, <3>3
  <2>2. CASE ConvertIds
    BY <2>2 DEF ConvertIds, failFastVars
  <2>3. CASE Halve
    BY <2>3 DEF Halve, Cut
  <2>4. CASE RetryDuplicates
    BY <2>4 DEF RetryDuplicates
  <2>5. CASE BackOff
    BY <2>5 DEF BackOff, failFastVars
  <2>6. CASE BackoffFails
    BY <2>6 DEF BackoffFails, failFastVars
  <2>. QED BY <2>1, <2>2, <2>3, <2>4, <2>5, <2>6
<1>6. /\ failed' \in BOOLEAN
      /\ Ascending(parts')
      /\ \/ phase' = "done" /\ result' \in {"ok", "error"}
         \/ parts' # <<>> /\ phase' = "split" /\ result' = result
         \/ parts' # <<>> /\ phase' \in {"split", "convert", "backoff", "upsert"}
            /\ result' = result
  <2>1. CASE \E bad \in BOOLEAN : FinishPart(bad)
    <3>1. PICK bad \in BOOLEAN : FinishPart(bad)
      BY <2>1
    <3>2. /\ failed' = (failed \/ bad) /\ parts' = Tail(parts)
          /\ \/ phase' = "done" /\ result' \in {"ok", "error"}
             \/ parts' # <<>> /\ phase' = "split" /\ result' = result
      BY <3>1 DEF FinishPart, Return
    <3>3. Ascending(parts')
      <4>1. Ascending(Tail(parts))
        BY <1>2, TailAscending
      <4>. QED BY ONLY <3>2, <4>1
    <3>. QED BY <1>2, <3>2, <3>3
  <2>2. CASE /\ UNCHANGED <<failed, result>>
             /\ phase' \in {"split", "convert", "backoff", "upsert"}
             /\ parts' = parts
    <3>1. Ascending(parts) /\ parts # <<>>
      BY <1>2 DEF PartsInv
    <3>2. Ascending(parts')
      BY ONLY <2>2, <3>1
    <3>. QED BY <1>2, <2>2, <3>2
  <2>3. CASE /\ UNCHANGED <<failed, result>>
             /\ phase' \in {"split", "convert", "backoff", "upsert"}
             /\ Splittable /\ parts' = Cut(Head(parts), Tail(parts))
    <3>1. Len(Head(parts)) > 1
      <4>1. Len(Head(parts)) \in Nat /\ MinBatchSize \in Nat \ {0}
        BY <1>2, PartIsPart, BatchAssumption
      <4>. QED BY <2>3, <4>1 DEF Splittable
    <3>2. Ascending(Cut(Head(parts), Tail(parts)))
      BY <1>2, <3>1, CutAscending
    <3>3. Ascending(parts')
      BY ONLY <2>3, <3>2
    <3>4. parts' # <<>>
      <4>1. Keeps(Cut(Head(parts), Tail(parts)), Head(parts), Tail(parts))
        BY <1>2, <3>1, PartIsPart, CutInTwo
      <4>. QED BY ONLY <2>3, <4>1 DEF Keeps
    <3>. QED BY <1>2, <2>3, <3>3, <3>4
  <2>. QED BY <1>5, <2>1, <2>2, <2>3
<1>7. StoreInv'
  BY <1>1, <1>3, <1>4, <1>6 DEF TypeInv, StoreInv
<1>8. BatchInv'
  BY <1>1, <1>6 DEF TypeInv, BatchInv
<1>9. PartsInv'
  BY <1>6 DEF PartsInv, Ascending
<1>10. PhaseInv'
  BY <1>1, <1>6 DEF TypeInv, PhaseInv
<1>11. AttemptsInv'
  <2>1. /\ attempts \in 0 .. MaxRetries /\ MaxRetries \in Nat \ {0}
        /\ phase = "backoff" => attempts < MaxRetries
    BY BatchAssumption DEF TypeInv, AttemptsInv
  <2>2. phase' \notin {"start", "insert", "retry"}
    BY <1>6
  <2>3. CASE /\ \E bad \in BOOLEAN : FinishPart(bad)
             /\ attempts' \in {attempts, attempts + 1}
             /\ (attempts' = attempts + 1 => phase = "backoff")
    <3>1. phase' # "backoff"
      BY <2>3 DEF FinishPart, Return
    <3>. QED BY <2>1, <2>2, <2>3, <3>1 DEF AttemptsInv
  <2>4. CASE \/ attempts' = attempts /\ phase' # "backoff"
             \/ attempts' = 0
             \/ attempts' = attempts + 1 /\ phase = "backoff" /\ ~ LastAttempt
    BY <2>1, <2>2, <2>4 DEF AttemptsInv, LastAttempt
  <2>. QED BY <1>5, <2>3, <2>4
<1>. QED BY <1>7, <1>8, <1>9, <1>10, <1>11 DEF TypeInv

LEMMA StaysTyped == TypeInv /\ [Next]_vars => TypeInv'
<1>. SUFFICES ASSUME TypeInv, [Next]_vars PROVE TypeInv'
  OBVIOUS
<1>1. CASE Cancel \/ UNCHANGED vars
  <2>1. /\ UNCHANGED <<target, ledger, batch, fallback, parts, failedBatch, failed, skipping,
                       attempts, phase, result>>
        /\ canceled' \in {canceled, TRUE}
    BY <1>1 DEF Cancel, vars, resilientVars, failFastVars
  <2>2. StoreInv'
    BY <2>1 DEF TypeInv, StoreInv
  <2>3. BatchInv' /\ PartsInv' /\ PhaseInv' /\ AttemptsInv'
    BY <2>1 DEF TypeInv, BatchInv, PartsInv, PhaseInv, AttemptsInv
  <2>. QED BY <2>2, <2>3 DEF TypeInv
<1>2. CASE Write
  BY <1>2, StartTyped, BulkTyped, FallbackTyped, FailFastTyped DEF Write
<1>. QED BY <1>1, <1>2 DEF Next

(* However a batch is halved, its parts stay ascending runs of it, one behind the
   other; the retries stay within maxRetries; the documents taken for duplicates are
   of the part (retry.go:179-301, migrator.go:1904-2238). *)
THEOREM WriteTypeCorrect == Spec => []TypeOK
BY InitTyped, StaysTyped, TypeInvImplies, PTL DEF Spec
=============================================================================
