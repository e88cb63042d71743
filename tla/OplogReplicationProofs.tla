----------------------- MODULE OplogReplicationProofs -----------------------
(***************************************************************************)
(* Proofs about OplogReplication, for every number of documents, changes,  *)
(* workers, starts and resumes and every size of queue and batch: type     *)
(* correctness, and, for an operator who repeats a retry that was killed   *)
(* before replicating again (RetryFirst), AccountedFor and                 *)
(* BlockedHasRecord.                                                       *)
(*                                                                         *)
(* The invariant speaks of the process by what it is about to do, of the   *)
(* changes between GTM and the target, and of each document: up to which   *)
(* point of the oplog the target, or the failure on record, has it.        *)
(***************************************************************************)
EXTENDS OplogReplication, Extrema, SequenceTheorems, FunctionTheorems, FiniteSetTheorems

RetrySteps == {"setAside", "scan", "replay", "remove"}
CopySteps == {"begin", "copy", "copied"}
TailSteps == {"tail", "save", "write", "drain", "finalSave", "finalWrite"}

-----------------------------------------------------------------------------
(* Types. *)

Records == [kind : {"failed", "resolved"}, doc : Docs, version : Positions, phase : Phases]
Files == [exists : BOOLEAN, records : Seq(Records)]
Changes == 1 .. MaxChanges

RetryMemory ==
  [status : Statuses, failures : SUBSET Records, current : SUBSET Records,
   phase : Phases \cup {NoPhase}, failed : Nat]
CopyMemory ==
  [cursor : {"opening", "open", "flushing", "ended"}, opened : Nat, last : 0 .. NumDocs,
   batch : SUBSET [doc : Docs, version : Positions], resumes : Nat, failed : Nat]
TailMemory ==
  [after : Versions, latest : Versions, unsaved : Nat, sending : Seq(Changes),
   queue : [Workers -> Seq(Changes)], known : [Docs -> Phases \cup {NoPhase}],
   resolving : [Workers -> Seq(Changes)], closed : SUBSET Workers, exited : SUBSET Workers]

FilesType ==
  /\ dlq \in Files /\ temp \in Files
  /\ status \in Statuses
  /\ target \in [Docs -> Versions]
  /\ abandoned \subseteq Docs
  /\ oplog \in Seq(Docs) /\ Now <= MaxChanges
  /\ stamp \in Versions /\ stamp <= Now
  /\ backup \in Versions /\ backup <= Now
  /\ base \in Versions

MemoryType ==
  /\ pc \in {"idle", "capture", "open", "return"} \cup RetrySteps \cup CopySteps \cup TailSteps
  /\ invocation \in Invocation
  /\ invocation.since # None => invocation.mode = "live-only"
  /\ recorded \in Nat
  /\ retry \in RetryMemory

CopyType ==
  /\ copy \in CopyMemory
  /\ copy.opened <= Now
  /\ IsFiniteSet(copy.batch) /\ Cardinality(copy.batch) <= BatchSize
  /\ copy.resumes <= MaxResumes + 1
  /\ copy.cursor # "ended" => copy.resumes <= MaxResumes

TailType ==
  /\ tail \in TailMemory
  /\ tail.unsaved <= SaveThreshold
  /\ pc \notin {"save", "write", "finalSave", "finalWrite", "return"} =>
       tail.unsaved < SaveThreshold
  /\ \A w \in Workers : Len(tail.queue[w]) <= QueueSize /\ Len(tail.resolving[w]) <= 1
  /\ Len(tail.sending) <= 1

-----------------------------------------------------------------------------
(* The process, by what it is about to do. *)

(* No change was received, or none is handed to a worker. *)
Still == tail.latest = None \/ invocation.dryRun

EmptyQueues ==
  /\ tail.sending = <<>>
  /\ \A w \in Workers : tail.queue[w] = <<>> /\ tail.resolving[w] = <<>>

MemoryInv ==
  /\ pc \in {"idle", "capture"} \cup RetrySteps => tail = NoTail
  /\ pc \in {"idle", "capture", "begin"} \cup RetrySteps => copy = NoCopy /\ recorded = 0
  /\ Still => EmptyQueues
  /\ pc \notin {"replay", "remove"} => retry.current = {}
  /\ pc \in {"setAside", "scan"} => retry.failed = 0

StartInv ==
  /\ pc = "capture" => /\ invocation.mode # "retry-dlq" /\ invocation.since <= Now
                       /\ invocation.mode = "live-only" => IsCompleted(status)
                       /\ invocation.since # None => stamp = None
  /\ pc \in {"capture", "begin"} /\ ~IsCompleted(status) => dlq.records = <<>>
  /\ pc \in {"capture", "open"} \cup TailSteps => status # "completed_with_failures"
  /\ pc \in {"open"} \cup TailSteps /\ ~invocation.dryRun => IsCompleted(status)
  /\ pc \in CopySteps => /\ tail = [NoTail EXCEPT !.after = stamp]
                         /\ stamp # None /\ base = None
                         /\ ~IsCompleted(status)

ReceivedInv ==
  /\ pc = "open" => tail.latest = None /\ tail.after # None
  /\ pc \in TailSteps => tail.after # None
  /\ pc \in {"finalSave", "finalWrite", "save", "write"} => tail.latest # None
  /\ tail.latest # None => pc \in TailSteps \cup {"return"} /\ tail.after < tail.latest
  /\ tail.after <= Now /\ tail.latest <= Now
  /\ tail.sending # <<>> => pc = "tail"
  /\ pc \in {"open"} \cup TailSteps => tail.after <= ResumePoint \/ tail.after <= base

TempInv ==
  /\ ~temp.exists => temp = NoFile
  /\ temp.exists => pc \in {"idle", "scan", "replay", "remove"}
  /\ pc \in {"scan", "replay", "remove"} => temp.exists
  /\ pc = "setAside" => dlq.exists

ReplayedInv ==
  pc \in {"replay", "remove"} =>
    retry.failures \cup retry.current \subseteq PopulateActiveFailedIDs(temp)

-----------------------------------------------------------------------------
(* The changes that were received and not dealt with. *)

Pending(t) ==
  (UNION {ToSet(t.queue[w]) \cup ToSet(t.resolving[w]) : w \in Workers}) \cup ToSet(t.sending)

QueueOf(t, w) == ToSet(t.queue[w]) \cup ToSet(t.resolving[w])

Increasing(s) == \A i, j \in DOMAIN s : i < j => s[i] < s[j]

(* Each worker has the changes of its documents, in order, the one whose
   tombstone is due first. *)
QueueInv ==
  /\ \A w \in Workers : \A n \in QueueOf(tail, w) :
       /\ tail.after < n /\ n <= tail.latest
       /\ WorkerOf(oplog[n]) = w
       /\ tail.sending # <<>> => n < tail.latest
  /\ \A w \in Workers : Increasing(tail.queue[w])
  /\ \A w \in Workers : \A n \in ToSet(tail.resolving[w]) :
       /\ \A m \in ToSet(tail.queue[w]) : n < m
       /\ target[oplog[n]] = n
       /\ tail.known[oplog[n]] # NoPhase
  /\ \A n \in ToSet(tail.sending) : n = tail.latest

(* Behind a change of a document that is pending every other one is. *)
OrderInv ==
  \A n \in Pending(tail) : \A m \in Changes :
    n < m /\ m <= tail.latest /\ oplog[m] = oplog[n] => m \in Pending(tail)

(* A document that no worker knows as failed is not. *)
KnownInv ==
  pc \in TailSteps =>
    \A d \in Docs : tail.known[d] = NoPhase => d \notin Open(dlq)

-----------------------------------------------------------------------------
(* What the target and the record of failures have of a document. *)

(* The file with the open failures: the one set aside, if there is one. *)
Held == IF temp.exists THEN temp ELSE dlq

Lines(file) == ToSet(file.records)

(* VersionAt and Due, for any oplog, history and point of it. *)
Version(log, d, p) ==
  LET changes == {i \in 1 .. p : log[i] = d}
  IN IF changes # {} THEN Max(changes) ELSE IF d \in Existing THEN 0 ELSE None

DueBy(log, b, d, p) == IF Version(log, d, p) <= b THEN None ELSE Version(log, d, p)

(* The version that is due at p is on record as a failure, or on the target. *)
Sound(log, b, written, file, d, p) ==
  IF d \in Open(file)
  THEN \A r \in PopulateActiveFailedIDs(file) : r.doc = d => r.version >= DueBy(log, b, d, p)
  ELSE written[d] >= DueBy(log, b, d, p)

RestInv ==
  Still /\ IsCompleted(status) /\ ResumePoint # None =>
    \A d \in Docs \ abandoned : Sound(oplog, base, target, Held, d, ResumePoint)

(* While workers run this is so at every point before the first pending change
   of the document. *)
TailInv ==
  ~Still => \A d \in Docs \ abandoned : \A p \in 0 .. tail.latest :
    (\A n \in Pending(tail) : oplog[n] = d => p < n)
      => Sound(oplog, base, target, dlq, d, p)

-----------------------------------------------------------------------------
(* The copy, up to the last document it has read. *)

InBatch(c, d) == \E r \in c.batch : r.doc = d

CopyBatchInv ==
  pc \in CopySteps =>
    /\ pc = "copy" /\ copy.cursor = "open" => stamp <= copy.opened
    /\ pc \in {"begin", "copied"} => copy.batch = {}
    /\ \A r \in copy.batch : r.doc <= copy.last /\ r.version >= Version(oplog, r.doc, stamp)
    /\ \A r, s \in copy.batch : r.doc = s.doc => r = s

CopyDoneInv ==
  pc \in CopySteps =>
    /\ \A r \in Lines(dlq) : /\ r.kind = "failed" /\ r.phase = "initial"
                             /\ r.version >= Version(oplog, r.doc, stamp)
    /\ \A d \in Docs : d <= copy.last =>
         \/ InBatch(copy, d)
         \/ target[d] >= Version(oplog, d, stamp)
         \/ d \in Open(dlq) \cup abandoned
    /\ copy.failed > 0 \/ recorded > 0 =>
         \/ Open(dlq) # {}
         \/ \E d \in abandoned : d <= copy.last /\ ~InBatch(copy, d)

-----------------------------------------------------------------------------
(* The retry: every failure of the file set aside is still to be replayed, was
   replayed, or is on record again. *)

ReplayInv ==
  /\ pc \in RetrySteps \ {"remove"} => retry.status = status
  /\ pc \in {"replay", "remove"} =>
       /\ retry.phase = ExpectedPhase(temp)
       /\ \A r, s \in retry.current : r = s
       /\ Lines(dlq) \subseteq PopulateActiveFailedIDs(temp)
       /\ \A r \in PopulateActiveFailedIDs(temp) :
            \/ r \in retry.failures \cup retry.current
            \/ target[r.doc] = r.version
            \/ r.doc \in Open(dlq) \cup abandoned
       /\ retry.failed > 0 => Open(dlq) \cup abandoned # {}
  /\ pc = "remove" =>
       /\ retry.failures \cup retry.current = {}
       /\ status = "completed_with_failures" => Open(dlq) \cup abandoned # {}

BlockedInv ==
  status = "completed_with_failures" =>
    /\ Open(Held) \cup abandoned # {}
    /\ \A r \in Lines(Held) : r.phase = "initial"

(* What holds of every operator, *)
ProcessInv ==
  /\ FilesType /\ MemoryType /\ CopyType /\ TailType
  /\ MemoryInv /\ StartInv /\ ReceivedInv /\ ReplayedInv
  /\ QueueInv

(* and of one who repeats a retry that was killed. *)
Inv ==
  /\ ProcessInv /\ TempInv
  /\ OrderInv /\ KnownInv
  /\ RestInv /\ TailInv
  /\ CopyBatchInv /\ CopyDoneInv /\ ReplayInv /\ BlockedInv

-----------------------------------------------------------------------------
(* Sequences. *)

(* The sequence that RecordAll appends holds each record once. *)
LEMMA SequenceOfSet ==
  ASSUME NEW S, IsFiniteSet(S)
  PROVE  SetToSeq(S) \in Seq(S) /\ \A x \in S : \E i \in DOMAIN SetToSeq(S) : SetToSeq(S)[i] = x
<1> DEFINE n == Cardinality(S)
           f == SetToSeq(S)
<1>1. n \in Nat /\ ExistsBijection(1 .. n, S)
  BY FS_CardinalityType
<1>2. \E g \in [1 .. n -> S] : IsInjective(g)
  BY <1>1 DEF ExistsBijection, Bijection, Injection
<1>3. f \in [1 .. n -> S] /\ IsInjective(f)
  BY <1>2 DEF SetToSeq
<1> DEFINE R == {f[i] : i \in 1 .. n}
<1> HIDE DEF n, f
<1>4. R \subseteq S
  BY <1>3
<1>5. ExistsBijection(1 .. n, R)
  <2>1. f \in [1 .. n -> R]
    BY <1>3
  <2>2. \A a, b \in 1 .. n : f[a] = f[b] => a = b
    BY <1>3 DEF IsInjective
  <2>3. \A t \in R : \E s \in 1 .. n : f[s] = t
    OBVIOUS
  <2>4. f \in Bijection(1 .. n, R)
    BY <2>1, <2>2, <2>3, Fun_IsBij
  <2>. QED BY <2>4 DEF ExistsBijection
<1>6. Cardinality(R) = n
  BY <1>1, <1>5, FS_CountingElements
<1>7. R = S
  BY <1>4, <1>6, FS_Subset DEF n
<1>8. f \in Seq(S)
  BY <1>1, <1>3, SeqDef
<1>9. DOMAIN f = 1 .. n
  BY <1>3
<1>. QED BY <1>7, <1>8, <1>9 DEF f

LEMMA AppendElements ==
  ASSUME NEW S, NEW s \in Seq(S), NEW e \in S
  PROVE  ToSet(Append(s, e)) = ToSet(s) \cup {e}
<1>1. /\ Append(s, e) \in Seq(S) /\ Len(Append(s, e)) = Len(s) + 1
      /\ \A i \in 1 .. Len(s) : Append(s, e)[i] = s[i]
      /\ Append(s, e)[Len(s) + 1] = e
  BY AppendProperties
<1>2. DOMAIN Append(s, e) = 1 .. Len(s) + 1 /\ DOMAIN s = 1 .. Len(s) /\ Len(s) \in Nat
  BY <1>1
<1>. QED BY <1>1, <1>2 DEF ToSet

LEMMA HeadAndTail ==
  ASSUME NEW S, NEW s \in Seq(S), s # <<>>
  PROVE  /\ Head(s) \in S /\ Tail(s) \in Seq(S) /\ Len(Tail(s)) = Len(s) - 1
         /\ Head(s) = s[1]
         /\ ToSet(s) = {Head(s)} \cup ToSet(Tail(s))
         /\ \A i \in DOMAIN Tail(s) : i + 1 \in DOMAIN s /\ Tail(s)[i] = s[i + 1]
<1>1. /\ Head(s) \in S /\ Tail(s) \in Seq(S) /\ Len(Tail(s)) = Len(s) - 1
      /\ \A i \in 1 .. Len(Tail(s)) : Tail(s)[i] = s[i + 1]
  BY HeadTailProperties
<1>2. Head(s) = s[1]
  OBVIOUS
<1>3. DOMAIN s = 1 .. Len(s) /\ Len(s) \in Nat \ {0} /\ DOMAIN Tail(s) = 1 .. Len(Tail(s))
  BY <1>1, EmptySeq
<1>4. \A i \in DOMAIN Tail(s) : i + 1 \in DOMAIN s /\ Tail(s)[i] = s[i + 1]
  BY <1>1, <1>3
<1>5. \A i \in DOMAIN s : i = 1 \/ i - 1 \in DOMAIN Tail(s)
  BY <1>1, <1>3
<1>6. 1 \in DOMAIN s
  BY <1>3
<1>7. ASSUME NEW x \in ToSet(s) PROVE x \in {Head(s)} \cup ToSet(Tail(s))
  <2>2. PICK i \in DOMAIN s : x = s[i]
    BY DEF ToSet
  <2>3. CASE i = 1
    BY <1>2, <2>2, <2>3
  <2>4. CASE i # 1
    <3>1. i - 1 \in DOMAIN Tail(s) /\ (i - 1) + 1 = i
      BY <1>3, <1>5, <2>4
    <3>2. Tail(s)[i - 1] = s[i]
      BY <1>4, <3>1
    <3>. QED BY <2>2, <3>1, <3>2 DEF ToSet
  <2>. QED BY <2>3, <2>4
<1>8. {Head(s)} \cup ToSet(Tail(s)) \subseteq ToSet(s)
  BY <1>2, <1>4, <1>6 DEF ToSet
<1>. QED BY <1>1, <1>2, <1>4, <1>7, <1>8

LEMMA SingleElement ==
  ASSUME NEW S, NEW s \in Seq(S), s # <<>>, Len(s) <= 1
  PROVE  ToSet(s) = {Head(s)}
<1>1. Len(s) \in Nat /\ Len(s) # 0 /\ DOMAIN s = 1 .. Len(s) /\ Head(s) = s[1]
  BY EmptySeq
<1>2. DOMAIN s = {1}
  BY <1>1
<1>. QED BY <1>1, <1>2 DEF ToSet

-----------------------------------------------------------------------------
(* The DLQ file. *)

LEMMA ActiveRecords ==
  ASSUME NEW f \in Files
  PROVE  /\ PopulateActiveFailedIDs(f) \subseteq Records
         /\ \A r \in PopulateActiveFailedIDs(f) : r.kind = "failed" /\ r.doc \in Docs
         /\ \A r, s \in PopulateActiveFailedIDs(f) : r.doc = s.doc => r = s
         /\ \A r \in PopulateActiveFailedIDs(f) : \E i \in DOMAIN f.records : r = f.records[i]
<1> DEFINE recs == f.records
<1>1. recs \in Seq(Records) /\ DOMAIN recs = 1 .. Len(recs) /\ Len(recs) \in Nat
  BY DEF Files
<1>2. \A i \in DOMAIN recs : recs[i] \in Records
  BY <1>1
<1>3. \A r \in PopulateActiveFailedIDs(f) :
        \E i \in DOMAIN recs :
          /\ r = recs[i] /\ recs[i].kind = "failed"
          /\ \A j \in DOMAIN recs : j > i => recs[j].doc # recs[i].doc
  BY DEF PopulateActiveFailedIDs
<1> HIDE DEF recs
<1>4. ASSUME NEW r \in PopulateActiveFailedIDs(f), NEW s \in PopulateActiveFailedIDs(f),
             r.doc = s.doc
      PROVE  r = s
  <2>1. PICK i \in DOMAIN recs :
          r = recs[i] /\ \A j \in DOMAIN recs : j > i => recs[j].doc # recs[i].doc
    BY <1>3
  <2>2. PICK k \in DOMAIN recs :
          s = recs[k] /\ \A j \in DOMAIN recs : j > k => recs[j].doc # recs[k].doc
    BY <1>3
  <2>3. ~ (k > i) /\ ~ (i > k)
    BY <1>4, <2>1, <2>2
  <2>4. i = k
    BY <1>1, <2>3
  <2>. QED BY <2>1, <2>2, <2>4
<1>5. \A r \in PopulateActiveFailedIDs(f) : r \in Records /\ r.kind = "failed"
  BY <1>2, <1>3
<1>6. \A r \in Records : r.doc \in Docs
  BY DEF Records
<1>. QED BY <1>3, <1>4, <1>5, <1>6 DEF recs

LEMMA EmptyFiles ==
  /\ NoFile \in Files /\ HeaderOnly \in Files
  /\ PopulateActiveFailedIDs(NoFile) = {} /\ Open(NoFile) = {}
  /\ PopulateActiveFailedIDs(HeaderOnly) = {} /\ Open(HeaderOnly) = {}
<1>1. NoFile \in Files /\ HeaderOnly \in Files
  BY DEF NoFile, HeaderOnly, Files
<1>2. PopulateActiveFailedIDs(NoFile) = {} /\ PopulateActiveFailedIDs(HeaderOnly) = {}
  BY DEF PopulateActiveFailedIDs, NoFile, HeaderOnly
<1>. QED BY <1>1, <1>2 DEF Open

(* Opening a file changes no record. *)
LEMMA OpenedFile ==
  ASSUME NEW f \in Files
  PROVE  /\ Opened(f) \in Files /\ Opened(f).records = f.records /\ Opened(f).exists
         /\ PopulateActiveFailedIDs(Opened(f)) = PopulateActiveFailedIDs(f)
         /\ Open(Opened(f)) = Open(f)
<1>1. Opened(f) \in Files /\ Opened(f).records = f.records /\ Opened(f).exists
  BY DEF Files, Opened
<1>2. PopulateActiveFailedIDs(Opened(f)) = PopulateActiveFailedIDs(f)
  BY <1>1 DEF PopulateActiveFailedIDs
<1>. QED BY <1>1, <1>2 DEF Open

(* The last record of a document, if it is a failure. *)
IsActive(recs, s) ==
  \E k \in DOMAIN recs :
    /\ s = recs[k] /\ recs[k].kind = "failed"
    /\ \A j \in DOMAIN recs : j > k => recs[j].doc # recs[k].doc

LEMMA ActiveByPosition ==
  ASSUME NEW f
  PROVE  \A s : s \in PopulateActiveFailedIDs(f) <=> IsActive(f.records, s)
<1>1. ASSUME NEW s, s \in PopulateActiveFailedIDs(f) PROVE IsActive(f.records, s)
  BY <1>1 DEF PopulateActiveFailedIDs, IsActive
<1>2. ASSUME NEW s, IsActive(f.records, s) PROVE s \in PopulateActiveFailedIDs(f)
  BY <1>2 DEF PopulateActiveFailedIDs, IsActive
<1>. QED BY <1>1, <1>2

(* A record that is appended decides for its document. *)
LEMMA AppendedRecord ==
  ASSUME NEW f \in Files, NEW r \in Records, NEW g,
         g = [f EXCEPT !.records = Append(@, r)]
  PROVE  /\ g \in Files /\ g.exists = f.exists
         /\ \A s : s \in PopulateActiveFailedIDs(g) <=>
              \/ s \in PopulateActiveFailedIDs(f) /\ s.doc # r.doc
              \/ s = r /\ r.kind = "failed"
<1> DEFINE recs == f.records
           n == Len(recs)
           more == Append(recs, r)
<1>1. recs \in Seq(Records) /\ n \in Nat /\ DOMAIN recs = 1 .. n
  BY DEF Files
<1>2. /\ more \in Seq(Records) /\ DOMAIN more = 1 .. n + 1
      /\ \A i \in 1 .. n : more[i] = recs[i]
      /\ more[n + 1] = r
  <2>1. /\ more \in Seq(Records) /\ Len(more) = n + 1
        /\ \A i \in 1 .. n : more[i] = recs[i]
        /\ more[n + 1] = r
    BY <1>1, AppendProperties
  <2>. HIDE DEF more
  <2>. QED BY <2>1
<1>3. g \in Files /\ g.records = more /\ g.exists = f.exists
  BY <1>2 DEF Files
<1> HIDE DEF recs, more, n
<1>4. ASSUME NEW s, IsActive(more, s)
      PROVE  \/ IsActive(recs, s) /\ s.doc # r.doc
             \/ s = r /\ r.kind = "failed"
  <2>1. PICK k \in 1 .. n + 1 :
          /\ s = more[k] /\ more[k].kind = "failed"
          /\ \A j \in 1 .. n + 1 : j > k => more[j].doc # more[k].doc
    BY <1>2, <1>4 DEF IsActive
  <2>2. CASE k = n + 1
    BY <1>2, <2>1, <2>2
  <2>3. CASE k \in 1 .. n
    <3>1. s = recs[k] /\ recs[k].kind = "failed" /\ s.doc # r.doc
      BY <1>1, <1>2, <2>1, <2>3
    <3>2. \A j \in 1 .. n : j > k => recs[j].doc # recs[k].doc
      BY <1>1, <1>2, <2>1, <2>3
    <3>. QED BY <1>1, <2>3, <3>1, <3>2 DEF IsActive
  <2>. QED BY <1>1, <2>2, <2>3
<1>5. ASSUME NEW s, IsActive(recs, s), s.doc # r.doc PROVE IsActive(more, s)
  <2>1. PICK k \in 1 .. n :
          /\ s = recs[k] /\ recs[k].kind = "failed"
          /\ \A j \in 1 .. n : j > k => recs[j].doc # recs[k].doc
    BY <1>1, <1>5 DEF IsActive
  <2>2. k \in 1 .. n + 1 /\ s = more[k] /\ more[k].kind = "failed"
    BY <1>1, <1>2, <2>1
  <2>3. \A j \in 1 .. n + 1 : j > k => more[j].doc # more[k].doc
    BY <1>1, <1>2, <1>5, <2>1
  <2>. QED BY <1>2, <2>2, <2>3 DEF IsActive
<1>6. ASSUME r.kind = "failed" PROVE IsActive(more, r)
  <2>1. n + 1 \in 1 .. n + 1 /\ \A j \in 1 .. n + 1 : ~ (j > n + 1)
    BY <1>1
  <2>. QED BY <1>2, <1>6, <2>1 DEF IsActive
<1>7. f.records = recs
  BY DEF recs
<1>8. \A s : s \in PopulateActiveFailedIDs(g) <=> IsActive(more, s)
  BY <1>3, ActiveByPosition
<1>9. \A s : s \in PopulateActiveFailedIDs(f) <=> IsActive(recs, s)
  BY <1>7, ActiveByPosition
<1>10. ASSUME NEW s
       PROVE  s \in PopulateActiveFailedIDs(g) <=>
                \/ s \in PopulateActiveFailedIDs(f) /\ s.doc # r.doc
                \/ s = r /\ r.kind = "failed"
  BY <1>4, <1>5, <1>6, <1>8, <1>9
<1>. QED BY <1>3, <1>10

LEMMA RecordedFailure ==
  ASSUME NEW f \in Files, NEW d \in Docs, NEW v \in Positions, NEW ph \in Phases, NEW g,
         g = WriteFailed(f, d, v, ph)
  PROVE  /\ g \in Files /\ g.exists = f.exists
         /\ Open(g) = Open(f) \cup {d}
         /\ \A s \in PopulateActiveFailedIDs(g) :
              IF s.doc = d THEN s.version = v ELSE s \in PopulateActiveFailedIDs(f)
         /\ Lines(g) = Lines(f) \cup {Record("failed", d, v, ph)}
<1> DEFINE r == Record("failed", d, v, ph)
<1>1. r \in Records /\ r.kind = "failed" /\ r.doc = d /\ r.version = v
  BY DEF Records, Record
<1>2. g = [f EXCEPT !.records = Append(@, r)]
  BY DEF WriteFailed
<1>3. g.records = Append(f.records, r) /\ f.records \in Seq(Records)
  BY <1>2 DEF Files
<1> HIDE DEF r
<1>4. /\ g \in Files /\ g.exists = f.exists
      /\ \A s : s \in PopulateActiveFailedIDs(g) <=>
           \/ s \in PopulateActiveFailedIDs(f) /\ s.doc # r.doc
           \/ s = r /\ r.kind = "failed"
  BY <1>1, <1>2, AppendedRecord
<1>5. Open(g) = Open(f) \cup {d}
  BY <1>1, <1>4 DEF Open
<1>6. Lines(g) = Lines(f) \cup {r}
  BY <1>1, <1>3, AppendElements DEF Lines
<1>. QED BY <1>1, <1>4, <1>5, <1>6 DEF r

LEMMA RecordedTombstone ==
  ASSUME NEW f \in Files, NEW d \in Docs, NEW v \in Positions, NEW ph \in Phases, NEW g,
         g = WriteResolved(f, d, v, ph)
  PROVE  /\ g \in Files /\ g.exists = f.exists
         /\ Open(g) = Open(f) \ {d}
         /\ PopulateActiveFailedIDs(g) \subseteq PopulateActiveFailedIDs(f)
<1> DEFINE r == Record("resolved", d, v, ph)
<1>1. r \in Records /\ r.kind # "failed" /\ r.doc = d
  BY DEF Records, Record
<1>2. g = [f EXCEPT !.records = Append(@, r)]
  BY DEF WriteResolved
<1> HIDE DEF r
<1>3. /\ g \in Files /\ g.exists = f.exists
      /\ \A s : s \in PopulateActiveFailedIDs(g) <=>
           \/ s \in PopulateActiveFailedIDs(f) /\ s.doc # r.doc
           \/ s = r /\ r.kind = "failed"
  BY <1>1, <1>2, AppendedRecord
<1>4. Open(g) = Open(f) \ {d}
  BY <1>1, <1>3 DEF Open
<1>. QED BY <1>1, <1>3, <1>4

LEMMA ActiveLines ==
  ASSUME NEW f \in Files
  PROVE  /\ PopulateActiveFailedIDs(f) \subseteq Lines(f) /\ Lines(f) \subseteq Records
         /\ Open(f) \subseteq Docs
<1>1. f.records \in Seq(Records)
  BY DEF Files
<1>2. Lines(f) \subseteq Records
  BY <1>1 DEF Lines, ToSet
<1>3. \A r \in PopulateActiveFailedIDs(f) : \E i \in DOMAIN f.records : r = f.records[i]
  BY ActiveRecords
<1>4. PopulateActiveFailedIDs(f) \subseteq Lines(f)
  BY <1>3 DEF Lines, ToSet
<1>5. \A r \in PopulateActiveFailedIDs(f) : r.doc \in Docs
  BY ActiveRecords
<1>. QED BY <1>2, <1>4, <1>5 DEF Open

(* A file of nothing but failures has every document open that it names. *)
LEMMA OpenOfFailures ==
  ASSUME NEW f \in Files, \A r \in Lines(f) : r.kind = "failed"
  PROVE  \A r \in Lines(f) : r.doc \in Open(f)
<1> DEFINE recs == f.records
           n == Len(recs)
<1>1. recs \in Seq(Records) /\ n \in Nat /\ DOMAIN recs = 1 .. n
  BY DEF Files
<1>2. SUFFICES ASSUME NEW i \in 1 .. n PROVE recs[i].doc \in Open(f)
  BY <1>1 DEF Lines, ToSet
<1> DEFINE S == {k \in 1 .. n : recs[k].doc = recs[i].doc}
           m == Max(S)
<1>3. S \subseteq 0 .. n /\ i \in S
  BY <1>1
<1>4. m \in S /\ \A k \in S : k <= m
  <2>. HIDE DEF S
  <2>. QED BY <1>1, <1>3, MaxInRange
<1>5. m \in 1 .. n /\ recs[m].doc = recs[i].doc
  BY <1>4
<1>6. \A j \in 1 .. n : j > m => recs[j].doc # recs[m].doc
  <2>. HIDE DEF m, recs, n
  <2>1. \A j \in 1 .. n : recs[j].doc = recs[i].doc => j <= m
    BY <1>4
  <2>. QED BY <1>1, <1>5, <2>1
<1>7. recs[m].kind = "failed"
  BY <1>1, <1>5 DEF Lines, ToSet
<1>8. IsActive(recs, recs[m])
  <2>. HIDE DEF m, recs, n
  <2>. QED BY <1>1, <1>5, <1>6, <1>7 DEF IsActive
<1>9. recs[m] \in PopulateActiveFailedIDs(f)
  BY <1>8, ActiveByPosition
<1>. QED BY <1>5, <1>9 DEF Open

LEMMA ConcatenationElements ==
  ASSUME NEW S, NEW s \in Seq(S), NEW t \in Seq(S)
  PROVE  s \o t \in Seq(S) /\ ToSet(s \o t) = ToSet(s) \cup ToSet(t)
<1>1. /\ s \o t \in Seq(S) /\ Len(s \o t) = Len(s) + Len(t)
      /\ \A i \in 1 .. Len(s) + Len(t) :
           (s \o t)[i] = IF i <= Len(s) THEN s[i] ELSE t[i - Len(s)]
  BY ConcatProperties
<1>2. /\ DOMAIN (s \o t) = 1 .. Len(s) + Len(t) /\ Len(s) \in Nat /\ Len(t) \in Nat
      /\ DOMAIN s = 1 .. Len(s) /\ DOMAIN t = 1 .. Len(t)
  BY <1>1
<1> DEFINE c == s \o t
<1> HIDE DEF c
<1>3. \A i \in 1 .. Len(s) : i \in DOMAIN c /\ c[i] = s[i]
  BY <1>1, <1>2 DEF c
<1>4. \A i \in 1 .. Len(t) : Len(s) + i \in DOMAIN c /\ c[Len(s) + i] = t[i]
  BY <1>1, <1>2 DEF c
<1>5. \A i \in DOMAIN c : \/ i \in DOMAIN s /\ c[i] = s[i]
                          \/ i - Len(s) \in DOMAIN t /\ c[i] = t[i - Len(s)]
  BY <1>1, <1>2 DEF c
<1>6. ToSet(c) \subseteq ToSet(s) \cup ToSet(t)
  BY <1>5 DEF ToSet
<1>7. ToSet(s) \subseteq ToSet(c)
  BY <1>2, <1>3 DEF ToSet
<1>8. ToSet(t) \subseteq ToSet(c)
  BY <1>2, <1>4 DEF ToSet
<1>. QED BY <1>1, <1>6, <1>7, <1>8 DEF c

LEMMA RecordedFailures ==
  ASSUME NEW f \in Files, NEW F, IsFiniteSet(F), F \subseteq [doc : Docs, version : Positions],
         NEW g, g = RecordAll(f, F)
  PROVE  /\ g \in Files /\ g.exists = f.exists
         /\ Lines(f) \subseteq Lines(g)
         /\ \A r \in F : Record("failed", r.doc, r.version, "initial") \in Lines(g)
         /\ \A s \in Lines(g) : s \in Lines(f) \/ \E r \in F :
              s = Record("failed", r.doc, r.version, "initial")
<1> DEFINE S == {Record("failed", r.doc, r.version, "initial") : r \in F}
           q == SetToSeq(S)
<1>1. IsFiniteSet(S)
  <2> DEFINE record == [r \in F |-> Record("failed", r.doc, r.version, "initial")]
  <2>1. record \in [F -> S] /\ \A t \in S : \E r \in F : record[r] = t
    OBVIOUS
  <2>. HIDE DEF record, S
  <2>2. record \in Surjection(F, S)
    BY <2>1, Fun_IsSurj
  <2>. QED BY <2>2, FS_Surjection
<1>2. S \subseteq Records
  BY DEF Records, Record, Phases
<1> HIDE DEF S
<1>3. q \in Seq(S) /\ \A x \in S : \E i \in DOMAIN q : q[i] = x
  BY <1>1, SequenceOfSet
<1> HIDE DEF q
<1>4. q \in Seq(Records) /\ ToSet(q) = S
  <2>1. Len(q) \in Nat /\ DOMAIN q = 1 .. Len(q) /\ \A i \in DOMAIN q : q[i] \in S
    BY <1>3
  <2>2. q \in Seq(Records)
    BY <1>2, <1>3, SeqMonotonic
  <2>. QED BY <1>3, <2>1, <2>2 DEF ToSet
<1>5. g.records = f.records \o q /\ f.records \in Seq(Records)
  BY DEF RecordAll, Files, q, S
<1>6. f.records \o q \in Seq(Records) /\ Lines(g) = Lines(f) \cup S
  BY <1>4, <1>5, ConcatenationElements DEF Lines
<1>7. g \in Files /\ g.exists = f.exists
  BY <1>5, <1>6 DEF RecordAll, Files, q, S
<1>. QED BY <1>6, <1>7 DEF S

-----------------------------------------------------------------------------
(* Versions and what is due. *)

LEMMA VersionIs ==
  ASSUME NEW log \in Seq(Docs), NEW d \in Docs, NEW p \in Int, p <= Len(log)
  PROVE  /\ Version(log, d, p) \in Int
         /\ \/ /\ Version(log, d, p) \in 1 .. p /\ log[Version(log, d, p)] = d
               /\ \A i \in 1 .. p : log[i] = d => i <= Version(log, d, p)
            \/ /\ \A i \in 1 .. p : log[i] # d
               /\ Version(log, d, p) = IF d \in Existing THEN 0 ELSE None
<1> DEFINE changes == {i \in 1 .. p : log[i] = d}
<1>1. Version(log, d, p) = IF changes # {} THEN Max(changes)
                           ELSE IF d \in Existing THEN 0 ELSE None
  BY DEF Version
<1>2. CASE changes = {}
  <2>1. \A i \in 1 .. p : log[i] # d
    BY <1>2
  <2>. HIDE DEF changes
  <2>. QED BY <1>1, <1>2, <2>1 DEF None
<1>3. CASE changes # {}
  <2>1. changes \in SUBSET (0 .. p) /\ p \in Nat
    BY <1>3
  <2>2. Max(changes) \in changes /\ \A q \in changes : q <= Max(changes)
    <3>. HIDE DEF changes
    <3>. QED BY <1>3, <2>1, MaxInRange
  <2>3. Version(log, d, p) \in changes /\ \A q \in changes : q <= Version(log, d, p)
    <3>. HIDE DEF changes
    <3>. QED BY <1>1, <1>3, <2>2
  <2>. QED BY <2>3
<1>. QED BY <1>2, <1>3

LEMMA VersionRange ==
  ASSUME NEW log \in Seq(Docs), Len(log) <= MaxChanges, NEW d \in Docs,
         NEW p \in Versions, p <= Len(log)
  PROVE  Version(log, d, p) \in Versions /\ (p # None => Version(log, d, p) <= p)
<1>1. MaxChanges \in Nat /\ p \in Int /\ p <= MaxChanges /\ p >= -1
  BY OplogAssumption DEF Versions, Positions, None
<1>. QED BY <1>1, VersionIs DEF Versions, Positions, None

(* Versions grow with the oplog, *)
LEMMA VersionGrows ==
  ASSUME NEW log \in Seq(Docs), NEW d \in Docs, NEW p \in Int, NEW q \in Int,
         p <= q, q <= Len(log)
  PROVE  Version(log, d, p) <= Version(log, d, q)
<1>1. p <= Len(log) /\ Len(log) \in Nat
  OBVIOUS
<1>2. \A i \in 1 .. p : i \in 1 .. q
  OBVIOUS
<1> DEFINE v == Version(log, d, p)
           u == Version(log, d, q)
<1>3. /\ v \in Int
      /\ \/ v \in 1 .. p /\ log[v] = d
         \/ v = IF d \in Existing THEN 0 ELSE None
  BY <1>1, VersionIs
<1>4. /\ u \in Int
      /\ \/ u \in 1 .. q /\ \A i \in 1 .. q : log[i] = d => i <= u
         \/ (\A i \in 1 .. q : log[i] # d) /\ u = IF d \in Existing THEN 0 ELSE None
  BY VersionIs
<1> HIDE DEF v, u
<1>5. v <= u
  BY <1>2, <1>3, <1>4 DEF None
<1>. QED BY <1>5 DEF v, u

(* with changes of the document only, *)
LEMMA VersionStays ==
  ASSUME NEW log \in Seq(Docs), NEW d \in Docs, NEW p \in Int, NEW q \in Int,
         p <= q, q <= Len(log), \A i \in 1 .. q : p < i => log[i] # d
  PROVE  Version(log, d, p) = Version(log, d, q)
<1> DEFINE u == {i \in 1 .. p : log[i] = d}
           v == {i \in 1 .. q : log[i] = d}
<1>1. u = v
  OBVIOUS
<1>. QED BY <1>1 DEF Version

(* and not with those to come. *)
LEMMA VersionKept ==
  ASSUME NEW log \in Seq(Docs), NEW e \in Docs, NEW d, NEW p \in Int, p <= Len(log)
  PROVE  Version(Append(log, e), d, p) = Version(log, d, p)
<1>1. \A i \in 1 .. p : Append(log, e)[i] = log[i]
  OBVIOUS
<1> DEFINE u == {i \in 1 .. p : Append(log, e)[i] = d}
           v == {i \in 1 .. p : log[i] = d}
<1>2. u = v
  BY <1>1
<1>. QED BY <1>2 DEF Version

(* A change that was dealt with, up to the next one that was not. *)
LEMMA VersionDealtWith ==
  ASSUME NEW log \in Seq(Docs), NEW Q \in SUBSET Nat, NEW n \in 1 .. Len(log),
         NEW top \in Int, top <= Len(log), NEW p \in 0 .. top,
         \A m \in 1 .. Len(log) : n < m /\ m <= top /\ log[m] = log[n] => m \in Q,
         \A m \in Q \ {n} : log[m] = log[n] => p < m
  PROVE  Version(log, log[n], p) <= n
<1>1. log[n] \in Docs /\ Len(log) \in Nat /\ p \in Int /\ p <= Len(log)
  OBVIOUS
<1>2. SUFFICES ASSUME Version(log, log[n], p) > n PROVE FALSE
  BY <1>1, VersionIs
<1>3. PICK v \in 1 .. p : v > n /\ log[v] = log[n]
  <2> DEFINE d == log[n]
             u == Version(log, d, p)
  <2>1. d \in Docs
    BY <1>1
  <2>. HIDE DEF d
  <2>2. \/ u \in 1 .. p /\ log[u] = d
        \/ u = IF d \in Existing THEN 0 ELSE None
    BY <1>1, <2>1, VersionIs
  <2>3. u > n
    BY <1>2 DEF d
  <2>. HIDE DEF u
  <2>4. u \in 1 .. p /\ log[u] = d
    BY <2>2, <2>3 DEF None
  <2>. QED BY <2>3, <2>4 DEF d
<1>4. v \in 1 .. Len(log) /\ v <= top
  BY <1>1
<1>5. v \in Q \ {n}
  BY <1>3, <1>4
<1>. QED BY <1>3, <1>5

(* A document that has what is due at one point has it at another where no more
   is due. *)
LEMMA SoundWeaker ==
  ASSUME NEW log, NEW b, NEW more, NEW b2, NEW written \in [Docs -> Versions],
         NEW file \in Files, NEW d \in Docs, NEW p, NEW q,
         DueBy(log, b, d, p) \in Int, DueBy(more, b2, d, q) \in Int,
         DueBy(more, b2, d, q) <= DueBy(log, b, d, p),
         Sound(log, b, written, file, d, p)
  PROVE  Sound(more, b2, written, file, d, q)
<1> DEFINE u == DueBy(log, b, d, p)
           v == DueBy(more, b2, d, q)
<1> HIDE DEF u, v
<1>1. \A r \in PopulateActiveFailedIDs(file) : r.version \in Int
  BY ActiveRecords, OplogAssumption DEF Records, Positions
<1>2. written[d] \in Int
  BY OplogAssumption DEF Versions, Positions, None
<1>3. u \in Int /\ v \in Int /\ v <= u
  BY DEF u, v
<1>4. IF d \in Open(file)
      THEN \A r \in PopulateActiveFailedIDs(file) : r.doc = d => r.version >= u
      ELSE written[d] >= u
  BY DEF Sound, u
<1>5. IF d \in Open(file)
      THEN \A r \in PopulateActiveFailedIDs(file) : r.doc = d => r.version >= v
      ELSE written[d] >= v
  BY <1>1, <1>2, <1>3, <1>4
<1>. QED BY <1>5 DEF Sound, v

LEMMA DueRange ==
  ASSUME NEW log \in Seq(Docs), NEW d \in Docs, NEW p \in Int, p <= Len(log), NEW b \in Versions
  PROVE  /\ DueBy(log, b, d, p) \in Int /\ DueBy(log, b, d, p) >= -1
         /\ DueBy(log, b, d, p) <= Version(log, d, p)
<1>1. Version(log, d, p) \in Int /\ Version(log, d, p) >= -1
  BY VersionIs DEF None
<1>. QED BY <1>1 DEF DueBy, None

(* Nothing is due up to where live-only takes the target for complete. *)
LEMMA NothingDue ==
  ASSUME NEW log \in Seq(Docs), NEW d \in Docs, NEW p \in Nat, p <= Len(log), NEW b \in Int,
         p <= b
  PROVE  DueBy(log, b, d, p) = None
<1>1. Version(log, d, p) \in Int /\ Version(log, d, p) <= p
  BY VersionIs DEF None
<1>. QED BY <1>1 DEF DueBy

LEMMA SoundIfNothingDue ==
  ASSUME NEW log, NEW b, NEW written \in [Docs -> Versions], NEW file \in Files,
         NEW d \in Docs, NEW p, DueBy(log, b, d, p) = None
  PROVE  Sound(log, b, written, file, d, p)
<1>1. \A r \in PopulateActiveFailedIDs(file) : r.version \in Int /\ r.version >= -1
  BY ActiveRecords, OplogAssumption DEF Records, Positions
<1>2. written[d] \in Int /\ written[d] >= -1
  BY OplogAssumption DEF Versions, Positions, None
<1>. QED BY <1>1, <1>2 DEF Sound, None

(* What is due grows with the oplog as well, and with it only. *)
LEMMA DueGrows ==
  ASSUME NEW log \in Seq(Docs), NEW d \in Docs, NEW p \in Int, NEW q \in Int,
         p <= q, q <= Len(log), NEW b \in Versions
  PROVE  DueBy(log, b, d, p) <= DueBy(log, b, d, q)
<1>1. p <= Len(log) /\ Len(log) \in Nat /\ b \in Int /\ b >= -1
  BY OplogAssumption DEF Versions, Positions, None
<1>2. /\ Version(log, d, p) \in Int /\ Version(log, d, p) >= -1
      /\ Version(log, d, q) \in Int
  BY <1>1, VersionIs DEF None
<1>3. Version(log, d, p) <= Version(log, d, q)
  BY VersionGrows
<1>. QED BY <1>1, <1>2, <1>3 DEF DueBy, None

LEMMA DueKept ==
  ASSUME NEW log \in Seq(Docs), NEW e \in Docs, NEW d, NEW p \in Int, p <= Len(log), NEW b
  PROVE  DueBy(Append(log, e), b, d, p) = DueBy(log, b, d, p)
BY VersionKept DEF DueBy

LEMMA MaxOfTwo ==
  ASSUME NEW a \in Int, NEW b \in Int
  PROVE  Max({a, b}) \in {a, b} /\ Max({a, b}) >= a /\ Max({a, b}) >= b
<1>1. \E x \in {a, b} : \A y \in {a, b} : x >= y
  OBVIOUS
<1>. QED BY <1>1 DEF Max

-----------------------------------------------------------------------------
(* The changes pending. *)

LEMMA PendingIs ==
  ASSUME NEW t, NEW n
  PROVE  n \in Pending(t) <=> n \in ToSet(t.sending) \/ \E w \in Workers : n \in QueueOf(t, w)
BY DEF Pending, QueueOf

LEMMA PendingChanges ==
  ASSUME FilesType, TailType, ReceivedInv, QueueInv
  PROVE  /\ Queued = Pending(tail)
         /\ Pending(tail) \subseteq Changes
         /\ \A n \in Pending(tail) : n <= tail.latest /\ n <= Now /\ oplog[n] \in Docs
         /\ Now \in Nat /\ oplog \in Seq(Docs)
<1>1. Queued = Pending(tail)
  BY DEF Queued, Pending
<1>2. /\ \A w \in Workers : tail.queue[w] \in Seq(Changes) /\ tail.resolving[w] \in Seq(Changes)
      /\ tail.sending \in Seq(Changes)
  BY DEF TailType, TailMemory
<1>3. \A s \in Seq(Changes) : ToSet(s) \subseteq Changes
  BY DEF ToSet
<1>4. Pending(tail) \subseteq Changes
  BY <1>2, <1>3, PendingIs DEF QueueOf
<1>5. \A n \in Pending(tail) : n <= tail.latest
  <2>1. \A n \in ToSet(tail.sending) : n <= tail.latest
    BY <1>2, <1>3, OplogAssumption DEF QueueInv, Changes
  <2>2. \A w \in Workers : \A n \in ToSet(tail.queue[w]) \cup ToSet(tail.resolving[w]) :
          n <= tail.latest
    BY DEF QueueInv, QueueOf
  <2>. QED BY <2>1, <2>2, PendingIs DEF QueueOf
<1>6. oplog \in Seq(Docs) /\ Now \in Nat /\ Now = Len(oplog)
  BY DEF FilesType, Now
<1>7. tail.latest <= Now /\ tail.latest \in Int
  <2>1. tail.latest \in Versions /\ tail.latest <= Now
    BY DEF ReceivedInv, TailType, TailMemory
  <2>. QED BY <2>1, OplogAssumption DEF Versions, Positions, None
<1>8. \A n \in Pending(tail) : n <= Now
  BY <1>4, <1>5, <1>6, <1>7, OplogAssumption DEF Changes
<1>9. \A n \in Pending(tail) : oplog[n] \in Docs
  BY <1>4, <1>6, <1>8, OplogAssumption DEF Changes
<1>. QED BY <1>1, <1>4, <1>5, <1>6, <1>8, <1>9

LEMMA WorkerOfDocument ==
  ASSUME NEW d \in Docs
  PROVE  WorkerOf(d) \in Workers
<1>1. NumWorkers \in Nat \ {0} /\ d \in Int
  BY OplogAssumption DEF Docs
<1>2. d % NumWorkers \in 0 .. (NumWorkers - 1)
  BY <1>1
<1>. QED BY <1>1, <1>2 DEF WorkerOf, Workers

LEMMA NothingPending ==
  ASSUME NEW t, t.sending = <<>>,
         \A w \in Workers : t.queue[w] = <<>> /\ t.resolving[w] = <<>>
  PROVE  Pending(t) = {}
<1>1. ToSet(<<>>) = {}
  BY DEF ToSet
<1>. QED BY <1>1 DEF Pending

LEMMA ResumePoints ==
  ASSUME FilesType
  PROVE  ResumePoint \in Versions /\ ResumePoint <= Now
BY DEF FilesType, ResumePoint

LEMMA ForgottenDocs ==
  ASSUME FilesType, TailType, ReceivedInv, QueueInv
  PROVE  Forgotten \subseteq Docs
<1>1. Now \in Nat /\ oplog \in Seq(Docs) /\ Now = Len(oplog)
  BY DEF FilesType, Now
<1>2. \A n \in Unreceived : n \in Int /\ n >= 1 /\ n <= ResumePoint
  <2>1. tail.latest \in Versions /\ ResumePoint \in Versions
    BY ResumePoints DEF TailType, TailMemory
  <2>. QED BY <2>1, OplogAssumption DEF Unreceived, Versions, Positions, None
<1>3. \A n \in Unreceived : n \in 1 .. Now
  BY <1>1, <1>2, ResumePoints, OplogAssumption DEF Versions, Positions, None
<1>4. \A n \in Queued : oplog[n] \in Docs
  BY PendingChanges
<1>. QED BY <1>1, <1>3, <1>4 DEF Forgotten, Outstanding

LEMMA HeldFile ==
  ASSUME FilesType
  PROVE  Held \in Files
BY DEF FilesType, Held

(* The first change in a queue. *)
LEMMA QueueHead ==
  ASSUME FilesType, TailType, ReceivedInv, QueueInv, NEW w \in Workers, NEW s,
         s = tail.queue[w] \/ s = tail.resolving[w], s # <<>>
  PROVE  /\ Head(s) \in Changes /\ Head(s) \in Pending(tail)
         /\ Head(s) \in Positions /\ oplog[Head(s)] \in Docs
         /\ Head(s) <= Now /\ Head(s) <= tail.latest
         /\ Tail(s) \in Seq(Changes)
         /\ ToSet(s) = {Head(s)} \cup ToSet(Tail(s))
<1>1. s \in Seq(Changes)
  BY DEF TailType, TailMemory
<1>2. /\ Head(s) \in Changes /\ Tail(s) \in Seq(Changes)
      /\ ToSet(s) = {Head(s)} \cup ToSet(Tail(s))
  BY <1>1, HeadAndTail
<1>3. Head(s) \in Pending(tail)
  BY <1>2, PendingIs DEF QueueOf
<1>. QED BY <1>2, <1>3, PendingChanges, OplogAssumption DEF Changes, Positions

-----------------------------------------------------------------------------
(* Every step keeps the types of the files. *)

LEMMA FilesTypeKept ==
  ASSUME FilesType, MemoryType, CopyType, TailType, StartInv, ReceivedInv, QueueInv,
         [Next]_vars
  PROVE  FilesType'
<1> USE DEF FilesType
<1>1. CASE UNCHANGED <<dlq, temp, status, target, abandoned, oplog, stamp, backup, base>>
  BY <1>1 DEF Now
<1>2. CASE Change
  <2>1. Now \in Nat /\ MaxChanges \in Int
    BY OplogAssumption DEF Now
  <2>2. oplog' \in Seq(Docs) /\ Now' = Now + 1 /\ Now' <= MaxChanges
    BY <1>2, <2>1 DEF Change, Now
  <2>3. stamp \in Int /\ backup \in Int
    BY OplogAssumption DEF Versions, Positions, None
  <2>. QED BY <1>2, <2>1, <2>2, <2>3 DEF Change, retryVars
<1>3. ASSUME NEW inv \in Invocations, StartLive(inv) PROVE FilesType'
  <2>1. dlq' \in Files
    BY <1>3, OpenedFile, EmptyFiles DEF StartLive, DLQOpened, BackupAndClearDLQ
  <2>2. status' \in Statuses /\ base' \in Versions
    BY <1>3, ResumePoints DEF StartLive, Statuses
  <2>. QED BY <1>3, <2>1, <2>2 DEF StartLive, Now
<1>4. ASSUME NEW inv \in Invocations, StartRetry(inv) PROVE FilesType'
  BY <1>4, EmptyFiles DEF StartRetry, BeginRetry, restoreLeftoverTempDLQ, Now
<1>5. CASE Crash \/ Return \/ SendPanics
  BY <1>5, ForgottenDocs DEF Crash, Return, SendPanics, Now
<1>6. CASE Capture
  <2>1. invocation.since \in Versions /\ invocation.since <= Now
    BY <1>6 DEF Capture, StartInv, MemoryType, RetryMemory, Invocation
  <2>2. Now \in Positions
    BY OplogAssumption DEF Now, Positions
  <2>3. StartTimestamp \in Versions /\ StartTimestamp <= Now
    BY <2>1, <2>2, OplogAssumption DEF StartTimestamp, Versions, Positions
  <2>4. base \in Int /\ StartTimestamp \in Int
    BY <2>3, OplogAssumption DEF Versions, Positions, None
  <2>5. Max({base, StartTimestamp}) \in Versions
    BY <2>3, <2>4, MaxOfTwo
  <2>6. stamp' \in Versions /\ stamp' <= Now
    BY <1>6, <2>3 DEF Capture
  <2>7. base' \in Versions
    BY <1>6, <2>3, <2>5 DEF Capture, Versions
  <2>. QED BY <1>6, <2>6, <2>7 DEF Capture, Now
<1>7. CASE BeginCopy
  BY <1>7 DEF BeginCopy, liveVars, Now, Statuses
<1>8. CASE InsertBatch
  <2>1. PICK o \in InsertOutcomes({r.doc : r \in copy.batch}) :
          LET with(outcome) == {r \in copy.batch : o[r.doc] = outcome}
          IN /\ target' = [d \in Docs |-> IF \E r \in with("stored") : r.doc = d
                                          THEN (CHOOSE r \in copy.batch : r.doc = d).version
                                          ELSE target[d]]
             /\ dlq' = RecordAll(dlq, with("recorded"))
             /\ abandoned' = (abandoned \cup {r.doc : r \in with("dropped")})
                               \ {r.doc : r \in with("stored")}
    BY <1>8 DEF InsertBatch
  <2> DEFINE with(outcome) == {r \in copy.batch : o[r.doc] = outcome}
  <2>2. /\ copy.batch \subseteq [doc : Docs, version : Positions] /\ IsFiniteSet(copy.batch)
    BY DEF CopyType, CopyMemory
  <2>3. dlq' \in Files
    <3>1. with("recorded") \subseteq copy.batch
      OBVIOUS
    <3>2. IsFiniteSet(with("recorded"))
      BY <2>2, <3>1, FS_Subset
    <3>. QED BY <2>1, <2>2, <3>1, <3>2, RecordedFailures
  <2>4. target' \in [Docs -> Versions]
    <3>1. ASSUME NEW d \in Docs, \E r \in with("stored") : r.doc = d
          PROVE  (CHOOSE r \in copy.batch : r.doc = d).version \in Versions
      BY <2>2, <3>1 DEF Versions
    <3>. QED BY <2>1, <3>1
  <2>5. abandoned' \subseteq Docs
    BY <2>1, <2>2
  <2>. QED BY <1>8, <2>3, <2>4, <2>5 DEF InsertBatch, Now
<1>9. CASE SaveCopyStatus
  <2>1. abandoned' \subseteq Docs
    BY <1>9 DEF SaveCopyStatus, Unread
  <2>2. status' \in Statuses
    BY <1>9 DEF SaveCopyStatus, CopyStatus, Statuses
  <2>. QED BY <1>9, <2>1, <2>2 DEF SaveCopyStatus, liveVars, Now
<1>10. CASE RenameStamp
  BY <1>10 DEF RenameStamp, TailVars, Now, Versions, None
<1>11. CASE WriteStamp
  <2>1. tail.latest \in Versions /\ tail.latest <= Now /\ tail.after \in Versions
    BY DEF TailType, TailMemory, ReceivedInv
  <2>2. tail.after # None
    BY <1>11 DEF WriteStamp, ReceivedInv, TailSteps
  <2>3. \A n \in (tail.after + 1) .. tail.latest : oplog[n] \in Docs
    BY <2>1, <2>2, OplogAssumption DEF Versions, Positions, None, Now
  <2>4. abandoned' \subseteq Docs
    BY <1>11, <2>3 DEF WriteStamp
  <2>. QED BY <1>11, <2>1, <2>4 DEF WriteStamp, TailVars, Now
<1>12. ASSUME NEW w \in Workers, ApplyStores(w) PROVE FilesType'
  <2> DEFINE n == Head(tail.queue[w])
  <2>1. n \in Positions /\ oplog[n] \in Docs
    BY <1>12, QueueHead DEF ApplyStores, Applies
  <2>2. target' \in [Docs -> Versions] /\ abandoned' \subseteq Docs
    <3>. HIDE DEF n
    <3>1. target' = [target EXCEPT ![oplog[n]] = n] /\ abandoned' \subseteq abandoned
      BY <1>12 DEF ApplyStores, n
    <3>. QED BY <2>1, <3>1 DEF Versions
  <2>. QED BY <1>12, <2>2 DEF ApplyStores, TailVars, Now
<1>13. ASSUME NEW w \in Workers, Resolve(w) PROVE FilesType'
  <2> DEFINE n == Head(tail.resolving[w])
  <2>1. n \in Positions /\ oplog[n] \in Docs
    BY <1>13, QueueHead DEF Resolve
  <2>2. tail.known[oplog[n]] \in Phases \cup {NoPhase}
    BY <2>1 DEF TailType, TailMemory
  <2>3. tail.known[oplog[n]] # NoPhase
    <3>1. n \in ToSet(tail.resolving[w])
      BY <1>13, QueueHead DEF Resolve
    <3>. QED BY <3>1 DEF QueueInv
  <2>4. dlq' \in Files
    BY <1>13, <2>1, <2>2, <2>3, RecordedTombstone DEF Resolve
  <2>. QED BY <1>13, <2>4 DEF Resolve, TailVars, Now
<1>14. ASSUME NEW w \in Workers, ApplyFails(w) PROVE FilesType'
  <2> DEFINE n == Head(tail.queue[w])
  <2>1. n \in Positions /\ oplog[n] \in Docs
    BY <1>14, QueueHead DEF ApplyFails, Applies
  <2>2. dlq' \in Files
    BY <1>14, <2>1, RecordedFailure DEF ApplyFails, Phases
  <2>. QED BY <1>14, <2>2 DEF ApplyFails, TailVars, Now
<1>15. ASSUME NEW w \in Workers, ApplyCancelled(w) PROVE FilesType'
  <2>1. oplog[Head(tail.queue[w])] \in Docs
    BY <1>15, QueueHead DEF ApplyCancelled, Applies
  <2>. QED BY <1>15, <2>1 DEF ApplyCancelled, TailVars, Now
<1>16. CASE Retry
  <2>1. UNCHANGED <<oplog, stamp, backup, base>>
    BY <1>16 DEF Retry, liveVars
  <2>2. CASE SetAside \/ CannotRetry \/ RefuseMixedPhases \/ StopReplay \/ Scan \/ RemoveTemp
    BY <2>1, <2>2, EmptyFiles
       DEF SetAside, CannotRetry, RefuseMixedPhases, StopReplay, Scan, RemoveTemp,
           RestoreOriginal, Now
  <2>3. CASE PickRecord
    BY <2>1, <2>3 DEF PickRecord, Now
  <2>4. retry.current \subseteq Records
    BY DEF MemoryType, RetryMemory
  <2>5. \A r \in retry.current : r.doc \in Docs /\ r.version \in Positions /\ r.phase \in Phases
    BY <2>4 DEF Records
  <2>6. CASE ReplaySucceeds
    <3>1. target' \in [Docs -> Versions]
      BY <2>5, <2>6 DEF ReplaySucceeds, Versions
    <3>. QED BY <2>1, <2>6, <3>1 DEF ReplaySucceeds, Replayed, Now
  <2>7. CASE ReplayFails
    <3>1. dlq' \in Files
      BY <2>5, <2>7, RecordedFailure DEF ReplayFails
    <3>. QED BY <2>1, <2>7, <3>1 DEF ReplayFails, Now
  <2>8. CASE ReplayCancelled
    BY <2>1, <2>5, <2>8 DEF ReplayCancelled, Now
  <2>9. CASE SyncState
    BY <2>1, <2>9 DEF SyncState, Statuses, Now
  <2>. QED BY <1>16, <2>2, <2>3, <2>6, <2>7, <2>8, <2>9 DEF Retry, RetryStep
<1>17. Cancel \/ CaptureFails \/ OpenCursor \/ ReadDocument \/ EndOfCollection \/ CursorFails
         \/ Resume \/ EndCopy \/ OpenTail \/ Receive \/ Send \/ StopLoop \/ Drained \/ CloseQueue
         \/ (\E w \in Workers : WorkerExits(w)) \/ UNCHANGED vars
       => UNCHANGED <<dlq, temp, status, target, abandoned, oplog, stamp, backup, base>>
  BY DEF Cancel, CaptureFails, OpenCursor, ReadDocument, EndOfCollection, CursorFails, Resume,
         EndCopy, OpenTail, Receive, Send, StopLoop, Drained, CloseQueue, WorkerExits,
         CopyVars, TailVars, liveVars, vars, retryVars
<1>. QED BY <1>1, <1>2, <1>3, <1>4, <1>5, <1>6, <1>7, <1>8, <1>9, <1>10, <1>11, <1>12, <1>13,
            <1>14, <1>15, <1>16, <1>17 DEF Next, Start, LiveStep, WorkerStep

-----------------------------------------------------------------------------
(* Every step keeps the types of the process's memory. *)

LEMMA MemoryTypeKept ==
  ASSUME FilesType, MemoryType, CopyType, TailType, ReceivedInv, QueueInv, [Next]_vars
  PROVE  MemoryType'
<1> USE DEF MemoryType, RetryMemory
<1>0. NoPhase \in Phases \cup {NoPhase} /\ "none" \in Statuses
  BY DEF Statuses
<1>1. CASE UNCHANGED <<pc, invocation, recorded, retry>>
  BY <1>1
<1>2. CASE /\ UNCHANGED <<invocation, recorded, retry>>
           /\ pc' \in {"idle", "return", "open"} \cup CopySteps \cup TailSteps
  BY <1>2
<1>3. Unstarted \in RetryMemory
  BY <1>0 DEF Unstarted
<1>4. ASSUME NEW inv \in Invocations, StartLive(inv) PROVE MemoryType'
  <2>1. inv \in Invocation /\ (inv.since # None => inv.mode = "live-only")
    BY OplogAssumption
  <2>. QED BY <1>4, <2>1 DEF StartLive
<1>5. ASSUME NEW inv \in Invocations, StartRetry(inv) PROVE MemoryType'
  <2>1. inv \in Invocation /\ (inv.since # None => inv.mode = "live-only")
    BY OplogAssumption
  <2>2. retry' \in RetryMemory
    BY <1>0, <1>5 DEF StartRetry, BeginRetry, Unstarted, FilesType
  <2>. QED BY <1>5, <2>1, <2>2 DEF StartRetry, BeginRetry, RetrySteps
<1>6. CASE Crash \/ Return \/ SendPanics
  BY <1>3, <1>6 DEF Crash, Return, SendPanics, Exit, ReturnIdle
<1>7. CASE InsertBatch
  <2>1. PICK o : recorded' = recorded + Cardinality({r \in copy.batch : o[r.doc] = "recorded"})
    BY <1>7 DEF InsertBatch
  <2>2. Cardinality({r \in copy.batch : o[r.doc] = "recorded"}) \in Nat
    <3>1. {r \in copy.batch : o[r.doc] = "recorded"} \subseteq copy.batch
      OBVIOUS
    <3>. QED BY <3>1, FS_Subset, FS_CardinalityType DEF CopyType
  <2>. QED BY <1>7, <2>1, <2>2 DEF InsertBatch
<1>8. ASSUME NEW w \in Workers, Resolve(w) \/ ApplyFails(w) PROVE MemoryType'
  BY <1>8 DEF Resolve, ApplyFails, TailVars
<1>9. CASE Retry
  <2>1. UNCHANGED <<invocation, recorded>>
    BY <1>9 DEF Retry, liveVars
  <2>2. CASE SetAside
    BY <2>1, <2>2 DEF SetAside, RetrySteps
  <2>3. CASE CannotRetry \/ RefuseMixedPhases \/ StopReplay \/ RemoveTemp
    BY <1>3, <2>1, <2>3
       DEF CannotRetry, RefuseMixedPhases, StopReplay, RemoveTemp, RestoreOriginal, ReturnIdle
  <2>4. CASE Scan
    <3>1. PopulateActiveFailedIDs(temp) \in SUBSET Records
      BY ActiveRecords DEF FilesType
    <3>2. ExpectedPhase(temp) \in Phases \cup {NoPhase}
      <4>1. temp.records \in Seq(Records)
        BY DEF FilesType, Files
      <4>2. temp.records # <<>> => temp.records[1] \in Records
        BY <4>1, HeadAndTail
      <4>. QED BY <4>2 DEF ExpectedPhase, Records
    <3>3. retry' \in RetryMemory
      BY <2>4, <3>1, <3>2 DEF Scan
    <3>. QED BY <2>1, <2>4, <3>3 DEF Scan, RetrySteps
  <2>5. CASE PickRecord
    <3>1. PICK r \in retry.failures :
            retry' = [retry EXCEPT !.failures = @ \ {r}, !.current = {r}]
      BY <2>5 DEF PickRecord
    <3>2. retry' \in RetryMemory
      BY <3>1
    <3>. QED BY <2>1, <2>5, <3>2 DEF PickRecord
  <2>6. CASE ReplaySucceeds
    BY <2>1, <2>6 DEF ReplaySucceeds, Replayed
  <2>7. CASE ReplayFails \/ ReplayCancelled
    <3>1. retry' = [retry EXCEPT !.current = {}, !.failed = @ + 1] /\ pc' = pc
      BY <2>7 DEF ReplayFails, ReplayCancelled, CountFailure
    <3>2. retry.failed + 1 \in Nat
      OBVIOUS
    <3>3. retry' \in RetryMemory
      BY <3>1, <3>2
    <3>. QED BY <2>1, <3>1, <3>3
  <2>8. CASE SyncState
    BY <2>1, <2>8 DEF SyncState, RetrySteps
  <2>. QED BY <1>9, <2>2, <2>3, <2>4, <2>5, <2>6, <2>7, <2>8 DEF Retry, RetryStep
<1>10. Capture \/ CaptureFails \/ BeginCopy \/ EndCopy \/ SaveCopyStatus \/ OpenTail \/ Send
         \/ RenameStamp \/ WriteStamp \/ StopLoop \/ Drained
       => /\ UNCHANGED <<invocation, recorded, retry>>
          /\ pc' \in {"idle", "return", "open"} \cup CopySteps \cup TailSteps
  BY DEF Capture, CaptureFails, BeginCopy, EndCopy, SaveCopyStatus, OpenTail, Send, RenameStamp,
         WriteStamp, StopLoop, Drained, liveVars, CopyVars, TailVars, CopySteps, TailSteps
<1>11. Change \/ Cancel \/ OpenCursor \/ ReadDocument \/ EndOfCollection \/ CursorFails
         \/ Resume \/ Receive \/ CloseQueue \/ UNCHANGED vars
         \/ (\E w \in Workers : ApplyStores(w) \/ ApplyCancelled(w) \/ WorkerExits(w))
       => UNCHANGED <<pc, invocation, recorded, retry>>
  BY DEF Change, Cancel, OpenCursor, ReadDocument, EndOfCollection, CursorFails, Resume, Receive,
         CloseQueue, ApplyStores, ApplyCancelled, WorkerExits, CopyVars, TailVars, liveVars,
         vars, retryVars
<1>. QED BY <1>1, <1>2, <1>4, <1>5, <1>6, <1>7, <1>8, <1>9, <1>10, <1>11
         DEF Next, Start, LiveStep, WorkerStep

LEMMA CopyTypeKept ==
  ASSUME FilesType, MemoryType, CopyType, TailType, [Next]_vars
  PROVE  CopyType'
<1> USE DEF CopyType, CopyMemory
<1>1. Now \in Nat
  BY DEF FilesType, Now
<1>2. CASE UNCHANGED <<copy, oplog>>
  BY <1>2 DEF Now
<1>3. CASE Change
  <2>1. Now' = Now + 1
    BY <1>3, <1>1 DEF Change, Now, FilesType
  <2>. QED BY <1>1, <1>3, <2>1 DEF Change
<1>4. CASE Crash \/ Return \/ SendPanics
  <2>1. copy' = NoCopy /\ Now' = Now
    BY <1>4 DEF Crash, Return, SendPanics, Exit, Now
  <2>2. IsFiniteSet({}) /\ Cardinality({}) = 0
    BY FS_EmptySet
  <2>. QED BY <1>1, <2>1, <2>2, OplogAssumption DEF NoCopy
<1>5. CASE OpenCursor
  <2>1. PICK outcome \in {"open", "ended"} :
          copy' = [copy EXCEPT !.cursor = outcome, !.opened = Now]
    BY <1>5 DEF OpenCursor
  <2>2. Now' = Now
    BY <1>5 DEF OpenCursor, CopyVars, Now
  <2>3. copy.cursor = "opening"
    BY <1>5 DEF OpenCursor
  <2>4. copy' \in CopyMemory
    BY <1>1, <2>1
  <2>5. /\ copy'.opened = Now /\ copy'.batch = copy.batch /\ copy'.resumes = copy.resumes
    BY <2>1
  <2>. QED BY <1>1, <2>2, <2>3, <2>4, <2>5
<1>6. CASE ReadDocument
  <2>1. PICK p \in copy.opened .. Now : \E d \in Unread(p) :
          copy' = [copy EXCEPT !.last = d,
                               !.batch = @ \cup {[doc |-> d, version |-> VersionAt(d, p)]}]
    BY <1>6 DEF ReadDocument
  <2>2. PICK d \in Unread(p) :
          copy' = [copy EXCEPT !.last = d,
                               !.batch = @ \cup {[doc |-> d, version |-> VersionAt(d, p)]}]
    BY <2>1
  <2>3. d \in Docs /\ VersionAt(d, p) # None
    BY DEF Unread
  <2>4. p \in Versions /\ p <= Now
    BY <1>1, OplogAssumption DEF FilesType, Versions, Positions
  <2>5. VersionAt(d, p) \in Positions
    <3>1. VersionAt(d, p) = Version(oplog, d, p)
      BY DEF VersionAt, Version
    <3>. QED BY <2>3, <2>4, <3>1, VersionRange DEF FilesType, Now, Versions
  <2> DEFINE r == [doc |-> d, version |-> VersionAt(d, p)]
  <2>6. r \in [doc : Docs, version : Positions]
    BY <2>3, <2>5
  <2> HIDE DEF r
  <2>7. copy' = [copy EXCEPT !.last = d, !.batch = @ \cup {r}]
    BY <2>2 DEF r
  <2>8. IsFiniteSet(copy.batch \cup {r}) /\ Cardinality(copy.batch \cup {r}) <= BatchSize
    <3>1. Cardinality(copy.batch) < BatchSize /\ BatchSize \in Nat
      BY <1>6, OplogAssumption DEF ReadDocument, CursorNext
    <3>2. /\ IsFiniteSet(copy.batch \cup {r})
          /\ Cardinality(copy.batch \cup {r}) = IF r \in copy.batch THEN Cardinality(copy.batch)
                                                ELSE Cardinality(copy.batch) + 1
      BY FS_AddElement
    <3>3. Cardinality(copy.batch) \in Nat
      BY FS_CardinalityType
    <3>. QED BY <3>1, <3>2, <3>3
  <2>9. Now' = Now /\ d \in 0 .. NumDocs
    BY <1>6, <2>3, OplogAssumption DEF ReadDocument, CopyVars, Now, Docs
  <2>10. copy'.last = d /\ copy'.batch = copy.batch \cup {r}
         /\ copy'.cursor = copy.cursor /\ copy'.opened = copy.opened /\ copy'.resumes = copy.resumes
    BY <2>7
  <2>11. copy' \in CopyMemory
    BY <2>6, <2>7, <2>9
  <2>. QED BY <2>8, <2>9, <2>10, <2>11
<1>7. CASE EndOfCollection \/ Resume
  BY <1>7 DEF EndOfCollection, Resume, CursorNext, CopyVars, Now
<1>8. CASE CursorFails
  <2>1. Now' = Now /\ copy.cursor = "open"
    BY <1>8 DEF CursorFails, CursorNext, CopyVars, Now
  <2> DEFINE resumes == copy.resumes + 1
             resumed == ~cancelled /\ copy.last # 0 /\ resumes <= MaxResumes
  <2>2. copy' = [copy EXCEPT !.cursor = IF resumed THEN "flushing" ELSE "ended",
                             !.resumes = IF cancelled THEN @ ELSE resumes]
    BY <1>8 DEF CursorFails
  <2>3. MaxResumes \in Nat /\ resumes \in Nat /\ copy.resumes <= MaxResumes
    BY <2>1, OplogAssumption
  <2> HIDE DEF resumed
  <2>4. copy' \in CopyMemory
    BY <2>2, <2>3
  <2>5. /\ copy'.opened = copy.opened /\ copy'.batch = copy.batch
        /\ copy'.cursor = IF resumed THEN "flushing" ELSE "ended"
        /\ copy'.resumes = IF cancelled THEN copy.resumes ELSE copy.resumes + 1
    BY <2>2
  <2>6. resumed => ~cancelled /\ copy.resumes + 1 <= MaxResumes
    BY DEF resumed
  <2>7. copy'.resumes <= MaxResumes + 1 /\ (copy'.cursor # "ended" => copy'.resumes <= MaxResumes)
    BY <2>3, <2>5, <2>6
  <2>. QED BY <2>1, <2>4, <2>5, <2>7
<1>9. CASE InsertBatch
  <2>1. PICK o : copy' = [copy EXCEPT !.batch = {},
                            !.failed = @ + Cardinality(copy.batch \ {r \in copy.batch : o[r.doc] = "stored"})]
    BY <1>9 DEF InsertBatch
  <2> DEFINE F == copy.batch \ {r \in copy.batch : o[r.doc] = "stored"}
  <2>2. Cardinality(F) \in Nat
    <3>1. F \subseteq copy.batch
      OBVIOUS
    <3>. QED BY <3>1, FS_Subset, FS_CardinalityType
  <2>3. IsFiniteSet({}) /\ Cardinality({}) = 0
    BY FS_EmptySet
  <2> HIDE DEF F
  <2>4. copy' = [copy EXCEPT !.batch = {}, !.failed = copy.failed + Cardinality(F)]
    BY <2>1 DEF F
  <2>5. Now' = Now
    BY <1>9 DEF InsertBatch, Now
  <2>6. copy' \in CopyMemory
    <3>1. copy.failed + Cardinality(F) \in Nat
      BY <2>2
    <3>. QED BY <2>4, <3>1
  <2>7. /\ copy'.opened = copy.opened /\ copy'.batch = {} /\ copy'.cursor = copy.cursor
        /\ copy'.resumes = copy.resumes
    BY <2>4
  <2>. QED BY <2>3, <2>5, <2>6, <2>7, OplogAssumption
<1>10. (\E inv \in Invocations : StartLive(inv) \/ StartRetry(inv)) \/ Retry
         \/ Cancel \/ Capture \/ CaptureFails \/ BeginCopy \/ EndCopy \/ SaveCopyStatus
         \/ OpenTail \/ Receive \/ Send \/ RenameStamp \/ WriteStamp \/ StopLoop \/ Drained
         \/ CloseQueue \/ (\E w \in Workers : WorkerStep(w)) \/ UNCHANGED vars
       => UNCHANGED <<copy, oplog>>
  BY DEF StartLive, StartRetry, Retry, Cancel, Capture, CaptureFails, BeginCopy, EndCopy,
         SaveCopyStatus, OpenTail, Receive, Send, RenameStamp, WriteStamp, StopLoop, Drained,
         CloseQueue, WorkerStep, ApplyStores, Resolve, ApplyFails, ApplyCancelled, WorkerExits,
         CopyVars, TailVars, liveVars, vars
<1>. QED BY <1>2, <1>3, <1>4, <1>5, <1>6, <1>7, <1>8, <1>9, <1>10 DEF Next, Start, LiveStep

LEMMA TailTypeKept ==
  ASSUME FilesType, MemoryType, CopyType, TailType, StartInv, ReceivedInv, QueueInv, [Next]_vars
  PROVE  TailType'
<1> USE DEF TailType
<1>1. CASE UNCHANGED tail /\ (pc' = pc \/ pc' \in {"save", "write", "finalSave", "finalWrite",
                                                   "return"}
                              \/ pc \notin {"save", "write", "finalSave", "finalWrite", "return"})
  BY <1>1
<1>2. <<>> \in Seq(Changes) /\ Len(<<>>) = 0
  OBVIOUS
<1>3. {QueueSize, SaveThreshold} \subseteq Nat \ {0} /\ MaxChanges \in Nat
  BY OplogAssumption
<1>4. NoTail \in TailMemory
  BY <1>2, <1>3 DEF NoTail, TailMemory, Versions, Positions
<1>5. CASE Crash \/ Return \/ SendPanics
  <2>1. tail' = NoTail
    BY <1>5 DEF Crash, Return, SendPanics, Exit
  <2>2. /\ NoTail.unsaved = 0 /\ NoTail.sending = <<>>
        /\ \A w \in Workers : NoTail.queue[w] = <<>> /\ NoTail.resolving[w] = <<>>
    BY DEF NoTail
  <2>. QED BY <1>2, <1>3, <1>4, <2>1, <2>2
<1>6. CASE Capture
  <2>1. invocation.since \in Versions
    BY DEF MemoryType, Invocation
  <2>2. Now \in Positions
    BY OplogAssumption DEF FilesType, Now, Positions
  <2>3. StartTimestamp \in Versions
    BY <2>1, <2>2 DEF StartTimestamp, FilesType, Versions
  <2>4. tail' = [tail EXCEPT !.after = StartTimestamp]
    BY <1>6 DEF Capture
  <2>5. tail' \in TailMemory
    BY <2>3, <2>4 DEF TailMemory
  <2>6. /\ tail'.queue = tail.queue /\ tail'.resolving = tail.resolving
        /\ tail'.sending = tail.sending /\ tail'.unsaved = tail.unsaved
    BY <2>4 DEF TailMemory
  <2>7. pc = "capture"
    BY <1>6 DEF Capture
  <2>. QED BY <2>5, <2>6, <2>7
<1>7. CASE OpenTail
  <2> DEFINE known == [d \in Docs |->
               IF d \in Open(dlq)
               THEN (CHOOSE r \in PopulateActiveFailedIDs(dlq) : r.doc = d).phase
               ELSE NoPhase]
  <2>1. tail' = [tail EXCEPT !.known = known] /\ pc = "open"
    BY <1>7 DEF OpenTail
  <2>2. known \in [Docs -> Phases \cup {NoPhase}]
    <3>1. ASSUME NEW d \in Docs, d \in Open(dlq)
          PROVE  (CHOOSE r \in PopulateActiveFailedIDs(dlq) : r.doc = d).phase \in Phases
      <4>1. \E r \in PopulateActiveFailedIDs(dlq) : r.doc = d
        BY <3>1 DEF Open
      <4>2. PopulateActiveFailedIDs(dlq) \subseteq Records
        BY ActiveRecords DEF FilesType
      <4>. QED BY <4>1, <4>2 DEF Records
    <3>. QED BY <3>1
  <2> HIDE DEF known
  <2>3. tail' \in TailMemory
    BY <2>1, <2>2 DEF TailMemory
  <2>4. /\ tail'.queue = tail.queue /\ tail'.resolving = tail.resolving
        /\ tail'.sending = tail.sending /\ tail'.unsaved = tail.unsaved
    BY <2>1 DEF TailMemory
  <2>. QED BY <2>1, <2>3, <2>4
<1>8. CASE Receive
  <2>1. tail.after \in Versions /\ tail.latest \in Versions /\ tail.after # None
    BY <1>8 DEF Receive, ReceivedInv, TailSteps, TailMemory
  <2>2. NextChange \in Changes
    <3>1. Now <= MaxChanges /\ NextChange <= Now /\ Now \in Nat
      BY <1>8 DEF Receive, FilesType, Now
    <3>2. NextChange \in Nat \ {0}
      BY <2>1, <1>3 DEF NextChange, Versions, Positions, None
    <3>. QED BY <1>3, <3>1, <3>2 DEF Changes
  <2> DEFINE sending == IF invocation.dryRun THEN <<>> ELSE <<NextChange>>
  <2>3. tail' = [tail EXCEPT !.latest = NextChange, !.sending = sending] /\ pc' = pc
    BY <1>8 DEF Receive
  <2>4. sending \in Seq(Changes) /\ Len(sending) <= 1
    BY <2>2
  <2> HIDE DEF sending
  <2>5. tail' \in TailMemory
    <3>1. NextChange \in Versions
      BY <2>2, <1>3 DEF Changes, Versions, Positions
    <3>. QED BY <2>3, <2>4, <3>1 DEF TailMemory
  <2>6. /\ tail'.queue = tail.queue /\ tail'.resolving = tail.resolving
        /\ tail'.sending = sending /\ tail'.unsaved = tail.unsaved
    BY <2>3 DEF TailMemory
  <2>. QED BY <2>3, <2>4, <2>5, <2>6
<1>9. CASE Send
  <2> DEFINE n == Head(tail.sending)
             w == WorkerOf(oplog[n])
  <2>1. n \in Changes /\ w \in Workers
    <3>1. n \in Changes /\ n \in ToSet(tail.sending)
      BY <1>9, HeadAndTail DEF Send, TailMemory
    <3>2. n \in Pending(tail)
      BY <3>1, PendingIs
    <3>. QED BY <3>1, <3>2, PendingChanges, WorkerOfDocument
  <2>2. /\ Len(tail.queue[w]) < QueueSize
        /\ tail' = [tail EXCEPT !.sending = <<>>, !.queue[w] = Append(@, n), !.unsaved = @ + 1]
        /\ tail'.unsaved >= SaveThreshold => pc' = "save"
        /\ pc = "tail"
    BY <1>9 DEF Send
  <2> HIDE DEF n, w
  <2>3. tail.queue \in [Workers -> Seq(Changes)] /\ tail.unsaved \in Nat
    BY DEF TailMemory
  <2>4. [tail.queue EXCEPT ![w] = Append(@, n)] \in [Workers -> Seq(Changes)]
    BY <2>1, <2>3
  <2>5. \A v \in Workers : Len([tail.queue EXCEPT ![w] = Append(@, n)][v]) <= QueueSize
    BY <1>3, <2>1, <2>2, <2>3
  <2>6. tail' \in TailMemory
    <3>1. tail.unsaved + 1 \in Nat
      BY <2>3
    <3> DEFINE queue == [tail.queue EXCEPT ![w] = Append(@, n)]
               unsaved == tail.unsaved + 1
    <3>2. tail' = [tail EXCEPT !.sending = <<>>, !.queue = queue, !.unsaved = unsaved]
      BY <2>2 DEF TailMemory
    <3>3. queue \in [Workers -> Seq(Changes)] /\ unsaved \in Nat
      BY <2>4, <3>1
    <3> HIDE DEF queue, unsaved
    <3>. QED BY <3>2, <3>3, <1>2 DEF TailMemory
  <2>7. /\ tail'.queue = [tail.queue EXCEPT ![w] = Append(@, n)]
        /\ tail'.resolving = tail.resolving /\ tail'.sending = <<>>
        /\ tail'.unsaved = tail.unsaved + 1
    BY <2>2 DEF TailMemory
  <2>8. tail.unsaved < SaveThreshold
    BY <2>2
  <2>9. tail'.unsaved <= SaveThreshold /\ (tail'.unsaved < SaveThreshold \/ pc' = "save")
    BY <1>3, <2>2, <2>3, <2>7, <2>8
  <2>. QED BY <1>2, <2>5, <2>6, <2>7, <2>9
<1>10. CASE WriteStamp
  <2>1. tail' = [tail EXCEPT !.unsaved = 0]
    BY <1>10 DEF WriteStamp
  <2>2. tail' \in TailMemory
    BY <2>1 DEF TailMemory
  <2>3. /\ tail'.queue = tail.queue /\ tail'.resolving = tail.resolving
        /\ tail'.sending = tail.sending /\ tail'.unsaved = 0
    BY <2>1 DEF TailMemory
  <2>. QED BY <1>3, <2>2, <2>3
<1>11. CASE CloseQueue \/ \E w \in Workers : WorkerExits(w)
  <2>1. PICK w \in Workers : \/ tail' = [tail EXCEPT !.closed = @ \cup {w}]
                             \/ tail' = [tail EXCEPT !.exited = @ \cup {w}]
    BY <1>11 DEF CloseQueue, WorkerExits
  <2>2. pc' = pc
    BY <1>11 DEF CloseQueue, WorkerExits
  <2>3. tail' \in TailMemory
    BY <2>1 DEF TailMemory
  <2>4. /\ tail'.queue = tail.queue /\ tail'.resolving = tail.resolving
        /\ tail'.sending = tail.sending /\ tail'.unsaved = tail.unsaved
    BY <2>1 DEF TailMemory
  <2>. QED BY <2>2, <2>3, <2>4
<1>12. ASSUME NEW w \in Workers, ApplyStores(w) \/ ApplyFails(w) \/ ApplyCancelled(w) \/ Resolve(w)
       PROVE  TailType'
  <2> DEFINE q == Tail(tail.queue[w])
             n == Head(tail.queue[w])
  <2>1. /\ tail.queue \in [Workers -> Seq(Changes)]
        /\ tail.resolving \in [Workers -> Seq(Changes)]
        /\ tail.known \in [Docs -> Phases \cup {NoPhase}]
    BY DEF TailMemory
  <2>2. pc' = pc
    BY <1>12 DEF ApplyStores, ApplyFails, ApplyCancelled, Resolve
  <2>3. CASE ~Resolve(w)
    <3>1. tail.queue[w] # <<>>
      BY <1>12, <2>3 DEF ApplyStores, ApplyFails, ApplyCancelled, Applies
    <3>2. n \in Changes /\ q \in Seq(Changes) /\ Len(q) = Len(tail.queue[w]) - 1
          /\ Len(tail.queue[w]) \in Nat /\ oplog[n] \in Docs
      BY <2>1, <3>1, HeadAndTail, QueueHead
    <3>3. PICK known \in [Docs -> Phases \cup {NoPhase}], due \in {<<>>, <<n>>} :
            \/ tail' = [tail EXCEPT !.queue[w] = q, !.resolving[w] = due]
            \/ tail' = [tail EXCEPT !.queue[w] = q, !.known = known]
      <4>1. CASE ApplyStores(w)
        <5>1. tail' = [tail EXCEPT !.queue[w] = q,
                          !.resolving[w] = IF tail.known[oplog[n]] = NoPhase THEN <<>> ELSE <<n>>]
          BY <4>1 DEF ApplyStores
        <5>. QED BY <2>1, <5>1
      <4>2. CASE ApplyFails(w) \/ ApplyCancelled(w)
        <5>1. tail' = [tail EXCEPT !.queue[w] = q, !.known[oplog[n]] = "incremental"]
          BY <4>2 DEF ApplyFails, ApplyCancelled
        <5>2. [tail.known EXCEPT ![oplog[n]] = "incremental"] \in [Docs -> Phases \cup {NoPhase}]
          BY <2>1 DEF Phases
        <5>. QED BY <5>1, <5>2
      <4>. QED BY <1>12, <2>3, <4>1, <4>2
    <3> HIDE DEF q, n
    <3>4. due \in Seq(Changes) /\ Len(due) <= 1
      <4>1. <<n>> \in Seq(Changes) /\ Len(<<n>>) = 1
        BY <3>2
      <4>2. due = <<>> \/ due = <<n>>
        OBVIOUS
      <4>3. due \in Seq(Changes) /\ (Len(due) = 0 \/ Len(due) = 1)
        BY <1>2, <4>1, <4>2, Zenon
      <4>4. 0 <= 1 /\ 1 <= 1
        OBVIOUS
      <4>. QED BY <4>3, <4>4, Zenon
    <3>5. /\ [tail.queue EXCEPT ![w] = q] \in [Workers -> Seq(Changes)]
          /\ [tail.resolving EXCEPT ![w] = due] \in [Workers -> Seq(Changes)]
      BY <2>1, <3>2, <3>4
    <3>6. /\ \A v \in Workers : Len([tail.queue EXCEPT ![w] = q][v]) <= QueueSize
          /\ \A v \in Workers : Len([tail.resolving EXCEPT ![w] = due][v]) <= 1
      BY <1>3, <2>1, <3>2, <3>4
    <3>7. tail' \in TailMemory
      BY <3>3, <3>5 DEF TailMemory
    <3>8. /\ tail'.queue = [tail.queue EXCEPT ![w] = q]
          /\ tail'.resolving = tail.resolving
             \/ tail'.resolving = [tail.resolving EXCEPT ![w] = due]
          /\ tail'.sending = tail.sending /\ tail'.unsaved = tail.unsaved
      BY <3>3 DEF TailMemory
    <3>. QED BY <2>2, <3>6, <3>7, <3>8
  <2>4. CASE Resolve(w)
    <3> DEFINE d == oplog[Head(tail.resolving[w])]
    <3>1. tail' = [tail EXCEPT !.resolving[w] = <<>>, !.known[d] = NoPhase]
      BY <2>4 DEF Resolve
    <3> HIDE DEF d
    <3>2. [tail.known EXCEPT ![d] = NoPhase] \in [Docs -> Phases \cup {NoPhase}]
      BY <2>1
    <3>3. [tail.resolving EXCEPT ![w] = <<>>] \in [Workers -> Seq(Changes)]
      BY <2>1, <1>2
    <3>4. \A v \in Workers : Len([tail.resolving EXCEPT ![w] = <<>>][v]) <= 1
      BY <2>1, <1>2
    <3>5. tail' \in TailMemory
      BY <3>1, <3>2, <3>3 DEF TailMemory
    <3>6. /\ tail'.queue = tail.queue
          /\ tail'.resolving = [tail.resolving EXCEPT ![w] = <<>>]
          /\ tail'.sending = tail.sending /\ tail'.unsaved = tail.unsaved
      BY <3>1 DEF TailMemory
    <3>. QED BY <2>2, <3>4, <3>5, <3>6
  <2>. QED BY <2>3, <2>4
<1>13. Change \/ Start \/ Retry
         \/ Cancel \/ CaptureFails \/ BeginCopy \/ EndCopy \/ SaveCopyStatus \/ OpenCursor
         \/ ReadDocument \/ EndOfCollection \/ CursorFails \/ Resume \/ InsertBatch
         \/ RenameStamp \/ StopLoop \/ Drained \/ UNCHANGED vars
       => /\ UNCHANGED tail
          /\ \/ pc' = pc \/ pc' \in {"save", "write", "finalSave", "finalWrite", "return"}
             \/ pc \notin {"save", "write", "finalSave", "finalWrite", "return"}
  <2>1. Retry => UNCHANGED tail /\ pc \notin {"save", "write", "finalSave", "finalWrite", "return"}
    BY DEF Retry, liveVars, RetryStep, SetAside, CannotRetry, RefuseMixedPhases, Scan, PickRecord,
           StopReplay, ReplaySucceeds, ReplayFails, ReplayCancelled, SyncState, RemoveTemp
  <2>2. Start => UNCHANGED tail /\ pc = "idle"
    BY DEF Start, StartLive, StartRetry
  <2>. QED BY <2>1, <2>2 DEF Change, Cancel, CaptureFails, BeginCopy, EndCopy, SaveCopyStatus,
         OpenCursor, ReadDocument, EndOfCollection, CursorFails, Resume, InsertBatch,
         RenameStamp, StopLoop, Drained, CursorNext, CopyVars, TailVars, liveVars, vars, retryVars
<1>. QED BY <1>1, <1>5, <1>6, <1>7, <1>8, <1>9, <1>10, <1>11, <1>12, <1>13
         DEF Next, LiveStep, WorkerStep

-----------------------------------------------------------------------------
(* What a step may do to the memory of the loop. *)

LEMMA WorkerFields ==
  ASSUME TailType, NEW w \in Workers, WorkerStep(w)
  PROVE  /\ tail'.after = tail.after /\ tail'.latest = tail.latest
         /\ tail'.sending = tail.sending
         /\ pc' = pc /\ pc \in {"tail", "save", "write", "drain"}
         /\ UNCHANGED <<cancelled, status, temp, retry, oplog, invocation, copy, base, starts,
                        stamp, backup>>
<1>1. /\ \/ tail' = [tail EXCEPT !.queue[w] = Tail(@),
                        !.resolving[w] = IF tail.known[oplog[Head(tail.queue[w])]] = NoPhase
                                         THEN <<>> ELSE <<Head(tail.queue[w])>>]
         \/ tail' = [tail EXCEPT !.resolving[w] = <<>>,
                        !.known[oplog[Head(tail.resolving[w])]] = NoPhase]
         \/ tail' = [tail EXCEPT !.queue[w] = Tail(@),
                        !.known[oplog[Head(tail.queue[w])]] = "incremental"]
         \/ tail' = [tail EXCEPT !.exited = @ \cup {w}]
  BY DEF WorkerStep, ApplyStores, Resolve, ApplyFails, ApplyCancelled, WorkerExits
<1>2. /\ tail'.after = tail.after /\ tail'.latest = tail.latest
      /\ tail'.sending = tail.sending
  BY <1>1 DEF TailType, TailMemory
<1>3. /\ pc' = pc /\ pc \in {"tail", "save", "write", "drain"}
      /\ UNCHANGED <<cancelled, status, temp, retry, oplog, invocation, copy, base, starts,
                     stamp, backup>>
  BY DEF WorkerStep, ApplyStores, Resolve, ApplyFails, ApplyCancelled, WorkerExits, Applies,
         WorkerRuns, TailVars
<1>. QED BY <1>2, <1>3

LEMMA ExitFields ==
  ASSUME Crash \/ Return \/ SendPanics
  PROVE  /\ pc' = "idle" /\ tail' = NoTail /\ copy' = NoCopy /\ recorded' = 0
         /\ retry' = Unstarted /\ abandoned' = abandoned \cup Forgotten
         /\ UNCHANGED <<status, dlq, temp, target, oplog, stamp, backup, invocation, base, starts>>
BY DEF Crash, Return, SendPanics, Exit, ReturnIdle

(* The steps of the main loop and of the shutdown that hand over no change. *)
LEMMA LoopFields ==
  ASSUME TailType,
         OpenTail \/ RenameStamp \/ WriteStamp \/ StopLoop \/ Drained \/ CloseQueue
  PROVE  /\ tail'.after = tail.after /\ tail'.latest = tail.latest
         /\ tail'.sending = tail.sending /\ tail'.queue = tail.queue
         /\ tail'.resolving = tail.resolving
         /\ tail'.known = tail.known \/ OpenTail
         /\ pc \in {"open"} \cup TailSteps /\ pc' \in {"return"} \cup TailSteps
         /\ UNCHANGED <<status, temp, dlq, target, retry, oplog, invocation, copy, base, recorded>>
<1> USE DEF TailType, TailMemory, TailVars, TailSteps
<1>1. CASE OpenTail
  <2>1. PICK known : tail' = [tail EXCEPT !.known = known]
    BY <1>1 DEF OpenTail
  <2>. QED BY <1>1, <2>1 DEF OpenTail
<1>2. CASE WriteStamp
  BY <1>2 DEF WriteStamp
<1>3. CASE CloseQueue
  BY <1>3 DEF CloseQueue
<1>4. CASE RenameStamp \/ StopLoop \/ Drained
  BY <1>4 DEF RenameStamp, StopLoop, Drained
<1>. QED BY <1>1, <1>2, <1>3, <1>4

LEMMA ReceiveFields ==
  ASSUME TailType, ReceivedInv, Receive
  PROVE  /\ tail'.after = tail.after /\ tail'.latest = NextChange
         /\ tail'.sending = IF invocation.dryRun THEN <<>> ELSE <<NextChange>>
         /\ tail'.queue = tail.queue /\ tail'.resolving = tail.resolving
         /\ tail'.known = tail.known
         /\ pc = "tail" /\ pc' = pc /\ tail.sending = <<>>
         /\ NextChange = 1 + IF tail.latest = None THEN tail.after ELSE tail.latest
         /\ NextChange \in Nat /\ tail.after < NextChange /\ NextChange <= Now
         /\ tail.after # None /\ tail.after \in Nat
         /\ tail.latest # None => tail.latest \in Nat /\ tail.after < tail.latest
         /\ UNCHANGED <<status, temp, dlq, target, retry, oplog, invocation, copy, base, recorded,
                        abandoned, stamp, backup>>
<1>1. /\ tail' = [tail EXCEPT !.latest = NextChange,
                     !.sending = IF invocation.dryRun THEN <<>> ELSE <<NextChange>>]
      /\ pc = "tail" /\ pc' = pc /\ tail.sending = <<>> /\ NextChange <= Now
      /\ UNCHANGED <<status, temp, dlq, target, retry, oplog, invocation, copy, base, recorded,
                     abandoned, stamp, backup>>
  BY DEF Receive, TailVars
<1>2. /\ tail'.after = tail.after /\ tail'.latest = NextChange
      /\ tail'.sending = IF invocation.dryRun THEN <<>> ELSE <<NextChange>>
      /\ tail'.queue = tail.queue /\ tail'.resolving = tail.resolving
      /\ tail'.known = tail.known
  BY <1>1 DEF TailType, TailMemory
<1>3. /\ tail.after # None /\ tail.after \in Versions /\ tail.latest \in Versions
      /\ tail.latest # None => tail.after < tail.latest
  BY <1>1 DEF ReceivedInv, TailSteps, TailType, TailMemory
<1>4. /\ NextChange \in Nat /\ tail.after < NextChange /\ tail.after \in Nat
      /\ tail.latest # None => tail.latest \in Nat
      /\ NextChange = 1 + IF tail.latest = None THEN tail.after ELSE tail.latest
  BY <1>3, OplogAssumption DEF NextChange, Versions, Positions, None
<1>. QED BY <1>1, <1>2, <1>3, <1>4

LEMMA SendFields ==
  ASSUME FilesType, TailType, ReceivedInv, QueueInv, Send
  PROVE  \E n \in Changes : \E w \in Workers :
           /\ ToSet(tail.sending) = {n} /\ w = WorkerOf(oplog[n]) /\ n = tail.latest
           /\ tail'.sending = <<>>
           /\ tail'.queue = [tail.queue EXCEPT ![w] = Append(@, n)]
           /\ tail'.after = tail.after /\ tail'.latest = tail.latest
           /\ tail'.resolving = tail.resolving /\ tail'.known = tail.known
           /\ pc = "tail" /\ pc' \in {"save", "tail"}
           /\ UNCHANGED <<status, temp, dlq, target, retry, oplog, invocation, copy, base,
                          recorded, abandoned, stamp, backup>>
<1> DEFINE n == Head(tail.sending)
           w == WorkerOf(oplog[n])
<1>1. tail.sending \in Seq(Changes) /\ tail.sending # <<>> /\ Len(tail.sending) <= 1
  BY DEF Send, TailType, TailMemory
<1>2. n \in Changes
  BY <1>1, HeadAndTail
<1>4. ToSet(tail.sending) = {n}
  BY <1>1, SingleElement
<1>5. n \in Pending(tail)
  BY <1>4, PendingIs
<1>6. w \in Workers
  BY <1>5, PendingChanges, WorkerOfDocument
<1>7. n = tail.latest
  BY <1>4 DEF QueueInv
<1>8. /\ tail' = [tail EXCEPT !.sending = <<>>, !.queue[w] = Append(@, n), !.unsaved = @ + 1]
      /\ pc = "tail" /\ pc' \in {"save", "tail"}
      /\ UNCHANGED <<status, temp, dlq, target, retry, oplog, invocation, copy, base,
                     recorded, abandoned, stamp, backup>>
  BY DEF Send, TailVars
<1> HIDE DEF n, w
<1>9. /\ tail'.sending = <<>>
      /\ tail'.queue = [tail.queue EXCEPT ![w] = Append(@, n)]
      /\ tail'.after = tail.after /\ tail'.latest = tail.latest
      /\ tail'.resolving = tail.resolving /\ tail'.known = tail.known
  BY <1>8 DEF TailType, TailMemory
<1>10. w = WorkerOf(oplog[n])
  BY DEF w
<1>. QED BY <1>2, <1>4, <1>6, <1>7, <1>8, <1>9, <1>10

(* A worker takes a change from its queue: what becomes of it. *)
DealsWith(w, n, d) ==
  /\ n = Head(tail.queue[w]) /\ d = oplog[n] /\ tail.queue[w] # <<>>
  /\ tail.resolving[w] = <<>>
  /\ ToSet(tail.queue[w]) = {n} \cup ToSet(Tail(tail.queue[w]))
  /\ tail'.queue = [tail.queue EXCEPT ![w] = Tail(@)]
  /\ \/ /\ ApplyStores(w)
        /\ tail'.resolving = [tail.resolving EXCEPT
             ![w] = IF tail.known[d] = NoPhase THEN <<>> ELSE <<n>>]
        /\ tail'.known = tail.known
        /\ target' = [target EXCEPT ![d] = n]
        /\ abandoned' = IF tail.known[d] = NoPhase THEN abandoned \ {d} ELSE abandoned
        /\ dlq' = dlq
     \/ /\ tail'.resolving = tail.resolving
        /\ tail'.known = [tail.known EXCEPT ![d] = "incremental"]
        /\ target' = target
        /\ \/ ApplyFails(w) /\ dlq' = WriteFailed(dlq, d, n, "incremental")
              /\ abandoned' = abandoned
           \/ ApplyCancelled(w) /\ dlq' = dlq /\ abandoned' = abandoned \cup {d}

LEMMA ApplyFields ==
  ASSUME FilesType, TailType, ReceivedInv, QueueInv, NEW w \in Workers,
         ApplyStores(w) \/ ApplyFails(w) \/ ApplyCancelled(w)
  PROVE  \E n \in Changes, d \in Docs : DealsWith(w, n, d)
<1> DEFINE n == Head(tail.queue[w])
           d == oplog[n]
<1>1. tail.queue[w] # <<>> /\ tail.resolving[w] = <<>>
  BY DEF ApplyStores, ApplyFails, ApplyCancelled, Applies
<1>2. n \in Changes /\ d \in Docs /\ ToSet(tail.queue[w]) = {n} \cup ToSet(Tail(tail.queue[w]))
  BY <1>1, QueueHead
<1>3. \/ /\ ApplyStores(w)
         /\ tail' = [tail EXCEPT !.queue[w] = Tail(@),
                       !.resolving[w] = IF tail.known[d] = NoPhase THEN <<>> ELSE <<n>>]
         /\ target' = [target EXCEPT ![d] = n]
         /\ abandoned' = IF tail.known[d] = NoPhase THEN abandoned \ {d} ELSE abandoned
         /\ dlq' = dlq
      \/ /\ tail' = [tail EXCEPT !.queue[w] = Tail(@), !.known[d] = "incremental"]
         /\ target' = target
         /\ \/ ApplyFails(w) /\ dlq' = WriteFailed(dlq, d, n, "incremental")
               /\ abandoned' = abandoned
            \/ ApplyCancelled(w) /\ dlq' = dlq /\ abandoned' = abandoned \cup {d}
  BY DEF ApplyStores, ApplyFails, ApplyCancelled
<1>4. n = Head(tail.queue[w]) /\ d = oplog[n]
  OBVIOUS
<1> HIDE DEF n, d
<1>5. tail'.queue = [tail.queue EXCEPT ![w] = Tail(@)]
  BY <1>3 DEF TailType, TailMemory
<1>6. CASE ApplyStores(w) /\ tail' = [tail EXCEPT !.queue[w] = Tail(@),
                       !.resolving[w] = IF tail.known[d] = NoPhase THEN <<>> ELSE <<n>>]
           /\ target' = [target EXCEPT ![d] = n]
           /\ abandoned' = (IF tail.known[d] = NoPhase THEN abandoned \ {d} ELSE abandoned)
           /\ dlq' = dlq
  <2>1. /\ tail'.resolving = [tail.resolving EXCEPT
                      ![w] = IF tail.known[d] = NoPhase THEN <<>> ELSE <<n>>]
        /\ tail'.known = tail.known
    BY <1>6 DEF TailType, TailMemory
  <2>. QED BY <1>1, <1>2, <1>4, <1>5, <1>6, <2>1 DEF DealsWith
<1>7. CASE /\ tail' = [tail EXCEPT !.queue[w] = Tail(@), !.known[d] = "incremental"]
           /\ target' = target
           /\ \/ ApplyFails(w) /\ dlq' = WriteFailed(dlq, d, n, "incremental")
                 /\ abandoned' = abandoned
              \/ ApplyCancelled(w) /\ dlq' = dlq /\ abandoned' = abandoned \cup {d}
  <2>1. /\ tail'.resolving = tail.resolving
        /\ tail'.known = [tail.known EXCEPT ![d] = "incremental"]
    BY <1>7 DEF TailType, TailMemory
  <2>. QED BY <1>1, <1>2, <1>4, <1>5, <1>7, <2>1 DEF DealsWith
<1>. QED BY <1>3, <1>6, <1>7

LEMMA ResolveFields ==
  ASSUME FilesType, TailType, ReceivedInv, QueueInv, NEW w \in Workers, Resolve(w)
  PROVE  \E n \in Changes : \E d \in Docs :
           /\ d = oplog[n] /\ ToSet(tail.resolving[w]) = {n}
           /\ tail'.queue = tail.queue
           /\ tail'.resolving = [tail.resolving EXCEPT ![w] = <<>>]
           /\ tail'.known = [tail.known EXCEPT ![d] = NoPhase]
           /\ target' = target
           /\ abandoned' = abandoned \ {d}
           /\ tail.known[d] \in Phases
           /\ dlq' = WriteResolved(dlq, d, n, tail.known[d])
<1> DEFINE n == Head(tail.resolving[w])
           d == oplog[n]
<1>1. tail.resolving[w] \in Seq(Changes) /\ tail.resolving[w] # <<>>
      /\ Len(tail.resolving[w]) <= 1
  BY DEF Resolve, TailType, TailMemory
<1>2. n \in Changes /\ d \in Docs
  BY <1>1, QueueHead
<1>4. /\ tail' = [tail EXCEPT !.resolving[w] = <<>>, !.known[d] = NoPhase]
      /\ target' = target
      /\ abandoned' = abandoned \ {d}
      /\ dlq' = WriteResolved(dlq, d, n, tail.known[d])
  BY DEF Resolve
<1>5. ToSet(tail.resolving[w]) = {n}
  BY <1>1, SingleElement
<1>6. tail.known[d] \in Phases
  <2>1. tail.known[d] # NoPhase
    BY <1>5 DEF QueueInv
  <2>. QED BY <1>2, <2>1 DEF TailType, TailMemory
<1>7. d = oplog[n]
  OBVIOUS
<1> HIDE DEF n, d
<1>8. /\ tail'.queue = tail.queue
      /\ tail'.resolving = [tail.resolving EXCEPT ![w] = <<>>]
      /\ tail'.known = [tail.known EXCEPT ![d] = NoPhase]
  BY <1>4 DEF TailType, TailMemory
<1>. QED BY <1>2, <1>4, <1>5, <1>6, <1>7, <1>8

-----------------------------------------------------------------------------
(* Every step keeps what is said of the process. *)

LEMMA RetryFields ==
  ASSUME MemoryType, Retry
  PROVE  /\ pc \in RetrySteps /\ pc' \in {"idle"} \cup RetrySteps
         /\ pc' = "setAside" => pc = "setAside"
         /\ pc' \in {"setAside", "scan"} => UNCHANGED retry
         /\ pc' \notin {"replay", "remove"} /\ pc \in {"replay", "remove"} => retry'.current = {}
         /\ pc' = "idle" => retry' = Unstarted
         /\ UNCHANGED <<liveVars, starts>>
<1> USE DEF RetrySteps
<1>1. Unstarted.current = {}
  BY DEF Unstarted
<1>2. UNCHANGED <<liveVars, starts>>
  BY DEF Retry
<1>3. CASE SetAside \/ Scan \/ PickRecord \/ SyncState \/ ReplaySucceeds \/ ReplayFails
           \/ ReplayCancelled
  BY <1>2, <1>3 DEF SetAside, Scan, PickRecord, SyncState, ReplaySucceeds, ReplayFails,
                    ReplayCancelled, Replayed
<1>4. CASE CannotRetry \/ RefuseMixedPhases \/ StopReplay \/ RemoveTemp
  BY <1>1, <1>2, <1>4 DEF CannotRetry, RefuseMixedPhases, StopReplay, RemoveTemp,
                          RestoreOriginal, ReturnIdle
<1>. QED BY <1>3, <1>4 DEF Retry, RetryStep

LEMMA MemoryInvKept ==
  ASSUME FilesType, MemoryType, CopyType, TailType, MemoryInv, ReceivedInv, QueueInv, [Next]_vars
  PROVE  MemoryInv'
<1> USE DEF RetrySteps
<1>1. CASE UNCHANGED <<pc, tail, copy, recorded, retry, invocation>>
  BY <1>1 DEF MemoryInv, Still, EmptyQueues
<1>2. CASE Crash \/ Return \/ SendPanics
  <2>1. /\ pc' = "idle" /\ tail' = NoTail /\ copy' = NoCopy /\ recorded' = 0
        /\ retry' = Unstarted
    BY <1>2, ExitFields
  <2>. QED BY <2>1 DEF MemoryInv, Still, EmptyQueues, NoTail, Unstarted
<1>3. CASE Start
  <2>1. /\ pc = "idle" /\ pc' \in {"idle", "capture", "setAside"}
        /\ UNCHANGED <<tail, copy, recorded>>
        /\ retry' = retry \/ retry' = [Unstarted EXCEPT !.status = status]
    BY <1>3 DEF Start, StartLive, StartRetry, BeginRetry
  <2>2. retry'.current = {} /\ (pc' = "setAside" => retry'.failed = 0)
    BY <1>3, <2>1 DEF MemoryInv, Unstarted, Start, StartLive, StartRetry, BeginRetry
  <2>3. tail = NoTail /\ copy = NoCopy /\ recorded = 0
    BY <2>1 DEF MemoryInv
  <2>. QED BY <2>1, <2>2, <2>3 DEF MemoryInv, Still, EmptyQueues, NoTail
<1>4. CASE Retry
  <2>1. /\ pc \in RetrySteps /\ pc' \in {"idle"} \cup RetrySteps
        /\ UNCHANGED <<tail, copy, recorded, invocation>>
    BY <1>4, RetryFields DEF liveVars
  <2>2. pc' \notin {"replay", "remove"} => retry'.current = {}
    BY <1>4, <2>1, RetryFields DEF MemoryInv, Unstarted
  <2>3. pc' \in {"setAside", "scan"} => retry'.failed = 0
    <3>1. pc' \in {"setAside", "scan"} => pc \in {"setAside", "scan"} /\ retry' = retry
      BY <1>4 DEF Retry, RetryStep, SetAside, Scan, PickRecord, SyncState, ReplaySucceeds,
                  ReplayFails, ReplayCancelled, Replayed, CannotRetry, RefuseMixedPhases,
                  StopReplay, RemoveTemp, RestoreOriginal, ReturnIdle
    <3>. QED BY <3>1 DEF MemoryInv
  <2>. QED BY <2>1, <2>2, <2>3 DEF MemoryInv, Still, EmptyQueues
<1>5. CASE Capture
  <2>1. /\ tail'.latest = tail.latest /\ tail'.sending = tail.sending
        /\ tail'.queue = tail.queue /\ tail'.resolving = tail.resolving
        /\ pc' \in {"begin", "return", "open"} /\ UNCHANGED <<copy, recorded, retry, invocation>>
        /\ pc = "capture"
    BY <1>5 DEF Capture, TailType, TailMemory
  <2>. QED BY <2>1 DEF MemoryInv, Still, EmptyQueues
<1>6. CASE CaptureFails \/ BeginCopy \/ EndCopy \/ SaveCopyStatus
  <2>1. /\ UNCHANGED <<tail, copy, recorded, retry, invocation>>
        /\ pc' \in {"copy", "copied", "return", "open"}
        /\ pc \in {"capture", "begin", "copy", "copied"}
    BY <1>6 DEF CaptureFails, BeginCopy, EndCopy, SaveCopyStatus, liveVars, CopyVars
  <2>. QED BY <2>1 DEF MemoryInv, Still, EmptyQueues
<1>7. CASE OpenCursor \/ ReadDocument \/ EndOfCollection \/ CursorFails \/ Resume \/ InsertBatch
  <2>1. pc' = pc /\ pc = "copy" /\ UNCHANGED <<tail, retry, invocation>>
    BY <1>7 DEF OpenCursor, ReadDocument, EndOfCollection, CursorFails, Resume, InsertBatch,
                CursorNext, CopyVars
  <2>. QED BY <2>1 DEF MemoryInv, Still, EmptyQueues
<1>8. CASE OpenTail \/ RenameStamp \/ WriteStamp \/ StopLoop \/ Drained \/ CloseQueue
  <2>1. /\ tail'.latest = tail.latest /\ tail'.sending = tail.sending
        /\ tail'.queue = tail.queue /\ tail'.resolving = tail.resolving
        /\ pc \in {"open"} \cup TailSteps /\ pc' \in {"return"} \cup TailSteps
        /\ UNCHANGED <<retry, invocation>>
    BY <1>8, LoopFields
  <2>. QED BY <2>1 DEF MemoryInv, Still, EmptyQueues, TailSteps
<1>9. CASE Receive
  <2>1. tail'.latest # None
    BY <1>9, ReceiveFields DEF None
  <2>2. /\ tail'.sending = IF invocation.dryRun THEN <<>> ELSE <<NextChange>>
        /\ tail'.queue = tail.queue /\ tail'.resolving = tail.resolving
        /\ pc = "tail" /\ pc' = pc
        /\ UNCHANGED <<retry, invocation, copy, recorded>>
    BY <1>9, ReceiveFields
  <2>. QED BY <2>1, <2>2 DEF MemoryInv, Still, EmptyQueues
<1>10. CASE Send
  <2>1. /\ tail.sending # <<>> /\ tail'.latest = tail.latest
        /\ pc = "tail" /\ pc' \in {"save", "tail"} /\ UNCHANGED <<retry, invocation>>
    BY <1>10, SendFields DEF Send
  <2>. QED BY <2>1 DEF MemoryInv, Still, EmptyQueues
<1>11. ASSUME NEW w \in Workers, WorkerStep(w) PROVE MemoryInv'
  <2>1. /\ pc' = pc /\ pc \in {"tail", "save", "write", "drain"}
        /\ tail'.latest = tail.latest /\ UNCHANGED <<retry, invocation>>
    BY <1>11, WorkerFields
  <2>2. CASE ApplyStores(w) \/ ApplyFails(w) \/ ApplyCancelled(w) \/ Resolve(w)
    <3>1. tail.queue[w] # <<>> \/ tail.resolving[w] # <<>>
      BY <2>2 DEF ApplyStores, ApplyFails, ApplyCancelled, Applies, Resolve
    <3>. QED BY <2>1, <3>1 DEF MemoryInv, Still, EmptyQueues
  <2>3. CASE WorkerExits(w)
    <3>1. /\ tail'.sending = tail.sending
          /\ tail'.queue = tail.queue /\ tail'.resolving = tail.resolving
      BY <2>3 DEF WorkerExits, TailType, TailMemory
    <3>. QED BY <2>1, <3>1 DEF MemoryInv, Still, EmptyQueues
  <2>. QED BY <1>11, <2>2, <2>3 DEF WorkerStep
<1>12. Change \/ Cancel \/ UNCHANGED vars
       => UNCHANGED <<pc, tail, copy, recorded, retry, invocation>>
  BY DEF Change, Cancel, liveVars, vars, retryVars
<1>. QED BY <1>1, <1>2, <1>3, <1>4, <1>5, <1>6, <1>7, <1>8, <1>9, <1>10, <1>11, <1>12
         DEF Next, LiveStep

LEMMA TempInvKept ==
  ASSUME RetryFirst, FilesType, MemoryType, CopyType, TailType, TempInv, [Next]_vars
  PROVE  TempInv'
<1>1. CASE UNCHANGED <<temp, pc, dlq>>
  BY <1>1 DEF TempInv
<1>2. CASE UNCHANGED temp /\ pc \notin {"idle", "scan", "replay", "remove"}
           /\ pc' \notin {"setAside", "scan", "replay", "remove"}
  BY <1>2 DEF TempInv
<1>3. CASE Crash \/ Return \/ SendPanics
  BY <1>3, ExitFields DEF TempInv
<1>4. ASSUME NEW inv \in Invocations, StartLive(inv), pc = "idle" PROVE TempInv'
  BY <1>4 DEF StartLive, TempInv
<1>5. ASSUME NEW inv \in Invocations, StartRetry(inv), pc = "idle" PROVE TempInv'
  <2>1. /\ dlq' = restoreLeftoverTempDLQ /\ temp' = NoFile
        /\ pc' = IF restoreLeftoverTempDLQ.exists THEN "setAside" ELSE "idle"
    BY <1>5 DEF StartRetry, BeginRetry
  <2>. QED BY <2>1 DEF TempInv, NoFile
<1>6. CASE Retry
  <2>1. CASE SetAside
    BY <2>1 DEF SetAside, TempInv, NoFile
  <2>2. CASE CannotRetry \/ RefuseMixedPhases \/ StopReplay
    BY <2>2 DEF CannotRetry, RefuseMixedPhases, StopReplay, RestoreOriginal, ReturnIdle,
                TempInv, NoFile
  <2>3. CASE Scan \/ SyncState
    BY <2>3 DEF Scan, SyncState, TempInv
  <2>4. CASE PickRecord \/ ReplaySucceeds \/ ReplayFails \/ ReplayCancelled
    <3>1. pc' = pc /\ pc = "replay" /\ UNCHANGED temp
      BY <2>4 DEF PickRecord, ReplaySucceeds, ReplayFails, ReplayCancelled, Replayed
    <3>. QED BY <3>1 DEF TempInv
  <2>5. CASE RemoveTemp
    BY <2>5 DEF RemoveTemp, ReturnIdle, TempInv, NoFile
  <2>. QED BY <1>6, <2>1, <2>2, <2>3, <2>4, <2>5 DEF Retry, RetryStep
<1>7. Change \/ Cancel \/ UNCHANGED vars => UNCHANGED <<temp, pc, dlq>>
  BY DEF Change, Cancel, liveVars, vars, retryVars
<1>8. Capture \/ CaptureFails \/ BeginCopy \/ EndCopy \/ SaveCopyStatus \/ OpenCursor
        \/ ReadDocument \/ EndOfCollection \/ CursorFails \/ Resume \/ InsertBatch
      => UNCHANGED temp /\ pc \notin {"idle", "scan", "replay", "remove"}
           /\ pc' \notin {"setAside", "scan", "replay", "remove"}
  BY DEF Capture, CaptureFails, BeginCopy, EndCopy, SaveCopyStatus, OpenCursor, ReadDocument,
         EndOfCollection, CursorFails, Resume, InsertBatch, CursorNext, CopyVars
<1>9. OpenTail \/ RenameStamp \/ WriteStamp \/ StopLoop \/ Drained \/ CloseQueue \/ Receive
        \/ Send \/ (\E w \in Workers : WorkerStep(w))
      => UNCHANGED temp /\ pc \notin {"idle", "scan", "replay", "remove"}
           /\ pc' \notin {"setAside", "scan", "replay", "remove"}
  BY WorkerFields DEF OpenTail, RenameStamp, WriteStamp, StopLoop, Drained, CloseQueue, Receive,
         Send, TailVars
<1>. QED BY <1>1, <1>2, <1>3, <1>4, <1>5, <1>6, <1>7, <1>8, <1>9 DEF Next, Start, LiveStep

LEMMA StartInvKept ==
  ASSUME FilesType, MemoryType, CopyType, TailType, MemoryInv, StartInv, ReceivedInv, QueueInv,
         [Next]_vars
  PROVE  StartInv'
<1> USE DEF RetrySteps, CopySteps, TailSteps
<1>1. CASE pc' \in {"idle", "return"} \cup RetrySteps
  BY <1>1 DEF StartInv
<1>2. CASE UNCHANGED <<pc, status, dlq, stamp, base, tail, invocation>> /\ Now <= Now'
  <2>1. pc = "capture" => invocation.since <= Now'
    <3>1. Now \in Int /\ Now' \in Int /\ invocation.since \in Int
      BY <1>2, FilesTypeKept, OplogAssumption
         DEF FilesType, Now, MemoryType, Invocation, Versions, Positions, None
    <3>. QED BY <1>2, <3>1 DEF StartInv
  <2>. QED BY <1>2, <2>1 DEF StartInv
<1>3. ASSUME NEW inv \in Invocations, StartLive(inv), pc = "idle" PROVE StartInv'
  <2>1. /\ inv.mode # "retry-dlq" /\ inv.since <= Now /\ DLQSafetyCheck(inv)
        /\ dlq' = DLQOpened(inv) /\ invocation' = inv
        /\ pc' = IF FilesAgree(inv) THEN "capture" ELSE "idle"
        /\ status' = IF FilesAgree(inv) /\ inv.mode = "live-only" /\ ~IsCompleted(status)
                     THEN "skipped" ELSE status
        /\ UNCHANGED <<stamp, oplog>>
    BY <1>3 DEF StartLive
  <2>2. CASE ~FilesAgree(inv)
    BY <1>1, <2>1, <2>2
  <2>3. CASE FilesAgree(inv)
    <3>1. pc' = "capture" /\ status' # "completed_with_failures"
      BY <2>1, <2>3 DEF DLQSafetyCheck
    <3>2. inv.mode = "live-only" => IsCompleted(status')
      BY <2>1, <2>3 DEF IsCompleted
    <3>3. inv.since # None => stamp' = None
      BY <2>1, <2>3 DEF FilesAgree
    <3>4. ~IsCompleted(status') => dlq'.records = <<>>
      <4>1. SUFFICES ASSUME ~IsCompleted(status) PROVE dlq'.records = <<>>
        BY <2>1 DEF IsCompleted
      <4>2. CASE inv.legacy
        <5>1. dlq.records = <<>> /\ dlq' = Opened(dlq)
          BY <2>1, <4>1, <4>2 DEF DLQSafetyCheck, HasActiveFailedRecords, DLQOpened
        <5>. QED BY <5>1, OpenedFile DEF FilesType
      <4>3. CASE ~inv.legacy
        <5>1. dlq' = Opened(BackupAndClearDLQ(dlq))
          BY <2>1, <4>1, <4>3 DEF DLQOpened
        <5>2. BackupAndClearDLQ(dlq).records = <<>> /\ BackupAndClearDLQ(dlq) \in Files
          BY EmptyFiles DEF BackupAndClearDLQ, HasActiveFailedRecords, NoFile, FilesType
        <5>. QED BY <5>1, <5>2, OpenedFile
      <4>. QED BY <4>2, <4>3
    <3>. QED BY <2>1, <3>1, <3>2, <3>3, <3>4 DEF StartInv, Now
  <2>. QED BY <2>2, <2>3
<1>4. ASSUME NEW inv \in Invocations, StartRetry(inv) PROVE StartInv'
  BY <1>1, <1>4 DEF StartRetry, BeginRetry
<1>5. CASE Capture
  <2>1. /\ pc = "capture" /\ UNCHANGED <<status, dlq, invocation>>
        /\ stamp' = IF KeepsStamp THEN stamp ELSE StartTimestamp
        /\ tail' = [tail EXCEPT !.after = StartTimestamp]
        /\ NeedsCopy => base' = None
        /\ pc' = IF NeedsCopy THEN "begin" ELSE IF invocation.indexOnly THEN "return" ELSE "open"
    BY <1>5 DEF Capture
  <2>2. tail = NoTail /\ status # "completed_with_failures"
    BY <2>1 DEF MemoryInv, StartInv
  <2>3. CASE NeedsCopy
    <3>1. ~IsCompleted(status) /\ invocation.mode = "live" /\ invocation.since = None
      BY <2>3 DEF NeedsCopy, MemoryType
    <3>2. stamp' = StartTimestamp /\ StartTimestamp # None
      <4>1. Now # None
        BY DEF Now, FilesType, None
      <4>. QED BY <2>1, <3>1, <4>1 DEF KeepsStamp, StartTimestamp
    <3>3. dlq'.records = <<>>
      BY <2>1, <3>1 DEF StartInv
    <3>. QED BY <2>1, <2>2, <2>3, <3>1, <3>2, <3>3 DEF StartInv
  <2>4. CASE ~NeedsCopy
    <3>1. IsCompleted(status)
      BY <2>1, <2>4 DEF NeedsCopy, StartInv, MemoryType, Invocation
    <3>. QED BY <2>1, <2>2, <2>4, <3>1 DEF StartInv
  <2>. QED BY <2>3, <2>4
<1>6. CASE BeginCopy
  <2>1. /\ pc = "begin" /\ pc' \in {"copy", "copied", "return"}
        /\ UNCHANGED <<tail, stamp, base>>
        /\ status' = status \/ status' = "inprogress"
    BY <1>6 DEF BeginCopy, liveVars
  <2>. QED BY <2>1 DEF StartInv, IsCompleted
<1>7. CASE OpenCursor \/ ReadDocument \/ EndOfCollection \/ CursorFails \/ Resume \/ InsertBatch
           \/ EndCopy
  <2>1. pc = "copy" /\ pc' \in {"copy", "copied"} /\ UNCHANGED <<tail, stamp, base, status>>
    BY <1>7 DEF OpenCursor, ReadDocument, EndOfCollection, CursorFails, Resume, InsertBatch,
                EndCopy, CursorNext, CopyVars
  <2>. QED BY <2>1 DEF StartInv
<1>8. CASE SaveCopyStatus
  <2>1. /\ UNCHANGED <<invocation>>
        /\ status' = IF WritesState THEN CopyStatus ELSE status
        /\ pc' \in {"return", "open"}
        /\ pc' = "open" => CopyStatus = "completed"
    BY <1>8 DEF SaveCopyStatus, liveVars, CopyStatus
  <2>2. ~IsCompleted(status)
    BY <1>8 DEF SaveCopyStatus, StartInv
  <2>. QED BY <2>1, <2>2 DEF StartInv, IsCompleted, WritesState
<1>9. CASE OpenTail \/ RenameStamp \/ WriteStamp \/ StopLoop \/ Drained \/ CloseQueue
           \/ Receive \/ Send \/ \E w \in Workers : WorkerStep(w)
  <2>1. /\ pc \in {"open"} \cup TailSteps /\ pc' \in {"return"} \cup TailSteps
        /\ UNCHANGED <<status, invocation>>
    BY <1>9, LoopFields, WorkerFields, SendFields, ReceiveFields
  <2>. QED BY <2>1 DEF StartInv
<1>10. Crash \/ Return \/ SendPanics \/ CaptureFails \/ Retry
       => pc' \in {"idle", "return"} \cup RetrySteps
  BY ExitFields, RetryFields DEF CaptureFails
<1>11. Cancel \/ UNCHANGED vars
       => UNCHANGED <<pc, status, dlq, stamp, base, tail, invocation>> /\ Now <= Now'
  BY DEF Cancel, liveVars, vars, retryVars, FilesType, Now
<1>12. Change
       => UNCHANGED <<pc, status, dlq, stamp, base, tail, invocation>> /\ Now <= Now'
  BY DEF Change, retryVars, FilesType, Now
<1>. QED BY <1>1, <1>2, <1>3, <1>4, <1>5, <1>6, <1>7, <1>8, <1>9, <1>10, <1>11, <1>12
         DEF Next, Start, LiveStep

LEMMA ReceivedInvKept ==
  ASSUME FilesType, MemoryType, CopyType, TailType, MemoryInv, StartInv, ReceivedInv, QueueInv,
         [Next]_vars
  PROVE  ReceivedInv'
<1> USE DEF RetrySteps, CopySteps, TailSteps
<1>0. /\ Now \in Nat /\ stamp \in Int /\ backup \in Int /\ base \in Int
      /\ tail.after \in Int /\ tail.latest \in Int /\ tail.after >= -1 /\ tail.latest >= -1
      /\ ResumePoint \in Int
  <2>1. tail.after \in Versions /\ tail.latest \in Versions
    BY DEF TailType, TailMemory
  <2>. QED BY <2>1, OplogAssumption
           DEF FilesType, Now, ResumePoint, Versions, Positions, None
<1>1. CASE UNCHANGED <<pc, tail, stamp, backup, base, oplog>>
  BY <1>1 DEF ReceivedInv, Now, ResumePoint
<1>2. CASE /\ tail' = NoTail
           /\ pc' \in {"idle"} \cup RetrySteps \/ pc' = "capture"
           /\ UNCHANGED oplog
  <2>1. NoTail.after = None /\ NoTail.latest = None /\ NoTail.sending = <<>>
    BY DEF NoTail
  <2>. QED BY <1>0, <1>2, <2>1 DEF ReceivedInv, Now, None
<1>3. CASE Change
  <2>1. Now' = Now + 1 /\ UNCHANGED <<pc, tail, stamp, backup, base>>
    BY <1>3, <1>0 DEF Change, Now, FilesType, retryVars
  <2>2. tail.after <= Now /\ tail.latest <= Now
    BY DEF ReceivedInv
  <2>3. tail.after <= Now' /\ tail.latest <= Now'
    BY <1>0, <2>1, <2>2
  <2>. QED BY <2>1, <2>3 DEF ReceivedInv, ResumePoint
<1>4. CASE Start
  <2>1. pc = "idle" /\ UNCHANGED <<tail, oplog>> /\ pc' \in {"idle", "capture", "setAside"}
    BY <1>4 DEF Start, StartLive, StartRetry, BeginRetry
  <2>2. tail = NoTail
    BY <2>1 DEF MemoryInv
  <2>. QED BY <1>2, <2>1, <2>2
<1>5. CASE Capture
  <2>1. /\ pc = "capture" /\ UNCHANGED <<oplog, backup>>
        /\ stamp' = IF KeepsStamp THEN stamp ELSE StartTimestamp
        /\ tail' = [tail EXCEPT !.after = StartTimestamp]
        /\ ~NeedsCopy /\ KeepsStamp => base' = Max({base, StartTimestamp})
        /\ pc' = IF NeedsCopy THEN "begin" ELSE IF invocation.indexOnly THEN "return" ELSE "open"
    BY <1>5 DEF Capture
  <2>2. tail = NoTail
    BY <2>1 DEF MemoryInv
  <2>3. tail'.after = StartTimestamp /\ tail'.latest = None /\ tail'.sending = <<>>
    BY <2>1, <2>2 DEF NoTail
  <2>4. StartTimestamp # None /\ StartTimestamp \in Int /\ StartTimestamp <= Now
    <3>1. invocation.since \in Int /\ invocation.since <= Now
      BY <2>1, OplogAssumption
         DEF StartInv, MemoryType, Invocation, Versions, Positions, None
    <3>2. stamp <= Now
      BY DEF FilesType
    <3>. QED BY <1>0, <3>1, <3>2 DEF StartTimestamp, None
  <2>5. CASE ~KeepsStamp
    <3>1. ResumePoint' = StartTimestamp
      BY <2>1, <2>4, <2>5 DEF ResumePoint
    <3>. QED BY <1>0, <2>1, <2>3, <2>4, <3>1 DEF ReceivedInv, Now, None
  <2>6. CASE KeepsStamp
    <3>1. ~NeedsCopy
      BY <2>6 DEF KeepsStamp, NeedsCopy, MemoryType
    <3>2. base' >= StartTimestamp
      BY <1>0, <2>1, <2>4, <2>6, <3>1, MaxOfTwo
    <3>3. StartTimestamp <= base'
      <4>1. base' \in Int
        BY <1>0, <2>1, <2>4, <2>6, <3>1, MaxOfTwo
      <4>. QED BY <2>4, <3>2, <4>1
    <3>. QED BY <1>0, <2>1, <2>3, <2>4, <3>1, <3>3 DEF ReceivedInv, Now, None
  <2>. QED BY <2>5, <2>6
<1>6. CASE CaptureFails \/ BeginCopy \/ OpenCursor \/ ReadDocument \/ EndOfCollection
           \/ CursorFails \/ Resume \/ InsertBatch \/ EndCopy \/ SaveCopyStatus
  <2>1. /\ UNCHANGED <<tail, stamp, backup, base, oplog>>
        /\ pc \in {"capture"} \cup CopySteps /\ pc' \in {"return", "open"} \cup CopySteps
        /\ pc' = "open" => pc = "copied"
    BY <1>6 DEF CaptureFails, BeginCopy, OpenCursor, ReadDocument, EndOfCollection, CursorFails,
                Resume, InsertBatch, EndCopy, SaveCopyStatus, CursorNext, CopyVars, liveVars
  <2>2. tail.latest = None /\ tail.sending = <<>>
        /\ (pc = "copied" => tail.after = stamp /\ stamp # None)
    BY <2>1 DEF StartInv, MemoryInv, NoTail
  <2>3. tail.after <= Now
    BY DEF ReceivedInv
  <2>. QED BY <1>0, <2>1, <2>2, <2>3 DEF ReceivedInv, Now, None, ResumePoint
<1>7. CASE OpenTail \/ StopLoop \/ Drained \/ CloseQueue
  <2>1. /\ tail'.after = tail.after /\ tail'.latest = tail.latest
        /\ tail'.sending = tail.sending
        /\ UNCHANGED <<oplog, base>>
    BY <1>7, LoopFields
  <2>2. /\ UNCHANGED <<stamp, backup>>
        /\ \/ pc = "open" /\ pc' = "tail"
           \/ pc = "tail" /\ pc' = "drain" /\ tail.sending = <<>>
           \/ pc = "drain" /\ pc' = (IF tail.latest # None THEN "finalSave" ELSE "return")
           \/ pc' = pc
    BY <1>7 DEF OpenTail, StopLoop, Drained, CloseQueue
  <2>. QED BY <2>1, <2>2 DEF ReceivedInv, Now, ResumePoint
<1>8. CASE RenameStamp
  <2>1. /\ tail'.after = tail.after /\ tail'.latest = tail.latest
        /\ tail'.sending = tail.sending
        /\ UNCHANGED <<oplog, base>>
    BY <1>8, LoopFields
  <2>2. ResumePoint' = ResumePoint
    BY <1>8 DEF RenameStamp, ResumePoint
  <2>3. pc \in {"save", "finalSave"} /\ pc' \in {"write", "finalWrite"}
    BY <1>8 DEF RenameStamp
  <2>. QED BY <2>1, <2>2, <2>3 DEF ReceivedInv, Now
<1>9. CASE WriteStamp
  <2>1. /\ tail'.after = tail.after /\ tail'.latest = tail.latest
        /\ tail'.sending = tail.sending
        /\ UNCHANGED <<oplog, base>>
    BY <1>9, LoopFields
  <2>2. /\ stamp' = tail.latest /\ pc \in {"write", "finalWrite"} /\ pc' \in {"tail", "return"}
    BY <1>9 DEF WriteStamp
  <2>3. tail.latest # None /\ tail.after < tail.latest
    BY <2>2 DEF ReceivedInv
  <2>4. ResumePoint' = tail.latest
    BY <2>2, <2>3 DEF ResumePoint
  <2>5. tail.after <= ResumePoint'
    BY <1>0, <2>3, <2>4
  <2>. QED BY <2>1, <2>2, <2>3, <2>5 DEF ReceivedInv, Now
<1>10. CASE Receive
  <2>1. /\ tail'.after = tail.after /\ tail'.latest = NextChange /\ NextChange <= Now
        /\ tail.after < NextChange /\ pc = "tail" /\ pc' = pc
        /\ NextChange \in Nat /\ UNCHANGED <<oplog, base, stamp, backup>>
    BY <1>10, ReceiveFields
  <2>. QED BY <2>1 DEF ReceivedInv, Now, ResumePoint
<1>11. CASE Send
  <2>1. /\ tail'.after = tail.after /\ tail'.latest = tail.latest /\ tail'.sending = <<>>
        /\ pc = "tail" /\ pc' \in {"save", "tail"} /\ UNCHANGED <<oplog, base, stamp, backup>>
    BY <1>11, SendFields
  <2>2. tail.latest # None
    <3>1. PICK n \in Changes : n = tail.latest
      BY <1>11, SendFields
    <3>. QED BY <3>1 DEF Changes, None
  <2>. QED BY <2>1, <2>2 DEF ReceivedInv, Now, ResumePoint
<1>12. ASSUME NEW w \in Workers, WorkerStep(w) PROVE ReceivedInv'
  BY <1>12, WorkerFields DEF ReceivedInv, Now, ResumePoint
<1>13. CASE Retry
  <2>1. pc \in RetrySteps /\ pc' \in {"idle"} \cup RetrySteps /\ UNCHANGED <<tail, oplog>>
    BY <1>13, RetryFields DEF liveVars
  <2>. QED BY <1>2, <2>1 DEF MemoryInv
<1>14. CASE Crash \/ Return \/ SendPanics
  BY <1>2, <1>14, ExitFields
<1>15. Cancel \/ UNCHANGED vars => UNCHANGED <<pc, tail, stamp, backup, base, oplog>>
  BY DEF Cancel, liveVars, vars, retryVars
<1>. QED BY <1>1, <1>3, <1>4, <1>5, <1>6, <1>7, <1>8, <1>9, <1>10, <1>11, <1>12, <1>13, <1>14,
            <1>15 DEF Next, LiveStep

-----------------------------------------------------------------------------
(* Every step keeps the order of the changes that are pending. *)

LEMMA IncreasingTail ==
  ASSUME NEW s \in Seq(Changes), s # <<>>, Increasing(s)
  PROVE  Increasing(Tail(s)) /\ \A m \in ToSet(Tail(s)) : Head(s) < m
<1>1. /\ Tail(s) \in Seq(Changes) /\ Head(s) = s[1]
      /\ \A i \in DOMAIN Tail(s) : i + 1 \in DOMAIN s /\ Tail(s)[i] = s[i + 1]
  BY HeadAndTail
<1>2. DOMAIN s = 1 .. Len(s) /\ Len(s) \in Nat /\ 1 \in DOMAIN s
  BY EmptySeq
<1>3. DOMAIN Tail(s) \subseteq Nat \ {0}
  BY <1>1
<1> DEFINE t == Tail(s)
<1>4. Increasing(t)
  <2> HIDE DEF t
  <2>1. \A i, j \in DOMAIN t : i < j => i + 1 < j + 1
    BY <1>3 DEF t
  <2>. QED BY <1>1, <2>1 DEF Increasing, t
<1>5. \A i \in DOMAIN t : s[1] < t[i]
  <2> HIDE DEF t
  <2>1. \A i \in DOMAIN t : 1 < i + 1
    BY <1>3 DEF t
  <2>. QED BY <1>1, <1>2, <2>1 DEF Increasing, t
<1>. QED BY <1>1, <1>4, <1>5 DEF ToSet

LEMMA IncreasingAppend ==
  ASSUME NEW s \in Seq(Changes), NEW e \in Changes, Increasing(s), \A m \in ToSet(s) : m < e
  PROVE  Increasing(Append(s, e))
<1> DEFINE t == Append(s, e)
<1>1. /\ DOMAIN t = 1 .. Len(s) + 1 /\ DOMAIN s = 1 .. Len(s) /\ Len(s) \in Nat
      /\ \A i \in 1 .. Len(s) : t[i] = s[i]
      /\ t[Len(s) + 1] = e
  <2>1. t \in Seq(Changes) /\ Len(t) = Len(s) + 1
        /\ (\A i \in 1 .. Len(s) : t[i] = s[i]) /\ t[Len(s) + 1] = e
    BY AppendProperties
  <2> HIDE DEF t
  <2>. QED BY <2>1
<1> HIDE DEF t
<1>2. \A i \in 1 .. Len(s) : t[i] < e
  BY <1>1 DEF ToSet
<1>3. ASSUME NEW i \in DOMAIN t, NEW j \in DOMAIN t, i < j PROVE t[i] < t[j]
  <2>1. CASE j = Len(s) + 1
    <3>1. i \in 1 .. Len(s)
      BY <1>1, <1>3, <2>1
    <3>. QED BY <1>1, <1>2, <2>1, <3>1
  <2>2. CASE j # Len(s) + 1
    <3>1. i \in 1 .. Len(s) /\ j \in 1 .. Len(s)
      BY <1>1, <1>3, <2>2
    <3>. QED BY <1>1, <1>3, <3>1 DEF Increasing
  <2>. QED BY <2>1, <2>2
<1>. QED BY <1>3 DEF Increasing, t

LEMMA EmptySequence == ToSet(<<>>) = {} /\ Increasing(<<>>)
BY DEF ToSet, Increasing

(* The change a worker deals with is the first of its document. *)
LEMMA FirstOfQueue ==
  ASSUME FilesType, TailType, ReceivedInv, QueueInv, NEW w \in Workers,
         tail.queue[w] # <<>>, tail.resolving[w] = <<>>, NEW n, n = Head(tail.queue[w])
  PROVE  /\ n \in Pending(tail) /\ n \in Changes /\ WorkerOf(oplog[n]) = w
         /\ Tail(tail.queue[w]) \in Seq(Changes) /\ Increasing(Tail(tail.queue[w]))
         /\ ToSet(tail.queue[w]) = {n} \cup ToSet(Tail(tail.queue[w]))
         /\ \A m \in ToSet(Tail(tail.queue[w])) : n < m
         /\ \A m \in Pending(tail) : m # n /\ oplog[m] = oplog[n] => n < m
         /\ \A v \in Workers \ {w} : n \notin QueueOf(tail, v)
         /\ n \notin ToSet(tail.sending)
<1>1. /\ n \in Pending(tail) /\ n \in Changes
      /\ Tail(tail.queue[w]) \in Seq(Changes)
      /\ ToSet(tail.queue[w]) = {n} \cup ToSet(Tail(tail.queue[w]))
  BY QueueHead
<1>2. /\ Increasing(Tail(tail.queue[w]))
      /\ \A m \in ToSet(Tail(tail.queue[w])) : n < m
  BY IncreasingTail DEF QueueInv, TailType, TailMemory
<1>3. n \in QueueOf(tail, w)
  BY <1>1 DEF QueueOf
<1>4. WorkerOf(oplog[n]) = w /\ (tail.sending # <<>> => n < tail.latest)
  BY <1>3 DEF QueueInv
<1>5. \A v \in Workers \ {w} : n \notin QueueOf(tail, v)
  BY <1>4 DEF QueueInv
<1>6. \A m \in ToSet(tail.sending) : n < m
  <2>1. ToSet(tail.sending) # {} => tail.sending # <<>>
    BY EmptySequence
  <2>. QED BY <1>4, <2>1 DEF QueueInv
<1>7. ASSUME NEW m \in Pending(tail), m # n, oplog[m] = oplog[n] PROVE n < m
  <2>1. CASE m \in ToSet(tail.sending)
    BY <1>6, <2>1
  <2>2. ASSUME NEW v \in Workers, m \in QueueOf(tail, v) PROVE n < m
    <3>1. v = w
      BY <1>4, <1>7, <2>2 DEF QueueInv
    <3>2. m \in ToSet(tail.queue[w])
      BY <2>2, <3>1, EmptySequence DEF QueueOf
    <3>. QED BY <1>1, <1>2, <1>7, <3>2
  <2>. QED BY <2>1, <2>2, PendingIs
<1>8. n \notin ToSet(tail.sending)
  BY <1>1, <1>6, OplogAssumption DEF Changes
<1>. QED BY <1>1, <1>2, <1>4, <1>5, <1>7, <1>8

LEMMA FirstResolving ==
  ASSUME FilesType, TailType, ReceivedInv, QueueInv, NEW w \in Workers, NEW n \in Changes,
         ToSet(tail.resolving[w]) = {n}
  PROVE  /\ n \in Pending(tail) /\ WorkerOf(oplog[n]) = w
         /\ target[oplog[n]] = n
         /\ \A m \in Pending(tail) : m # n /\ oplog[m] = oplog[n] => n < m
         /\ \A v \in Workers \ {w} : n \notin QueueOf(tail, v)
         /\ n \notin ToSet(tail.sending) /\ n \notin ToSet(tail.queue[w])
<1>1. n \in QueueOf(tail, w)
  BY DEF QueueOf
<1>2. WorkerOf(oplog[n]) = w /\ (tail.sending # <<>> => n < tail.latest)
  BY <1>1 DEF QueueInv
<1>3. \A m \in ToSet(tail.queue[w]) : n < m
  BY DEF QueueInv
<1>4. target[oplog[n]] = n
  BY DEF QueueInv
<1>5. \A v \in Workers \ {w} : n \notin QueueOf(tail, v)
  BY <1>2 DEF QueueInv
<1>6. \A m \in ToSet(tail.sending) : n < m
  <2>1. ToSet(tail.sending) # {} => tail.sending # <<>>
    BY EmptySequence
  <2>. QED BY <1>2, <2>1 DEF QueueInv
<1>7. ASSUME NEW m \in Pending(tail), m # n, oplog[m] = oplog[n] PROVE n < m
  <2>1. CASE m \in ToSet(tail.sending)
    BY <1>6, <2>1
  <2>2. ASSUME NEW v \in Workers, m \in QueueOf(tail, v) PROVE n < m
    <3>1. v = w
      BY <1>2, <1>7, <2>2 DEF QueueInv
    <3>2. m \in ToSet(tail.queue[w])
      BY <1>7, <2>2, <3>1 DEF QueueOf
    <3>. QED BY <1>3, <3>2
  <2>. QED BY <2>1, <2>2, PendingIs
<1>8. n \notin ToSet(tail.sending) /\ n \notin ToSet(tail.queue[w])
  BY <1>3, <1>6, OplogAssumption DEF Changes
<1>9. n \in Pending(tail)
  BY <1>1, PendingIs
<1>. QED BY <1>2, <1>4, <1>5, <1>7, <1>8, <1>9

(* What is pending after a step of a worker. *)
LEMMA PendingApplied ==
  ASSUME FilesType, TailType, ReceivedInv, QueueInv, NEW w \in Workers,
         tail.queue[w] # <<>>, tail.resolving[w] = <<>>, NEW n, n = Head(tail.queue[w]),
         tail'.queue = [tail.queue EXCEPT ![w] = Tail(@)],
         tail'.sending = tail.sending
  PROVE  /\ tail'.resolving = tail.resolving
              \/ tail'.resolving = [tail.resolving EXCEPT ![w] = <<>>]
            => Pending(tail)' = Pending(tail) \ {n}
         /\ tail'.resolving = [tail.resolving EXCEPT ![w] = <<n>>]
            => Pending(tail)' = Pending(tail)
<1>1. /\ tail.queue \in [Workers -> Seq(Changes)] /\ tail.resolving \in [Workers -> Seq(Changes)]
  BY DEF TailType, TailMemory
<1>2. /\ n \in Pending(tail)
      /\ ToSet(tail.queue[w]) = {n} \cup ToSet(Tail(tail.queue[w]))
      /\ n \notin ToSet(Tail(tail.queue[w]))
      /\ \A v \in Workers \ {w} : n \notin QueueOf(tail, v)
      /\ n \notin ToSet(tail.sending)
  <2>1. n \notin ToSet(Tail(tail.queue[w]))
    <3>1. n \in Changes /\ \A m \in ToSet(Tail(tail.queue[w])) : n < m
      BY FirstOfQueue
    <3>2. n \in Int
      BY <3>1, OplogAssumption DEF Changes
    <3>. QED BY <3>1, <3>2
  <2>. QED BY <2>1, FirstOfQueue
<1>3. \A v \in Workers : tail'.queue[v] = IF v = w THEN Tail(tail.queue[w]) ELSE tail.queue[v]
  BY <1>1
<1>4. ToSet(<<>>) = {} /\ ToSet(<<n>>) = {n}
  BY DEF ToSet
<1>5. ASSUME \/ tail'.resolving = tail.resolving
             \/ tail'.resolving = [tail.resolving EXCEPT ![w] = <<>>]
      PROVE  Pending(tail)' = Pending(tail) \ {n}
  <2>1. \A v \in Workers : tail'.resolving[v] = IF v = w THEN <<>> ELSE tail.resolving[v]
    BY <1>1, <1>5
  <2>2. \A v \in Workers : QueueOf(tail, v)' = QueueOf(tail, v) \ {n}
    BY <1>2, <1>3, <1>4, <2>1 DEF QueueOf
  <2>3. \A x : x \in Pending(tail') <=>
               x \in ToSet(tail'.sending) \/ \E v \in Workers : x \in QueueOf(tail', v)
    BY PendingIs
  <2>4. \A x : x \in Pending(tail) <=>
               x \in ToSet(tail.sending) \/ \E v \in Workers : x \in QueueOf(tail, v)
    BY PendingIs
  <2>5. \A x : x \in Pending(tail') <=> x \in Pending(tail) /\ x # n
    BY <1>2, <2>2, <2>3, <2>4
  <2>. QED BY <2>5
<1>6. ASSUME tail'.resolving = [tail.resolving EXCEPT ![w] = <<n>>]
      PROVE  Pending(tail)' = Pending(tail)
  <2>1. \A v \in Workers : tail'.resolving[v] = IF v = w THEN <<n>> ELSE tail.resolving[v]
    BY <1>1, <1>6
  <2>2. \A v \in Workers : QueueOf(tail, v)' = QueueOf(tail, v)
    BY <1>2, <1>3, <1>4, <2>1 DEF QueueOf
  <2>3. \A x : x \in Pending(tail') <=>
               x \in ToSet(tail'.sending) \/ \E v \in Workers : x \in QueueOf(tail', v)
    BY PendingIs
  <2>4. \A x : x \in Pending(tail) <=>
               x \in ToSet(tail.sending) \/ \E v \in Workers : x \in QueueOf(tail, v)
    BY PendingIs
  <2>5. \A x : x \in Pending(tail') <=> x \in Pending(tail)
    BY <1>2, <2>2, <2>3, <2>4
  <2>. QED BY <2>5
<1>. QED BY <1>5, <1>6

LEMMA PendingResolved ==
  ASSUME FilesType, TailType, ReceivedInv, QueueInv, NEW w \in Workers, NEW n \in Changes,
         ToSet(tail.resolving[w]) = {n}, tail'.queue = tail.queue,
         tail'.sending = tail.sending, tail'.resolving = [tail.resolving EXCEPT ![w] = <<>>]
  PROVE  Pending(tail)' = Pending(tail) \ {n}
<1>1. tail.resolving \in [Workers -> Seq(Changes)]
  BY DEF TailType, TailMemory
<1>2. /\ \A v \in Workers \ {w} : n \notin QueueOf(tail, v)
      /\ n \notin ToSet(tail.sending) /\ n \notin ToSet(tail.queue[w])
  BY FirstResolving
<1>3. \A v \in Workers : tail'.resolving[v] = IF v = w THEN <<>> ELSE tail.resolving[v]
  BY <1>1
<1>4. \A v \in Workers : QueueOf(tail, v)' = QueueOf(tail, v) \ {n}
  BY <1>2, <1>3, EmptySequence DEF QueueOf
<1>5. \A x : x \in Pending(tail') <=>
             x \in ToSet(tail'.sending) \/ \E v \in Workers : x \in QueueOf(tail', v)
  BY PendingIs
<1>6. \A x : x \in Pending(tail) <=>
             x \in ToSet(tail.sending) \/ \E v \in Workers : x \in QueueOf(tail, v)
  BY PendingIs
<1>7. \A x : x \in Pending(tail') <=> x \in Pending(tail) /\ x # n
  BY <1>2, <1>4, <1>5, <1>6
<1>. QED BY <1>7

LEMMA PendingSent ==
  ASSUME FilesType, TailType, ReceivedInv, QueueInv, Send
  PROVE  Pending(tail)' = Pending(tail)
<1>1. PICK n \in Changes, w \in Workers :
        /\ ToSet(tail.sending) = {n} /\ tail'.sending = <<>>
        /\ tail'.queue = [tail.queue EXCEPT ![w] = Append(@, n)]
        /\ tail'.resolving = tail.resolving
  BY SendFields
<1>2. tail.queue \in [Workers -> Seq(Changes)]
  BY DEF TailType, TailMemory
<1>3. \A v \in Workers : ToSet(tail'.queue[v]) = ToSet(tail.queue[v]) \cup (IF v = w THEN {n} ELSE {})
  <2>1. ToSet(Append(tail.queue[w], n)) = ToSet(tail.queue[w]) \cup {n}
    BY <1>2, AppendElements
  <2>. QED BY <1>1, <1>2, <2>1
<1>4. \A v \in Workers : QueueOf(tail, v)' = QueueOf(tail, v) \cup (IF v = w THEN {n} ELSE {})
  BY <1>1, <1>3 DEF QueueOf
<1>5. \A x : x \in Pending(tail') <=>
             x \in ToSet(tail'.sending) \/ \E v \in Workers : x \in QueueOf(tail', v)
  BY PendingIs
<1>6. \A x : x \in Pending(tail) <=>
             x \in ToSet(tail.sending) \/ \E v \in Workers : x \in QueueOf(tail, v)
  BY PendingIs
<1>7. \A x : x \in Pending(tail') <=> x \in Pending(tail)
  BY <1>1, <1>4, <1>5, <1>6, EmptySequence
<1>. QED BY <1>7

LEMMA PendingReceived ==
  ASSUME FilesType, TailType, ReceivedInv, QueueInv, Receive
  PROVE  Pending(tail)' = Pending(tail) \cup (IF invocation.dryRun THEN {} ELSE {NextChange})
<1>1. /\ tail'.sending = IF invocation.dryRun THEN <<>> ELSE <<NextChange>>
      /\ tail.sending = <<>>
      /\ tail'.queue = tail.queue /\ tail'.resolving = tail.resolving
  BY ReceiveFields
<1>2. ToSet(<<NextChange>>) = {NextChange} /\ ToSet(<<>>) = {}
  BY DEF ToSet
<1>3. ToSet(tail'.sending) = (IF invocation.dryRun THEN {} ELSE {NextChange})
      /\ ToSet(tail.sending) = {}
  BY <1>1, <1>2
<1>. QED BY <1>1, <1>3 DEF Pending

(* The steps that leave the changes where they are, or find none. *)
LEMMA QuietSteps ==
  ASSUME FilesType, MemoryType, CopyType, TailType, MemoryInv, StartInv, ReceivedInv, QueueInv,
         \/ Start \/ Crash \/ Cancel \/ CloseQueue \/ Retry \/ UNCHANGED vars
         \/ Capture \/ CaptureFails \/ BeginCopy \/ Return
         \/ OpenCursor \/ ReadDocument \/ EndOfCollection \/ CursorFails \/ Resume
         \/ InsertBatch \/ EndCopy \/ SaveCopyStatus
         \/ OpenTail \/ SendPanics \/ RenameStamp \/ WriteStamp \/ StopLoop \/ Drained
         \/ \E w \in Workers : WorkerExits(w)
  PROVE  \/ EmptyQueues'
         \/ /\ tail'.after = tail.after /\ tail'.latest = tail.latest
            /\ tail'.sending = tail.sending /\ tail'.queue = tail.queue
            /\ tail'.resolving = tail.resolving /\ tail'.known = tail.known
            /\ UNCHANGED <<oplog, target>>
<1> USE DEF RetrySteps, CopySteps
<1>1. CASE Crash \/ Return \/ SendPanics
  BY <1>1, ExitFields DEF EmptyQueues, NoTail
<1>2. CASE Cancel \/ UNCHANGED vars
  BY <1>2 DEF Cancel, liveVars, vars, retryVars
<1>3. CASE Start
  BY <1>3 DEF Start, StartLive, StartRetry, BeginRetry
<1>4. CASE Retry
  <2>1. pc \in RetrySteps /\ tail' = tail
    BY <1>4, RetryFields DEF liveVars
  <2>. QED BY <2>1 DEF MemoryInv, EmptyQueues, NoTail
<1>5. CASE Capture
  <2>1. tail' = [tail EXCEPT !.after = StartTimestamp] /\ tail = NoTail
    BY <1>5 DEF Capture, MemoryInv
  <2>. QED BY <2>1 DEF EmptyQueues, NoTail
<1>6. CASE InsertBatch
  <2>1. tail' = tail /\ tail = [NoTail EXCEPT !.after = stamp]
    BY <1>6 DEF InsertBatch, StartInv
  <2>. QED BY <2>1 DEF EmptyQueues, NoTail
<1>7. CASE CaptureFails \/ BeginCopy \/ OpenCursor \/ ReadDocument \/ EndOfCollection
           \/ CursorFails \/ Resume \/ EndCopy \/ SaveCopyStatus
  BY <1>7 DEF CaptureFails, BeginCopy, OpenCursor, ReadDocument, EndOfCollection, CursorFails,
              Resume, EndCopy, SaveCopyStatus, CursorNext, CopyVars, liveVars
<1>8. CASE OpenTail
  <2>1. EmptyQueues
    BY <1>8 DEF OpenTail, ReceivedInv, MemoryInv, Still
  <2>. QED BY <1>8, <2>1, LoopFields DEF EmptyQueues
<1>9. CASE RenameStamp \/ WriteStamp \/ StopLoop \/ Drained \/ CloseQueue
  <2>1. ~OpenTail
    BY <1>9 DEF OpenTail, RenameStamp, WriteStamp, StopLoop, Drained, CloseQueue
  <2>. QED BY <1>9, <2>1, LoopFields
<1>10. ASSUME NEW w \in Workers, WorkerExits(w)
       PROVE  /\ tail'.after = tail.after /\ tail'.latest = tail.latest
              /\ tail'.sending = tail.sending /\ tail'.queue = tail.queue
              /\ tail'.resolving = tail.resolving /\ tail'.known = tail.known
              /\ UNCHANGED <<oplog, target>>
  BY <1>10 DEF WorkerExits, TailVars, TailType, TailMemory
<1>. QED BY <1>1, <1>2, <1>3, <1>4, <1>5, <1>6, <1>7, <1>8, <1>9, <1>10

LEMMA QueueInvKept ==
  ASSUME FilesType, MemoryType, CopyType, TailType, MemoryInv, StartInv, ReceivedInv, QueueInv,
         [Next]_vars
  PROVE  QueueInv'
<1>1. CASE EmptyQueues'
  BY <1>1, EmptySequence DEF EmptyQueues, QueueInv, QueueOf
<1>2. CASE /\ tail'.after = tail.after /\ tail'.latest = tail.latest
           /\ tail'.sending = tail.sending /\ tail'.queue = tail.queue
           /\ tail'.resolving = tail.resolving /\ tail'.known = tail.known
           /\ UNCHANGED <<oplog, target>>
  BY <1>2 DEF QueueInv, QueueOf
<1>3. /\ tail.queue \in [Workers -> Seq(Changes)] /\ tail.resolving \in [Workers -> Seq(Changes)]
      /\ tail.known \in [Docs -> Phases \cup {NoPhase}] /\ target \in [Docs -> Versions]
  BY DEF TailType, TailMemory, FilesType
<1>4. CASE Change
  <2>1. UNCHANGED <<tail, target>>
    BY <1>4 DEF Change, retryVars
  <2>2. \A n \in Pending(tail) : oplog'[n] = oplog[n]
    <3>1. PICK d \in Docs : oplog' = Append(oplog, d)
      BY <1>4 DEF Change
    <3>2. \A i \in 1 .. Len(oplog) : oplog'[i] = oplog[i]
      BY <3>1, AppendProperties DEF FilesType
    <3>3. \A n \in Pending(tail) : n \in 1 .. Len(oplog)
      BY PendingChanges, OplogAssumption DEF Changes, Now
    <3>. QED BY <3>2, <3>3
  <2>3. \A w \in Workers : \A n \in QueueOf(tail, w) : oplog'[n] = oplog[n]
    BY <2>2, PendingIs
  <2>4. \A w \in Workers : \A n \in ToSet(tail.resolving[w]) : oplog'[n] = oplog[n]
    BY <2>3 DEF QueueOf
  <2>. QED BY <2>1, <2>3, <2>4 DEF QueueInv, QueueOf
<1>5. CASE Receive
  <2>1. /\ tail'.after = tail.after /\ tail'.latest = NextChange
        /\ tail'.sending = IF invocation.dryRun THEN <<>> ELSE <<NextChange>>
        /\ tail'.queue = tail.queue /\ tail'.resolving = tail.resolving
        /\ tail'.known = tail.known
        /\ UNCHANGED <<oplog, target>>
    BY <1>5, ReceiveFields
  <2>2. \A w \in Workers : \A n \in QueueOf(tail, w) : tail.after < n /\ n < NextChange
    <3>1. SUFFICES ASSUME NEW w \in Workers, NEW n \in QueueOf(tail, w)
                   PROVE  tail.after < n /\ n < NextChange
      OBVIOUS
    <3>2. tail.after < n /\ n <= tail.latest /\ n \in Changes
      BY PendingIs, PendingChanges DEF QueueInv
    <3>3. tail.after \in Nat /\ tail.latest \in Versions
      BY <1>5, ReceiveFields DEF TailType, TailMemory
    <3>4. n \in Int /\ n >= 1 /\ tail.latest \in Int
      BY <3>2, <3>3, OplogAssumption DEF Changes, Versions, Positions, None
    <3>5. tail.latest # None /\ NextChange = 1 + tail.latest
      BY <1>5, <3>2, <3>4, ReceiveFields DEF None
    <3>. QED BY <3>2, <3>3, <3>4, <3>5
  <2>3. \A w \in Workers : \A n \in QueueOf(tail, w) : n <= NextChange
    <3>1. \A w \in Workers : \A n \in QueueOf(tail, w) : n \in Int
      BY PendingIs, PendingChanges, OplogAssumption DEF Changes
    <3>2. NextChange \in Int
      BY <1>5, ReceiveFields
    <3>. QED BY <2>2, <3>1, <3>2
  <2>4. \A n \in ToSet(tail'.sending) : n = NextChange
    BY <2>1 DEF ToSet
  <2>5. \A w \in Workers : QueueOf(tail', w) = QueueOf(tail, w)
    BY <2>1 DEF QueueOf
  <2>. QED BY <2>1, <2>2, <2>3, <2>4, <2>5 DEF QueueInv
<1>6. CASE Send
  <2>1. PICK n \in Changes, w \in Workers :
          /\ ToSet(tail.sending) = {n} /\ w = WorkerOf(oplog[n]) /\ n = tail.latest
          /\ tail'.sending = <<>>
          /\ tail'.queue = [tail.queue EXCEPT ![w] = Append(@, n)]
          /\ tail'.after = tail.after /\ tail'.latest = tail.latest
          /\ tail'.resolving = tail.resolving /\ tail'.known = tail.known
          /\ UNCHANGED <<oplog, target>>
    BY <1>6, SendFields
  <2>2. tail.sending # <<>>
    BY <1>6 DEF Send
  <2>3. \A v \in Workers : \A m \in QueueOf(tail, v) : m < n
    BY <2>1, <2>2 DEF QueueInv
  <2>4. \A v \in Workers : tail'.queue[v] = IF v = w THEN Append(tail.queue[w], n) ELSE tail.queue[v]
    BY <1>3, <2>1
  <2>5. ToSet(Append(tail.queue[w], n)) = ToSet(tail.queue[w]) \cup {n}
    BY <1>3, AppendElements
  <2>6. Increasing(Append(tail.queue[w], n))
    <3>1. \A m \in ToSet(tail.queue[w]) : m < n
      BY <2>3 DEF QueueOf
    <3>2. Increasing(tail.queue[w]) /\ tail.queue[w] \in Seq(Changes)
      BY <1>3 DEF QueueInv
    <3>. QED BY <3>1, <3>2, IncreasingAppend
  <2>7. tail.after < n /\ n <= tail.latest
    <3>1. n \in Int
      BY <2>1, OplogAssumption DEF Changes
    <3>2. tail.latest # None
      BY <2>1 DEF Changes, None
    <3>. QED BY <2>1, <3>1, <3>2 DEF ReceivedInv
  <2>8. ASSUME NEW v \in Workers, NEW m \in QueueOf(tail', v)
        PROVE  tail.after < m /\ m <= tail.latest /\ WorkerOf(oplog[m]) = v
    <3>1. m \in QueueOf(tail, v) \/ (m = n /\ v = w)
      BY <2>1, <2>4, <2>5 DEF QueueOf
    <3>. QED BY <2>1, <2>7, <3>1 DEF QueueInv
  <2>9. \A v \in Workers : Increasing(tail'.queue[v])
    BY <2>4, <2>6 DEF QueueInv
  <2>10. ASSUME NEW v \in Workers, NEW r \in ToSet(tail.resolving[v]), NEW m \in ToSet(tail'.queue[v])
         PROVE  r < m
    <3>1. m \in ToSet(tail.queue[v]) \/ m = n
      BY <2>4, <2>5
    <3>2. r < n
      BY <2>3 DEF QueueOf
    <3>. QED BY <3>1, <3>2 DEF QueueInv
  <2>11. ToSet(tail'.sending) = {}
    BY <2>1, EmptySequence
  <2>. QED BY <2>1, <2>8, <2>9, <2>10, <2>11 DEF QueueInv
<1>7. ASSUME NEW w \in Workers, ApplyStores(w) \/ ApplyFails(w) \/ ApplyCancelled(w)
      PROVE  QueueInv'
  <2>0. PICK n \in Changes, d \in Docs : DealsWith(w, n, d)
    BY <1>7, ApplyFields
  <2>1. /\ n = Head(tail.queue[w]) /\ d = oplog[n] /\ tail.queue[w] # <<>>
        /\ tail.resolving[w] = <<>>
        /\ tail'.queue = [tail.queue EXCEPT ![w] = Tail(@)]
        /\ \/ /\ tail'.resolving = [tail.resolving EXCEPT
                   ![w] = IF tail.known[d] = NoPhase THEN <<>> ELSE <<n>>]
              /\ tail'.known = tail.known
              /\ target' = [target EXCEPT ![d] = n]
           \/ /\ tail'.resolving = tail.resolving
              /\ tail'.known = [tail.known EXCEPT ![d] = "incremental"]
              /\ target' = target
    BY <2>0 DEF DealsWith
  <2>2. /\ WorkerOf(d) = w
        /\ Increasing(Tail(tail.queue[w]))
        /\ ToSet(tail.queue[w]) = {n} \cup ToSet(Tail(tail.queue[w]))
        /\ \A m \in ToSet(Tail(tail.queue[w])) : n < m
    BY <2>1, FirstOfQueue
  <2>3. /\ tail'.after = tail.after /\ tail'.latest = tail.latest
        /\ tail'.sending = tail.sending /\ UNCHANGED oplog
    BY <1>7, WorkerFields DEF WorkerStep
  <2>4. \A v \in Workers : tail'.queue[v] = IF v = w THEN Tail(tail.queue[w]) ELSE tail.queue[v]
    BY <1>3, <2>1
  <2>5. \A v \in Workers :
          \/ tail'.resolving[v] = tail.resolving[v]
          \/ /\ v = w /\ ToSet(tail'.resolving[v]) \subseteq {n}
             /\ target' = [target EXCEPT ![d] = n] /\ tail'.known = tail.known
             /\ ToSet(tail'.resolving[v]) # {} => tail.known[d] # NoPhase
    <3>1. ToSet(<<n>>) = {n} /\ ToSet(<<>>) = {}
      BY DEF ToSet
    <3>. QED BY <1>3, <2>1, <3>1
  <2>6. \A v \in Workers : \A m \in QueueOf(tail', v) : m \in QueueOf(tail, v)
    BY <2>2, <2>4, <2>5 DEF QueueOf
  <2>7. \A v \in Workers : Increasing(tail'.queue[v])
    BY <2>2, <2>4 DEF QueueInv
  <2>8. ASSUME NEW v \in Workers, NEW r \in ToSet(tail'.resolving[v])
        PROVE  /\ \A m \in ToSet(tail'.queue[v]) : r < m
               /\ target'[oplog[r]] = r
               /\ tail'.known[oplog[r]] # NoPhase
    <3>1. CASE v # w
      <4>1. /\ tail'.resolving[v] = tail.resolving[v] /\ tail'.queue[v] = tail.queue[v]
        BY <2>4, <2>5, <3>1
      <4>2. r \in QueueOf(tail, v)
        BY <4>1 DEF QueueOf
      <4>3. WorkerOf(oplog[r]) = v /\ oplog[r] \in Docs
        BY <4>2, PendingIs, PendingChanges DEF QueueInv
      <4>4. oplog[r] # d
        BY <2>2, <3>1, <4>3
      <4>5. target'[oplog[r]] = target[oplog[r]] /\ tail'.known[oplog[r]] = tail.known[oplog[r]]
        BY <1>3, <2>1, <4>3, <4>4
      <4>. QED BY <4>1, <4>5 DEF QueueInv
    <3>2. CASE v = w
      <4>1. ToSet(tail.resolving[w]) = {}
        BY <2>1, EmptySequence
      <4>2. /\ r = n /\ target' = [target EXCEPT ![d] = n] /\ tail'.known = tail.known
            /\ tail.known[d] # NoPhase
        BY <2>5, <3>2, <4>1
      <4>3. tail'.queue[v] = Tail(tail.queue[w])
        BY <2>4, <3>2
      <4>4. target'[d] = n
        BY <1>3, <4>2
      <4>. QED BY <2>1, <2>2, <4>2, <4>3, <4>4
    <3>. QED BY <3>1, <3>2
  <2>. QED BY <2>3, <2>6, <2>7, <2>8 DEF QueueInv
<1>8. ASSUME NEW w \in Workers, Resolve(w) PROVE QueueInv'
  <2>1. PICK n \in Changes, d \in Docs :
           /\ d = oplog[n] /\ ToSet(tail.resolving[w]) = {n}
           /\ tail'.queue = tail.queue
           /\ tail'.resolving = [tail.resolving EXCEPT ![w] = <<>>]
           /\ tail'.known = [tail.known EXCEPT ![d] = NoPhase]
           /\ target' = target
    BY <1>8, ResolveFields
  <2>2. WorkerOf(d) = w
    BY <2>1, FirstResolving
  <2>3. /\ tail'.after = tail.after /\ tail'.latest = tail.latest
        /\ tail'.sending = tail.sending /\ UNCHANGED oplog
    BY <1>8, WorkerFields DEF WorkerStep
  <2>4. \A v \in Workers : tail'.resolving[v] = IF v = w THEN <<>> ELSE tail.resolving[v]
    BY <1>3, <2>1
  <2>5. \A v \in Workers : \A m \in QueueOf(tail', v) : m \in QueueOf(tail, v)
    BY <2>1, <2>4, EmptySequence DEF QueueOf
  <2>6. ASSUME NEW v \in Workers, NEW r \in ToSet(tail'.resolving[v])
        PROVE  /\ v # w /\ r \in ToSet(tail.resolving[v])
               /\ tail'.known[oplog[r]] = tail.known[oplog[r]]
    <3>1. v # w /\ r \in ToSet(tail.resolving[v])
      BY <2>4, EmptySequence
    <3>2. r \in QueueOf(tail, v)
      BY <3>1 DEF QueueOf
    <3>3. WorkerOf(oplog[r]) = v /\ oplog[r] \in Docs
      BY <3>2, PendingIs, PendingChanges DEF QueueInv
    <3>4. oplog[r] # d
      BY <2>2, <3>1, <3>3
    <3>. QED BY <1>3, <2>1, <3>1, <3>3, <3>4
  <2>. QED BY <2>1, <2>3, <2>5, <2>6 DEF QueueInv
<1>. QED BY <1>1, <1>2, <1>4, <1>5, <1>6, <1>7, <1>8, QuietSteps DEF Next, LiveStep, WorkerStep

(* A worker's step as seen in what is pending: a change d's, the first of its
   document, is dealt with, or a tombstone for it is due. *)
LEMMA PendingDealtWith ==
  ASSUME FilesType, TailType, ReceivedInv, QueueInv, NEW w \in Workers,
         NEW n \in Changes, NEW d \in Docs, DealsWith(w, n, d)
  PROVE  /\ n \in Pending(tail) /\ d = oplog[n]
         /\ \A m \in Pending(tail) : m # n /\ oplog[m] = d => n < m
         /\ \/ /\ ApplyStores(w) /\ tail.known[d] # NoPhase
               /\ Pending(tail)' = Pending(tail)
            \/ /\ ~ApplyStores(w) \/ tail.known[d] = NoPhase
               /\ Pending(tail)' = Pending(tail) \ {n}
<1>1. /\ tail.queue[w] # <<>> /\ tail.resolving[w] = <<>> /\ n = Head(tail.queue[w])
      /\ d = oplog[n] /\ tail'.queue = [tail.queue EXCEPT ![w] = Tail(@)]
  BY DEF DealsWith
<1>2. /\ n \in Pending(tail)
      /\ \A m \in Pending(tail) : m # n /\ oplog[m] = d => n < m
  BY <1>1, FirstOfQueue
<1>3. WorkerStep(w)
  BY DEF DealsWith, WorkerStep
<1>4. tail'.sending = tail.sending
  BY <1>3, WorkerFields
<1>5. tail.resolving \in [Workers -> Seq(Changes)]
  BY DEF TailType, TailMemory
<1>6. \/ /\ ApplyStores(w) /\ tail.known[d] # NoPhase
         /\ tail'.resolving = [tail.resolving EXCEPT ![w] = <<n>>]
      \/ /\ ApplyStores(w) /\ tail.known[d] = NoPhase
         /\ tail'.resolving = [tail.resolving EXCEPT ![w] = <<>>]
      \/ ApplyFails(w) /\ tail'.resolving = tail.resolving
      \/ ApplyCancelled(w) /\ tail'.resolving = tail.resolving
  BY DEF DealsWith
<1>7. ApplyFails(w) \/ ApplyCancelled(w) => ~ApplyStores(w) \/ tail.known[d] = NoPhase
  <2>1. ASSUME ApplyStores(w), ApplyFails(w) \/ ApplyCancelled(w) PROVE tail.known[d] = NoPhase
    <3>1. tail.known[d] # NoPhase => tail'.resolving = [tail.resolving EXCEPT ![w] = <<n>>]
      BY <1>1, <2>1 DEF ApplyStores, TailType, TailMemory
    <3>2. tail'.resolving = tail.resolving
      BY <2>1 DEF ApplyFails, ApplyCancelled, TailType, TailMemory
    <3>3. tail.resolving[w] = <<n>> \/ tail.known[d] = NoPhase
      BY <1>5, <3>1, <3>2
    <3>4. <<n>> # <<>>
      OBVIOUS
    <3>. QED BY <1>1, <3>3, <3>4
  <2>. QED BY <2>1
<1>. QED BY <1>1, <1>2, <1>4, <1>6, <1>7, PendingApplied

LEMMA OrderInvKept ==
  ASSUME FilesType, MemoryType, CopyType, TailType, MemoryInv, StartInv, ReceivedInv, QueueInv,
         OrderInv, [Next]_vars
  PROVE  OrderInv'
<1>1. CASE EmptyQueues'
  <2>1. Pending(tail') = {}
    BY <1>1, NothingPending DEF EmptyQueues
  <2>. QED BY <2>1 DEF OrderInv
<1>2. CASE Pending(tail)' = Pending(tail) /\ tail'.latest = tail.latest /\ UNCHANGED oplog
  BY <1>2 DEF OrderInv
<1>3. CASE Change
  <2>1. UNCHANGED tail
    BY <1>3 DEF Change
  <2>2. PICK d \in Docs : oplog' = Append(oplog, d)
    BY <1>3 DEF Change
  <2>3. \A i \in 1 .. Len(oplog) : oplog'[i] = oplog[i]
    BY <2>2, AppendProperties DEF FilesType
  <2>4. \A n \in Changes : n <= tail.latest => n \in 1 .. Len(oplog)
    <3>1. tail.latest \in Int /\ tail.latest <= Now /\ Now = Len(oplog) /\ Now \in Nat
      BY OplogAssumption
         DEF TailType, TailMemory, Versions, Positions, None, ReceivedInv, Now, FilesType
    <3>. QED BY <3>1, OplogAssumption DEF Changes
  <2>5. \A n \in Pending(tail) : n \in Changes /\ n <= tail.latest
    BY PendingChanges
  <2>. QED BY <2>1, <2>3, <2>4, <2>5 DEF OrderInv
<1>4. CASE Receive
  <2>1. /\ tail'.latest = NextChange /\ UNCHANGED <<oplog, invocation>> /\ NextChange \in Nat
        /\ NextChange = 1 + IF tail.latest = None THEN tail.after ELSE tail.latest
        /\ tail.latest # None => tail.latest \in Nat
    BY <1>4, ReceiveFields
  <2>2. Pending(tail') = Pending(tail) \cup (IF invocation.dryRun THEN {} ELSE {NextChange})
    BY <1>4, PendingReceived
  <2>3. CASE Still
    <3>1. Pending(tail) = {}
      BY <2>3, NothingPending DEF MemoryInv, EmptyQueues
    <3>2. \A n \in Pending(tail') : n = NextChange
      BY <2>2, <3>1
    <3>3. \A m \in Changes : ~(NextChange < m /\ m <= NextChange)
      BY <2>1, OplogAssumption DEF Changes
    <3>. QED BY <2>1, <3>2, <3>3 DEF OrderInv
  <2>4. CASE ~Still
    <3>1. Pending(tail') = Pending(tail) \cup {NextChange} /\ tail.latest # None
      BY <2>2, <2>4 DEF Still
    <3>2. ASSUME NEW n \in Pending(tail'), NEW m \in Changes, n < m, m <= NextChange,
                 oplog[m] = oplog[n]
          PROVE  m \in Pending(tail')
      <4>1. m \in Int /\ tail.latest \in Int /\ NextChange = 1 + tail.latest
        BY <2>1, <3>1, OplogAssumption DEF Changes
      <4>2. CASE m = NextChange
        BY <3>1, <4>2
      <4>3. CASE m # NextChange
        <5>1. m <= tail.latest
          BY <3>2, <4>1, <4>3
        <5>2. n # NextChange
          BY <3>2, <4>1
        <5>. QED BY <3>1, <3>2, <5>1, <5>2 DEF OrderInv
      <4>. QED BY <4>2, <4>3
    <3>. QED BY <2>1, <3>2 DEF OrderInv
  <2>. QED BY <2>3, <2>4
<1>5. CASE Send
  <2>1. Pending(tail') = Pending(tail) /\ tail'.latest = tail.latest /\ UNCHANGED oplog
    BY <1>5, PendingSent, SendFields
  <2>. QED BY <1>2, <2>1
<1>6. ASSUME NEW w \in Workers, NEW n \in Pending(tail), UNCHANGED oplog,
             tail'.latest = tail.latest,
             Pending(tail)' = Pending(tail) \ {n},
             \A m \in Pending(tail) : m # n /\ oplog[m] = oplog[n] => n < m
      PROVE  OrderInv'
  <2>1. ASSUME NEW k \in Pending(tail), k # n, NEW m \in Changes, k < m, m <= tail.latest,
               oplog[m] = oplog[k]
        PROVE  m \in Pending(tail) \ {n}
    <3>1. m \in Pending(tail)
      BY <2>1 DEF OrderInv
    <3>2. n \in Int /\ k \in Int
      BY PendingChanges, OplogAssumption DEF Changes
    <3>3. m # n
      BY <1>6, <2>1, <3>2
    <3>. QED BY <3>1, <3>3
  <2>. QED BY <1>6, <2>1 DEF OrderInv
<1>7. ASSUME NEW w \in Workers, ApplyStores(w) \/ ApplyFails(w) \/ ApplyCancelled(w)
      PROVE  OrderInv'
  <2>1. PICK n \in Changes, d \in Docs : DealsWith(w, n, d)
    BY <1>7, ApplyFields
  <2>2. tail'.latest = tail.latest /\ UNCHANGED oplog
    BY <1>7, WorkerFields DEF WorkerStep
  <2>3. /\ n \in Pending(tail) /\ d = oplog[n]
        /\ \A m \in Pending(tail) : m # n /\ oplog[m] = d => n < m
        /\ Pending(tail)' = Pending(tail) \/ Pending(tail)' = Pending(tail) \ {n}
    BY <2>1, PendingDealtWith
  <2>. QED BY <1>2, <1>6, <2>2, <2>3
<1>8. ASSUME NEW w \in Workers, Resolve(w) PROVE OrderInv'
  <2>1. PICK n \in Changes, d \in Docs :
           /\ d = oplog[n] /\ ToSet(tail.resolving[w]) = {n}
           /\ tail'.queue = tail.queue
           /\ tail'.resolving = [tail.resolving EXCEPT ![w] = <<>>]
    BY <1>8, ResolveFields
  <2>2. tail'.latest = tail.latest /\ tail'.sending = tail.sending /\ UNCHANGED oplog
    BY <1>8, WorkerFields DEF WorkerStep
  <2>3. /\ n \in Pending(tail)
        /\ \A m \in Pending(tail) : m # n /\ oplog[m] = oplog[n] => n < m
        /\ Pending(tail)' = Pending(tail) \ {n}
    BY <2>1, <2>2, FirstResolving, PendingResolved
  <2>. QED BY <1>6, <2>2, <2>3
<1>9. CASE /\ tail'.latest = tail.latest /\ tail'.sending = tail.sending
           /\ tail'.queue = tail.queue /\ tail'.resolving = tail.resolving
           /\ UNCHANGED oplog
  BY <1>2, <1>9 DEF Pending
<1>. QED BY <1>1, <1>3, <1>4, <1>5, <1>7, <1>8, <1>9, QuietSteps DEF Next, LiveStep, WorkerStep

-----------------------------------------------------------------------------
(* No worker misses an open failure. *)

LEMMA KnownInvKept ==
  ASSUME FilesType, MemoryType, CopyType, TailType, MemoryInv, StartInv, ReceivedInv, QueueInv,
         KnownInv, [Next]_vars
  PROVE  KnownInv'
<1> USE DEF RetrySteps, CopySteps, TailSteps
<1>1. CASE pc' \notin TailSteps
  BY <1>1 DEF KnownInv
<1>2. CASE tail'.known = tail.known /\ UNCHANGED dlq /\ pc \in TailSteps
  BY <1>2 DEF KnownInv
<1>3. CASE OpenTail
  <2>1. tail'.known = [d \in Docs |->
                IF d \in Open(dlq)
                THEN (CHOOSE r \in PopulateActiveFailedIDs(dlq) : r.doc = d).phase
                ELSE NoPhase] /\ UNCHANGED dlq
    BY <1>3 DEF OpenTail, TailType, TailMemory
  <2>2. ASSUME NEW d \in Docs, d \in Open(dlq) PROVE tail'.known[d] # NoPhase
    <3>1. \E r \in PopulateActiveFailedIDs(dlq) : r.doc = d
      BY <2>2 DEF Open
    <3>2. PopulateActiveFailedIDs(dlq) \subseteq Records
      BY ActiveRecords DEF FilesType
    <3>3. (CHOOSE r \in PopulateActiveFailedIDs(dlq) : r.doc = d).phase \in Phases
      BY <3>1, <3>2 DEF Records
    <3>. QED BY <2>1, <2>2, <3>3 DEF Phases, NoPhase
  <2>. QED BY <2>1, <2>2 DEF KnownInv
<1>4. ASSUME NEW w \in Workers, ApplyStores(w) \/ ApplyFails(w) \/ ApplyCancelled(w)
      PROVE  KnownInv'
  <2>1. PICK n \in Changes, d \in Docs : DealsWith(w, n, d)
    BY <1>4, ApplyFields
  <2>2. pc \in TailSteps
    BY <1>4, WorkerFields DEF WorkerStep
  <2>3. CASE UNCHANGED dlq /\ tail'.known = tail.known
    BY <1>2, <2>2, <2>3
  <2>4. CASE /\ tail'.known = [tail.known EXCEPT ![d] = "incremental"]
             /\ dlq' = dlq \/ dlq' = WriteFailed(dlq, d, n, "incremental")
    <3>1. Open(dlq') \subseteq Open(dlq) \cup {d}
      <4>1. n \in Positions /\ "incremental" \in Phases
        BY OplogAssumption DEF Changes, Positions, Phases
      <4>. QED BY <2>4, <4>1, RecordedFailure DEF FilesType
    <3>2. \A e \in Docs : tail'.known[e] = IF e = d THEN "incremental" ELSE tail.known[e]
      BY <2>4 DEF TailType, TailMemory
    <3>. QED BY <2>2, <3>1, <3>2 DEF KnownInv, NoPhase
  <2>. QED BY <2>1, <2>3, <2>4 DEF DealsWith
<1>5. ASSUME NEW w \in Workers, Resolve(w) PROVE KnownInv'
  <2>1. PICK n \in Changes, d \in Docs :
           /\ tail'.known = [tail.known EXCEPT ![d] = NoPhase]
           /\ tail.known[d] \in Phases
           /\ dlq' = WriteResolved(dlq, d, n, tail.known[d])
    BY <1>5, ResolveFields
  <2>2. Open(dlq') = Open(dlq) \ {d}
    <3>1. n \in Positions
      BY OplogAssumption DEF Changes, Positions
    <3>. QED BY <2>1, <3>1, RecordedTombstone DEF FilesType
  <2>3. \A e \in Docs : tail'.known[e] = IF e = d THEN NoPhase ELSE tail.known[e]
    BY <2>1 DEF TailType, TailMemory
  <2>4. pc \in TailSteps
    BY <1>5, WorkerFields DEF WorkerStep
  <2>. QED BY <2>2, <2>3, <2>4 DEF KnownInv
<1>6. Receive \/ Send \/ Cancel \/ Change \/ UNCHANGED vars \/ (\E w \in Workers : WorkerExits(w))
      => tail'.known = tail.known /\ UNCHANGED dlq /\ pc' \in {pc, "tail", "save"}
           /\ (pc' # pc => pc \in TailSteps)
  BY ReceiveFields, SendFields DEF Cancel, Change, vars, liveVars, retryVars, WorkerExits,
     TailType, TailMemory, TailVars
<1>7. RenameStamp \/ WriteStamp \/ StopLoop \/ Drained \/ CloseQueue
      => tail'.known = tail.known /\ UNCHANGED dlq /\ pc \in TailSteps
  <2>1. ~OpenTail \/ ~(RenameStamp \/ WriteStamp \/ StopLoop \/ Drained \/ CloseQueue)
    BY DEF OpenTail, RenameStamp, WriteStamp, StopLoop, Drained, CloseQueue
  <2>2. RenameStamp \/ WriteStamp \/ StopLoop \/ Drained \/ CloseQueue => pc # "open"
    BY DEF RenameStamp, WriteStamp, StopLoop, Drained, CloseQueue
  <2>. QED BY <2>1, <2>2, LoopFields
<1>8. Start \/ Crash \/ Return \/ SendPanics \/ Retry \/ Capture \/ CaptureFails \/ BeginCopy
        \/ OpenCursor \/ ReadDocument \/ EndOfCollection \/ CursorFails \/ Resume \/ InsertBatch
        \/ EndCopy \/ SaveCopyStatus
      => pc' \notin TailSteps
  BY ExitFields, RetryFields DEF Start, StartLive, StartRetry, BeginRetry, Capture, CaptureFails,
     BeginCopy, OpenCursor, ReadDocument, EndOfCollection, CursorFails, Resume, InsertBatch,
     EndCopy, SaveCopyStatus, CursorNext
<1>9. pc \notin TailSteps /\ pc' = pc => KnownInv'
  BY <1>1
<1>. QED BY <1>1, <1>2, <1>3, <1>4, <1>5, <1>6, <1>7, <1>8, <1>9 DEF Next, LiveStep, WorkerStep

-----------------------------------------------------------------------------
(* What the workers have dealt with.                                           *)

(* A document whose records and version are the same is as it was. *)
LEMMA SoundElsewhere ==
  ASSUME NEW log, NEW b, NEW p, NEW d, NEW written, NEW file, NEW more, NEW rewritten,
         d \in Open(more) <=> d \in Open(file),
         \A s \in PopulateActiveFailedIDs(more) : s.doc = d => s \in PopulateActiveFailedIDs(file),
         rewritten[d] = written[d],
         Sound(log, b, written, file, d, p)
  PROVE  Sound(log, b, rewritten, more, d, p)
BY DEF Sound

LEMMA DueOfVersions ==
  ASSUME NEW log, NEW d, NEW p, NEW q, NEW b \in Versions,
         Version(log, d, p) \in Int, Version(log, d, q) \in Int,
         Version(log, d, p) <= Version(log, d, q)
  PROVE  DueBy(log, b, d, p) <= DueBy(log, b, d, q)
<1>1. b \in Int /\ b >= -1
  BY OplogAssumption DEF Versions, Positions, None
<1>. QED BY <1>1 DEF DueBy, None

(* The version that is written or recorded is enough. *)
LEMMA SoundIfWritten ==
  ASSUME NEW log, NEW b, NEW p, NEW d, NEW written, NEW file, NEW n \in Nat,
         DueBy(log, b, d, p) \in Int, DueBy(log, b, d, p) <= n,
         IF d \in Open(file) THEN \A r \in PopulateActiveFailedIDs(file) : r.doc = d => r.version = n
                             ELSE written[d] = n
  PROVE  Sound(log, b, written, file, d, p)
BY DEF Sound

LEMMA Ranges ==
  ASSUME FilesType, MemoryType, TailType, ReceivedInv
  PROVE  /\ oplog \in Seq(Docs) /\ Now = Len(oplog) /\ Now \in Nat /\ Now <= MaxChanges
         /\ MaxChanges \in Nat
         /\ base \in Versions /\ base \in Int
         /\ ResumePoint \in Versions /\ ResumePoint \in Int /\ ResumePoint <= Now
         /\ tail.after \in Versions /\ tail.after \in Int /\ tail.after <= Now
         /\ tail.latest \in Versions /\ tail.latest \in Int /\ tail.latest <= Now
         /\ tail.after # None => tail.after \in Nat
         /\ tail.latest # None => tail.latest \in Nat
         /\ ResumePoint # None => ResumePoint \in Nat
<1>1. Versions \subseteq Int /\ (\A v \in Versions : v # None => v \in Nat)
      /\ MaxChanges \in Nat
  BY OplogAssumption DEF Versions, Positions, None
<1>2. tail.after \in Versions /\ tail.latest \in Versions
  BY DEF TailType, TailMemory
<1>3. /\ oplog \in Seq(Docs) /\ Now = Len(oplog) /\ Now <= MaxChanges /\ base \in Versions
      /\ tail.after <= Now /\ tail.latest <= Now
  BY DEF FilesType, ReceivedInv, Now
<1>4. Now \in Nat
  BY <1>3
<1>5. ResumePoint \in Versions /\ ResumePoint <= Now
  BY ResumePoints
<1>. QED BY <1>1, <1>2, <1>3, <1>4, <1>5

LEMMA TailInvReceived ==
  ASSUME FilesType, MemoryType, CopyType, TailType, MemoryInv, StartInv, ReceivedInv, TempInv,
         QueueInv, RestInv, TailInv, Receive
  PROVE  TailInv'
<1> DEFINE n == NextChange
<1>1. /\ tail'.latest = n /\ n \in Nat /\ n <= Now /\ pc = "tail"
      /\ n = 1 + IF tail.latest = None THEN tail.after ELSE tail.latest
      /\ tail.after # None /\ tail.after \in Nat
      /\ tail.latest # None => tail.latest \in Nat
      /\ UNCHANGED <<status, temp, dlq, target, oplog, invocation, base, abandoned, stamp, backup>>
  BY ReceiveFields
<1>2. CASE invocation.dryRun
  BY <1>1, <1>2 DEF TailInv, Still
<1>3. Pending(tail)' = Pending(tail) \cup {n} \/ invocation.dryRun
  BY PendingReceived
<1>4. Pending(tail') = Pending(tail)'
  BY DEF Pending
<1> HIDE DEF n
<1>5. ASSUME ~invocation.dryRun, NEW d \in Docs \ abandoned, NEW p \in 0 .. n,
             \A m \in Pending(tail') : oplog[m] = d => p < m
      PROVE  Sound(oplog, base, target, dlq, d, p)
  <2> DEFINE q == IF tail.latest = None THEN tail.after ELSE tail.latest
  <2>1. q \in Nat /\ n = 1 + q /\ n <= Len(oplog) /\ oplog \in Seq(Docs)
    BY <1>1, Ranges
  <2>2. p \in Int /\ p <= Len(oplog) /\ q <= Len(oplog) /\ q \in Int
    BY <2>1
  <2>3. p <= q \/ (p = n /\ oplog[n] # d)
    <3>1. oplog[n] = d => p < n
      BY <1>3, <1>4, <1>5
    <3>. QED BY <2>1, <3>1
  <2>. HIDE DEF q
  <2>4. Version(oplog, d, p) <= Version(oplog, d, q)
    <3>1. CASE p <= q
      BY <2>1, <2>2, <3>1, VersionGrows
    <3>2. CASE p = n /\ oplog[n] # d
      <4>1. Version(oplog, d, q) = Version(oplog, d, p)
        <5>1. \A i \in 1 .. p : q < i => oplog[i] # d
          <6>1. \A i \in 1 .. p : q < i => i = n
            BY <2>1, <3>2
          <6>. QED BY <3>2, <6>1
        <5>2. q <= p
          BY <2>1, <3>2
        <5>. QED BY <2>1, <2>2, <5>1, <5>2, VersionStays
      <4>2. Version(oplog, d, p) \in Int
        BY <2>1, <2>2, VersionIs
      <4>. QED BY <4>1, <4>2
    <3>. QED BY <2>3, <3>1, <3>2
  <2>5. Version(oplog, d, p) \in Int /\ Version(oplog, d, q) \in Int
    BY <2>1, <2>2, VersionIs
  <2>6. DueBy(oplog, base, d, p) <= DueBy(oplog, base, d, q)
    BY <2>4, <2>5, Ranges, DueOfVersions
  <2>7. DueBy(oplog, base, d, p) \in Int /\ DueBy(oplog, base, d, q) \in Int
        /\ DueBy(oplog, base, d, p) >= -1
    BY <2>1, <2>2, Ranges, DueRange
  <2>8. target \in [Docs -> Versions] /\ dlq \in Files
    BY DEF FilesType
  <2>9. CASE tail.latest = None
    <3>1. ~temp.exists /\ Held = dlq
      BY <1>1 DEF TempInv, Held, RetrySteps
    <3>2. Still /\ IsCompleted(status) /\ q = tail.after
      BY <1>1, <1>5, <2>9 DEF Still, StartInv, TailSteps, q
    <3>3. CASE q <= ResumePoint
      <4>1. ResumePoint # None /\ ResumePoint \in Int /\ ResumePoint <= Len(oplog)
        BY <2>1, <3>3, Ranges DEF None
      <4>2. Sound(oplog, base, target, dlq, d, ResumePoint)
        BY <3>1, <3>2, <4>1 DEF RestInv
      <4>3. DueBy(oplog, base, d, q) <= DueBy(oplog, base, d, ResumePoint)
        BY <2>1, <2>2, <3>3, <4>1, Ranges, DueGrows
      <4>4. DueBy(oplog, base, d, ResumePoint) \in Int
        BY <2>1, <4>1, Ranges, DueRange
      <4>5. DueBy(oplog, base, d, p) <= DueBy(oplog, base, d, ResumePoint)
        BY <2>6, <2>7, <4>3, <4>4
      <4>. QED BY <2>7, <2>8, <4>2, <4>4, <4>5, SoundWeaker
    <3>4. CASE q <= base
      <4>1. DueBy(oplog, base, d, q) = None
        BY <2>1, <2>2, <3>4, Ranges, NothingDue
      <4>2. DueBy(oplog, base, d, p) = None
        BY <2>6, <2>7, <4>1 DEF None
      <4>. QED BY <2>8, <4>2, SoundIfNothingDue
    <3>5. q <= ResumePoint \/ q <= base
      BY <1>1, <3>2 DEF ReceivedInv, TailSteps
    <3>. QED BY <3>3, <3>4, <3>5
  <2>10. CASE tail.latest # None
    <3>1. ~Still /\ q = tail.latest
      BY <1>5, <2>10 DEF Still, q
    <3>2. \A m \in Pending(tail) : m \in Nat /\ m <= q
      BY <3>1, PendingChanges, OplogAssumption DEF Changes
    <3>3. \A m \in Pending(tail) : oplog[m] = d => p < m
      BY <1>3, <1>4, <1>5
    <3>4. CASE p <= q
      <4>1. p \in 0 .. tail.latest
        BY <2>1, <3>1, <3>4
      <4>. QED BY <3>1, <3>3, <4>1 DEF TailInv
    <3>5. CASE p = n
      <4>1. \A m \in Pending(tail) : oplog[m] # d
        BY <2>1, <3>2, <3>3, <3>5
      <4>2. q \in 0 .. tail.latest
        BY <2>1, <3>1
      <4>3. Sound(oplog, base, target, dlq, d, q)
        BY <3>1, <4>1, <4>2 DEF TailInv
      <4>. QED BY <2>6, <2>7, <2>8, <4>3, SoundWeaker
    <3>. QED BY <2>3, <3>4, <3>5
  <2>. QED BY <2>9, <2>10
<1>. QED BY <1>1, <1>2, <1>4, <1>5 DEF TailInv

(* Up to the next change of the document that is pending, the change dealt with
   is what is due. *)
LEMMA DueIsDealtWith ==
  ASSUME FilesType, MemoryType, TailType, ReceivedInv, QueueInv, OrderInv,
         NEW n \in Pending(tail), NEW d, d = oplog[n], NEW p \in 0 .. tail.latest,
         \A m \in Pending(tail) \ {n} : oplog[m] = d => p < m
  PROVE  /\ n \in Nat /\ n \in Positions /\ d \in Docs
         /\ DueBy(oplog, base, d, p) \in Int /\ DueBy(oplog, base, d, p) <= n
<1>1. /\ oplog \in Seq(Docs) /\ Now = Len(oplog) /\ Now \in Nat /\ Now <= MaxChanges
      /\ tail.latest \in Int /\ tail.latest <= Now /\ base \in Versions /\ MaxChanges \in Nat
  BY Ranges
<1>2. Pending(tail) \subseteq Changes /\ n <= Now /\ d \in Docs
  BY PendingChanges
<1>3. Pending(tail) \in SUBSET Nat /\ n \in 1 .. Len(oplog) /\ n \in Nat /\ n \in Positions
  BY <1>1, <1>2 DEF Changes, Positions
<1>4. \A m \in 1 .. Len(oplog) : n < m /\ m <= tail.latest /\ oplog[m] = oplog[n]
        => m \in Pending(tail)
  <2>1. \A m \in 1 .. Len(oplog) : m \in Changes
    BY <1>1 DEF Changes
  <2>. QED BY <2>1 DEF OrderInv
<1>5. Version(oplog, oplog[n], p) <= n
  BY <1>1, <1>3, <1>4, VersionDealtWith
<1>6. p \in Int /\ p <= Len(oplog)
  BY <1>1
<1>7. DueBy(oplog, base, d, p) \in Int /\ DueBy(oplog, base, d, p) <= Version(oplog, d, p)
      /\ Version(oplog, d, p) \in Int
  BY <1>1, <1>2, <1>6, DueRange, VersionIs
<1>. QED BY <1>2, <1>3, <1>5, <1>7

(* After its step a worker's document is sound, and no other was touched. *)
LEMMA TailInvApplied ==
  ASSUME FilesType, MemoryType, CopyType, TailType, ReceivedInv, QueueInv, OrderInv, KnownInv,
         TailInv, ~Still, NEW w \in Workers, ApplyStores(w) \/ ApplyFails(w) \/ ApplyCancelled(w)
  PROVE  TailInv'
<1>1. PICK n \in Changes, d \in Docs : DealsWith(w, n, d)
  BY ApplyFields
<1>2. /\ tail'.latest = tail.latest /\ pc \in TailSteps
      /\ UNCHANGED <<oplog, invocation, base>>
  BY WorkerFields DEF WorkerStep, TailSteps
<1>3. /\ n \in Pending(tail) /\ d = oplog[n]
      /\ \A m \in Pending(tail) : m # n /\ oplog[m] = d => n < m
      /\ \/ /\ ApplyStores(w) /\ tail.known[d] # NoPhase
            /\ Pending(tail)' = Pending(tail)
         \/ /\ ~ApplyStores(w) \/ tail.known[d] = NoPhase
            /\ Pending(tail)' = Pending(tail) \ {n}
  BY <1>1, PendingDealtWith
<1>4. Pending(tail') = Pending(tail)'
  BY DEF Pending
<1>5. dlq \in Files /\ target \in [Docs -> Versions] /\ n \in Positions /\ n \in Nat
      /\ "incremental" \in Phases
  BY OplogAssumption DEF FilesType, Changes, Positions, Phases
<1>6. \/ /\ ApplyStores(w) /\ target' = [target EXCEPT ![d] = n] /\ dlq' = dlq
         /\ abandoned' = IF tail.known[d] = NoPhase THEN abandoned \ {d} ELSE abandoned
      \/ /\ ~ApplyStores(w) \/ tail.known[d] = NoPhase
         /\ ApplyFails(w) /\ target' = target /\ abandoned' = abandoned
         /\ dlq' = WriteFailed(dlq, d, n, "incremental")
      \/ /\ ~ApplyStores(w) \/ tail.known[d] = NoPhase
         /\ target' = target /\ dlq' = dlq /\ abandoned' = abandoned \cup {d}
  BY <1>1, <1>3 DEF DealsWith, ApplyStores, ApplyFails, ApplyCancelled
<1>7. ASSUME NEW e \in Docs \ {d}
      PROVE  /\ target'[e] = target[e] /\ (e \in abandoned' <=> e \in abandoned)
             /\ e \in Open(dlq') <=> e \in Open(dlq)
             /\ \A s \in PopulateActiveFailedIDs(dlq') : s.doc = e
                  => s \in PopulateActiveFailedIDs(dlq)
  <2>1. target'[e] = target[e] /\ (e \in abandoned' <=> e \in abandoned)
    BY <1>5, <1>6
  <2>2. CASE dlq' = dlq
    BY <2>1, <2>2
  <2>3. CASE dlq' = WriteFailed(dlq, d, n, "incremental")
    <3>1. /\ Open(dlq') = Open(dlq) \cup {d}
          /\ \A s \in PopulateActiveFailedIDs(dlq') :
               IF s.doc = d THEN s.version = n ELSE s \in PopulateActiveFailedIDs(dlq)
      BY <1>5, <2>3, RecordedFailure
    <3>. QED BY <2>1, <3>1
  <2>. QED BY <1>6, <2>2, <2>3
<1>8. ASSUME NEW e \in Docs \ {d}, e \notin abandoned', NEW p \in 0 .. tail.latest,
             \A m \in Pending(tail') : oplog[m] = e => p < m
      PROVE  Sound(oplog, base, target', dlq', e, p)
  <2>1. \A m \in Pending(tail) : oplog[m] = e => p < m
    BY <1>3, <1>4, <1>8
  <2>2. Sound(oplog, base, target, dlq, e, p)
    BY <1>7, <1>8, <2>1 DEF TailInv
  <2>. QED BY <1>7, <2>2, SoundElsewhere
<1>9. ASSUME d \notin abandoned', NEW p \in 0 .. tail.latest,
             \A m \in Pending(tail') : oplog[m] = d => p < m
      PROVE  Sound(oplog, base, target', dlq', d, p)
  <2>1. /\ DueBy(oplog, base, d, p) \in Int /\ DueBy(oplog, base, d, p) <= n
    <3>1. \A m \in Pending(tail) \ {n} : oplog[m] = d => p < m
      BY <1>3, <1>4, <1>9
    <3>. QED BY <1>3, <3>1, DueIsDealtWith
  <2>2. CASE ApplyStores(w) /\ target' = [target EXCEPT ![d] = n] /\ dlq' = dlq
             /\ abandoned' = (IF tail.known[d] = NoPhase THEN abandoned \ {d} ELSE abandoned)
    <3>1. CASE d \notin Open(dlq)
      <4>1. target'[d] = n
        BY <1>5, <2>2
      <4>. QED BY <1>5, <2>1, <2>2, <3>1, <4>1, SoundIfWritten
    <3>2. CASE d \in Open(dlq)
      <4>1. tail.known[d] # NoPhase
        BY <1>2, <3>2 DEF KnownInv
      <4>2. Pending(tail') = Pending(tail) /\ d \notin abandoned
        BY <1>3, <1>4, <1>9, <2>2, <4>1
      <4>3. Sound(oplog, base, target, dlq, d, p)
        BY <1>9, <4>2 DEF TailInv
      <4>. QED BY <2>2, <3>2, <4>3 DEF Sound
    <3>. QED BY <3>1, <3>2
  <2>3. CASE dlq' = WriteFailed(dlq, d, n, "incremental")
    <3>1. /\ Open(dlq') = Open(dlq) \cup {d}
          /\ \A s \in PopulateActiveFailedIDs(dlq') :
               IF s.doc = d THEN s.version = n ELSE s \in PopulateActiveFailedIDs(dlq)
      BY <1>5, <2>3, RecordedFailure
    <3>. QED BY <1>5, <2>1, <3>1, SoundIfWritten
  <2>4. CASE abandoned' = abandoned \cup {d}
    BY <1>9, <2>4
  <2>. QED BY <1>6, <2>2, <2>3, <2>4
<1>. QED BY <1>2, <1>8, <1>9 DEF TailInv

LEMMA TailInvResolved ==
  ASSUME FilesType, MemoryType, CopyType, TailType, ReceivedInv, QueueInv, OrderInv,
         TailInv, ~Still, NEW w \in Workers, Resolve(w)
  PROVE  TailInv'
<1>1. PICK n \in Changes, d \in Docs :
        /\ d = oplog[n] /\ ToSet(tail.resolving[w]) = {n}
        /\ tail'.queue = tail.queue
        /\ tail'.resolving = [tail.resolving EXCEPT ![w] = <<>>]
        /\ target' = target
        /\ abandoned' = abandoned \ {d}
        /\ tail.known[d] \in Phases
        /\ dlq' = WriteResolved(dlq, d, n, tail.known[d])
  BY ResolveFields
<1>2. /\ tail'.latest = tail.latest /\ tail'.sending = tail.sending
      /\ UNCHANGED <<oplog, invocation, base>>
  BY WorkerFields DEF WorkerStep
<1>3. n \in Pending(tail) /\ target[d] = n
  BY <1>1, FirstResolving
<1>4. Pending(tail') = Pending(tail) \ {n}
  <2>1. Pending(tail)' = Pending(tail) \ {n}
    BY <1>1, <1>2, PendingResolved
  <2>. QED BY <2>1 DEF Pending
<1>5. n \in Positions /\ n \in Nat /\ dlq \in Files
  BY OplogAssumption DEF FilesType, Changes, Positions
<1>6. /\ Open(dlq') = Open(dlq) \ {d}
      /\ PopulateActiveFailedIDs(dlq') \subseteq PopulateActiveFailedIDs(dlq)
  BY <1>1, <1>5, RecordedTombstone
<1>7. ASSUME NEW e \in Docs \ {d}, e \notin abandoned', NEW p \in 0 .. tail.latest,
             \A m \in Pending(tail') : oplog[m] = e => p < m
      PROVE  Sound(oplog, base, target', dlq', e, p)
  <2>1. \A m \in Pending(tail) : oplog[m] = e => p < m
    BY <1>1, <1>4, <1>7
  <2>2. Sound(oplog, base, target, dlq, e, p)
    BY <1>1, <1>7, <2>1 DEF TailInv
  <2>. QED BY <1>1, <1>6, <2>2, SoundElsewhere
<1>8. ASSUME NEW p \in 0 .. tail.latest, \A m \in Pending(tail') : oplog[m] = d => p < m
      PROVE  Sound(oplog, base, target', dlq', d, p)
  <2>1. DueBy(oplog, base, d, p) \in Int /\ DueBy(oplog, base, d, p) <= n
    <3>1. \A m \in Pending(tail) \ {n} : oplog[m] = d => p < m
      BY <1>4, <1>8
    <3>. QED BY <1>1, <1>3, <3>1, DueIsDealtWith
  <2>. QED BY <1>1, <1>3, <1>5, <1>6, <2>1, SoundIfWritten
<1>. QED BY <1>2, <1>7, <1>8 DEF TailInv

LEMMA TailInvKept ==
  ASSUME FilesType, MemoryType, CopyType, TailType, MemoryInv, StartInv, ReceivedInv, TempInv,
         QueueInv, OrderInv, KnownInv, RestInv, TailInv, [Next]_vars
  PROVE  TailInv'
<1> USE DEF RetrySteps, CopySteps, TailSteps
<1>1. CASE tail'.latest = None
  BY <1>1 DEF TailInv, Still
<1>2. CASE /\ UNCHANGED <<oplog, base, target, dlq, invocation>>
           /\ tail'.latest = tail.latest /\ Pending(tail') = Pending(tail)
           /\ abandoned \subseteq abandoned'
  BY <1>2 DEF TailInv, Still
<1>3. CASE Change
  <2>1. UNCHANGED <<base, target, dlq, invocation, tail, abandoned>>
    BY <1>3 DEF Change, retryVars
  <2>2. PICK e \in Docs : oplog' = Append(oplog, e)
    BY <1>3 DEF Change
  <2>3. \A n \in Pending(tail) : oplog'[n] = oplog[n]
    <3>1. \A i \in 1 .. Len(oplog) : oplog'[i] = oplog[i]
      BY <2>2, AppendProperties DEF FilesType
    <3>2. \A n \in Pending(tail) : n \in 1 .. Len(oplog)
      BY PendingChanges, OplogAssumption DEF Changes, Now
    <3>. QED BY <3>1, <3>2
  <2>4. ASSUME NEW d \in Docs, NEW p \in 0 .. tail.latest
        PROVE  DueBy(oplog', base, d, p) = DueBy(oplog, base, d, p)
    <3>1. p \in Int /\ p <= Len(oplog) /\ oplog \in Seq(Docs)
      BY Ranges
    <3>. QED BY <2>2, <3>1, DueKept
  <2>5. \A d \in Docs : \A p \in 0 .. tail.latest :
          Sound(oplog', base, target, dlq, d, p) <=> Sound(oplog, base, target, dlq, d, p)
    BY <2>4 DEF Sound
  <2>. QED BY <2>1, <2>3, <2>5 DEF TailInv, Still
<1>4. CASE Receive
  BY <1>4, TailInvReceived
<1>5. CASE Send
  <2>1. Pending(tail') = Pending(tail)
    <3>1. Pending(tail)' = Pending(tail)
      BY <1>5, PendingSent
    <3>. QED BY <3>1 DEF Pending
  <2>2. UNCHANGED <<oplog, base, target, dlq, invocation, abandoned>> /\ tail'.latest = tail.latest
    BY <1>5, SendFields
  <2>. QED BY <1>2, <2>1, <2>2
<1>6. ASSUME NEW w \in Workers, ApplyStores(w) \/ ApplyFails(w) \/ ApplyCancelled(w) \/ Resolve(w)
      PROVE  TailInv'
  <2>1. CASE Still
    <3>1. tail.queue[w] = <<>> /\ tail.resolving[w] = <<>>
      BY <2>1 DEF MemoryInv, EmptyQueues
    <3>. QED BY <1>6, <3>1 DEF ApplyStores, ApplyFails, ApplyCancelled, Resolve, Applies
  <2>. QED BY <1>6, <2>1, TailInvApplied, TailInvResolved
<1>7. ASSUME NEW w \in Workers, WorkerExits(w) PROVE TailInv'
  <2>1. /\ tail'.latest = tail.latest /\ tail'.sending = tail.sending
        /\ tail'.queue = tail.queue /\ tail'.resolving = tail.resolving
        /\ UNCHANGED <<oplog, base, target, dlq, invocation, abandoned>>
    BY <1>7 DEF WorkerExits, TailVars, TailType, TailMemory
  <2>2. Pending(tail') = Pending(tail)
    BY <2>1 DEF Pending
  <2>. QED BY <1>2, <2>1, <2>2
<1>8. CASE OpenTail \/ RenameStamp \/ WriteStamp \/ StopLoop \/ Drained \/ CloseQueue
  <2>1. /\ tail'.latest = tail.latest /\ tail'.sending = tail.sending
        /\ tail'.queue = tail.queue /\ tail'.resolving = tail.resolving
        /\ UNCHANGED <<oplog, base, target, dlq, invocation>>
    BY <1>8, LoopFields
  <2>2. abandoned \subseteq abandoned'
    BY <1>8 DEF OpenTail, RenameStamp, WriteStamp, StopLoop, Drained, CloseQueue
  <2>3. Pending(tail') = Pending(tail)
    BY <2>1 DEF Pending
  <2>. QED BY <1>2, <2>1, <2>2, <2>3
<1>9. CASE Crash \/ Return \/ SendPanics
  BY <1>1, <1>9, ExitFields DEF NoTail
<1>10. CASE Cancel \/ UNCHANGED vars
  BY <1>2, <1>10 DEF Cancel, vars, liveVars, retryVars
<1>11. CASE Start \/ Retry \/ CaptureFails \/ BeginCopy \/ OpenCursor \/ ReadDocument
            \/ EndOfCollection \/ CursorFails \/ Resume \/ InsertBatch \/ EndCopy \/ SaveCopyStatus
  <2>1. tail' = tail
    BY <1>11, RetryFields DEF Start, StartLive, StartRetry, CaptureFails, BeginCopy, OpenCursor,
       ReadDocument, EndOfCollection, CursorFails, Resume, InsertBatch, EndCopy, SaveCopyStatus,
       CursorNext, CopyVars, liveVars
  <2>2. pc \notin TailSteps \cup {"return"}
    BY <1>11, RetryFields DEF Start, CaptureFails, BeginCopy, OpenCursor,
       ReadDocument, EndOfCollection, CursorFails, Resume, InsertBatch, EndCopy, SaveCopyStatus,
       CursorNext
  <2>. QED BY <1>1, <2>1, <2>2 DEF ReceivedInv
<1>12. CASE Capture
  <2>1. tail'.latest = tail.latest /\ pc = "capture"
    BY <1>12 DEF Capture, TailType, TailMemory
  <2>. QED BY <1>1, <2>1 DEF ReceivedInv
<1>. QED BY <1>3, <1>4, <1>5, <1>6, <1>7, <1>8, <1>9, <1>10, <1>11, <1>12
         DEF Next, LiveStep, WorkerStep

-----------------------------------------------------------------------------
(* The copy.                                                                   *)

LEMMA CopyRanges ==
  ASSUME FilesType, CopyType, StartInv, pc \in CopySteps
  PROVE  /\ oplog \in Seq(Docs) /\ Now = Len(oplog) /\ Now \in Nat
         /\ stamp \in Nat /\ stamp <= Now
         /\ copy.opened \in Nat /\ copy.opened <= Now
         /\ copy.last \in Nat /\ copy.failed \in Nat
         /\ copy.batch \subseteq [doc : Docs, version : Positions]
         /\ Docs \subseteq Nat \ {0} /\ Positions \subseteq Nat
<1>1. oplog \in Seq(Docs) /\ Now = Len(oplog) /\ stamp \in Versions /\ stamp <= Now
  BY DEF FilesType, Now
<1>2. copy.opened \in Nat /\ copy.opened <= Now /\ copy.last \in 0 .. NumDocs
      /\ copy.failed \in Nat /\ copy.batch \subseteq [doc : Docs, version : Positions]
  BY DEF CopyType, CopyMemory
<1>3. stamp # None
  BY DEF StartInv
<1>4. NumDocs \in Nat /\ MaxChanges \in Nat
  BY OplogAssumption
<1>. QED BY <1>1, <1>2, <1>3, <1>4 DEF Versions, Positions, Docs

LEMMA CopyReads ==
  ASSUME FilesType, CopyType, StartInv, CopyBatchInv, CopyDoneInv, ReadDocument
  PROVE  CopyBatchInv' /\ CopyDoneInv'
<1> USE DEF CopySteps
<1>0. PICK p \in copy.opened .. Now : \E d \in Unread(p) :
        /\ \A e \in Unread(copy.opened) : d <= e
        /\ copy' = [copy EXCEPT !.last = d,
                                !.batch = @ \cup {[doc |-> d, version |-> VersionAt(d, p)]}]
  BY DEF ReadDocument
<1>1. PICK d \in Unread(p) :
        /\ \A e \in Unread(copy.opened) : d <= e
        /\ copy' = [copy EXCEPT !.last = d,
                                !.batch = @ \cup {[doc |-> d, version |-> VersionAt(d, p)]}]
  BY <1>0
<1>2. /\ pc = "copy" /\ pc' = "copy" /\ copy.cursor = "open"
      /\ UNCHANGED <<dlq, target, abandoned, oplog, stamp, recorded>>
  BY DEF ReadDocument, CursorNext, CopyVars
<1> DEFINE new == [doc |-> d, version |-> VersionAt(d, p)]
<1>3. /\ copy'.last = d /\ copy'.batch = copy.batch \cup {new}
      /\ copy'.cursor = copy.cursor /\ copy'.opened = copy.opened /\ copy'.failed = copy.failed
  BY <1>1 DEF CopyType, CopyMemory
<1>4. /\ oplog \in Seq(Docs) /\ Now = Len(oplog) /\ Now \in Nat /\ stamp \in Nat
      /\ copy.opened \in Nat /\ copy.opened <= Now /\ copy.last \in Nat
      /\ copy.batch \subseteq [doc : Docs, version : Positions]
      /\ Docs \subseteq Nat \ {0} /\ Positions \subseteq Nat
  BY <1>2, CopyRanges
<1>5. d \in Docs /\ d > copy.last /\ new.doc = d /\ new.version = VersionAt(d, p)
  BY DEF Unread
<1>6. stamp <= copy.opened
  BY <1>2 DEF CopyBatchInv
<1>7. \A e \in Docs, q \in 0 .. Now : VersionAt(e, q) = Version(oplog, e, q)
  BY DEF VersionAt, Version
<1>8. new.version >= Version(oplog, d, stamp)
  <2>1. p \in Int /\ stamp \in Int /\ stamp <= p /\ p <= Len(oplog) /\ p \in 0 .. Now
    BY <1>4, <1>6
  <2>2. Version(oplog, d, stamp) <= Version(oplog, d, p)
    BY <1>4, <1>5, <2>1, VersionGrows
  <2>3. Version(oplog, d, stamp) \in Int /\ Version(oplog, d, p) \in Int
    BY <1>4, <1>5, <2>1, VersionIs
  <2>. QED BY <1>5, <1>7, <2>1, <2>2, <2>3
<1> HIDE DEF new
<1>9. \A r \in copy.batch : r.doc <= copy.last /\ r.doc \in Nat
      /\ r.version >= Version(oplog, r.doc, stamp)
  BY <1>2, <1>4 DEF CopyBatchInv
<1>10. CopyBatchInv'
  <2>1. ASSUME NEW r \in copy'.batch
        PROVE  r.doc <= d /\ r.version >= Version(oplog, r.doc, stamp)
    <3>1. CASE r = new
      <4>1. d \in Nat
        BY <1>4, <1>5
      <4>2. d <= d
        BY <4>1
      <4>. QED BY <1>5, <1>8, <3>1, <4>2
    <3>2. CASE r \in copy.batch
      <4>1. r.doc <= copy.last /\ r.doc \in Nat /\ d \in Nat /\ copy.last \in Nat
        BY <1>4, <1>5, <1>9, <3>2
      <4>2. r.doc <= d
        BY <1>5, <4>1
      <4>. QED BY <1>9, <3>2, <4>2
    <3>. QED BY <1>3, <3>1, <3>2
  <2>2. \A r, s \in copy.batch : r.doc = s.doc => r = s
    BY <1>2 DEF CopyBatchInv
  <2>3. \A r \in copy.batch : r.doc # d
    BY <1>4, <1>5, <1>9
  <2>4. \A r, s \in copy'.batch : r.doc = s.doc => r = s
    BY <1>3, <1>5, <2>2, <2>3
  <2>. QED BY <1>2, <1>3, <1>6, <2>1, <2>4 DEF CopyBatchInv
<1>11. ASSUME NEW e \in Docs, e <= d
       PROVE  \/ InBatch(copy', e) \/ target[e] >= Version(oplog, e, stamp)
              \/ e \in Open(dlq) \cup abandoned
  <2>1. CASE e = d
    BY <1>3, <1>5, <2>1 DEF InBatch
  <2>2. CASE e <= copy.last
    <3>1. InBatch(copy, e) => InBatch(copy', e)
      BY <1>3 DEF InBatch
    <3>. QED BY <1>2, <2>2, <3>1 DEF CopyDoneInv
  <2>3. CASE e # d /\ ~(e <= copy.last)
    <3>1. e \notin Unread(copy.opened)
      BY <1>1, <1>4, <1>5, <1>11, <2>3
    <3>2. VersionAt(e, copy.opened) = None
      BY <1>4, <2>3, <3>1 DEF Unread
    <3>3. Version(oplog, e, copy.opened) = None
      BY <1>4, <1>7, <3>2
    <3>4. Version(oplog, e, stamp) <= Version(oplog, e, copy.opened)
      BY <1>4, <1>6, VersionGrows
    <3>5. target[e] \in Int /\ target[e] >= -1
      BY OplogAssumption DEF FilesType, Versions, Positions, None
    <3>6. Version(oplog, e, stamp) \in Int
      BY <1>4, <1>6, VersionIs
    <3>. QED BY <3>3, <3>4, <3>5, <3>6 DEF None
  <2>. QED BY <2>1, <2>2, <2>3
<1>12. ASSUME NEW e \in Docs, e <= copy.last, ~InBatch(copy, e)
       PROVE  e <= d /\ ~InBatch(copy', e)
  <2>1. e <= d /\ e # d
    BY <1>4, <1>5, <1>12
  <2>. QED BY <1>3, <1>5, <1>12, <2>1 DEF InBatch
<1>13. CopyDoneInv'
  <2>1. copy'.failed > 0 \/ recorded > 0 =>
          Open(dlq) # {} \/ \E e \in abandoned : e <= copy.last /\ ~InBatch(copy, e)
    BY <1>2, <1>3 DEF CopyDoneInv
  <2>2. abandoned \subseteq Docs
    BY DEF FilesType
  <2>3. \A r \in Lines(dlq) : /\ r.kind = "failed" /\ r.phase = "initial"
                             /\ r.version >= Version(oplog, r.doc, stamp)
    BY <1>2 DEF CopyDoneInv
  <2>4. copy'.failed > 0 \/ recorded > 0 =>
          Open(dlq) # {} \/ \E e \in abandoned : e <= copy'.last /\ ~InBatch(copy', e)
    BY <1>3, <1>12, <2>1, <2>2
  <2>. QED BY <1>2, <1>3, <1>11, <2>3, <2>4 DEF CopyDoneInv
<1>. QED BY <1>10, <1>13

LEMMA CopyInserts ==
  ASSUME FilesType, CopyType, MemoryType, StartInv, CopyBatchInv, CopyDoneInv, InsertBatch
  PROVE  CopyBatchInv' /\ CopyDoneInv'
<1> USE DEF CopySteps
<1>1. PICK o \in InsertOutcomes({r.doc : r \in copy.batch}) :
        LET with(outcome) == {r \in copy.batch : o[r.doc] = outcome}
        IN /\ target' = [d \in Docs |-> IF \E r \in with("stored") : r.doc = d
                                        THEN (CHOOSE r \in copy.batch : r.doc = d).version
                                        ELSE target[d]]
           /\ dlq' = RecordAll(dlq, with("recorded"))
           /\ recorded' = recorded + Cardinality(with("recorded"))
           /\ abandoned' = (abandoned \cup {r.doc : r \in with("dropped")})
                             \ {r.doc : r \in with("stored")}
           /\ copy' = [copy EXCEPT !.batch = {},
                                   !.failed = @ + Cardinality(copy.batch \ with("stored"))]
  BY DEF InsertBatch
<1> DEFINE with(outcome) == {r \in copy.batch : o[r.doc] = outcome}
<1>2. /\ pc = "copy" /\ pc' = "copy" /\ UNCHANGED <<oplog, stamp>>
  BY DEF InsertBatch
<1>3. /\ copy'.last = copy.last /\ copy'.batch = {} /\ copy'.opened = copy.opened
      /\ copy'.cursor = copy.cursor
      /\ copy'.failed = copy.failed + Cardinality(copy.batch \ with("stored"))
  BY <1>1 DEF CopyType, CopyMemory
<1>4. /\ copy.last \in Nat /\ copy.failed \in Nat
      /\ copy.batch \subseteq [doc : Docs, version : Positions]
  BY <1>2, CopyRanges
<1>5. \A r \in copy.batch : o[r.doc] \in {"stored", "recorded", "dropped"}
  BY DEF InsertOutcomes
<1>6. /\ \A r \in copy.batch : r.doc <= copy.last /\ r.version >= Version(oplog, r.doc, stamp)
      /\ \A r, s \in copy.batch : r.doc = s.doc => r = s
      /\ copy.cursor = "open" => stamp <= copy.opened
  BY <1>2 DEF CopyBatchInv
<1>7. CopyBatchInv'
  BY <1>2, <1>3, <1>6 DEF CopyBatchInv
<1>8. /\ \A r \in Lines(dlq) : /\ r.kind = "failed" /\ r.phase = "initial"
                              /\ r.version >= Version(oplog, r.doc, stamp)
      /\ \A d \in Docs : d <= copy.last =>
           \/ InBatch(copy, d)
           \/ target[d] >= Version(oplog, d, stamp)
           \/ d \in Open(dlq) \cup abandoned
      /\ copy.failed > 0 \/ recorded > 0 =>
           \/ Open(dlq) # {}
           \/ \E d \in abandoned : d <= copy.last /\ ~InBatch(copy, d)
  BY <1>2 DEF CopyDoneInv
<1> DEFINE F == with("recorded")
<1>9. IsFiniteSet(copy.batch) /\ IsFiniteSet(F) /\ IsFiniteSet(copy.batch \ with("stored"))
  BY FS_Subset DEF CopyType
<1>10. /\ dlq' \in Files /\ Lines(dlq) \subseteq Lines(dlq')
       /\ \A r \in F : Record("failed", r.doc, r.version, "initial") \in Lines(dlq')
       /\ \A s \in Lines(dlq') : s \in Lines(dlq) \/ \E r \in F :
            s = Record("failed", r.doc, r.version, "initial")
  <2>1. F \subseteq [doc : Docs, version : Positions] /\ dlq' = RecordAll(dlq, F) /\ dlq \in Files
    BY <1>1, <1>4 DEF FilesType
  <2>. HIDE DEF F
  <2>. QED BY <1>9, <2>1, RecordedFailures
<1>11. \A s \in Lines(dlq') : /\ s.kind = "failed" /\ s.phase = "initial"
                             /\ s.version >= Version(oplog, s.doc, stamp)
  BY <1>6, <1>8, <1>10 DEF Record
<1>12. \A s \in Lines(dlq') : s.doc \in Open(dlq')
  BY <1>10, <1>11, OpenOfFailures
<1>13. Open(dlq) \subseteq Open(dlq')
  <2>1. PopulateActiveFailedIDs(dlq) \subseteq Lines(dlq)
    BY ActiveLines DEF FilesType
  <2>. QED BY <1>10, <1>12, <2>1 DEF Open
<1>14. \A r \in F : r.doc \in Open(dlq')
  <2>1. \A r \in F : Record("failed", r.doc, r.version, "initial").doc = r.doc
    BY DEF Record
  <2>. QED BY <1>10, <1>12, <2>1
<1>15. \A r \in with("dropped") : r.doc \in abandoned'
  <2>1. \A r \in with("dropped") : o[r.doc] = "dropped"
    OBVIOUS
  <2>2. \A r \in with("stored") : o[r.doc] = "stored"
    OBVIOUS
  <2>3. \A r \in with("dropped") : r.doc \notin {s.doc : s \in with("stored")}
    BY <2>1, <2>2
  <2>. QED BY <1>1, <2>3
<1>16. \A d \in abandoned : ~InBatch(copy, d) => d \in abandoned'
  BY <1>1 DEF InBatch
<1>17. ASSUME NEW d \in Docs, d <= copy.last
       PROVE  target'[d] >= Version(oplog, d, stamp) \/ d \in Open(dlq') \cup abandoned'
  <2>1. CASE ~InBatch(copy, d)
    <3>1. target'[d] = target[d]
      BY <1>1, <2>1 DEF InBatch
    <3>. QED BY <1>8, <1>13, <1>16, <1>17, <2>1, <3>1
  <2>2. CASE InBatch(copy, d)
    <3>1. PICK r \in copy.batch : r.doc = d
      BY <2>2 DEF InBatch
    <3>2. CASE o[r.doc] = "stored"
      <4>1. (CHOOSE s \in copy.batch : s.doc = d) = r
        BY <1>6, <3>1
      <4>2. target'[d] = r.version
        BY <1>1, <3>1, <3>2, <4>1
      <4>. QED BY <1>6, <3>1, <4>2
    <3>3. CASE o[r.doc] = "recorded"
      BY <1>14, <3>1, <3>3
    <3>4. CASE o[r.doc] = "dropped"
      BY <1>15, <3>1, <3>4
    <3>. QED BY <1>5, <3>2, <3>3, <3>4
  <2>. QED BY <2>1, <2>2
<1>18. ASSUME copy'.failed > 0 \/ recorded' > 0
       PROVE  Open(dlq') # {} \/ \E d \in abandoned' : d <= copy.last
  <2>1. CASE copy.failed > 0 \/ recorded > 0
    BY <1>8, <1>13, <1>16, <2>1
  <2>2. CASE \E r \in copy.batch : o[r.doc] # "stored"
    <3>1. PICK r \in copy.batch : o[r.doc] # "stored"
      BY <2>2
    <3>2. r \in F \/ r \in with("dropped")
      BY <1>5, <3>1
    <3>. QED BY <1>6, <1>14, <1>15, <3>2
  <2>3. CASE ~(copy.failed > 0 \/ recorded > 0) /\ ~(\E r \in copy.batch : o[r.doc] # "stored")
    <3>1. copy.batch \ with("stored") = {} /\ F = {}
      BY <2>3
    <3>2. Cardinality(copy.batch \ with("stored")) = 0 /\ Cardinality(F) = 0
      BY <3>1, FS_EmptySet
    <3>3. recorded' = recorded + Cardinality(F)
      BY <1>1
    <3>4. recorded \in Nat
      BY DEF MemoryType
    <3>. QED BY <1>3, <1>4, <1>18, <2>3, <3>2, <3>3, <3>4
  <2>. QED BY <2>1, <2>2, <2>3
<1>19. \A d : ~InBatch(copy', d)
  BY <1>3 DEF InBatch
<1>20. CopyDoneInv'
  BY <1>2, <1>3, <1>11, <1>17, <1>18, <1>19 DEF CopyDoneInv
<1>. QED BY <1>7, <1>20

LEMMA CopyBegins ==
  ASSUME FilesType, CopyType, MemoryInv, StartInv, Capture
  PROVE  CopyBatchInv' /\ CopyDoneInv'
<1> USE DEF CopySteps
<1>1. /\ pc = "capture" /\ pc' \in {"begin", "open", "return"}
      /\ pc' = "begin" => NeedsCopy
      /\ UNCHANGED <<dlq, target, abandoned, copy, recorded, status>>
  BY DEF Capture
<1>2. copy = NoCopy /\ recorded = 0
  BY <1>1 DEF MemoryInv
<1>3. copy'.batch = {} /\ copy'.last = 0 /\ copy'.failed = 0 /\ recorded' = 0
  BY <1>1, <1>2 DEF NoCopy
<1>4. CASE pc' = "begin"
  <2>1. dlq.records = <<>>
    BY <1>1, <1>4 DEF NeedsCopy, StartInv
  <2>2. Lines(dlq') = {}
    BY <1>1, <2>1, EmptySequence DEF Lines
  <2>3. \A d \in Docs : ~(d <= 0)
    BY OplogAssumption DEF Docs
  <2>4. ~(0 > 0)
    OBVIOUS
  <2>5. CopyBatchInv'
    BY <1>3, <1>4 DEF CopyBatchInv
  <2>6. CopyDoneInv'
    BY <1>3, <2>2, <2>3, <2>4 DEF CopyDoneInv
  <2>. QED BY <2>5, <2>6
<1>5. CASE pc' # "begin"
  BY <1>1, <1>5 DEF CopyBatchInv, CopyDoneInv
<1>. QED BY <1>4, <1>5

LEMMA CopyInvKept ==
  ASSUME FilesType, MemoryType, CopyType, TailType, MemoryInv, StartInv, CopyBatchInv,
         CopyDoneInv, [Next]_vars
  PROVE  CopyBatchInv' /\ CopyDoneInv'
<1> USE DEF CopySteps
<1>1. CASE pc' \notin CopySteps
  BY <1>1 DEF CopyBatchInv, CopyDoneInv
<1>2. CASE /\ pc \in CopySteps
           /\ UNCHANGED <<dlq, target, abandoned, oplog, stamp, recorded>>
           /\ copy'.batch = copy.batch /\ copy'.last = copy.last /\ copy'.failed = copy.failed
           /\ pc' = "copy" /\ copy'.cursor = "open" => stamp <= copy'.opened
           /\ pc' \in {"begin", "copied"} => copy.batch = {}
  <2>1. \A d : InBatch(copy', d) <=> InBatch(copy, d)
    BY <1>2 DEF InBatch
  <2>. QED BY <1>2, <2>1 DEF CopyBatchInv, CopyDoneInv
<1>3. CASE Cancel \/ UNCHANGED vars
  <2>1. UNCHANGED <<pc, dlq, target, abandoned, oplog, stamp, recorded, copy>>
    BY <1>3 DEF Cancel, vars, liveVars, retryVars
  <2>2. CASE pc \in CopySteps
    BY <1>2, <2>1, <2>2 DEF CopyBatchInv
  <2>. QED BY <1>1, <2>1, <2>2
<1>4. CASE Change
  <2>1. UNCHANGED <<pc, dlq, target, abandoned, stamp, recorded, copy>>
    BY <1>4 DEF Change, retryVars
  <2>2. CASE pc \in CopySteps
    <3>1. PICK e \in Docs : oplog' = Append(oplog, e)
      BY <1>4 DEF Change
    <3>2. stamp \in Int /\ stamp <= Len(oplog) /\ oplog \in Seq(Docs)
      BY <2>2, CopyRanges
    <3>3. \A d : Version(oplog', d, stamp) = Version(oplog, d, stamp)
      BY <3>1, <3>2, VersionKept
    <3>4. CopyBatchInv'
      BY <2>1, <2>2, <3>3 DEF CopyBatchInv
    <3>5. CopyDoneInv'
      BY <2>1, <2>2, <3>3 DEF CopyDoneInv
    <3>. QED BY <3>4, <3>5
  <2>. QED BY <1>1, <2>1, <2>2
<1>5. CASE Capture
  BY <1>5, CopyBegins
<1>6. CASE BeginCopy
  <2>1. /\ pc = "begin" /\ pc' \in {"copy", "copied", "return"}
        /\ UNCHANGED <<dlq, target, abandoned, oplog, stamp, recorded, copy>>
    BY <1>6 DEF BeginCopy, liveVars
  <2>2. copy.cursor = "opening" /\ copy.batch = {}
    BY <2>1 DEF MemoryInv, NoCopy
  <2>. QED BY <1>2, <2>1, <2>2
<1>7. CASE OpenCursor
  <2>1. /\ pc = "copy" /\ pc' = pc
        /\ UNCHANGED <<dlq, target, abandoned, oplog, stamp, recorded>>
        /\ \E outcome \in {"open", "ended"} :
             copy' = [copy EXCEPT !.cursor = outcome, !.opened = Now]
    BY <1>7 DEF OpenCursor, CopyVars
  <2>2. /\ copy'.batch = copy.batch /\ copy'.last = copy.last /\ copy'.failed = copy.failed
        /\ copy'.opened = Now
    BY <2>1 DEF CopyType, CopyMemory
  <2>. QED BY <1>2, <2>1, <2>2 DEF FilesType
<1>8. CASE EndOfCollection \/ CursorFails \/ Resume
  <2>1. /\ pc = "copy" /\ pc' = pc
        /\ UNCHANGED <<dlq, target, abandoned, oplog, stamp, recorded>>
    BY <1>8 DEF EndOfCollection, CursorFails, Resume, CursorNext, CopyVars
  <2>2. /\ copy'.batch = copy.batch /\ copy'.last = copy.last /\ copy'.failed = copy.failed
        /\ copy'.cursor # "open"
    BY <1>8 DEF EndOfCollection, CursorFails, Resume, CopyType, CopyMemory
  <2>. QED BY <1>2, <2>1, <2>2
<1>9. CASE EndCopy
  <2>1. /\ pc = "copy" /\ pc' = "copied" /\ copy.batch = {}
        /\ UNCHANGED <<dlq, target, abandoned, oplog, stamp, recorded, copy>>
    BY <1>9 DEF EndCopy, CopyVars
  <2>. QED BY <1>2, <2>1
<1>10. CASE ReadDocument \/ InsertBatch
  BY <1>10, CopyReads, CopyInserts
<1>11. Start \/ Crash \/ Return \/ SendPanics \/ Retry \/ CaptureFails \/ SaveCopyStatus
         => pc' \notin CopySteps
  BY ExitFields, RetryFields DEF RetrySteps, Start, StartLive, StartRetry, BeginRetry,
     CaptureFails, SaveCopyStatus
<1>12. OpenTail \/ RenameStamp \/ WriteStamp \/ StopLoop \/ Drained \/ CloseQueue \/ Receive
         \/ Send \/ (\E w \in Workers : WorkerStep(w)) => pc' \notin CopySteps
  BY LoopFields, WorkerFields DEF TailSteps, Receive, Send
<1>. QED BY <1>1, <1>3, <1>4, <1>5, <1>6, <1>7, <1>8, <1>9, <1>10, <1>11, <1>12 DEF Next, LiveStep

-----------------------------------------------------------------------------
(* The retry.                                                                  *)

LEMMA RetryHeld ==
  ASSUME TempInv, \/ pc = "idle" /\ \E inv \in Invocations : StartRetry(inv)
                  \/ RetryStep /\ ~RemoveTemp
  PROVE  Held' = Held
<1>1. CASE pc = "idle" /\ \E inv \in Invocations : StartRetry(inv)
  <2>1. dlq' = Held /\ temp' = NoFile
    BY <1>1 DEF StartRetry, BeginRetry, restoreLeftoverTempDLQ, Held
  <2>. QED BY <2>1 DEF Held, NoFile
<1>2. CASE SetAside
  <2>1. pc = "setAside" /\ temp' = dlq
    BY <1>2 DEF SetAside
  <2>2. dlq.exists /\ ~temp.exists
    BY <2>1 DEF TempInv
  <2>. QED BY <2>1, <2>2 DEF Held
<1>3. CASE CannotRetry \/ RefuseMixedPhases \/ StopReplay
  <2>1. pc \in {"scan", "replay"} /\ dlq' = temp /\ temp' = NoFile
    BY <1>3 DEF CannotRetry, RefuseMixedPhases, StopReplay, RestoreOriginal
  <2>2. temp.exists
    BY <2>1 DEF TempInv
  <2>. QED BY <2>1, <2>2 DEF Held, NoFile
<1>4. CASE Scan \/ PickRecord \/ ReplaySucceeds \/ ReplayFails \/ ReplayCancelled \/ SyncState
  <2>1. pc \in {"scan", "replay"} /\ temp' = temp
    BY <1>4 DEF Scan, PickRecord, ReplaySucceeds, ReplayFails, ReplayCancelled, SyncState, Replayed
  <2>2. temp.exists
    BY <2>1 DEF TempInv
  <2>. QED BY <2>1, <2>2 DEF Held
<1>. QED BY <1>1, <1>2, <1>3, <1>4 DEF RetryStep

(* A record in the middle of its replay is the only one of its document. *)
LEMMA ReplayedRecord ==
  ASSUME FilesType, MemoryType, ReplayedInv, ReplayInv, pc = "replay", NEW r \in retry.current
  PROVE  /\ retry.current = {r} /\ r \in PopulateActiveFailedIDs(temp)
         /\ r \in Records /\ r.kind = "failed"
         /\ \A s \in PopulateActiveFailedIDs(temp) : s.doc = r.doc => s = r
         /\ Record("failed", r.doc, r.version, r.phase) = r
<1>1. /\ r \in PopulateActiveFailedIDs(temp)
      /\ \A s \in retry.current : s = r
  BY DEF ReplayedInv, ReplayInv
<1>2. /\ r \in Records /\ r.kind = "failed"
      /\ \A s \in PopulateActiveFailedIDs(temp) : s.doc = r.doc => s = r
  BY <1>1, ActiveRecords DEF FilesType
<1>3. Record("failed", r.doc, r.version, r.phase) = r
  BY <1>2 DEF Records, Record
<1>. QED BY <1>1, <1>2, <1>3

LEMMA ReplayedInvKept ==
  ASSUME FilesType, MemoryType, CopyType, TailType, MemoryInv, ReplayedInv, [Next]_vars
  PROVE  ReplayedInv'
<1>1. CASE pc' \notin {"replay", "remove"}
  BY <1>1 DEF ReplayedInv
<1>2. CASE UNCHANGED <<pc, retry, temp>>
  BY <1>2 DEF ReplayedInv
<1>3. CASE Retry /\ pc' \in {"replay", "remove"}
  <2>1. CASE Scan
    <3>1. /\ retry' = [retry EXCEPT !.failures = PopulateActiveFailedIDs(temp),
                                    !.phase = ExpectedPhase(temp)]
          /\ pc = "scan" /\ UNCHANGED temp
      BY <2>1 DEF Scan
    <3>2. /\ retry'.failures = PopulateActiveFailedIDs(temp) /\ retry'.current = retry.current
          /\ retry.current = {}
      BY <3>1 DEF MemoryType, RetryMemory, MemoryInv
    <3>. QED BY <3>1, <3>2 DEF ReplayedInv
  <2>2. CASE PickRecord \/ ReplaySucceeds \/ ReplayFails \/ ReplayCancelled \/ SyncState
    <3>1. pc \in {"replay", "remove"} /\ UNCHANGED temp
      BY <2>2 DEF PickRecord, ReplaySucceeds, ReplayFails, ReplayCancelled, SyncState, Replayed
    <3>2. \/ \E r \in retry.failures :
               retry' = [retry EXCEPT !.failures = @ \ {r}, !.current = {r}]
          \/ retry' = [retry EXCEPT !.current = {}]
          \/ retry' = CountFailure
          \/ retry' = retry
      BY <2>2 DEF PickRecord, ReplaySucceeds, ReplayFails, ReplayCancelled, SyncState, Replayed
    <3>3. \/ \E r \in retry.failures :
               retry'.failures = retry.failures \ {r} /\ retry'.current = {r}
          \/ retry'.failures = retry.failures /\ retry'.current \in {{}, retry.current}
      BY <3>2 DEF MemoryType, RetryMemory, CountFailure
    <3>4. retry'.failures \cup retry'.current \subseteq retry.failures \cup retry.current
      BY <3>3
    <3>. QED BY <3>1, <3>4 DEF ReplayedInv
  <2>. QED BY <1>3, <2>1, <2>2
           DEF Retry, RetryStep, SetAside, CannotRetry, RefuseMixedPhases, StopReplay, RemoveTemp,
               RestoreOriginal, ReturnIdle
<1>4. Cancel \/ Change \/ UNCHANGED vars => UNCHANGED <<pc, retry, temp>>
  BY DEF Cancel, Change, vars, retryVars
<1>5. Start \/ Crash \/ Return \/ SendPanics \/ Capture \/ CaptureFails \/ BeginCopy
        \/ OpenCursor \/ ReadDocument \/ EndOfCollection \/ CursorFails \/ Resume
        \/ InsertBatch \/ EndCopy \/ SaveCopyStatus => pc' \notin {"replay", "remove"}
  BY ExitFields DEF Start, StartLive, StartRetry, BeginRetry, Capture, CaptureFails, BeginCopy,
     OpenCursor, ReadDocument, EndOfCollection, CursorFails, Resume, InsertBatch, EndCopy,
     SaveCopyStatus, CursorNext
<1>6. OpenTail \/ RenameStamp \/ WriteStamp \/ StopLoop \/ Drained \/ CloseQueue \/ Receive
        \/ Send \/ (\E w \in Workers : WorkerStep(w)) => pc' \notin {"replay", "remove"}
  BY LoopFields, WorkerFields DEF TailSteps, Receive, Send
<1>. QED BY <1>1, <1>2, <1>3, <1>4, <1>5, <1>6 DEF Next, LiveStep

LEMMA ReplayInvKept ==
  ASSUME FilesType, MemoryType, CopyType, TailType, MemoryInv, TempInv, ReplayedInv, ReplayInv,
         BlockedInv, [Next]_vars
  PROVE  ReplayInv'
<1> USE DEF RetrySteps
<1>1. CASE pc' \notin RetrySteps
  BY <1>1 DEF ReplayInv
<1>2. CASE UNCHANGED <<pc, retry, status, temp, dlq, target, abandoned>>
  BY <1>2 DEF ReplayInv
<1>3. CASE Start
  <2>1. pc' \in {"capture", "idle"} \/ (pc' = "setAside" /\ retry'.status = status /\ status' = status)
    BY <1>3 DEF Start, StartLive, StartRetry, BeginRetry, Unstarted
  <2>. QED BY <1>1, <2>1 DEF ReplayInv
<1>4. CASE SetAside
  BY <1>4 DEF SetAside, ReplayInv
<1>5. CASE CannotRetry \/ RefuseMixedPhases \/ StopReplay \/ RemoveTemp
  BY <1>1, <1>5 DEF CannotRetry, RefuseMixedPhases, StopReplay, RemoveTemp, RestoreOriginal,
                    ReturnIdle
<1>6. CASE Scan
  <2>1. /\ pc = "scan" /\ pc' = "replay" /\ dlq' = HeaderOnly
        /\ retry' = [retry EXCEPT !.failures = PopulateActiveFailedIDs(temp),
                                  !.phase = ExpectedPhase(temp)]
        /\ UNCHANGED <<status, temp>>
    BY <1>6 DEF Scan
  <2>2. /\ retry'.failures = PopulateActiveFailedIDs(temp) /\ retry'.phase = ExpectedPhase(temp)
        /\ retry'.current = retry.current /\ retry'.failed = retry.failed
        /\ retry'.status = retry.status
    BY <2>1 DEF MemoryType, RetryMemory
  <2>3. retry.current = {} /\ retry.failed = 0 /\ retry.status = status
    BY <2>1 DEF MemoryInv, ReplayInv
  <2>4. Lines(dlq') = {}
    BY <2>1, EmptySequence DEF HeaderOnly, Lines
  <2>5. ~(0 > 0)
    OBVIOUS
  <2>. QED BY <2>1, <2>2, <2>3, <2>4, <2>5 DEF ReplayInv
<1>7. CASE PickRecord
  <2>1. /\ pc = "replay" /\ pc' = pc /\ retry.current = {}
        /\ UNCHANGED <<status, temp, dlq, target, abandoned>>
    BY <1>7 DEF PickRecord
  <2>2. PICK r \in retry.failures :
          retry' = [retry EXCEPT !.failures = @ \ {r}, !.current = {r}]
    BY <1>7 DEF PickRecord
  <2>3. /\ retry'.failures = retry.failures \ {r} /\ retry'.current = {r}
        /\ retry'.phase = retry.phase /\ retry'.failed = retry.failed
        /\ retry'.status = retry.status
    BY <2>2 DEF MemoryType, RetryMemory
  <2>4. retry'.failures \cup retry'.current = retry.failures \cup retry.current
    BY <2>1, <2>3
  <2>. QED BY <2>1, <2>3, <2>4 DEF ReplayInv
<1>8. CASE ReplaySucceeds \/ ReplayFails \/ ReplayCancelled
  <2>1. /\ pc = "replay" /\ pc' = pc /\ UNCHANGED <<status, temp>>
        /\ retry' = [retry EXCEPT !.current = {}] \/ retry' = CountFailure
    BY <1>8 DEF ReplaySucceeds, ReplayFails, ReplayCancelled, Replayed
  <2>2. PICK r \in retry.current :
          \/ /\ target' = [target EXCEPT ![r.doc] = r.version]
             /\ retry' = [retry EXCEPT !.current = {}] /\ UNCHANGED <<dlq, abandoned>>
          \/ /\ dlq' = WriteFailed(dlq, r.doc, r.version, r.phase)
             /\ UNCHANGED <<target, abandoned>>
          \/ abandoned' = abandoned \cup {r.doc} /\ UNCHANGED <<dlq, target>>
    BY <1>8 DEF ReplaySucceeds, ReplayFails, ReplayCancelled, Replayed
  <2>3. /\ retry.current = {r} /\ r \in PopulateActiveFailedIDs(temp)
        /\ r \in Records /\ r.kind = "failed"
        /\ \A s \in PopulateActiveFailedIDs(temp) : s.doc = r.doc => s = r
        /\ Record("failed", r.doc, r.version, r.phase) = r
    BY <2>1, ReplayedRecord
  <2>4. /\ retry'.failures = retry.failures /\ retry'.current = {}
        /\ retry'.phase = retry.phase /\ retry'.status = retry.status
    BY <2>1 DEF MemoryType, RetryMemory, CountFailure
  <2>5. /\ retry.status = status /\ retry.phase = ExpectedPhase(temp)
        /\ Lines(dlq) \subseteq PopulateActiveFailedIDs(temp)
        /\ \A s \in PopulateActiveFailedIDs(temp) :
            \/ s \in retry.failures \cup retry.current
            \/ target[s.doc] = s.version
            \/ s.doc \in Open(dlq) \cup abandoned
        /\ retry.failed > 0 => Open(dlq) \cup abandoned # {}
    BY <2>1 DEF ReplayInv
  <2>6. \A s \in PopulateActiveFailedIDs(temp) : s.doc \in Docs
    BY ActiveRecords DEF FilesType
  <2>7. r.doc \in Docs /\ r.version \in Positions /\ r.phase \in Phases /\ dlq \in Files
        /\ target \in [Docs -> Versions]
    BY <2>3 DEF Records, FilesType
  <2>8. CASE target' = [target EXCEPT ![r.doc] = r.version]
             /\ retry' = [retry EXCEPT !.current = {}] /\ UNCHANGED <<dlq, abandoned>>
    <3>1. retry'.failed = retry.failed
      BY <2>8 DEF MemoryType, RetryMemory
    <3>2. ASSUME NEW s \in PopulateActiveFailedIDs(temp)
          PROVE  \/ s \in retry.failures \/ target'[s.doc] = s.version
                 \/ s.doc \in Open(dlq) \cup abandoned
      <4>1. CASE s.doc = r.doc
        <5>1. s = r /\ target'[r.doc] = r.version
          BY <2>3, <2>7, <2>8, <4>1
        <5>. QED BY <5>1
      <4>2. CASE s.doc # r.doc
        <5>1. target'[s.doc] = target[s.doc] /\ s # r
          BY <2>6, <2>7, <2>8, <4>2
        <5>. QED BY <2>3, <2>5, <5>1
      <4>. QED BY <4>1, <4>2
    <3>. QED BY <2>1, <2>4, <2>5, <2>8, <3>1, <3>2 DEF ReplayInv
  <2>9. CASE dlq' = WriteFailed(dlq, r.doc, r.version, r.phase) /\ UNCHANGED <<target, abandoned>>
    <3>1. Open(dlq') = Open(dlq) \cup {r.doc} /\ Lines(dlq') = Lines(dlq) \cup {r}
      BY <2>3, <2>7, <2>9, RecordedFailure
    <3>2. \A s \in PopulateActiveFailedIDs(temp) :
            \/ s \in retry.failures \/ target[s.doc] = s.version
            \/ s.doc \in Open(dlq') \cup abandoned
      BY <2>3, <2>5, <3>1
    <3>3. Lines(dlq') \subseteq PopulateActiveFailedIDs(temp) /\ Open(dlq') # {}
      BY <2>3, <2>5, <3>1
    <3>. QED BY <2>1, <2>4, <2>5, <2>9, <3>2, <3>3 DEF ReplayInv
  <2>10. CASE abandoned' = abandoned \cup {r.doc} /\ UNCHANGED <<dlq, target>>
    <3>1. \A s \in PopulateActiveFailedIDs(temp) :
            \/ s \in retry.failures \/ target[s.doc] = s.version
            \/ s.doc \in Open(dlq) \cup abandoned'
      BY <2>3, <2>5, <2>10
    <3>. QED BY <2>1, <2>4, <2>5, <2>10, <3>1 DEF ReplayInv
  <2>. QED BY <2>2, <2>8, <2>9, <2>10
<1>9. CASE SyncState
  <2>1. /\ pc = "replay" /\ pc' = "remove" /\ retry.current = {} /\ retry.failures = {}
        /\ status' = IF retry.phase = "initial" /\ retry.status = "completed_with_failures"
                     THEN IF retry.failed = 0 THEN "completed" ELSE "completed_with_failures"
                     ELSE status
        /\ UNCHANGED <<dlq, temp, target, retry, abandoned>>
    BY <1>9 DEF SyncState
  <2>2. /\ retry.status = status /\ retry.phase = ExpectedPhase(temp)
        /\ retry.failed > 0 => Open(dlq) \cup abandoned # {}
    BY <2>1 DEF ReplayInv
  <2>3. ASSUME status' = "completed_with_failures" PROVE Open(dlq) \cup abandoned # {}
    <3>1. status = "completed_with_failures"
      BY <2>1, <2>2, <2>3
    <3>2. CASE retry.phase = "initial"
      <4>1. retry.failed # 0 /\ retry.failed \in Nat
        BY <2>1, <2>2, <2>3, <3>1, <3>2 DEF MemoryType, RetryMemory
      <4>. QED BY <2>2, <4>1
    <3>3. CASE retry.phase # "initial"
      <4>1. Held = temp /\ temp \in Files
        BY <2>1 DEF TempInv, Held, FilesType
      <4>2. Open(temp) \cup abandoned # {} /\ \A r \in Lines(temp) : r.phase = "initial"
        BY <3>1, <4>1 DEF BlockedInv
      <4>3. temp.records = <<>>
        <5>1. CASE temp.records # <<>>
          <6>1. temp.records \in Seq(Records)
            BY <4>1 DEF Files
          <6>2. 1 \in DOMAIN temp.records
            BY <5>1, <6>1, EmptySeq
          <6>3. temp.records[1].phase = "initial"
            BY <4>2, <6>2 DEF Lines, ToSet
          <6>. QED BY <2>2, <3>3, <5>1, <6>3 DEF ExpectedPhase
        <5>. QED BY <5>1
      <4>4. Open(temp) = {}
        BY <4>3 DEF Open, PopulateActiveFailedIDs
      <4>. QED BY <4>2, <4>4
    <3>. QED BY <3>2, <3>3
  <2>. QED BY <2>1, <2>3 DEF ReplayInv
<1>10. Cancel \/ Change \/ UNCHANGED vars => UNCHANGED <<pc, retry, status, temp, dlq, target, abandoned>>
  BY DEF Cancel, Change, vars, retryVars
<1>11. Crash \/ Return \/ SendPanics \/ Capture \/ CaptureFails \/ BeginCopy \/ OpenCursor
         \/ ReadDocument \/ EndOfCollection \/ CursorFails \/ Resume \/ InsertBatch \/ EndCopy
         \/ SaveCopyStatus => pc' \notin RetrySteps
  BY ExitFields DEF Capture, CaptureFails, BeginCopy, OpenCursor, ReadDocument, EndOfCollection,
     CursorFails, Resume, InsertBatch, EndCopy, SaveCopyStatus, CursorNext
<1>12. OpenTail \/ RenameStamp \/ WriteStamp \/ StopLoop \/ Drained \/ CloseQueue \/ Receive
         \/ Send \/ (\E w \in Workers : WorkerStep(w)) => pc' \notin RetrySteps
  BY LoopFields, WorkerFields DEF TailSteps, Receive, Send
<1>. QED BY <1>1, <1>2, <1>3, <1>4, <1>5, <1>6, <1>7, <1>8, <1>9, <1>10, <1>11, <1>12
         DEF Next, LiveStep, Retry, RetryStep

LEMMA BlockedInvKept ==
  ASSUME FilesType, MemoryType, CopyType, TailType, MemoryInv, StartInv, TempInv, CopyDoneInv,
         ReplayInv, BlockedInv, [Next]_vars
  PROVE  BlockedInv'
<1> USE DEF RetrySteps, CopySteps, TailSteps
<1>1. CASE status' # "completed_with_failures"
  BY <1>1 DEF BlockedInv
<1>2. CASE Held' = Held /\ abandoned \subseteq abandoned'
           /\ (status' = "completed_with_failures" => status = "completed_with_failures")
  BY <1>2 DEF BlockedInv
<1>3. CASE Cancel \/ Change \/ UNCHANGED vars
  BY <1>2, <1>3 DEF Cancel, Change, vars, liveVars, retryVars, Held
<1>4. CASE Crash \/ Return \/ SendPanics
  BY <1>2, <1>4, ExitFields DEF Held
<1>5. CASE Start
  <2>1. PICK inv \in Invocations : pc = "idle" /\ (StartLive(inv) \/ StartRetry(inv))
    BY <1>5 DEF Start
  <2>2. CASE StartLive(inv)
    BY <1>1, <2>2 DEF StartLive, DLQSafetyCheck
  <2>3. CASE StartRetry(inv)
    <3>1. Held' = Held
      BY <2>1, <2>3, RetryHeld
    <3>. QED BY <1>2, <2>3, <3>1 DEF StartRetry, BeginRetry
  <2>. QED BY <2>1, <2>2, <2>3
<1>6. CASE RetryStep /\ ~RemoveTemp
  <2>1. Held' = Held
    BY <1>6, RetryHeld
  <2>2. abandoned \subseteq abandoned' /\ (status' = status \/ SyncState)
    <3>1. SyncState => abandoned' = abandoned
      BY DEF SyncState
    <3>2. ReplayCancelled => abandoned \subseteq abandoned' /\ status' = status
      BY DEF ReplayCancelled
    <3>. QED BY <1>6, <3>1, <3>2
             DEF RetryStep, SetAside, CannotRetry, RefuseMixedPhases, Scan, PickRecord,
                 StopReplay, ReplaySucceeds, ReplayFails, Replayed, RestoreOriginal
  <2>3. SyncState /\ status' = "completed_with_failures" => status = "completed_with_failures"
    BY DEF SyncState, ReplayInv
  <2>. QED BY <1>2, <2>1, <2>2, <2>3
<1>7. CASE RemoveTemp
  <2>1. pc = "remove" /\ temp' = NoFile /\ UNCHANGED <<status, dlq, abandoned>>
    BY <1>7 DEF RemoveTemp
  <2>2. temp.exists /\ Held = temp /\ Held' = dlq
    BY <2>1 DEF TempInv, Held, NoFile
  <2>3. CASE status = "completed_with_failures"
    <3>1. Open(dlq) \cup abandoned # {} /\ Lines(dlq) \subseteq PopulateActiveFailedIDs(temp)
      BY <2>1, <2>3 DEF ReplayInv
    <3>2. PopulateActiveFailedIDs(temp) \subseteq Lines(temp)
      BY ActiveLines DEF FilesType
    <3>3. \A r \in Lines(temp) : r.phase = "initial"
      BY <2>2, <2>3 DEF BlockedInv
    <3>. QED BY <2>1, <2>2, <3>1, <3>2, <3>3 DEF BlockedInv
  <2>. QED BY <1>1, <2>1, <2>3
<1>8. CASE SaveCopyStatus
  <2>1. /\ pc = "copied"
        /\ status' = IF WritesState THEN CopyStatus ELSE status
        /\ abandoned \subseteq abandoned'
        /\ UNCHANGED <<dlq, temp>>
    BY <1>8 DEF SaveCopyStatus
  <2>2. status # "completed_with_failures"
    BY <2>1 DEF StartInv, IsCompleted
  <2>3. CASE status' = "completed_with_failures"
    <3>1. copy.failed > 0 \/ recorded > 0
      BY <2>1, <2>2, <2>3 DEF CopyStatus
    <3>2. /\ Open(dlq) # {} \/ abandoned # {}
          /\ \A r \in Lines(dlq) : r.phase = "initial"
      BY <2>1, <3>1 DEF CopyDoneInv
    <3>3. Held' = dlq
      BY <2>1 DEF TempInv, Held
    <3>. QED BY <2>1, <3>2, <3>3 DEF BlockedInv
  <2>. QED BY <1>1, <2>3
<1>9. Capture \/ CaptureFails \/ OpenTail \/ RenameStamp \/ WriteStamp \/ StopLoop \/ Drained
        \/ CloseQueue \/ Receive \/ Send \/ (\E w \in Workers : WorkerStep(w))
        => status' # "completed_with_failures"
  <2>1. Capture \/ CaptureFails => pc = "capture" /\ status' = status
    BY DEF Capture, CaptureFails
  <2>2. OpenTail \/ RenameStamp \/ WriteStamp \/ StopLoop \/ Drained \/ CloseQueue \/ Receive
          \/ Send \/ (\E w \in Workers : WorkerStep(w))
          => pc \in {"open"} \cup TailSteps /\ status' = status
    BY LoopFields, WorkerFields DEF Receive, Send, TailVars
  <2>. QED BY <2>1, <2>2 DEF StartInv
<1>10. BeginCopy \/ OpenCursor \/ ReadDocument \/ EndOfCollection \/ CursorFails \/ Resume
         \/ InsertBatch \/ EndCopy => status' # "completed_with_failures"
  <2>1. BeginCopy \/ OpenCursor \/ ReadDocument \/ EndOfCollection \/ CursorFails \/ Resume
         \/ InsertBatch \/ EndCopy
          => pc \in CopySteps /\ status' \in {status, "inprogress"}
    BY DEF BeginCopy, OpenCursor, ReadDocument, EndOfCollection, CursorFails, Resume, InsertBatch,
       EndCopy, CursorNext, CopyVars
  <2>. QED BY <2>1 DEF StartInv, IsCompleted
<1>. QED BY <1>1, <1>3, <1>4, <1>5, <1>6, <1>7, <1>8, <1>9, <1>10 DEF Next, LiveStep, Retry

-----------------------------------------------------------------------------
(* What a process leaves behind and finds.                                     *)

LEMMA DueOfBase ==
  ASSUME NEW log \in Seq(Docs), NEW d \in Docs, NEW p \in Int, p <= Len(log),
         NEW b \in Versions, NEW c \in Versions, b <= c
  PROVE  DueBy(log, c, d, p) <= DueBy(log, b, d, p)
<1>1. b \in Int /\ c \in Int
  BY OplogAssumption DEF Versions, Positions, None
<1>2. DueBy(log, b, d, p) \in Int /\ DueBy(log, b, d, p) >= -1 /\ Version(log, d, p) \in Int
  BY DueRange, VersionIs
<1>. QED BY <1>1, <1>2 DEF DueBy, None

LEMMA RestStays ==
  ASSUME RestInv, UNCHANGED <<oplog, base, target>>, ResumePoint' = ResumePoint, Held' = Held,
         abandoned \subseteq abandoned', Still' => Still,
         IsCompleted(status') => IsCompleted(status)
  PROVE  RestInv'
<1>1. IsCompleted(status)' => IsCompleted(status)
  BY DEF IsCompleted
<1>. QED BY <1>1 DEF RestInv

LEMMA RestInvStarted ==
  ASSUME RetryFirst, FilesType, MemoryType, TailType, MemoryInv, RestInv,
         NEW inv \in Invocations, pc = "idle", StartLive(inv)
  PROVE  RestInv'
<1>1. /\ ~temp.exists /\ temp' = temp /\ dlq' = DLQOpened(inv)
      /\ UNCHANGED <<oplog, target, stamp, backup, abandoned>>
  BY DEF StartLive
<1>2. ResumePoint' = ResumePoint /\ Held = dlq /\ Held' = dlq'
  BY <1>1 DEF ResumePoint, Held
<1>3. Still
  BY DEF MemoryInv, Still, NoTail
<1>4. dlq \in Files /\ target \in [Docs -> Versions]
  BY DEF FilesType
<1>5. dlq' \in Files
  BY <1>1, <1>4, OpenedFile, EmptyFiles DEF DLQOpened, BackupAndClearDLQ
<1>6. CASE base' = ResumePoint
  <2>1. ASSUME ResumePoint # None, NEW d \in Docs
        PROVE  Sound(oplog, base', target, dlq', d, ResumePoint)
    <3>1. /\ ResumePoint \in Versions /\ ResumePoint <= Now /\ ResumePoint \in Nat
          /\ ResumePoint \in Int /\ oplog \in Seq(Docs) /\ ResumePoint <= Len(oplog)
      <4>1. ResumePoint \in Versions /\ ResumePoint <= Now /\ oplog \in Seq(Docs)
        BY ResumePoints DEF FilesType
      <4>. QED BY <2>1, <4>1, OplogAssumption DEF Versions, Positions, None, Now
    <3>2. ResumePoint <= ResumePoint
      BY <3>1
    <3>3. DueBy(oplog, base', d, ResumePoint) = None
      BY <1>6, <3>1, <3>2, NothingDue
    <3>. QED BY <1>4, <1>5, <3>3, SoundIfNothingDue
  <2>. QED BY <1>1, <1>2, <2>1 DEF RestInv
<1>7. CASE base' = base /\ status' = status
  <2>1. CASE ~IsCompleted(status)
    BY <1>7, <2>1 DEF RestInv, IsCompleted
  <2>2. CASE IsCompleted(status)
    <3>1. dlq' = Opened(dlq)
      BY <1>1, <2>2 DEF DLQOpened
    <3>2. PopulateActiveFailedIDs(dlq') = PopulateActiveFailedIDs(dlq) /\ Open(dlq') = Open(dlq)
      BY <1>4, <3>1, OpenedFile
    <3>3. \A d, p : Sound(oplog, base, target, dlq', d, p) <=> Sound(oplog, base, target, dlq, d, p)
      BY <3>2 DEF Sound
    <3>. QED BY <1>1, <1>2, <1>3, <1>7, <2>2, <3>3 DEF RestInv
  <2>. QED BY <2>1, <2>2
<1>8. base' = ResumePoint \/ (base' = base /\ status' = status)
  BY DEF StartLive
<1>. QED BY <1>6, <1>7, <1>8

LEMMA RestInvRetried ==
  ASSUME FilesType, MemoryType, MemoryInv, TempInv, ReplayedInv, ReplayInv, RestInv,
         Retry
  PROVE  RestInv'
<1> USE DEF RetrySteps
<1>1. /\ pc \in RetrySteps /\ UNCHANGED <<oplog, base, stamp, backup, tail, invocation>>
      /\ RetryStep
  BY RetryFields DEF liveVars, Retry
<1>2. Still /\ ResumePoint' = ResumePoint
  BY <1>1 DEF MemoryInv, Still, NoTail, ResumePoint
<1>3. CASE ~RemoveTemp /\ ~ReplaySucceeds
  <2>1. Held' = Held
    BY <1>1, <1>3, RetryHeld
  <2>2. target' = target
    BY <1>1, <1>3 DEF RetryStep, SetAside, CannotRetry, RefuseMixedPhases, Scan, PickRecord,
       StopReplay, ReplayFails, ReplayCancelled, RestoreOriginal, SyncState
  <2>3. abandoned \subseteq abandoned' /\ (IsCompleted(status') => IsCompleted(status))
    <3>1. SyncState => abandoned' = abandoned /\ (status' # status => IsCompleted(status))
      BY DEF SyncState, ReplayInv, IsCompleted
    <3>2. ReplayCancelled => abandoned \subseteq abandoned' /\ status' = status
      BY DEF ReplayCancelled
    <3>. QED BY <1>1, <1>3, <3>1, <3>2
             DEF RetryStep, SetAside, CannotRetry, RefuseMixedPhases, Scan, PickRecord,
                 StopReplay, ReplayFails, RestoreOriginal
  <2>. QED BY <1>1, <1>2, <2>1, <2>2, <2>3, RestStays
<1>4. CASE ReplaySucceeds
  <2>1. /\ pc = "replay" /\ UNCHANGED <<dlq, temp, status, abandoned>>
    BY <1>4 DEF ReplaySucceeds, Replayed
  <2>2. PICK r \in retry.current : target' = [target EXCEPT ![r.doc] = r.version]
    BY <1>4 DEF ReplaySucceeds
  <2>3. Held = temp /\ Held' = temp
    BY <2>1 DEF TempInv, Held
  <2>4. r.doc \in Open(temp)
    BY <2>1, <2>2, ReplayedRecord DEF Open
  <2>5. ASSUME NEW d \in Docs, Sound(oplog, base, target, temp, d, ResumePoint)
        PROVE  Sound(oplog, base, target', temp, d, ResumePoint)
    <3>1. CASE d \in Open(temp)
      BY <2>5, <3>1 DEF Sound
    <3>2. CASE d \notin Open(temp)
      <4>1. target'[d] = target[d]
        BY <2>2, <2>4, <3>2 DEF FilesType
      <4>. QED BY <2>5, <4>1, SoundElsewhere
    <3>. QED BY <3>1, <3>2
  <2>. QED BY <1>1, <1>2, <2>1, <2>3, <2>5 DEF RestInv
<1>5. CASE RemoveTemp
  <2>1. pc = "remove" /\ temp' = NoFile /\ UNCHANGED <<status, dlq, target, abandoned>>
    BY <1>5 DEF RemoveTemp
  <2>2. Held = temp /\ Held' = dlq
    BY <2>1 DEF TempInv, Held, NoFile
  <2>3. /\ Lines(dlq) \subseteq PopulateActiveFailedIDs(temp)
        /\ \A r \in PopulateActiveFailedIDs(temp) :
             target[r.doc] = r.version \/ r.doc \in Open(dlq) \cup abandoned
    BY <2>1 DEF ReplayInv
  <2>4. PopulateActiveFailedIDs(dlq) \subseteq PopulateActiveFailedIDs(temp)
    BY <2>3, ActiveLines DEF FilesType
  <2>5. ASSUME NEW d \in Docs \ abandoned, Sound(oplog, base, target, temp, d, ResumePoint)
        PROVE  Sound(oplog, base, target, dlq, d, ResumePoint)
    <3> DEFINE due == DueBy(oplog, base, d, ResumePoint)
    <3>1. IF d \in Open(temp)
          THEN \A r \in PopulateActiveFailedIDs(temp) : r.doc = d => r.version >= due
          ELSE target[d] >= due
      BY <2>5 DEF Sound
    <3> HIDE DEF due
    <3>2. CASE d \in Open(dlq)
      <4>1. d \in Open(temp)
        BY <2>4, <3>2 DEF Open
      <4>2. \A r \in PopulateActiveFailedIDs(dlq) : r.doc = d => r.version >= due
        BY <2>4, <3>1, <4>1
      <4>. QED BY <3>2, <4>2 DEF Sound, due
    <3>3. CASE d \notin Open(dlq)
      <4>1. target[d] >= due
        <5>1. CASE d \in Open(temp)
          <6>1. PICK r \in PopulateActiveFailedIDs(temp) : r.doc = d
            BY <5>1 DEF Open
          <6>2. target[d] = r.version
            BY <2>3, <2>5, <3>3, <6>1
          <6>. QED BY <3>1, <5>1, <6>1, <6>2
        <5>. QED BY <3>1, <5>1
      <4>. QED BY <3>3, <4>1 DEF Sound, due
    <3>. QED BY <3>2, <3>3
  <2>. QED BY <1>1, <1>2, <2>1, <2>2, <2>5 DEF RestInv
<1>. QED BY <1>3, <1>4, <1>5

(* While workers run, a document is sound at the timestamp on disk if no change
   of it before that is outstanding. *)
LEMMA SoundAtResumePoint ==
  ASSUME FilesType, MemoryType, TailType, ReceivedInv, QueueInv, TailInv, ~Still,
         ResumePoint # None, NEW d \in Docs \ abandoned,
         \A n \in Outstanding : n <= ResumePoint => oplog[n] # d
  PROVE  Sound(oplog, base, target, dlq, d, ResumePoint)
<1>1. ~invocation.dryRun /\ tail.latest # None
  BY DEF Still
<1>2. /\ Pending(tail) \subseteq Outstanding
      /\ \A n \in Pending(tail) : n <= tail.latest /\ n \in Nat
  BY PendingChanges, OplogAssumption DEF Changes, Outstanding
<1>3. /\ oplog \in Seq(Docs) /\ ResumePoint \in Nat /\ ResumePoint <= Len(oplog)
      /\ tail.latest \in Nat /\ tail.latest <= Len(oplog)
  BY <1>1, Ranges
<1>4. CASE ResumePoint <= tail.latest
  <2>1. \A n \in Pending(tail) : oplog[n] = d => ResumePoint < n
    BY <1>2, <1>3
  <2>2. ResumePoint \in 0 .. tail.latest
    BY <1>3, <1>4
  <2>. QED BY <2>1, <2>2 DEF TailInv
<1>5. CASE tail.latest < ResumePoint
  <2>1. \A n \in Pending(tail) : oplog[n] # d
    BY <1>2, <1>3, <1>5
  <2>2. tail.latest \in 0 .. tail.latest
    BY <1>3
  <2>3. Sound(oplog, base, target, dlq, d, tail.latest)
    BY <2>1, <2>2 DEF TailInv
  <2>4. \A i \in 1 .. ResumePoint : tail.latest < i => oplog[i] # d
    <3>1. \A i \in 1 .. ResumePoint : tail.latest < i => i \in Outstanding
      BY <1>1, <1>3 DEF Unreceived, Outstanding
    <3>. QED BY <1>3, <3>1
  <2>5. Version(oplog, d, tail.latest) = Version(oplog, d, ResumePoint)
    <3>1. tail.latest \in Int /\ ResumePoint \in Int /\ tail.latest <= ResumePoint
      BY <1>3, <1>5
    <3>. QED BY <1>3, <2>4, <3>1, VersionStays
  <2>. QED BY <2>3, <2>5 DEF Sound, DueBy
<1>6. ResumePoint <= tail.latest \/ tail.latest < ResumePoint
  BY <1>3
<1>. QED BY <1>4, <1>5, <1>6

(* What an exit forgets are the changes that keep a document from being sound
   at the timestamp on disk. *)
LEMMA RestInvExited ==
  ASSUME FilesType, MemoryType, TailType, ReceivedInv, TempInv, QueueInv, RestInv, TailInv,
         Crash \/ Return \/ SendPanics
  PROVE  RestInv'
<1>1. /\ abandoned' = abandoned \cup Forgotten
      /\ UNCHANGED <<status, dlq, temp, target, oplog, stamp, backup, base>>
  BY ExitFields
<1>2. ResumePoint' = ResumePoint /\ Held' = Held
  BY <1>1 DEF ResumePoint, Held
<1>3. CASE Still
  BY <1>1, <1>2, <1>3, RestStays
<1>4. CASE ~Still
  <2>1. Held = dlq
    BY <1>4 DEF Still, ReceivedInv, TempInv, TailSteps, Held
  <2>2. ASSUME ResumePoint # None, NEW d \in Docs \ abandoned'
        PROVE  Sound(oplog, base, target, dlq, d, ResumePoint)
    <3>1. d \in Docs \ abandoned
      BY <1>1, <2>2
    <3>2. \A n \in Outstanding : n <= ResumePoint => oplog[n] # d
      BY <1>1, <2>2 DEF Forgotten
    <3>. QED BY <1>4, <2>2, <3>1, <3>2, SoundAtResumePoint
  <2>. QED BY <1>1, <1>2, <2>1, <2>2 DEF RestInv
<1>. QED BY <1>3, <1>4

(* A timestamp that is taken for a start is due to nobody. *)
LEMMA RestInvCaptured ==
  ASSUME FilesType, MemoryType, TailType, MemoryInv, StartInv, TempInv, RestInv, Capture
  PROVE  RestInv'
<1>1. /\ pc = "capture" /\ UNCHANGED <<status, dlq, temp, target, abandoned, oplog, backup>>
      /\ stamp' = IF KeepsStamp THEN stamp ELSE StartTimestamp
      /\ base' = IF NeedsCopy THEN None
                 ELSE IF KeepsStamp THEN Max({base, StartTimestamp})
                 ELSE IF stamp = None THEN StartTimestamp
                 ELSE base
  BY DEF Capture
<1>2. Still /\ Held' = Held
  BY <1>1 DEF MemoryInv, Still, NoTail, Held
<1>3. StartTimestamp \in Versions /\ StartTimestamp \in Nat /\ StartTimestamp <= Now
      /\ oplog \in Seq(Docs) /\ Now = Len(oplog)
  <2>1. oplog \in Seq(Docs) /\ Now = Len(oplog) /\ Now \in 0 .. MaxChanges /\ stamp \in Versions
        /\ stamp <= Now
    BY OplogAssumption DEF FilesType, Now
  <2>2. invocation.since \in Versions
    BY DEF MemoryType, Invocation
  <2>3. invocation.since <= Now
    BY <1>1 DEF StartInv
  <2>4. MaxChanges \in Nat
    BY OplogAssumption
  <2>5. Now <= Now /\ Now \in Nat /\ Now \in Versions
    BY <2>1, <2>4 DEF Versions, Positions
  <2>. QED BY <2>1, <2>2, <2>3, <2>4, <2>5 DEF StartTimestamp, Versions, Positions, None
<1>4. /\ dlq \in Files /\ temp \in Files /\ target \in [Docs -> Versions] /\ base \in Versions
      /\ Held \in Files
  BY HeldFile DEF FilesType
<1>5. CASE ~IsCompleted(status)
  BY <1>1, <1>5 DEF RestInv, IsCompleted
<1>6. CASE IsCompleted(status) /\ KeepsStamp
  <2>1. /\ ~NeedsCopy /\ base' = Max({base, StartTimestamp}) /\ ResumePoint' = ResumePoint
    BY <1>1, <1>6 DEF NeedsCopy, ResumePoint
  <2>2. base' \in Versions /\ base <= base'
    <3>1. base \in Int /\ StartTimestamp \in Int
      BY <1>3, <1>4, OplogAssumption DEF Versions, Positions, None
    <3>. QED BY <1>3, <1>4, <2>1, <3>1, MaxOfTwo
  <2>3. ASSUME ResumePoint # None, NEW d \in Docs \ abandoned
        PROVE  Sound(oplog, base', target, Held, d, ResumePoint)
    <3>1. Sound(oplog, base, target, Held, d, ResumePoint)
      BY <1>2, <1>6, <2>3 DEF RestInv
    <3>2. ResumePoint \in Int /\ ResumePoint <= Len(oplog)
      BY <1>3, ResumePoints, OplogAssumption DEF Versions, Positions, None
    <3>3. DueBy(oplog, base', d, ResumePoint) <= DueBy(oplog, base, d, ResumePoint)
      BY <1>3, <1>4, <2>2, <3>2, DueOfBase
    <3>4. DueBy(oplog, base', d, ResumePoint) \in Int /\ DueBy(oplog, base, d, ResumePoint) \in Int
      BY <1>3, <1>4, <2>2, <3>2, DueRange
    <3>. QED BY <1>4, <3>1, <3>3, <3>4, SoundWeaker
  <2>. QED BY <1>1, <1>2, <2>1, <2>3 DEF RestInv
<1>7. CASE IsCompleted(status) /\ ~KeepsStamp /\ stamp = None
  <2>1. stamp' = StartTimestamp /\ base' = StartTimestamp
    BY <1>1, <1>7 DEF NeedsCopy
  <2>2. stamp' # None
    BY <1>3, <2>1 DEF None
  <2>3. ResumePoint' = StartTimestamp
    BY <2>1, <2>2 DEF ResumePoint
  <2>4. ASSUME NEW d \in Docs
        PROVE  Sound(oplog, StartTimestamp, target, Held, d, StartTimestamp)
    <3>1. StartTimestamp \in Int /\ StartTimestamp <= StartTimestamp /\ StartTimestamp <= Len(oplog)
      BY <1>3
    <3>2. DueBy(oplog, StartTimestamp, d, StartTimestamp) = None
      BY <1>3, <3>1, NothingDue
    <3>. QED BY <1>4, <3>2, SoundIfNothingDue
  <2>. QED BY <1>1, <1>2, <2>1, <2>3, <2>4 DEF RestInv
<1>8. CASE IsCompleted(status) /\ ~KeepsStamp /\ stamp # None
  <2>1. stamp' = stamp /\ base' = base
    BY <1>1, <1>8 DEF NeedsCopy, StartTimestamp
  <2>2. ResumePoint' = ResumePoint
    BY <1>1, <2>1 DEF ResumePoint
  <2>. QED BY <1>1, <1>2, <2>1, <2>2, RestStays
<1>. QED BY <1>5, <1>6, <1>7, <1>8

(* A copy that calls itself complete. *)
LEMMA RestInvCopied ==
  ASSUME FilesType, MemoryType, CopyType, StartInv, TempInv, CopyBatchInv, CopyDoneInv,
         SaveCopyStatus
  PROVE  RestInv'
<1> USE DEF CopySteps
<1>1. /\ pc = "copied"
      /\ status' = IF WritesState THEN CopyStatus ELSE status
      /\ abandoned' = IF WritesState THEN abandoned \cup Unread(stamp) ELSE abandoned
      /\ UNCHANGED <<dlq, temp, target, oplog, stamp, backup, base>>
  BY DEF SaveCopyStatus, liveVars
<1>2. /\ stamp # None /\ base = None /\ ~IsCompleted(status)
  BY <1>1 DEF StartInv
<1>3. Held' = dlq /\ ResumePoint' = stamp
  BY <1>1, <1>2 DEF TempInv, Held, ResumePoint
<1>4. CASE ~WritesState
  BY <1>1, <1>2, <1>4 DEF RestInv, IsCompleted
<1>5. CASE WritesState
  <2>1. ASSUME NEW d \in Docs \ abandoned'
        PROVE  Sound(oplog, None, target, dlq, d, stamp)
    <3>1. d \notin Unread(stamp) /\ d \notin abandoned
      BY <1>1, <1>5, <2>1
    <3>2. /\ oplog \in Seq(Docs) /\ stamp \in Int /\ stamp <= Len(oplog) /\ None \in Versions
          /\ dlq \in Files /\ target \in [Docs -> Versions]
      BY <1>1, CopyRanges DEF FilesType, Versions
    <3>3. /\ DueBy(oplog, None, d, stamp) \in Int /\ DueBy(oplog, None, d, stamp) >= -1
          /\ DueBy(oplog, None, d, stamp) <= Version(oplog, d, stamp)
          /\ Version(oplog, d, stamp) \in Int
      BY <3>2, DueRange, VersionIs
    <3>4. CASE d > copy.last
      <4>1. VersionAt(d, stamp) = None
        BY <3>1, <3>4 DEF Unread
      <4>2. Version(oplog, d, stamp) = None
        BY <4>1 DEF VersionAt, Version
      <4>3. DueBy(oplog, None, d, stamp) = None
        BY <3>3, <4>2 DEF None
      <4>. QED BY <3>2, <4>3, SoundIfNothingDue
    <3>5. CASE d <= copy.last
      <4>1. ~InBatch(copy, d)
        BY <1>1 DEF CopyBatchInv, InBatch
      <4>2. target[d] >= Version(oplog, d, stamp) \/ d \in Open(dlq)
        BY <1>1, <3>1, <3>5, <4>1 DEF CopyDoneInv
      <4>3. ASSUME NEW r \in PopulateActiveFailedIDs(dlq), r.doc = d
            PROVE  r.version >= DueBy(oplog, None, d, stamp)
        <5>1. r \in Lines(dlq) /\ r.version \in Int
          BY <3>2, ActiveLines, OplogAssumption DEF Records, Positions
        <5>2. r.version >= Version(oplog, d, stamp)
          BY <1>1, <4>3, <5>1 DEF CopyDoneInv
        <5>. QED BY <3>3, <5>1, <5>2
      <4>4. ASSUME d \notin Open(dlq) PROVE target[d] >= DueBy(oplog, None, d, stamp)
        <5>1. target[d] \in Int
          BY OplogAssumption DEF FilesType, Versions, Positions, None
        <5>. QED BY <3>3, <4>2, <4>4, <5>1
      <4>. QED BY <4>3, <4>4 DEF Sound
    <3>6. d > copy.last \/ d <= copy.last
      BY <1>1, CopyRanges
    <3>. QED BY <3>4, <3>5, <3>6
  <2>. QED BY <1>1, <1>2, <1>3, <2>1 DEF RestInv
<1>. QED BY <1>4, <1>5

(* The stamp of a dry run moves behind changes that nobody has written. *)
LEMMA RestInvWritten ==
  ASSUME FilesType, MemoryType, TailType, ReceivedInv, RestInv, WriteStamp
  PROVE  RestInv'
<1> USE DEF TailSteps
<1>1. /\ pc \in {"write", "finalWrite"} /\ stamp' = tail.latest
      /\ tail' = [tail EXCEPT !.unsaved = 0]
      /\ abandoned' = IF invocation.dryRun
                      THEN abandoned \cup {oplog[n] : n \in (tail.after + 1) .. tail.latest}
                      ELSE abandoned
      /\ UNCHANGED <<status, dlq, temp, target, oplog, backup, base, invocation>>
  BY DEF WriteStamp, TailVars
<1>2. /\ tail'.latest = tail.latest /\ tail.latest # None /\ tail.after # None
      /\ tail.after <= ResumePoint \/ tail.after <= base
      /\ tail.after < tail.latest
  BY <1>1 DEF ReceivedInv, TailType, TailMemory
<1>3. ResumePoint' = tail.latest /\ Held' = Held
  BY <1>1, <1>2 DEF ResumePoint, Held
<1>4. CASE ~invocation.dryRun
  BY <1>1, <1>2, <1>4 DEF RestInv, Still
<1>5. CASE ~IsCompleted(status)
  BY <1>1, <1>5 DEF RestInv, IsCompleted
<1>6. CASE invocation.dryRun /\ IsCompleted(status)
  <2>1. ASSUME NEW d \in Docs \ abandoned'
        PROVE  Sound(oplog, base, target, Held, d, tail.latest)
    <3>1. /\ oplog \in Seq(Docs) /\ base \in Versions /\ base \in Int
          /\ tail.after \in Nat /\ tail.latest \in Nat /\ tail.latest <= Len(oplog)
          /\ tail.after <= Len(oplog)
          /\ ResumePoint \in Int /\ ResumePoint <= Len(oplog)
      BY <1>2, Ranges
    <3>2. \A i \in 1 .. tail.latest : tail.after < i => oplog[i] # d
      <4>1. \A i \in 1 .. tail.latest : tail.after < i => i \in (tail.after + 1) .. tail.latest
        BY <3>1
      <4>. QED BY <1>1, <1>6, <2>1, <4>1
    <3>3. Version(oplog, d, tail.after) = Version(oplog, d, tail.latest)
      <4>1. tail.after \in Int /\ tail.latest \in Int /\ tail.after <= tail.latest
        BY <1>2, <3>1
      <4>. QED BY <3>1, <3>2, <4>1, VersionStays
    <3>4. DueBy(oplog, base, d, tail.latest) = DueBy(oplog, base, d, tail.after)
      BY <3>3 DEF DueBy
    <3>5. Held \in Files /\ target \in [Docs -> Versions]
      BY HeldFile DEF FilesType
    <3>6. CASE tail.after <= ResumePoint
      <4>1. ResumePoint # None
        BY <3>1, <3>6 DEF None
      <4>2. Sound(oplog, base, target, Held, d, ResumePoint)
        BY <1>1, <1>6, <2>1, <4>1 DEF RestInv, Still
      <4>3. DueBy(oplog, base, d, tail.after) <= DueBy(oplog, base, d, ResumePoint)
        BY <3>1, <3>6, DueGrows
      <4>4. DueBy(oplog, base, d, tail.after) \in Int /\ DueBy(oplog, base, d, ResumePoint) \in Int
        BY <3>1, DueRange
      <4>. QED BY <3>4, <3>5, <4>2, <4>3, <4>4, SoundWeaker
    <3>7. CASE tail.after <= base
      <4>1. DueBy(oplog, base, d, tail.after) = None
        BY <3>1, <3>7, NothingDue
      <4>. QED BY <3>4, <3>5, <4>1, SoundIfNothingDue
    <3>. QED BY <1>2, <3>6, <3>7
  <2>. QED BY <1>1, <1>3, <2>1 DEF RestInv
<1>. QED BY <1>4, <1>5, <1>6

LEMMA RestInvKept ==
  ASSUME RetryFirst, FilesType, MemoryType, CopyType, TailType, MemoryInv, StartInv, ReceivedInv,
         TempInv, QueueInv, RestInv, TailInv, CopyBatchInv, CopyDoneInv, ReplayedInv, ReplayInv,
         [Next]_vars
  PROVE  RestInv'
<1> USE DEF RetrySteps, CopySteps, TailSteps
<1>1. CASE Cancel \/ CaptureFails \/ UNCHANGED vars
  BY <1>1, RestStays DEF Cancel, CaptureFails, vars, liveVars, retryVars, Held, ResumePoint, Still
<1>2. CASE Change
  <2>1. UNCHANGED <<base, target, status, dlq, temp, invocation, tail, abandoned, stamp, backup>>
    BY <1>2 DEF Change, retryVars
  <2>2. PICK e \in Docs : oplog' = Append(oplog, e)
    BY <1>2 DEF Change
  <2>3. ResumePoint \in Int /\ ResumePoint <= Len(oplog) /\ oplog \in Seq(Docs)
    BY Ranges
  <2>4. \A d : DueBy(oplog', base, d, ResumePoint) = DueBy(oplog, base, d, ResumePoint)
    BY <2>2, <2>3, DueKept
  <2>5. \A d : Sound(oplog', base, target, Held, d, ResumePoint)
                 <=> Sound(oplog, base, target, Held, d, ResumePoint)
    BY <2>4 DEF Sound
  <2>6. ResumePoint' = ResumePoint /\ Held' = Held /\ (Still' <=> Still)
        /\ (IsCompleted(status)' <=> IsCompleted(status))
    BY <2>1 DEF ResumePoint, Held, Still, IsCompleted
  <2>. QED BY <2>1, <2>5, <2>6 DEF RestInv
<1>3. CASE Start
  <2>1. PICK inv \in Invocations : pc = "idle" /\ (StartLive(inv) \/ StartRetry(inv))
    BY <1>3 DEF Start
  <2>2. CASE StartRetry(inv)
    <3>1. Held' = Held
      BY <2>1, <2>2, RetryHeld
    <3>2. UNCHANGED <<oplog, base, target, stamp, backup, abandoned, status>>
      BY <2>2 DEF StartRetry, BeginRetry
    <3>3. Still
      BY <2>1 DEF MemoryInv, Still, NoTail
    <3>4. ResumePoint' = ResumePoint
      BY <3>2 DEF ResumePoint
    <3>. QED BY <3>1, <3>2, <3>3, <3>4, RestStays
  <2>. QED BY <2>1, <2>2, RestInvStarted
<1>4. CASE Crash \/ Return \/ SendPanics
  BY <1>4, RestInvExited
<1>5. CASE Retry
  BY <1>5, RestInvRetried
<1>6. CASE Capture
  BY <1>6, RestInvCaptured
<1>7. CASE SaveCopyStatus
  BY <1>7, RestInvCopied
<1>8. CASE WriteStamp
  BY <1>8, RestInvWritten
<1>9. CASE BeginCopy \/ OpenCursor \/ ReadDocument \/ EndOfCollection \/ CursorFails \/ Resume
           \/ InsertBatch \/ EndCopy
  <2>1. pc \in CopySteps /\ status' \in {status, "inprogress"}
    BY <1>9 DEF BeginCopy, OpenCursor, ReadDocument, EndOfCollection, CursorFails, Resume,
       InsertBatch, EndCopy, CursorNext, CopyVars
  <2>2. ~IsCompleted(status)'
    BY <2>1 DEF StartInv, IsCompleted
  <2>. QED BY <2>2 DEF RestInv
<1>10. CASE OpenTail \/ RenameStamp \/ StopLoop \/ Drained \/ CloseQueue
  <2>1. /\ tail'.latest = tail.latest
        /\ UNCHANGED <<status, temp, dlq, target, oplog, invocation, base>>
    BY <1>10, LoopFields
  <2>2. abandoned' = abandoned
    BY <1>10 DEF OpenTail, RenameStamp, StopLoop, Drained, CloseQueue
  <2>3. ResumePoint' = ResumePoint
    BY <1>10 DEF OpenTail, RenameStamp, StopLoop, Drained, CloseQueue, ResumePoint
  <2>. QED BY <2>1, <2>2, <2>3, RestStays DEF Held, Still
<1>11. CASE Receive
  <2>1. /\ tail'.latest = NextChange /\ NextChange \in Nat
        /\ UNCHANGED <<status, temp, dlq, target, oplog, invocation, base, abandoned, stamp, backup>>
    BY <1>11, ReceiveFields
  <2>2. Still' => Still
    BY <2>1 DEF Still, None
  <2>. QED BY <2>1, <2>2, RestStays DEF Held, ResumePoint
<1>12. CASE Send
  <2>1. tail'.latest = tail.latest /\ UNCHANGED invocation
    BY <1>12, SendFields
  <2>2. ~Still
    BY <1>12 DEF Send, MemoryInv, EmptyQueues
  <2>. QED BY <2>1, <2>2 DEF RestInv, Still
<1>13. ASSUME NEW w \in Workers, WorkerStep(w) PROVE RestInv'
  <2>1. /\ tail'.latest = tail.latest
        /\ UNCHANGED <<status, temp, oplog, invocation, base, stamp, backup>>
    BY <1>13, WorkerFields
  <2>2. CASE WorkerExits(w)
    <3>1. UNCHANGED <<target, dlq, abandoned>>
      BY <2>2 DEF WorkerExits
    <3>. QED BY <2>1, <3>1, RestStays DEF Held, ResumePoint, Still
  <2>3. CASE ~WorkerExits(w)
    <3>1. tail.queue[w] # <<>> \/ tail.resolving[w] # <<>>
      BY <1>13, <2>3 DEF WorkerStep, ApplyStores, ApplyFails, ApplyCancelled, Resolve, Applies
    <3>2. ~Still
      BY <3>1 DEF MemoryInv, EmptyQueues
    <3>. QED BY <2>1, <3>2 DEF RestInv, Still
  <2>. QED BY <2>2, <2>3
<1>. QED BY <1>1, <1>2, <1>3, <1>4, <1>5, <1>6, <1>7, <1>8, <1>9, <1>10, <1>11, <1>12, <1>13
         DEF Next, LiveStep

-----------------------------------------------------------------------------
(* The invariant.                                                              *)

LEMMA InvInit ==
  ASSUME Init
  PROVE  Inv
<1> USE DEF RetrySteps, CopySteps, TailSteps
<1>1. /\ status = "none" /\ dlq = NoFile /\ temp = NoFile /\ pc = "idle"
      /\ target = [d \in Docs |-> None] /\ retry = Unstarted /\ abandoned = {}
      /\ oplog = <<>> /\ stamp = None /\ backup = None /\ base = None
      /\ invocation \in Invocations /\ copy = NoCopy /\ tail = NoTail /\ recorded = 0
  BY DEF Init, InitialFiles
<1>2. Now = 0 /\ MaxChanges \in Nat /\ None \in Versions /\ None <= 0
  BY <1>1, OplogAssumption DEF Now, None, Versions
<1>3. FilesType
  BY <1>1, <1>2, EmptyFiles DEF FilesType, Statuses
<1>4. MemoryType
  BY <1>1, OplogAssumption DEF MemoryType, RetryMemory, Unstarted, Statuses
<1>5. CopyType
  <2>1. NoCopy \in CopyMemory
    BY OplogAssumption DEF NoCopy, CopyMemory
  <2>2. NoCopy.batch = {} /\ NoCopy.opened = 0 /\ NoCopy.resumes = 0
    BY DEF NoCopy
  <2>. QED BY <1>1, <1>2, <2>1, <2>2, FS_EmptySet, OplogAssumption DEF CopyType
<1>6. /\ NoTail.after = None /\ NoTail.latest = None /\ NoTail.unsaved = 0
      /\ NoTail.sending = <<>> /\ \A w \in Workers : NoTail.queue[w] = <<>> /\ NoTail.resolving[w] = <<>>
  BY DEF NoTail
<1>7. TailType
  <2>1. NoTail \in TailMemory
    BY OplogAssumption DEF NoTail, TailMemory, Versions
  <2>. QED BY <1>1, <1>6, <2>1, OplogAssumption DEF TailType
<1>8. MemoryInv /\ StartInv /\ ReceivedInv /\ TempInv
  BY <1>1, <1>2, <1>6
     DEF MemoryInv, StartInv, ReceivedInv, TempInv, Still, EmptyQueues, Unstarted, NoFile, None
<1>9. QueueInv /\ OrderInv /\ KnownInv
  <2>1. \A w \in Workers : QueueOf(tail, w) = {} /\ ToSet(tail.resolving[w]) = {}
    BY <1>1, <1>6, EmptySequence DEF QueueOf
  <2>2. Pending(tail) = {} /\ ToSet(tail.sending) = {}
    BY <1>1, <1>6, NothingPending, EmptySequence
  <2>3. \A w \in Workers : Increasing(tail.queue[w])
    BY <1>1, <1>6, EmptySequence
  <2>. QED BY <1>1, <2>1, <2>2, <2>3 DEF QueueInv, OrderInv, KnownInv
<1>10. RestInv /\ TailInv
  BY <1>1, <1>6 DEF RestInv, TailInv, Still, IsCompleted
<1>11. CopyBatchInv /\ CopyDoneInv /\ ReplayedInv /\ ReplayInv /\ BlockedInv
  BY <1>1 DEF CopyBatchInv, CopyDoneInv, ReplayedInv, ReplayInv, BlockedInv
<1>. QED BY <1>3, <1>4, <1>5, <1>7, <1>8, <1>9, <1>10, <1>11 DEF Inv, ProcessInv

LEMMA ProcessInvStep ==
  ASSUME ProcessInv, [Next]_vars
  PROVE  ProcessInv'
<1>1. FilesType' /\ MemoryType' /\ CopyType' /\ TailType'
  BY FilesTypeKept, MemoryTypeKept, CopyTypeKept, TailTypeKept DEF ProcessInv
<1>2. MemoryInv' /\ StartInv' /\ ReceivedInv' /\ ReplayedInv' /\ QueueInv'
  BY MemoryInvKept, StartInvKept, ReceivedInvKept, ReplayedInvKept, QueueInvKept DEF ProcessInv
<1>. QED BY <1>1, <1>2 DEF ProcessInv

LEMMA InvStep ==
  ASSUME RetryFirst, Inv, [Next]_vars
  PROVE  Inv'
<1>1. ProcessInv'
  BY ProcessInvStep DEF Inv
<1>2. TempInv' /\ OrderInv' /\ KnownInv'
  BY TempInvKept, OrderInvKept, KnownInvKept DEF Inv, ProcessInv
<1>3. RestInv' /\ TailInv'
  BY RestInvKept, TailInvKept DEF Inv, ProcessInv
<1>4. CopyBatchInv' /\ CopyDoneInv' /\ ReplayInv' /\ BlockedInv'
  BY CopyInvKept, ReplayInvKept, BlockedInvKept DEF Inv, ProcessInv
<1>. QED BY <1>1, <1>2, <1>3, <1>4 DEF Inv

LEMMA Invariance ==
  ASSUME RetryFirst
  PROVE  Spec => []Inv
<1>1. Init => Inv
  BY InvInit
<1>2. Inv /\ [Next]_vars => Inv'
  BY InvStep
<1>. QED BY <1>1, <1>2, PTL DEF Spec

-----------------------------------------------------------------------------
(* What follows from it.                                                       *)

LEMMA ProcessInvTypeOK ==
  ASSUME ProcessInv
  PROVE  TypeOK
<1>1. FilesType /\ CopyType /\ TailType
  BY DEF ProcessInv
<1>2. \A file \in {dlq, temp} : \A i \in DOMAIN file.records :
       file.records[i] \in [kind : {"failed", "resolved"}, doc : Docs,
                            version : Positions, phase : Phases]
  <2>1. dlq.records \in Seq(Records) /\ temp.records \in Seq(Records)
    BY <1>1 DEF FilesType, Files
  <2>2. \A s \in Seq(Records) : \A i \in DOMAIN s : s[i] \in Records
    OBVIOUS
  <2>3. \A file \in {dlq, temp} : \A i \in DOMAIN file.records : file.records[i] \in Records
    BY <2>1, <2>2
  <2>. QED BY <2>3 DEF Records
<1>3. copy.last \in 0 .. NumDocs /\ copy.resumes \in 0 .. (MaxResumes + 1)
      /\ Cardinality(copy.batch) <= BatchSize
  <2>1. copy.last \in 0 .. NumDocs /\ copy.resumes \in Nat /\ copy.resumes <= MaxResumes + 1
        /\ Cardinality(copy.batch) <= BatchSize
    BY <1>1 DEF CopyType, CopyMemory
  <2>. QED BY <2>1, OplogAssumption
<1>4. retry.current \subseteq PopulateActiveFailedIDs(temp)
  <2>1. pc \in {"replay", "remove"} => retry.current \subseteq PopulateActiveFailedIDs(temp)
    BY DEF ProcessInv, ReplayedInv
  <2>2. pc \notin {"replay", "remove"} => retry.current = {}
    BY DEF ProcessInv, MemoryInv
  <2>. QED BY <2>1, <2>2
<1>5. {stamp, backup, base} \subseteq Versions /\ status \in Statuses
      /\ target \in [Docs -> Versions] /\ abandoned \subseteq Docs
  BY <1>1 DEF FilesType
<1>6. tail.unsaved <= SaveThreshold /\ \A w \in Workers : Len(tail.queue[w]) <= QueueSize
  BY <1>1 DEF TailType
<1>. QED BY <1>2, <1>3, <1>4, <1>5, <1>6 DEF TypeOK

LEMMA InvAccountedFor ==
  ASSUME Inv
  PROVE  AccountedFor
<1>1. SUFFICES ASSUME IsCompleted(status), ResumePoint # None, NEW d \in Docs \ abandoned,
                      \A n \in Outstanding : oplog[n] # d
               PROVE  target[d] >= Due(d) \/ d \in Open(dlq) \cup Open(temp)
  BY DEF AccountedFor, AccountedForExcept, IsCompleted
<1>2. Due(d) = DueBy(oplog, base, d, ResumePoint)
  BY DEF Due, DueBy, VersionAt, Version
<1>3. CASE Still
  <2>1. Sound(oplog, base, target, Held, d, ResumePoint)
    BY <1>1, <1>3 DEF Inv, RestInv
  <2>. QED BY <1>2, <2>1 DEF Sound, Held
<1>4. CASE ~Still
  <2>1. Sound(oplog, base, target, dlq, d, ResumePoint)
    BY <1>1, <1>4, SoundAtResumePoint DEF Inv, ProcessInv
  <2>. QED BY <1>2, <2>1 DEF Sound
<1>. QED BY <1>3, <1>4

LEMMA InvBlockedHasRecord ==
  ASSUME Inv
  PROVE  BlockedHasRecord
BY DEF Inv, BlockedInv, BlockedHasRecord, Held

(* OplogReplication, type correctness: whatever is started, cancelled or killed,
   and however often, the two DLQ files, the state file and the timestamps stay in
   their formats, a batch, a queue and the count of unsaved changes within their
   limits, and the record that reprocessDLQ replays is an open failure of the file
   it has set aside. *)
THEOREM OplogTypeCorrect == Spec => []TypeOK
<1>1. Init => ProcessInv
  BY InvInit DEF Inv
<1>2. ProcessInv /\ [Next]_vars => ProcessInv'
  BY ProcessInvStep
<1>3. ProcessInv => TypeOK
  BY ProcessInvTypeOK
<1>. QED BY <1>1, <1>2, <1>3, PTL DEF Spec

(* initial_migrator.go, tailOplog, reprocessDLQ together: in every state, after any
   number of starts, crashes and retries, what lies at or before the timestamp on
   disk, once a copy is complete, is on the target, or on record as a failure, or
   still before the running process, but for the documents that the code is known
   to give up. *)
THEOREM NothingIsLost ==
  ASSUME RetryFirst
  PROVE  Spec => []AccountedFor
<1>1. Inv => AccountedFor
  BY InvAccountedFor
<1>. QED BY <1>1, Invariance, PTL

(* A state file of "completed with failures", which refuses every start, always has
   a failure on record that a retry can deal with, unless a cancellation kept the
   last failure off the record. *)
THEOREM BlockedStartsHaveRecords ==
  ASSUME RetryFirst
  PROVE  Spec => []BlockedHasRecord
<1>1. Inv => BlockedHasRecord
  BY InvBlockedHasRecord
<1>. QED BY <1>1, Invariance, PTL
=============================================================================
