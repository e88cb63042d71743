----------------------- MODULE ParallelBackfillProofs -----------------------
(***************************************************************************)
(* Proofs about ParallelBackfill, for collections of any length, any       *)
(* counts of their documents, any number of partitions, workers and        *)
(* failures, and any number of starts that are stopped at any step: when   *)
(* the partitioner cuts in order, nothing is skipped, what is marked       *)
(* completed is complete, and no document is read by two partitions.       *)
(*                                                                         *)
(* A checkpoint is read as the set of documents its ranges still ask for.  *)
(* The invariant says that this set covers what is missing, in each of the *)
(* three places where the progress lives in turn: the files of a complete  *)
(* set (FilesInv), the safe _ids of a plan that has been made and whose    *)
(* files are being deleted (PlanInv), and the partitions of a run (RunInv).*)
(*                                                                         *)
(* The last section shows which collections are cut in order.              *)
(***************************************************************************)
EXTENDS ParallelBackfill, Extrema, SequenceTheorems, FiniteSetTheorems

(* Each collection is one that a resumption can cope with. *)
CutsInOrder == \A c \in Collections : CutInOrder(c)

Settled == handled \cup ignored

(* The documents a bookmarked range still asks for. *)
AtLeast(b, x) == b # Nil => b.val <= x.val
InRange(b, x) == AtLeast(LowerBound(b), x) /\ (b.end # Nil => x.val < b.end.val)
Due(k) == {d \in Docs(coll) : /\ TypeOf(coll, d) \in DOMAIN k.progress
                              /\ InRange(k.progress[TypeOf(coll, d)], coll.id[d])}

IsBound(b, t) == b = Nil \/ (b.type = t /\ b.val \in Int)
Sound(b, t) ==
  /\ b = Progress(b.start, b.end, b.saved)
  /\ IsBound(b.start, t) /\ IsBound(b.end, t) /\ IsBound(b.saved, t)
  /\ b.start # Nil /\ b.end # Nil => b.start.val <= b.end.val
  /\ b.start # Nil /\ b.saved # Nil => b.start.val <= b.saved.val
SoundCheckpoint(k) ==
  k.completed \in BOOLEAN /\ \A t \in DOMAIN k.progress : Sound(k.progress[t], t)
Before(k, l) ==
  \A t \in DOMAIN k.progress \cap DOMAIN l.progress :
    /\ k.progress[t].end # Nil /\ l.progress[t].start # Nil
    /\ k.progress[t].end.val <= l.progress[t].start.val

-----------------------------------------------------------------------------
(* The files. *)
Keys ==
  \A f \in DOMAIN files :
    /\ f[2] \in Nat /\ f[1] \in 1 .. f[2] /\ f = <<f[1], f[2]>>
    /\ \A g \in DOMAIN files : g[2] = f[2]
SoundFiles ==
  \A f \in DOMAIN files :
    /\ SoundCheckpoint(files[f])
    /\ \A g \in DOMAIN files : f[2] = g[2] /\ f[1] < g[1] => Before(files[f], files[g])
OnDisk(n) == \A d \in Docs(coll) \ Settled :
               \E i \in 1 .. n : ~ files[<<i, n>>].completed /\ d \in Due(files[<<i, n>>])
FilesInv == Keys /\ SoundFiles /\ \A n \in Nat : ValidSet(n) => OnDisk(n)

(* The plan. *)
SafeMin(min) ==
  /\ \A t \in DOMAIN min : t \in CandidateBSONTypes /\ IsBound(min[t], t)
  /\ \A d \in Docs(coll) \ Settled :
       TypeOf(coll, d) \in DOMAIN min /\ AtLeast(min[TypeOf(coll, d)], coll.id[d])
PlanInv ==
  /\ plan.mode \in {"fresh", "direct", "resample"}
  /\ DOMAIN plan.min \subseteq CandidateBSONTypes
  /\ phase = "delete" /\ plan.mode = "direct" => Splits # 0
  /\ phase = "delete" /\ plan.mode = "resample" => SafeMin(plan.min)

(* The run. *)
Lists ==
  /\ Len(cp) \in Nat /\ DOMAIN cp = 1 .. Len(cp)
  /\ DOMAIN unread = DOMAIN cp /\ DOMAIN open = DOMAIN cp
  /\ DOMAIN failed = DOMAIN cp /\ DOMAIN acked = DOMAIN cp
  /\ reading \subseteq DOMAIN cp
  /\ phase # "work" => DOMAIN cp = {}

Part(p) ==
  /\ SoundCheckpoint(cp[p])
  /\ unread[p] \cup open[p] \cup acked[p] \subseteq Due(cp[p])
  /\ \A d \in open[p] \cup acked[p] : \A e \in unread[p] : d < e
  /\ open[p] \cap acked[p] = {} /\ failed[p] \subseteq open[p]
  /\ failed[p] \cap handled = {} /\ acked[p] \subseteq handled
  /\ Cardinality(open[p]) <= MaxInFlight
  /\ cp[p].completed => unread[p] = {} /\ open[p] \subseteq Settled

Sorted == \A p, q \in DOMAIN cp : p < q => Before(cp[p], cp[q])
Stored == phase = "work" => \A f \in DOMAIN files : f[2] = Len(cp) /\ files[f] = cp[f[1]]

RunInv ==
  /\ Lists /\ (\A p \in DOMAIN cp : Part(p)) /\ Sorted /\ PartitionsAreDisjoint
  /\ Stored /\ NothingSkipped

Basics ==
  /\ coll \in Collections /\ phase \in {"plan", "delete", "work", "returned"}
  /\ handled \subseteq Docs(coll) /\ ignored \subseteq Docs(coll)

IInv == Basics /\ FilesInv /\ PlanInv /\ RunInv

-----------------------------------------------------------------------------
(* The _ids of a collection are in order within their type, and none is Nil. *)
LEMMA Ids ==
  ASSUME NEW c \in Collections
  PROVE  /\ Len(c.id) \in Nat
         /\ \A d \in Docs(c) : /\ d \in Nat /\ c.id[d].val \in Int /\ c.id[d].type = TypeOf(c, d)
                               /\ c.id[d] # Nil
         /\ \A d, e \in Docs(c) : d < e /\ TypeOf(c, d) = TypeOf(c, e) => c.id[d].val < c.id[e].val
<1> DEFINE I == [type : STRING \ {""}, val : Int]
<1>1. c.id \in Seq(I)
  BY ParallelBackfillAssumption
<1>2. ASSUME NEW x \in I PROVE x.val \in Int /\ x.type # ""
  BY DEF I
<1>. HIDE DEF I
<1>3. Len(c.id) \in Nat /\ \A d \in 1 .. Len(c.id) : c.id[d] \in I
  BY <1>1, ElementOfSeq, LenProperties
<1>4. \A d \in Docs(c) : d \in Nat /\ c.id[d].val \in Int /\ c.id[d].type # ""
  <2>1. TAKE d \in Docs(c)
  <2>2. d \in 1 .. Len(c.id)
    BY <2>1 DEF Docs
  <2>3. c.id[d] \in I /\ d \in Nat
    BY <1>3, <2>2
  <2>. QED BY <1>2, <2>3
<1>5. Nil.type = ""
  BY DEF Nil
<1>. QED BY <1>3, <1>4, <1>5, ParallelBackfillAssumption DEF TypeOf

LEMMA FiniteDocs ==
  ASSUME NEW c \in Collections
  PROVE  IsFiniteSet(Docs(c))
<1>1. 1 \in Int /\ Len(c.id) \in Int
  BY Ids
<1>2. IsFiniteSet(1 .. Len(c.id))
  BY <1>1, FS_Interval
<1>. QED BY <1>2 DEF Docs

(* The length of a function that is a list. *)
LEMMA ListLength ==
  ASSUME NEW n \in Nat, NEW s, s = [i \in 1 .. n |-> s[i]]
  PROVE  Len(s) = n /\ DOMAIN s = 1 .. n
<1> DEFINE S == {s[i] : i \in 1 .. n}
<1>1. s \in [1 .. n -> S]
  OBVIOUS
<1>2. s \in Seq(S)
  BY <1>1
<1>. HIDE DEF S
<1>. QED BY <1>1, <1>2

(* The files of one number of partitions. *)
LEMMA SetOfFiles ==
  ASSUME NEW n \in Nat, ValidSet(n)
  PROVE  /\ n # 0 /\ DOMAIN files = (1 .. n) \X {n}
         /\ \A i \in 1 .. n : <<i, n>> \in DOMAIN files
         /\ <<1, n>> \in DOMAIN files
<1>1. n > 0 /\ DOMAIN files = (1 .. n) \X {n}
  BY DEF ValidSet
<1>. QED BY <1>1

(* Documents of a run are in range of the checkpoints of their own partition. *)
LEMMA DueTyped ==
  ASSUME NEW k, NEW d \in Due(k)
  PROVE  /\ d \in Docs(coll) /\ TypeOf(coll, d) \in DOMAIN k.progress
         /\ InRange(k.progress[TypeOf(coll, d)], coll.id[d])
BY DEF Due

(* Two ranges, one of which ends where the other begins, have no document in common. *)
LEMMA RangesAreDisjoint ==
  ASSUME coll \in Collections, NEW k, NEW l, SoundCheckpoint(k), SoundCheckpoint(l), Before(k, l)
  PROVE  Due(k) \cap Due(l) = {}
<1>. SUFFICES ASSUME NEW d \in Due(k), d \in Due(l) PROVE FALSE
  OBVIOUS
<1> DEFINE t == TypeOf(coll, d)
           x == coll.id[d]
           a == k.progress[t]
           b == l.progress[t]
<1>1. /\ d \in Docs(coll) /\ t \in DOMAIN k.progress /\ t \in DOMAIN l.progress
      /\ InRange(a, x) /\ InRange(b, x)
  BY DEF Due
<1>2. x.val \in Int
  BY <1>1, Ids
<1>3. a.end # Nil /\ b.start # Nil /\ a.end.val <= b.start.val
  BY <1>1 DEF Before
<1>4. Sound(a, t) /\ Sound(b, t)
  BY <1>1 DEF SoundCheckpoint
<1>. HIDE DEF t, x, a, b
<1>5. a.end.val \in Int /\ b.start.val \in Int /\ x.val < a.end.val
  BY <1>1, <1>3, <1>4 DEF InRange, Sound, IsBound
<1>6. b.start.val <= x.val
  <2>1. CASE b.saved = Nil
    BY <1>1, <1>3, <2>1 DEF InRange, AtLeast, LowerBound
  <2>2. CASE b.saved # Nil
    <3>1. b.saved.val <= x.val /\ b.start.val <= b.saved.val /\ b.saved.val \in Int
      BY <1>1, <1>3, <1>4, <2>2 DEF InRange, AtLeast, LowerBound, Sound, IsBound
    <3>. QED BY <1>2, <1>5, <3>1
  <2>. QED BY <2>1, <2>2
<1>. QED BY <1>2, <1>3, <1>5, <1>6

-----------------------------------------------------------------------------
(* What Save does, seen from its partition: the range moves up to the last document
   of the acknowledged prefix, and every document behind that prefix stays in it. *)
Saves(p, done, pending, finished) ==
  LET k == cp'[p]
      prefix == AckedPrefix(done, pending)
  IN /\ cp' = [cp EXCEPT ![p] = k]
     /\ DOMAIN files' = DOMAIN files \cup {<<p, Len(cp)>>}
     /\ files'[<<p, Len(cp)>>] = k
     /\ \A f \in DOMAIN files : f # <<p, Len(cp)>> => files'[f] = files[f]
     /\ acked' = [acked EXCEPT ![p] = done \ prefix]
     /\ k.completed = (cp[p].completed \/ finished)
     /\ DOMAIN k.progress = DOMAIN cp[p].progress
     /\ \A t \in DOMAIN k.progress :
          LET b == k.progress[t]
              c == cp[p].progress[t]
              ofType == prefix \cap DocsOfType(coll, t)
          IN \/ b = c
             \/ ofType # {} /\ b = Progress(c.start, c.end, coll.id[Max(ofType)])

LEMMA SaveIs ==
  ASSUME NEW p \in DOMAIN cp, SoundCheckpoint(cp[p]), NEW done, done \subseteq Due(cp[p]),
         NEW pending, NEW finished,
         Save(p, done, pending, finished)
  PROVE  Saves(p, done, pending, finished)
<1> DEFINE prefix == AckedPrefix(done, pending)
           ofType(t) == prefix \cap DocsOfType(coll, t)
           before(t) == IF t \in DOMAIN cp[p].progress THEN cp[p].progress[t]
                                                       ELSE Progress(Nil, Nil, Nil)
           types == DOMAIN cp[p].progress \cup {TypeOf(coll, d) : d \in prefix}
           progress == [t \in types |->
              IF ofType(t) = {} THEN before(t)
              ELSE [before(t) EXCEPT !.saved = coll.id[Max(ofType(t))]]]
           k == [completed |-> cp[p].completed \/ finished, progress |-> progress]
           f == <<p, Len(cp)>>
<1>1. /\ cp' = [cp EXCEPT ![p] = k]
      /\ files' = [g \in DOMAIN files \cup {f} |-> IF g = f THEN k ELSE files[g]]
      /\ acked' = [acked EXCEPT ![p] = done \ prefix]
  BY DEF Save
<1>2. types = DOMAIN cp[p].progress
  BY DEF AckedPrefix, Due
<1>3. DOMAIN progress = DOMAIN cp[p].progress
  BY <1>2
<1>4. k.completed = (cp[p].completed \/ finished) /\ k.progress = progress
  OBVIOUS
<1>5. \A t \in DOMAIN progress :
        LET c == cp[p].progress[t] IN
          \/ progress[t] = c
          \/ ofType(t) # {} /\ progress[t] = Progress(c.start, c.end, coll.id[Max(ofType(t))])
  <2>. SUFFICES ASSUME NEW t \in DOMAIN progress
                PROVE  LET c == cp[p].progress[t] IN
                         \/ progress[t] = c
                         \/ /\ ofType(t) # {}
                            /\ progress[t] = Progress(c.start, c.end, coll.id[Max(ofType(t))])
    OBVIOUS
  <2> DEFINE c == cp[p].progress[t]
             m == coll.id[Max(ofType(t))]
  <2>2. before(t) = c /\ c = Progress(c.start, c.end, c.saved)
    BY <1>3 DEF SoundCheckpoint, Sound
  <2>3. progress[t] = IF ofType(t) = {} THEN c ELSE [c EXCEPT !.saved = m]
    BY <2>2
  <2>. HIDE DEF c, m, progress
  <2>4. [c EXCEPT !.saved = m] = Progress(c.start, c.end, m)
    BY <2>2 DEF Progress
  <2>5. \/ progress[t] = c
        \/ ofType(t) # {} /\ progress[t] = Progress(c.start, c.end, m)
    BY <2>3, <2>4
  <2>. QED BY <2>5 DEF c, m
<1>. HIDE DEF k, f
<1>6. /\ DOMAIN files' = DOMAIN files \cup {f} /\ files'[f] = k
      /\ \A g \in DOMAIN files : g # f => files'[g] = files[g]
  BY <1>1
<1>7. cp'[p] = k
  BY <1>1
<1>. QED BY <1>1, <1>3, <1>4, <1>5, <1>6, <1>7 DEF Saves, f

LEMMA SavedRange ==
  ASSUME coll \in Collections, NEW p \in DOMAIN cp, SoundCheckpoint(cp[p]),
         NEW done, done \subseteq Due(cp[p]), NEW pending, NEW finished \in BOOLEAN,
         Saves(p, done, pending, finished)
  PROVE  /\ SoundCheckpoint(cp'[p])
         /\ \A d \in Due(cp[p]) :
              (\A e \in AckedPrefix(done, pending) : e < d) => d \in Due(cp'[p])
<1> DEFINE k == cp'[p]
           prefix == AckedPrefix(done, pending)
           ofType(t) == prefix \cap DocsOfType(coll, t)
<1>1. /\ k.completed = (cp[p].completed \/ finished)
      /\ DOMAIN k.progress = DOMAIN cp[p].progress
      /\ \A t \in DOMAIN k.progress :
           LET b == k.progress[t]
               c == cp[p].progress[t]
           IN \/ b = c
              \/ ofType(t) # {} /\ b = Progress(c.start, c.end, coll.id[Max(ofType(t))])
  BY DEF Saves
<1>2. ASSUME NEW t \in DOMAIN k.progress, ofType(t) # {}
      PROVE  LET m == Max(ofType(t)) IN
               /\ m \in prefix /\ m \in Due(cp[p]) /\ TypeOf(coll, m) = t
               /\ coll.id[m].type = t /\ coll.id[m].val \in Int /\ coll.id[m] # Nil
  <2> DEFINE S == ofType(t)
  <2>1. Len(coll.id) \in Nat /\ S \in SUBSET (0 .. Len(coll.id))
    BY Ids DEF DocsOfType, Docs
  <2>2. Max(S) \in S
    <3>. HIDE DEF S
    <3>. QED BY <1>2, <2>1, MaxInRange DEF S
  <2>. QED BY <2>2, Ids DEF AckedPrefix, Due, DocsOfType
<1>. HIDE DEF ofType
<1>3. ASSUME NEW t \in DOMAIN k.progress
      PROVE  /\ Sound(k.progress[t], t)
             /\ \A d \in Due(cp[p]) :
                  TypeOf(coll, d) = t /\ (\A e \in prefix : e < d) =>
                    InRange(k.progress[t], coll.id[d])
  <2> DEFINE b == k.progress[t]
             c == cp[p].progress[t]
             m == Max(ofType(t))
  <2>1. Sound(c, t) /\ c = Progress(c.start, c.end, c.saved)
    BY <1>1 DEF SoundCheckpoint, Sound
  <2>2. \A d \in Due(cp[p]) :
          TypeOf(coll, d) = t => InRange(c, coll.id[d]) /\ coll.id[d].val \in Int
    BY Ids DEF Due
  <2>3. CASE b = c
    BY <2>1, <2>2, <2>3
  <2>4. CASE ofType(t) # {} /\ b = Progress(c.start, c.end, coll.id[m])
    <3> DEFINE x == coll.id[m]
    <3>1. /\ m \in prefix /\ m \in Due(cp[p]) /\ TypeOf(coll, m) = t
          /\ x.type = t /\ x.val \in Int /\ x # Nil
      BY <1>2, <2>4
    <3>2. b = Progress(c.start, c.end, x) /\ InRange(c, x)
      BY <2>2, <2>4, <3>1
    <3>3. ASSUME NEW d \in Due(cp[p]), TypeOf(coll, d) = t, \A e \in prefix : e < d
          PROVE  x.val < coll.id[d].val
      <4>1. m < d /\ m \in Docs(coll) /\ d \in Docs(coll)
        BY <3>1, <3>3 DEF Due
      <4>. QED BY <3>1, <3>3, <4>1, Ids
    <3>. HIDE DEF b, c, m, x, prefix
    <3>4. b.start = c.start /\ b.end = c.end /\ b.saved = x
      BY <3>2 DEF Progress
    <3>5. c.start # Nil => c.start.val <= x.val
      <4>. SUFFICES ASSUME c.start # Nil PROVE c.start.val <= x.val
        OBVIOUS
      <4>1. c.start.val \in Int
        BY <2>1 DEF Sound, IsBound
      <4>2. CASE c.saved = Nil
        BY <3>2, <4>2 DEF InRange, AtLeast, LowerBound
      <4>3. CASE c.saved # Nil
        <5>1. c.saved.val <= x.val /\ c.start.val <= c.saved.val /\ c.saved.val \in Int
          BY <2>1, <3>2, <4>3 DEF InRange, AtLeast, LowerBound, Sound, IsBound
        <5>. QED BY <3>1, <4>1, <5>1
      <4>. QED BY <4>2, <4>3
    <3>6. Sound(b, t)
      <4>1. b = Progress(b.start, b.end, b.saved)
        BY <3>2, <3>4
      <4>2. IsBound(b.start, t) /\ IsBound(b.end, t) /\ IsBound(b.saved, t)
        BY <2>1, <3>1, <3>4 DEF Sound, IsBound
      <4>3. b.start # Nil /\ b.end # Nil => b.start.val <= b.end.val
        BY <2>1, <3>4 DEF Sound
      <4>. QED BY <3>4, <3>5, <4>1, <4>2, <4>3 DEF Sound
    <3>7. ASSUME NEW d \in Due(cp[p]), TypeOf(coll, d) = t, \A e \in prefix : e < d
          PROVE  InRange(b, coll.id[d])
      <4>1. x.val < coll.id[d].val /\ InRange(c, coll.id[d]) /\ coll.id[d].val \in Int
        BY <2>2, <3>3, <3>7
      <4>2. AtLeast(LowerBound(b), coll.id[d])
        BY <3>1, <3>4, <4>1 DEF LowerBound, AtLeast
      <4>. QED BY <3>4, <4>1, <4>2 DEF InRange
    <3>. QED BY <3>6, <3>7 DEF b
  <2>5. b = c \/ (ofType(t) # {} /\ b = Progress(c.start, c.end, coll.id[m]))
    BY <1>1
  <2>. QED BY <2>3, <2>4, <2>5
<1>4. SoundCheckpoint(k)
  <2>1. cp[p].completed \in BOOLEAN
    BY DEF SoundCheckpoint
  <2>2. (cp[p].completed \/ finished) \in BOOLEAN
    OBVIOUS
  <2>. QED BY <1>1, <1>3, <2>2 DEF SoundCheckpoint
<1>5. ASSUME NEW d \in Due(cp[p]), \A e \in prefix : e < d
      PROVE  d \in Due(k)
  <2>1. d \in Docs(coll) /\ TypeOf(coll, d) \in DOMAIN k.progress
    BY <1>1 DEF Due
  <2>2. InRange(k.progress[TypeOf(coll, d)], coll.id[d])
    BY <1>3, <1>5, <2>1
  <2>. QED BY <2>1, <2>2 DEF Due
<1>. QED BY <1>4, <1>5

-----------------------------------------------------------------------------
(* While partitions are read, the files are the checkpoints of some of them; when
   all are there they ask for whatever is still with a partition. *)
LEMMA RunOnDisk ==
  Basics /\ Keys /\ RunInv /\ phase = "work" => FilesInv
<1>. SUFFICES ASSUME Basics, Keys, RunInv, phase = "work" PROVE FilesInv
  OBVIOUS
<1>1. /\ Len(cp) \in Nat /\ DOMAIN cp = 1 .. Len(cp)
      /\ \A f \in DOMAIN files : f[2] = Len(cp) /\ files[f] = cp[f[1]] /\ f[1] \in DOMAIN cp
  BY DEF RunInv, Lists, Stored, Keys
<1>2. SoundFiles
  <2>1. \A p \in DOMAIN cp : SoundCheckpoint(cp[p])
    BY DEF RunInv, Part
  <2>2. \A p, q \in DOMAIN cp : p < q => Before(cp[p], cp[q])
    BY DEF RunInv, Sorted
  <2>. QED BY <1>1, <2>1, <2>2 DEF SoundFiles
<1>3. ASSUME NEW n \in Nat, ValidSet(n), NEW d \in Docs(coll) \ Settled
      PROVE  \E i \in 1 .. n : ~ files[<<i, n>>].completed /\ d \in Due(files[<<i, n>>])
  <2>1. /\ <<1, n>> \in DOMAIN files
        /\ \A i \in 1 .. n : <<i, n>> \in DOMAIN files
    BY <1>3, SetOfFiles
  <2>2. <<1, n>>[2] = n
    OBVIOUS
  <2>3. n = Len(cp)
    BY <1>1, <2>1, <2>2
  <2>4. PICK p \in DOMAIN cp : d \in unread[p] \cup open[p]
    BY <1>3 DEF RunInv, NothingSkipped, Settled
  <2>5. d \in Due(cp[p]) /\ ~ cp[p].completed
    BY <1>3, <2>4 DEF RunInv, Part
  <2>6. files[<<p, n>>] = cp[<<p, n>>[1]] /\ p \in 1 .. n
    BY <1>1, <2>1, <2>3
  <2>. QED BY <2>5, <2>6
<1>. QED BY <1>2, <1>3 DEF FilesInv, OnDisk

-----------------------------------------------------------------------------
(* A step of one partition. *)
Elsewhere(p) ==
  /\ coll' = coll /\ phase' = phase /\ plan' = plan
  /\ DOMAIN cp' = DOMAIN cp /\ Len(cp') = Len(cp)
  /\ DOMAIN unread' = DOMAIN unread /\ DOMAIN open' = DOMAIN open
  /\ DOMAIN failed' = DOMAIN failed /\ DOMAIN acked' = DOMAIN acked
  /\ reading' \subseteq reading
  /\ \A q \in DOMAIN cp \ {p} :
       /\ cp'[q] = cp[q] /\ unread'[q] = unread[q] /\ open'[q] = open[q]
       /\ failed'[q] = failed[q] /\ acked'[q] = acked[q]

SameBounds(k, l) ==
  /\ DOMAIN l.progress = DOMAIN k.progress
  /\ \A t \in DOMAIN k.progress : l.progress[t].start = k.progress[t].start
                                /\ l.progress[t].end = k.progress[t].end

(* Nothing gets into the hands of the partition, and only what is settled out of them. *)
KeepsDocs(p) ==
  /\ unread'[p] \cup open'[p] \cup acked'[p] \subseteq unread[p] \cup open[p] \cup acked[p]
  /\ unread[p] \cup open[p] \subseteq unread'[p] \cup open'[p] \cup Settled'

LEMMA LocalStep ==
  ASSUME IInv, NEW p \in DOMAIN cp, Elsewhere(p), KeepsDocs(p),
         handled' = handled, ignored \subseteq ignored', ignored' \subseteq Docs(coll),
         Part(p)', SameBounds(cp[p], cp'[p]), Stored', Keys'
  PROVE  IInv'
<1>1. phase = "work" /\ phase' = "work"
  BY DEF IInv, RunInv, Lists, Elsewhere
<1>2. Lists'
  BY <1>1 DEF IInv, RunInv, Lists, Elsewhere
<1>3. ASSUME NEW q \in DOMAIN cp PROVE Part(q)'
  <2>1. CASE q = p
    BY <2>1
  <2>2. CASE q # p
    <3>1. /\ Part(q) /\ coll' = coll
          /\ cp'[q] = cp[q] /\ unread'[q] = unread[q] /\ open'[q] = open[q]
          /\ failed'[q] = failed[q] /\ acked'[q] = acked[q]
      BY <2>2 DEF IInv, RunInv, Elsewhere
    <3>2. Settled \subseteq Settled'
      BY DEF Settled
    <3>. QED BY <3>1, <3>2 DEF Part, SoundCheckpoint, Due
  <2>. QED BY <2>1, <2>2
<1>4. Sorted'
  <2>1. ASSUME NEW q \in DOMAIN cp, NEW r \in DOMAIN cp, q < r
        PROVE  Before(cp'[q], cp'[r])
    <3>1. SameBounds(cp[q], cp'[q]) /\ SameBounds(cp[r], cp'[r])
      BY DEF Elsewhere, SameBounds
    <3>2. Before(cp[q], cp[r])
      BY <2>1 DEF IInv, RunInv, Sorted
    <3>. QED BY <3>1, <3>2 DEF Before, SameBounds
  <2>. QED BY <2>1 DEF Sorted, Elsewhere
<1>5. PartitionsAreDisjoint'
  <2>1. \A q \in DOMAIN cp : unread'[q] \cup open'[q] \cup acked'[q]
                               \subseteq unread[q] \cup open[q] \cup acked[q]
    BY DEF Elsewhere, KeepsDocs
  <2>2. \A q, r \in DOMAIN cp :
          q # r => (unread[q] \cup open[q] \cup acked[q]) \cap
                   (unread[r] \cup open[r] \cup acked[r]) = {}
    BY DEF IInv, RunInv, PartitionsAreDisjoint
  <2>3. \A q, r \in DOMAIN cp :
          q # r => (unread'[q] \cup open'[q] \cup acked'[q]) \cap
                   (unread'[r] \cup open'[r] \cup acked'[r]) = {}
    BY <2>1, <2>2
  <2>. QED BY <2>3 DEF PartitionsAreDisjoint, Elsewhere
<1>6. NothingSkipped'
  <2>. SUFFICES ASSUME NEW d \in Docs(coll), d \notin Settled'
                PROVE  \E q \in DOMAIN cp : d \in unread'[q] \cup open'[q]
    BY DEF NothingSkipped, Settled, Elsewhere
  <2>1. PICK q \in DOMAIN cp : d \in unread[q] \cup open[q]
    BY <1>1 DEF IInv, RunInv, NothingSkipped, Settled
  <2>. QED BY <2>1 DEF Elsewhere, KeepsDocs
<1>7. Basics'
  BY DEF IInv, Basics, Elsewhere
<1>8. RunInv'
  BY <1>2, <1>3, <1>4, <1>5, <1>6 DEF RunInv, Elsewhere
<1>9. PlanInv'
  BY <1>1 DEF IInv, PlanInv, Elsewhere
<1>10. FilesInv'
  <2>1. Basics' /\ Keys' /\ RunInv' /\ (phase = "work")' => FilesInv'
    BY RunOnDisk, PTL
  <2>. QED BY <1>1, <1>7, <1>8, <2>1
<1>. QED BY <1>7, <1>8, <1>9, <1>10 DEF IInv

LEMMA SavingStep ==
  ASSUME IInv, NEW p \in DOMAIN cp, NEW finished \in BOOLEAN, NEW done, NEW pending,
         done \cup pending \subseteq open[p] \cup acked[p],
         Save(p, done, pending, finished),
         coll' = coll, phase' = phase, plan' = plan, unread' = unread, failed' = failed,
         reading' \subseteq reading, DOMAIN open' = DOMAIN open, open'[p] = pending,
         \A q \in DOMAIN cp \ {p} : open'[q] = open[q]
  PROVE  /\ Elsewhere(p) /\ Stored' /\ Keys' /\ SameBounds(cp[p], cp'[p])
         /\ SoundCheckpoint(cp'[p]) /\ cp'[p].completed = (cp[p].completed \/ finished)
         /\ acked'[p] \subseteq done
         /\ unread'[p] \cup open'[p] \cup acked'[p] \subseteq Due(cp'[p])
<1>1. /\ Len(cp) \in Nat /\ DOMAIN cp = 1 .. Len(cp) /\ p \in DOMAIN acked
      /\ DOMAIN acked = DOMAIN cp /\ phase = "work" /\ coll \in Collections
  BY DEF IInv, RunInv, Lists, Basics
<1>2. /\ SoundCheckpoint(cp[p]) /\ unread[p] \cup open[p] \cup acked[p] \subseteq Due(cp[p])
      /\ \A d \in open[p] \cup acked[p] : \A e \in unread[p] : d < e
  BY DEF IInv, RunInv, Part
<1>3. done \subseteq Due(cp[p])
  BY <1>2
<1>4. Saves(p, done, pending, finished)
  BY <1>2, <1>3, SaveIs
<1> DEFINE prefix == AckedPrefix(done, pending)
           f == <<p, Len(cp)>>
<1>5. /\ cp' = [cp EXCEPT ![p] = cp'[p]]
      /\ DOMAIN files' = DOMAIN files \cup {f} /\ files'[f] = cp'[p]
      /\ \A g \in DOMAIN files : g # f => files'[g] = files[g]
      /\ acked' = [acked EXCEPT ![p] = done \ prefix]
      /\ cp'[p].completed = (cp[p].completed \/ finished)
  BY <1>4 DEF Saves
<1>6. DOMAIN cp' = DOMAIN cp /\ \A q \in DOMAIN cp \ {p} : cp'[q] = cp[q]
  BY <1>5
<1>7. Len(cp') = Len(cp)
  <2>1. cp' = [i \in 1 .. Len(cp) |-> cp'[i]]
    BY <1>1, <1>5
  <2>. QED BY <1>1, <2>1, ListLength
<1>8. /\ DOMAIN acked' = DOMAIN acked /\ acked'[p] = done \ prefix
      /\ \A q \in DOMAIN cp \ {p} : acked'[q] = acked[q]
  BY <1>1, <1>5
<1>9. Elsewhere(p)
  BY <1>6, <1>7, <1>8 DEF Elsewhere
<1>10. SameBounds(cp[p], cp'[p])
  <2>1. /\ DOMAIN cp'[p].progress = DOMAIN cp[p].progress
        /\ \A t \in DOMAIN cp'[p].progress :
             LET b == cp'[p].progress[t]
                 c == cp[p].progress[t]
             IN b = c \/ \E s : b = Progress(c.start, c.end, s)
    BY <1>4 DEF Saves
  <2>2. ASSUME NEW t \in DOMAIN cp[p].progress
        PROVE  /\ cp'[p].progress[t].start = cp[p].progress[t].start
               /\ cp'[p].progress[t].end = cp[p].progress[t].end
    <3> DEFINE b == cp'[p].progress[t]
               c == cp[p].progress[t]
    <3>1. b = c \/ \E s : b = Progress(c.start, c.end, s)
      BY <2>1
    <3>. HIDE DEF b, c
    <3>2. b.start = c.start /\ b.end = c.end
      BY <3>1 DEF Progress
    <3>. QED BY <3>2 DEF b, c
  <2>. QED BY <2>1, <2>2 DEF SameBounds
<1>11. f[1] = p /\ f[2] = Len(cp) /\ f = <<f[1], f[2]>>
  OBVIOUS
<1>12. Keys'
  <2>1. \A g \in DOMAIN files : g[2] \in Nat /\ g[1] \in 1 .. g[2] /\ g = <<g[1], g[2]>>
    BY DEF IInv, FilesInv, Keys
  <2>2. \A g \in DOMAIN files : g[2] = Len(cp)
    BY <1>1 DEF IInv, RunInv, Stored
  <2>. HIDE DEF f
  <2>. QED BY <1>1, <1>5, <1>11, <2>1, <2>2 DEF Keys
<1>13. Stored'
  <2>1. \A g \in DOMAIN files : g[2] = Len(cp) /\ files[g] = cp[g[1]]
                                /\ g = <<g[1], g[2]>> /\ g[1] \in 1 .. g[2]
    BY <1>1 DEF IInv, FilesInv, Keys, RunInv, Stored
  <2>2. ASSUME NEW g \in DOMAIN files' PROVE g[2] = Len(cp') /\ files'[g] = cp'[g[1]]
    <3>1. CASE g = f
      <4>. HIDE DEF f
      <4>. QED BY <1>5, <1>7, <1>11, <3>1
    <3>2. CASE g # f
      <4>1. g \in DOMAIN files
        BY <1>5, <3>2
      <4>2. g[1] # p
        BY <2>1, <3>2, <4>1
      <4>. QED BY <1>1, <1>5, <1>6, <1>7, <2>1, <3>2, <4>1, <4>2
    <3>. QED BY <3>1, <3>2
  <2>. QED BY <2>2 DEF Stored
<1>14. /\ SoundCheckpoint(cp'[p])
       /\ \A d \in Due(cp[p]) : (\A e \in prefix : e < d) => d \in Due(cp'[p])
  BY <1>1, <1>2, <1>3, <1>4, SavedRange
<1>15. ASSUME NEW d \in unread'[p] \cup open'[p] \cup acked'[p] PROVE d \in Due(cp'[p])
  <2>1. d \in Due(cp[p])
    BY <1>2, <1>8, <1>15
  <2>2. prefix \subseteq done
    BY DEF AckedPrefix
  <2>3. \A e \in prefix : e < d
    <3>1. CASE d \in unread[p]
      BY <1>2, <2>2, <3>1
    <3>2. CASE d \in pending
      BY <3>2 DEF AckedPrefix
    <3>3. CASE d \in done \ prefix
      <4>1. PICK e \in pending : ~ (d < e)
        BY <3>3 DEF AckedPrefix
      <4>2. Docs(coll) \subseteq Nat
        BY <1>1, Ids
      <4>3. e \in Nat /\ d \in Nat /\ prefix \subseteq Nat
        BY <1>2, <2>1, <2>2, <4>2 DEF Due
      <4>4. \A x \in prefix : x < e
        BY DEF AckedPrefix
      <4>. HIDE DEF prefix
      <4>. QED BY <4>1, <4>3, <4>4
    <3>. QED BY <1>8, <1>15, <3>1, <3>2, <3>3
  <2>. QED BY <1>14, <2>1, <2>3
<1>. QED BY <1>5, <1>8, <1>9, <1>10, <1>12, <1>13, <1>14, <1>15

-----------------------------------------------------------------------------
(* The steps of the goroutines. *)
LEMMA ReadStep ==
  ASSUME IInv, NEW p \in DOMAIN cp, Read(p)
  PROVE  IInv'
<1>1. /\ Cardinality(open[p]) < MaxInFlight /\ unread[p] # {}
      /\ unread' = [unread EXCEPT ![p] = @ \ {Min(unread[p])}]
      /\ open' = [open EXCEPT ![p] = @ \cup {Min(unread[p])}]
      /\ coll' = coll /\ files' = files /\ phase' = phase /\ plan' = plan /\ cp' = cp
      /\ failed' = failed /\ acked' = acked /\ reading' = reading
      /\ handled' = handled /\ ignored' = ignored
  BY DEF Read, history
<1>2. /\ Part(p) /\ DOMAIN unread = DOMAIN cp /\ DOMAIN open = DOMAIN cp
      /\ coll \in Collections /\ ignored \subseteq Docs(coll)
      /\ DOMAIN failed = DOMAIN cp /\ DOMAIN acked = DOMAIN cp
  BY DEF IInv, RunInv, Lists, Basics
<1> DEFINE m == Min(unread[p])
<1>3. /\ unread'[p] = unread[p] \ {m} /\ open'[p] = open[p] \cup {m}
      /\ \A q \in DOMAIN cp \ {p} : unread'[q] = unread[q] /\ open'[q] = open[q]
      /\ DOMAIN unread' = DOMAIN cp /\ DOMAIN open' = DOMAIN cp
  BY <1>1, <1>2
<1>4. Docs(coll) \in SUBSET Nat /\ unread[p] \subseteq Docs(coll) /\ open[p] \subseteq Docs(coll)
  BY <1>2, Ids DEF Part, Due
<1>5. m \in unread[p] /\ \A e \in unread[p] : m <= e
  BY <1>1, <1>4, MinOfNats
<1>. HIDE DEF m
<1>6. Elsewhere(p) /\ KeepsDocs(p)
  BY <1>1, <1>2, <1>3, <1>5 DEF Elsewhere, KeepsDocs
<1>7. Cardinality(open'[p]) <= MaxInFlight
  <2>1. IsFiniteSet(Docs(coll))
    BY <1>2, FiniteDocs
  <2>2. IsFiniteSet(open[p])
    BY <1>4, <2>1, FS_Subset
  <2>3. Cardinality(open'[p]) <= Cardinality(open[p]) + 1 /\ Cardinality(open[p]) \in Nat
    <3>1. Cardinality(open[p]) \in Nat
      BY <2>2, FS_CardinalityType
    <3>2. \/ Cardinality(open[p] \cup {m}) = Cardinality(open[p])
          \/ Cardinality(open[p] \cup {m}) = Cardinality(open[p]) + 1
      BY <2>2, FS_AddElement
    <3>. QED BY <1>3, <3>1, <3>2
  <2>4. Cardinality(open'[p]) \in Nat /\ MaxInFlight \in Nat
    <3>1. IsFiniteSet(open[p] \cup {m})
      BY <2>2, FS_AddElement
    <3>2. Cardinality(open[p] \cup {m}) \in Nat
      BY <3>1, FS_CardinalityType
    <3>. QED BY <1>3, <3>2, ParallelBackfillAssumption
  <2>. QED BY <1>1, <2>3, <2>4
<1>8. Part(p)'
  <2>1. \A d \in open'[p] \cup acked'[p] : \A e \in unread'[p] : d < e
    <3>1. \A e \in unread'[p] : m < e
      BY <1>3, <1>4, <1>5
    <3>2. \A d \in open[p] \cup acked[p] : \A e \in unread'[p] : d < e
      BY <1>2, <1>3 DEF Part
    <3>. QED BY <1>1, <1>3, <3>1, <3>2
  <2>2. SoundCheckpoint(cp[p])' /\ Due(cp[p])' = Due(cp[p])
    BY <1>1, <1>2 DEF Part, SoundCheckpoint, Due
  <2>3. unread'[p] \cup open'[p] \cup acked'[p] \subseteq Due(cp[p])
    BY <1>1, <1>2, <1>3, <1>5 DEF Part
  <2>4. open'[p] \cap acked'[p] = {}
    <3>1. m \notin acked[p]
      BY <1>2, <1>4, <1>5 DEF Part
    <3>. QED BY <1>1, <1>2, <1>3, <3>1 DEF Part
  <2>5. cp[p].completed => FALSE
    BY <1>1, <1>2 DEF Part
  <2>6. failed'[p] \subseteq open'[p] /\ failed'[p] \cap handled' = {}
        /\ acked'[p] \subseteq handled'
    BY <1>1, <1>2, <1>3 DEF Part
  <2>. QED BY <1>1, <1>7, <2>1, <2>2, <2>3, <2>4, <2>5, <2>6 DEF Part
<1>9. Stored' /\ Keys' /\ SameBounds(cp[p], cp'[p])
  BY <1>1 DEF IInv, RunInv, Stored, FilesInv, Keys, SameBounds
<1>. QED BY <1>1, <1>2, <1>6, <1>8, <1>9, LocalStep

LEMMA FewerOpen ==
  ASSUME IInv, NEW p \in DOMAIN cp, NEW S \in SUBSET open[p]
  PROVE  Cardinality(S) <= MaxInFlight
<1>1. coll \in Collections /\ Part(p)
  BY DEF IInv, Basics, RunInv
<1>2. IsFiniteSet(Docs(coll)) /\ open[p] \subseteq Docs(coll)
  BY <1>1, FiniteDocs DEF Part, Due
<1>3. IsFiniteSet(open[p])
  BY <1>2, FS_Subset
<1>4. IsFiniteSet(S) /\ Cardinality(S) <= Cardinality(open[p])
  BY <1>3, FS_Subset
<1>5. Cardinality(S) \in Nat /\ Cardinality(open[p]) \in Nat
  BY <1>3, <1>4, FS_CardinalityType
<1>6. MaxInFlight \in Nat /\ Cardinality(open[p]) <= MaxInFlight
  BY <1>1, ParallelBackfillAssumption DEF Part
<1>. QED BY <1>4, <1>5, <1>6

LEMMA AckStep ==
  ASSUME IInv, NEW p \in DOMAIN cp, NEW d, Ack(p, d)
  PROVE  IInv'
<1>1. /\ d \in open[p] /\ d \in handled
      /\ open' = [open EXCEPT ![p] = @ \ {d}]
      /\ \/ Save(p, acked[p] \cup {d}, open[p] \ {d}, FALSE)
         \/ acked' = [acked EXCEPT ![p] = @ \cup {d}] /\ files' = files /\ cp' = cp
      /\ coll' = coll /\ phase' = phase /\ plan' = plan /\ unread' = unread
      /\ failed' = failed /\ reading' = reading /\ handled' = handled /\ ignored' = ignored
  BY DEF Ack, history
<1>2. /\ Part(p) /\ DOMAIN unread = DOMAIN cp /\ DOMAIN open = DOMAIN cp
      /\ coll \in Collections /\ ignored \subseteq Docs(coll)
      /\ DOMAIN failed = DOMAIN cp /\ DOMAIN acked = DOMAIN cp
  BY DEF IInv, RunInv, Lists, Basics
<1>3. /\ open'[p] = open[p] \ {d} /\ DOMAIN open' = DOMAIN open
      /\ \A q \in DOMAIN cp \ {p} : open'[q] = open[q]
  BY <1>1, <1>2
<1>4. /\ Elsewhere(p) /\ Stored' /\ Keys' /\ SameBounds(cp[p], cp'[p])
      /\ SoundCheckpoint(cp'[p]) /\ cp'[p].completed = cp[p].completed
      /\ acked'[p] \subseteq acked[p] \cup {d}
      /\ unread'[p] \cup open'[p] \cup acked'[p] \subseteq Due(cp'[p])
  <2>1. CASE Save(p, acked[p] \cup {d}, open[p] \ {d}, FALSE)
    <3> DEFINE done == acked[p] \cup {d}
               pending == open[p] \ {d}
    <3>1. done \cup pending \subseteq open[p] \cup acked[p] /\ reading' \subseteq reading
      BY <1>1
    <3>2. Save(p, done, pending, FALSE) /\ open'[p] = pending
      BY <1>3, <2>1
    <3>. HIDE DEF done, pending
    <3>3. /\ Elsewhere(p) /\ Stored' /\ Keys' /\ SameBounds(cp[p], cp'[p])
          /\ SoundCheckpoint(cp'[p]) /\ cp'[p].completed = (cp[p].completed \/ FALSE)
          /\ acked'[p] \subseteq done
          /\ unread'[p] \cup open'[p] \cup acked'[p] \subseteq Due(cp'[p])
      BY <1>1, <1>3, <3>1, <3>2, SavingStep
    <3>4. cp'[p].completed = cp[p].completed
      BY <1>2, <3>3 DEF Part, SoundCheckpoint
    <3>. QED BY <3>3, <3>4 DEF done
  <2>2. CASE acked' = [acked EXCEPT ![p] = @ \cup {d}] /\ files' = files /\ cp' = cp
    <3>1. /\ acked'[p] = acked[p] \cup {d} /\ DOMAIN acked' = DOMAIN acked
          /\ \A q \in DOMAIN cp \ {p} : acked'[q] = acked[q]
      BY <1>2, <2>2
    <3>2. Elsewhere(p)
      BY <1>1, <1>2, <1>3, <2>2, <3>1 DEF Elsewhere
    <3>3. Stored' /\ Keys' /\ SameBounds(cp[p], cp'[p])
      BY <1>1, <2>2 DEF IInv, RunInv, Stored, FilesInv, Keys, SameBounds
    <3>4. SoundCheckpoint(cp'[p])
      BY <1>2, <2>2 DEF Part
    <3>5. unread'[p] \cup open'[p] \cup acked'[p] \subseteq Due(cp[p])
      BY <1>1, <1>2, <1>3, <3>1 DEF Part
    <3>. QED BY <2>2, <3>1, <3>2, <3>3, <3>4, <3>5
  <2>. QED BY <1>1, <2>1, <2>2
<1>5. KeepsDocs(p)
  BY <1>1, <1>3, <1>4 DEF KeepsDocs, Settled
<1>6. Cardinality(open'[p]) <= MaxInFlight
  BY <1>3, FewerOpen
<1>7. Part(p)'
  <2>1. \A e \in open'[p] \cup acked'[p] : \A x \in unread'[p] : e < x
    BY <1>1, <1>2, <1>3, <1>4 DEF Part
  <2>2. Due(cp'[p]) = Due(cp[p])' /\ SoundCheckpoint(cp[p])'
    BY <1>1, <1>4 DEF Due, SoundCheckpoint
  <2>3. open'[p] \cap acked'[p] = {}
    BY <1>2, <1>3, <1>4 DEF Part
  <2>4. failed'[p] \subseteq open'[p] /\ failed'[p] \cap handled' = {}
        /\ acked'[p] \subseteq handled'
    BY <1>1, <1>2, <1>3, <1>4 DEF Part
  <2>5. cp'[p].completed => unread'[p] = {} /\ open'[p] \subseteq Settled'
    BY <1>1, <1>2, <1>3, <1>4 DEF Part, Settled
  <2>. QED BY <1>4, <1>6, <2>1, <2>2, <2>3, <2>4, <2>5 DEF Part
<1>. QED BY <1>1, <1>2, <1>4, <1>5, <1>7, LocalStep

LEMMA WorkerFailsStep ==
  ASSUME IInv, NEW p \in DOMAIN cp, WorkerFails(p)
  PROVE  IInv'
<1>1. PICK d \in open[p] \ (handled \cup failed[p]) : failed' = [failed EXCEPT ![p] = @ \cup {d}]
  BY DEF WorkerFails
<1>2. /\ coll' = coll /\ files' = files /\ phase' = phase /\ plan' = plan /\ cp' = cp
      /\ unread' = unread /\ open' = open /\ acked' = acked /\ reading' = reading
      /\ handled' = handled /\ ignored' = ignored
  BY DEF WorkerFails, history
<1>3. /\ Part(p) /\ DOMAIN failed = DOMAIN cp /\ ignored \subseteq Docs(coll)
  BY DEF IInv, RunInv, Lists, Basics
<1>4. /\ failed'[p] = failed[p] \cup {d} /\ DOMAIN failed' = DOMAIN failed
      /\ \A q \in DOMAIN cp \ {p} : failed'[q] = failed[q]
  BY <1>1, <1>3
<1>5. Elsewhere(p) /\ KeepsDocs(p)
  BY <1>2, <1>4 DEF Elsewhere, KeepsDocs
<1>6. Stored' /\ Keys' /\ SameBounds(cp[p], cp'[p])
  BY <1>2 DEF IInv, RunInv, Stored, FilesInv, Keys, SameBounds
<1>7. Part(p)'
  <2>1. Due(cp[p])' = Due(cp[p]) /\ SoundCheckpoint(cp[p])' /\ Settled' = Settled
    BY <1>2, <1>3 DEF Part, Due, SoundCheckpoint, Settled
  <2>2. failed'[p] \subseteq open'[p] /\ failed'[p] \cap handled' = {}
    BY <1>1, <1>2, <1>3, <1>4 DEF Part
  <2>. QED BY <1>2, <1>3, <2>1, <2>2 DEF Part
<1>. QED BY <1>2, <1>3, <1>5, <1>6, <1>7, LocalStep

LEMMA ReturnErrorStep ==
  ASSUME IInv, NEW p \in DOMAIN cp, ReturnError(p)
  PROVE  IInv'
<1>1. /\ reading' \subseteq reading /\ Save(p, acked[p], open[p], FALSE)
      /\ coll' = coll /\ phase' = phase /\ plan' = plan /\ unread' = unread
      /\ open' = open /\ failed' = failed /\ handled' = handled /\ ignored' = ignored
  BY DEF ReturnError, history
<1>2. /\ Part(p) /\ ignored \subseteq Docs(coll)
  BY DEF IInv, RunInv, Lists, Basics
<1>3. /\ Elsewhere(p) /\ Stored' /\ Keys' /\ SameBounds(cp[p], cp'[p])
      /\ SoundCheckpoint(cp'[p]) /\ cp'[p].completed = (cp[p].completed \/ FALSE)
      /\ acked'[p] \subseteq acked[p]
      /\ unread'[p] \cup open'[p] \cup acked'[p] \subseteq Due(cp'[p])
  BY <1>1, SavingStep
<1>4. KeepsDocs(p)
  BY <1>1, <1>3 DEF KeepsDocs
<1>5. Part(p)'
  <2>1. cp'[p].completed = cp[p].completed
    BY <1>2, <1>3 DEF Part, SoundCheckpoint
  <2>2. Due(cp'[p]) = Due(cp[p])' /\ SoundCheckpoint(cp[p])' /\ Settled' = Settled
    BY <1>1, <1>3 DEF Due, SoundCheckpoint, Settled
  <2>3. acked'[p] \subseteq handled' /\ open'[p] \cap acked'[p] = {}
    BY <1>1, <1>2, <1>3 DEF Part
  <2>4. \A d \in open'[p] \cup acked'[p] : \A e \in unread'[p] : d < e
    BY <1>1, <1>2, <1>3 DEF Part
  <2>. QED BY <1>1, <1>2, <1>3, <2>1, <2>2, <2>3, <2>4 DEF Part
<1>. QED BY <1>1, <1>2, <1>3, <1>4, <1>5, LocalStep

LEMMA CompleteStep ==
  ASSUME IInv, NEW p \in DOMAIN cp, Complete(p)
  PROVE  IInv'
<1>1. /\ unread[p] = {} /\ reading' \subseteq reading /\ Save(p, acked[p], open[p], TRUE)
      /\ coll' = coll /\ phase' = phase /\ plan' = plan /\ unread' = unread
      /\ open' = open /\ failed' = failed /\ handled' = handled
      /\ ignored' = ignored \cup (open[p] \ handled)
  BY DEF Complete
<1>2. /\ Part(p) /\ ignored \subseteq Docs(coll)
  BY DEF IInv, RunInv, Lists, Basics
<1>3. /\ Elsewhere(p) /\ Stored' /\ Keys' /\ SameBounds(cp[p], cp'[p])
      /\ SoundCheckpoint(cp'[p]) /\ acked'[p] \subseteq acked[p]
      /\ unread'[p] \cup open'[p] \cup acked'[p] \subseteq Due(cp'[p])
  BY <1>1, SavingStep
<1>4. KeepsDocs(p)
  BY <1>1, <1>3 DEF KeepsDocs
<1>5. Part(p)'
  <2>1. unread'[p] = {} /\ open'[p] \subseteq Settled'
    BY <1>1 DEF Settled
  <2>2. Due(cp'[p]) = Due(cp[p])' /\ SoundCheckpoint(cp[p])'
    BY <1>1, <1>3 DEF Due, SoundCheckpoint
  <2>3. acked'[p] \subseteq handled' /\ open'[p] \cap acked'[p] = {}
    BY <1>1, <1>2, <1>3 DEF Part
  <2>4. \A d \in open'[p] \cup acked'[p] : \A e \in unread'[p] : d < e
    BY <2>1
  <2>. QED BY <1>1, <1>2, <1>3, <2>1, <2>2, <2>3, <2>4 DEF Part
<1>6. ignored \subseteq ignored' /\ ignored' \subseteq Docs(coll)
  BY <1>1, <1>2 DEF Part, Due
<1>. QED BY <1>1, <1>3, <1>4, <1>5, <1>6, LocalStep

-----------------------------------------------------------------------------
(* Steps that leave the files alone. *)
LEMMA FilesStay ==
  ASSUME FilesInv, coll' = coll, files' = files, Settled \subseteq Settled'
  PROVE  FilesInv'
<1>1. Keys'
  BY DEF FilesInv, Keys
<1>2. SoundFiles'
  BY DEF FilesInv, SoundFiles, SoundCheckpoint, Before
<1>3. ASSUME NEW n \in Nat, ValidSet(n)' PROVE OnDisk(n)'
  <2>1. ValidSet(n)
    BY <1>3 DEF ValidSet
  <2>2. OnDisk(n)
    BY <2>1 DEF FilesInv
  <2>. QED BY <2>2 DEF OnDisk, Due
<1>. QED BY <1>1, <1>2, <1>3 DEF FilesInv

LEMMA WriteStep ==
  ASSUME IInv, NEW d \in Docs(coll), Write(d)
  PROVE  IInv'
<1>1. PICK p \in DOMAIN open : d \in open[p] \ failed[p]
  BY DEF Write
<1>2. /\ handled' = handled \cup {d} /\ coll' = coll /\ files' = files /\ phase' = phase
      /\ plan' = plan /\ ignored' = ignored
      /\ cp' = cp /\ unread' = unread /\ open' = open /\ failed' = failed /\ acked' = acked
      /\ reading' = reading
  BY DEF Write, run
<1>3. Settled \subseteq Settled'
  BY <1>2 DEF Settled
<1>4. Basics'
  BY <1>2 DEF IInv, Basics
<1>5. FilesInv'
  BY <1>2, <1>3, FilesStay DEF IInv
<1>6. PlanInv'
  <2>1. SafeMin(plan.min) => SafeMin(plan.min)'
    BY <1>2, <1>3 DEF SafeMin, AtLeast
  <2>2. Splits' = Splits
    BY <1>2 DEF Splits, ValidSet
  <2>. QED BY <1>2, <2>1, <2>2 DEF IInv, PlanInv
<1>7. Lists'
  BY <1>2 DEF IInv, RunInv, Lists
<1>8. ASSUME NEW q \in DOMAIN cp PROVE Part(q)'
  <2>1. Part(q) /\ p \in DOMAIN cp /\ failed[q] \subseteq open[q]
    BY <1>1 DEF IInv, RunInv, Lists, Part
  <2>2. d \notin failed[q]
    <3>1. CASE q = p
      BY <1>1, <3>1
    <3>2. CASE q # p
      BY <1>1, <2>1, <3>2 DEF IInv, RunInv, PartitionsAreDisjoint
    <3>. QED BY <3>1, <3>2
  <2>3. SoundCheckpoint(cp[q])' /\ Due(cp[q])' = Due(cp[q])
    BY <1>2, <2>1 DEF Part, SoundCheckpoint, Due
  <2>. QED BY <1>2, <1>3, <2>1, <2>2, <2>3 DEF Part
<1>9. Sorted' /\ PartitionsAreDisjoint' /\ Stored'
  BY <1>2 DEF IInv, RunInv, Sorted, Before, PartitionsAreDisjoint, Stored
<1>10. NothingSkipped'
  BY <1>2 DEF IInv, RunInv, NothingSkipped
<1>. QED BY <1>2, <1>4, <1>5, <1>6, <1>7, <1>8, <1>9, <1>10 DEF IInv, RunInv

(* Between two runs there is nothing to say of the partitions. *)
LEMMA NoRun ==
  cp = <<>> /\ unread = <<>> /\ open = <<>> /\ failed = <<>> /\ acked = <<>> /\ reading = {}
    /\ phase # "work" => RunInv
<1>. SUFFICES ASSUME cp = <<>>, unread = <<>>, open = <<>>, failed = <<>>, acked = <<>>,
                     reading = {}, phase # "work"
              PROVE  RunInv
  OBVIOUS
<1>1. Len(cp) = 0 /\ DOMAIN cp = {} /\ 1 .. 0 = {}
  OBVIOUS
<1>2. Lists
  BY <1>1 DEF Lists
<1>. QED BY <1>1, <1>2 DEF RunInv, Sorted, PartitionsAreDisjoint, Stored, NothingSkipped

LEMMA RestartStep ==
  ASSUME IInv, Restart
  PROVE  IInv'
<1>1. /\ phase' = "plan" /\ plan'.min = <<>> /\ plan'.mode = "fresh"
      /\ cp' = <<>> /\ unread' = <<>> /\ open' = <<>> /\ failed' = <<>> /\ acked' = <<>>
      /\ reading' = {} /\ coll' = coll /\ files' = files /\ handled' = handled
      /\ ignored' = ignored
  BY DEF Restart, history
<1>2. RunInv'
  <2>1. (cp = <<>> /\ unread = <<>> /\ open = <<>> /\ failed = <<>> /\ acked = <<>>
           /\ reading = {} /\ phase # "work")' => RunInv'
    BY NoRun, PTL
  <2>. QED BY <1>1, <2>1
<1>3. FilesInv'
  BY <1>1, FilesStay DEF IInv, Settled
<1>4. PlanInv'
  BY <1>1 DEF PlanInv
<1>. QED BY <1>1, <1>2, <1>3, <1>4 DEF IInv, Basics

(* The run of a start that has not begun to read stays empty. *)
LEMMA StillNoRun ==
  ASSUME IInv, phase # "work", phase' # "work", coll' = coll, UNCHANGED run
  PROVE  RunInv'
<1>1. /\ DOMAIN cp = {} /\ cp' = cp /\ unread' = unread /\ open' = open /\ failed' = failed
      /\ acked' = acked /\ reading' = reading
  BY DEF IInv, RunInv, Lists, run
<1>2. Lists'
  BY <1>1 DEF IInv, RunInv, Lists
<1>. QED BY <1>1, <1>2 DEF RunInv, Sorted, PartitionsAreDisjoint, Stored, NothingSkipped

LEMMA AlreadyCompletedStep ==
  ASSUME IInv, AlreadyCompleted
  PROVE  IInv'
<1>1. /\ phase = "plan" /\ phase' = "returned" /\ coll' = coll /\ files' = files /\ plan' = plan
      /\ UNCHANGED run /\ handled' = handled /\ ignored' = ignored
  BY DEF AlreadyCompleted, history
<1>2. RunInv'
  BY <1>1, StillNoRun
<1>3. FilesInv'
  BY <1>1, FilesStay DEF IInv, Settled
<1>4. PlanInv'
  BY <1>1 DEF IInv, PlanInv
<1>. QED BY <1>1, <1>2, <1>3, <1>4 DEF IInv, Basics

LEMMA DeleteFileStep ==
  ASSUME IInv, NEW f \in DOMAIN files, DeleteFile(f)
  PROVE  IInv'
<1>1. /\ phase = "delete" /\ plan.mode # "direct"
      /\ files' = [g \in DOMAIN files \ {f} |-> files[g]]
      /\ phase' = phase /\ coll' = coll /\ plan' = plan
      /\ UNCHANGED run /\ handled' = handled /\ ignored' = ignored
  BY DEF DeleteFile, history
<1>2. RunInv'
  BY <1>1, StillNoRun
<1>3. PlanInv'
  <2>1. SafeMin(plan.min) => SafeMin(plan.min)'
    BY <1>1 DEF SafeMin, AtLeast, Settled
  <2>. QED BY <1>1, <2>1 DEF IInv, PlanInv
<1>4. Keys' /\ SoundFiles'
  BY <1>1 DEF IInv, FilesInv, Keys, SoundFiles, SoundCheckpoint, Before
<1>5. ASSUME NEW n \in Nat, ValidSet(n)' PROVE FALSE
  <2>1. DOMAIN files' = (1 .. n) \X {n} /\ n > 0
    BY <1>5 DEF ValidSet
  <2>2. DOMAIN files' = DOMAIN files \ {f}
    BY <1>1
  <2>3. /\ f = <<f[1], f[2]>> /\ f[1] \in 1 .. f[2]
        /\ \A g \in DOMAIN files : g[2] = f[2]
    BY DEF IInv, FilesInv, Keys
  <2>4. <<1, n>> \in DOMAIN files /\ <<1, n>>[2] = n
    BY <2>1, <2>2
  <2>5. f \in (1 .. n) \X {n}
    BY <2>3, <2>4
  <2>. QED BY <2>1, <2>2, <2>5
<1>6. FilesInv'
  BY <1>4, <1>5 DEF FilesInv
<1>. QED BY <1>1, <1>2, <1>3, <1>6 DEF IInv, Basics

-----------------------------------------------------------------------------
(* The plan: the safe _id of a type is not above any document still missing. *)
LEMMA SplitsIsASet ==
  ASSUME Keys, Splits # 0
  PROVE  Splits \in Nat /\ ValidSet(Splits)
<1>1. \E f \in DOMAIN files : ValidSet(f[2])
  BY DEF Splits
<1> DEFINE f == CHOOSE g \in DOMAIN files : ValidSet(g[2])
<1>2. f \in DOMAIN files /\ ValidSet(f[2])
  BY <1>1
<1>. HIDE DEF f
<1>3. Splits = f[2]
  BY <1>1 DEF Splits, f
<1>. QED BY <1>2, <1>3 DEF Keys

LEMMA FromStart ==
  ASSUME NEW t, NEW b, Sound(b, t), b.start # Nil, NEW x, x.val \in Int, AtLeast(LowerBound(b), x)
  PROVE  b.start.val <= x.val
<1>1. b.start.val \in Int
  BY DEF Sound, IsBound
<1>2. CASE b.saved = Nil
  BY <1>2 DEF AtLeast, LowerBound
<1>3. CASE b.saved # Nil
  <2>1. b.saved.val <= x.val /\ b.start.val <= b.saved.val /\ b.saved.val \in Int
    BY <1>3 DEF AtLeast, LowerBound, Sound, IsBound
  <2>. QED BY <1>1, <2>1
<1>. QED BY <1>2, <1>3

LEMMA NotDone ==
  ASSUME NEW t, NEW b, Sound(b, t), NEW x, x.val \in Int, InRange(b, x)
  PROVE  ~ RangeDone(b)
BY DEF Sound, IsBound, InRange, AtLeast, LowerBound, RangeDone

LEMMA SafeIDs ==
  ASSUME CutsInOrder, Basics, FilesInv, NEW n \in Nat, ValidSet(n)
  PROVE  SafeMin(ExtractGlobalMinSafeIDs(Checkpoints(n)))
<1> DEFINE ks == Checkpoints(n)
           min == ExtractGlobalMinSafeIDs(ks)
<1>1. /\ DOMAIN ks = 1 .. n
      /\ \A i \in 1 .. n : ks[i] = files[<<i, n>>] /\ <<i, n>> \in DOMAIN files
  BY SetOfFiles DEF Checkpoints
<1>2. /\ \A i \in 1 .. n : SoundCheckpoint(ks[i])
      /\ \A i, j \in 1 .. n : i < j => Before(ks[i], ks[j])
  <2>1. \A i \in 1 .. n : <<i, n>>[1] = i /\ <<i, n>>[2] = n
    OBVIOUS
  <2>. HIDE DEF ks
  <2>. QED BY <1>1, <2>1 DEF FilesInv, SoundFiles
<1>3. OnDisk(n)
  BY DEF FilesInv
<1>. HIDE DEF ks
<1>4. /\ \A t \in DOMAIN min : t \in CandidateBSONTypes /\ Unfinished(ks, t) # {}
                               /\ min[t] = LowerBound(ks[Min(Unfinished(ks, t))].progress[t])
      /\ \A t \in CandidateBSONTypes : Unfinished(ks, t) # {} => t \in DOMAIN min
  BY DEF ExtractGlobalMinSafeIDs
<1>. HIDE DEF min
<1>5. ASSUME NEW t \in DOMAIN min
      PROVE  LET j == Min(Unfinished(ks, t)) IN
               /\ j \in 1 .. n /\ j \in Unfinished(ks, t)
               /\ t \in DOMAIN ks[j].progress /\ ~ RangeDone(ks[j].progress[t])
               /\ \A i \in Unfinished(ks, t) : j <= i
  <2> DEFINE U == Unfinished(ks, t)
  <2>1. U \in SUBSET Nat /\ U # {} /\ U \subseteq 1 .. n
    <3>1. U \subseteq 1 .. n
      BY <1>1 DEF Unfinished
    <3>. QED BY <1>4, <3>1
  <2>2. Min(U) \in U /\ \A i \in U : Min(U) <= i
    <3>. HIDE DEF U
    <3>. QED BY <2>1, MinOfNats
  <2>. QED BY <2>1, <2>2 DEF Unfinished
<1>6. ASSUME NEW t \in DOMAIN min PROVE IsBound(min[t], t)
  <2>1. PICK j \in 1 .. n : t \in DOMAIN ks[j].progress /\ min[t] = LowerBound(ks[j].progress[t])
    BY <1>4, <1>5
  <2>. QED BY <1>2, <2>1 DEF SoundCheckpoint, Sound, LowerBound
<1>7. ASSUME NEW d \in Docs(coll) \ Settled
      PROVE  TypeOf(coll, d) \in DOMAIN min /\ AtLeast(min[TypeOf(coll, d)], coll.id[d])
  <2> DEFINE t == TypeOf(coll, d)
             x == coll.id[d]
  <2>1. x.val \in Int /\ t \in CandidateBSONTypes
    BY Ids DEF Basics, CutsInOrder, CutInOrder
  <2>2. PICK i \in 1 .. n : ~ ks[i].completed /\ d \in Due(ks[i])
    BY <1>1, <1>3 DEF OnDisk
  <2> DEFINE b == ks[i].progress[t]
  <2>3. t \in DOMAIN ks[i].progress /\ InRange(b, x)
    BY <2>2 DEF Due
  <2>4. Sound(b, t)
    BY <1>2, <2>3 DEF SoundCheckpoint
  <2>5. ~ RangeDone(b)
    <3>. HIDE DEF b, t, x
    <3>. QED BY <2>1, <2>3, <2>4, NotDone
  <2>6. i \in Unfinished(ks, t)
    BY <1>1, <2>2, <2>3, <2>5 DEF Unfinished
  <2>7. t \in DOMAIN min
    BY <1>4, <2>1, <2>6
  <2> DEFINE j == Min(Unfinished(ks, t))
             a == ks[j].progress[t]
  <2>8. /\ j \in 1 .. n /\ t \in DOMAIN ks[j].progress /\ ~ RangeDone(a) /\ j <= i
        /\ min[t] = LowerBound(a)
    BY <1>4, <1>5, <2>6, <2>7
  <2>9. Sound(a, t)
    BY <1>2, <2>8 DEF SoundCheckpoint
  <2>10. AtLeast(LowerBound(a), x)
    <3>1. CASE j = i
      BY <2>3, <3>1 DEF InRange
    <3>2. CASE j < i
      <4>1. a.end # Nil /\ b.start # Nil /\ a.end.val <= b.start.val
        BY <1>2, <2>3, <2>8, <3>2 DEF Before
      <4>. HIDE DEF a, b, t, x, j
      <4>2. b.start.val <= x.val
        BY <2>1, <2>3, <2>4, <4>1, FromStart DEF InRange
      <4>3. a.end.val \in Int /\ b.start.val \in Int
        BY <2>4, <2>9, <4>1 DEF Sound, IsBound
      <4>4. LowerBound(a) # Nil => LowerBound(a).val \in Int /\ LowerBound(a).val <= a.end.val
        BY <2>8, <2>9, <4>1, <4>3 DEF LowerBound, RangeDone, Sound, IsBound
      <4>. QED BY <2>1, <4>1, <4>2, <4>3, <4>4 DEF AtLeast
    <3>. QED BY <2>8, <3>1, <3>2
  <2>. QED BY <2>7, <2>8, <2>10
<1>8. \A t \in DOMAIN min : t \in CandidateBSONTypes
  BY <1>4
<1>9. SafeMin(min)
  BY <1>6, <1>7, <1>8 DEF SafeMin
<1>. QED BY <1>9 DEF min, ks

LEMMA MakePlanStep ==
  ASSUME CutsInOrder, IInv, NEW parallel, NEW expected, MakePlan(parallel, expected)
  PROVE  IInv'
<1> DEFINE mode == Mode(expected)
           min == IF mode = "resample" THEN ExtractGlobalMinSafeIDs(Checkpoints(Splits)) ELSE <<>>
<1>1. /\ phase = "plan" /\ phase' = "delete" /\ coll' = coll /\ files' = files
      /\ UNCHANGED run /\ handled' = handled /\ ignored' = ignored
      /\ plan' = [parallel |-> parallel, min |-> min,
                  mode |-> IF ~ parallel /\ mode = "resample" /\ min = <<>>
                           THEN "fresh" ELSE mode]
  BY DEF MakePlan, history
<1>2. /\ mode \in {"fresh", "direct", "resample"}
      /\ mode # "fresh" => Splits # 0
  BY DEF Mode
<1>3. mode = "resample" => SafeMin(min)
  <2>1. mode = "resample" => Splits \in Nat /\ ValidSet(Splits)
    BY <1>2, SplitsIsASet DEF IInv, FilesInv
  <2>. QED BY <2>1, SafeIDs DEF IInv
<1>4. DOMAIN min \subseteq CandidateBSONTypes
  <2>1. CASE mode = "resample"
    BY <2>1, <1>3 DEF SafeMin
  <2>2. CASE mode # "resample"
    BY <2>2
  <2>. QED BY <2>1, <2>2
<1>. HIDE DEF mode, min
<1>5. plan'.min = min /\ plan'.mode \in {"fresh", mode}
  BY <1>1
<1>6. PlanInv'
  <2>1. Splits' = Splits
    BY <1>1 DEF Splits, ValidSet
  <2>2. mode = "resample" => SafeMin(plan.min)'
    BY <1>1, <1>3, <1>5 DEF SafeMin, AtLeast, Settled
  <2>. QED BY <1>2, <1>4, <1>5, <2>1, <2>2 DEF PlanInv
<1>7. RunInv'
  BY <1>1, StillNoRun
<1>8. FilesInv'
  BY <1>1, FilesStay DEF IInv, Settled
<1>. QED BY <1>1, <1>6, <1>7, <1>8 DEF IInv, Basics

-----------------------------------------------------------------------------
(* The goroutines start: each asks for what its checkpoint bounds, and together
   for whatever is missing. *)
Covers(ks, filters) ==
  /\ \A i \in DOMAIN ks : SoundCheckpoint(ks[i])
  /\ \A i, j \in DOMAIN ks : i < j => Before(ks[i], ks[j])
  /\ \A i \in DOMAIN ks : ~ ks[i].completed => Matched(coll, filters[i]) \subseteq Due(ks[i])
  /\ \A d \in Docs(coll) \ Settled :
       \E i \in DOMAIN ks : ~ ks[i].completed /\ d \in Matched(coll, filters[i])

LEMMA BeginStep ==
  ASSUME IInv, NEW n \in Nat, NEW ks, NEW filters, ks = [i \in 1 .. n |-> ks[i]],
         Begin(ks, filters), Covers(ks, filters),
         \A f \in DOMAIN files : f[2] = n /\ files[f] = ks[f[1]]
  PROVE  IInv'
<1>1. /\ phase = "delete" /\ phase' = "work" /\ cp' = ks
      /\ unread' = [i \in DOMAIN ks |-> IF ks[i].completed THEN {} ELSE Matched(coll, filters[i])]
      /\ open' = [i \in DOMAIN ks |-> {}] /\ failed' = [i \in DOMAIN ks |-> {}]
      /\ acked' = [i \in DOMAIN ks |-> {}] /\ reading' = {i \in DOMAIN ks : ~ ks[i].completed}
      /\ coll' = coll /\ files' = files /\ plan' = plan /\ handled' = handled /\ ignored' = ignored
  BY DEF Begin, history
<1>2. Len(ks) = n /\ DOMAIN ks = 1 .. n
  BY ListLength
<1>. HIDE DEF Begin
<1>3. Basics'
  BY <1>1 DEF IInv, Basics
<1>4. FilesInv'
  BY <1>1, FilesStay DEF IInv, Settled
<1>5. PlanInv'
  BY <1>1 DEF IInv, PlanInv
<1>6. Lists'
  <2>1. /\ DOMAIN unread' = DOMAIN ks /\ DOMAIN open' = DOMAIN ks
        /\ DOMAIN failed' = DOMAIN ks /\ DOMAIN acked' = DOMAIN ks
        /\ reading' \subseteq DOMAIN ks
    BY <1>1
  <2>2. Len(cp') = n /\ DOMAIN cp' = 1 .. n /\ DOMAIN cp' = DOMAIN ks
    BY <1>1, <1>2
  <2>. QED BY <1>1, <2>1, <2>2 DEF Lists
<1>7. ASSUME NEW p \in DOMAIN ks
      PROVE  /\ unread'[p] \subseteq Due(ks[p]) /\ open'[p] = {} /\ failed'[p] = {}
             /\ acked'[p] = {} /\ (ks[p].completed => unread'[p] = {})
  <2>1. unread'[p] = IF ks[p].completed THEN {} ELSE Matched(coll, filters[p])
    BY <1>1
  <2>. QED BY <1>1, <2>1 DEF Covers
<1>8. ASSUME NEW p \in DOMAIN ks PROVE Part(p)'
  <2>1. SoundCheckpoint(cp[p])' /\ Due(cp[p])' = Due(ks[p])
    BY <1>1 DEF Covers, SoundCheckpoint, Due
  <2>2. Cardinality({}) <= MaxInFlight
    <3>1. Cardinality({}) = 0
      BY FS_EmptySet, Zenon
    <3>2. MaxInFlight \in Nat
      BY ParallelBackfillAssumption
    <3>. QED BY <3>1, <3>2
  <2>. QED BY <1>1, <1>7, <2>1, <2>2 DEF Part
<1>9. Sorted'
  BY <1>1 DEF Covers, Sorted, Before
<1>10. PartitionsAreDisjoint'
  <2>1. ASSUME NEW p \in DOMAIN ks, NEW q \in DOMAIN ks, p < q
        PROVE  Due(ks[p]) \cap Due(ks[q]) = {}
    BY <2>1, RangesAreDisjoint DEF Covers, IInv, Basics
  <2>2. \A p, q \in DOMAIN ks : p # q => p < q \/ q < p
    BY <1>2
  <2>3. \A p, q \in DOMAIN ks : p # q => Due(ks[p]) \cap Due(ks[q]) = {}
    BY <2>1, <2>2
  <2>4. \A p, q \in DOMAIN ks : p # q => unread'[p] \cap unread'[q] = {}
    BY <1>7, <2>3
  <2>. QED BY <1>1, <1>7, <2>4 DEF PartitionsAreDisjoint
<1>11. Stored'
  BY <1>1, <1>2 DEF Stored
<1>12. NothingSkipped'
  <2>. SUFFICES ASSUME NEW d \in Docs(coll) \ Settled
                PROVE  \E p \in DOMAIN ks : d \in unread'[p]
    BY <1>1 DEF NothingSkipped, Settled
  <2>1. PICK i \in DOMAIN ks : ~ ks[i].completed /\ d \in Matched(coll, filters[i])
    BY DEF Covers
  <2>2. unread'[i] = IF ks[i].completed THEN {} ELSE Matched(coll, filters[i])
    BY <1>1
  <2>. QED BY <2>1, <2>2
<1>13. \A p \in DOMAIN cp' : Part(p)'
  BY <1>1, <1>8
<1>. QED BY <1>3, <1>4, <1>5, <1>6, <1>9, <1>10, <1>11, <1>12, <1>13 DEF IInv, RunInv

(* The filter built from a checkpoint asks for the rest of its ranges. *)
LEMMA ResumedFilter ==
  ASSUME coll \in Collections, NEW k, SoundCheckpoint(k), ~ k.completed
  PROVE  Matched(coll, BuildPartitionFilterFromCheckpoint(k)) = Due(k)
<1> DEFINE filter == BuildPartitionFilterFromCheckpoint(k)
           range(t) == k.progress[t]
<1>1. /\ filter.all = FALSE
      /\ DOMAIN filter.clause = {t \in DOMAIN k.progress : ~ RangeDone(k.progress[t])}
      /\ \A t \in DOMAIN filter.clause :
           filter.clause[t] = Between(LowerBound(k.progress[t]), k.progress[t].end)
  BY DEF BuildPartitionFilterFromCheckpoint
<1>. HIDE DEF filter
<1>2. ASSUME NEW d \in Docs(coll), TypeOf(coll, d) \in DOMAIN k.progress
      PROVE  LET b == k.progress[TypeOf(coll, d)]
                 x == coll.id[d]
             IN /\ InRange(b, x) => ~ RangeDone(b)
                /\ InClause(x, Between(LowerBound(b), b.end)) <=> InRange(b, x)
  <2> DEFINE t == TypeOf(coll, d)
             b == k.progress[t]
             x == coll.id[d]
  <2>1. Sound(b, t) /\ x.val \in Int /\ x.type = t
    BY <1>2, Ids DEF SoundCheckpoint
  <2>. HIDE DEF t, b, x
  <2>2. InRange(b, x) => ~ RangeDone(b)
    BY <2>1, NotDone
  <2>3. InClause(x, Between(LowerBound(b), b.end)) <=> InRange(b, x)
    <3>1. /\ LowerBound(b) # Nil => LowerBound(b).type = x.type
          /\ b.end # Nil => b.end.type = x.type
      BY <2>1 DEF Sound, IsBound, LowerBound
    <3> DEFINE clause == Between(LowerBound(b), b.end)
    <3>2. clause.start = LowerBound(b) /\ clause.end = b.end /\ clause.mod = <<>>
      BY DEF Between
    <3>. HIDE DEF clause
    <3>3. InClause(x, clause) <=> InRange(b, x)
      BY <3>1, <3>2 DEF InClause, InRange, AtLeast
    <3>. QED BY <3>3 DEF clause
  <2>. QED BY <2>2, <2>3 DEF b, t, x
<1>3. ASSUME NEW d \in Docs(coll)
      PROVE  (TypeOf(coll, d) \in DOMAIN filter.clause
               /\ InClause(coll.id[d], filter.clause[TypeOf(coll, d)]))
             <=> (TypeOf(coll, d) \in DOMAIN k.progress
                   /\ InRange(k.progress[TypeOf(coll, d)], coll.id[d]))
  BY <1>1, <1>2
<1>4. Matched(coll, filter) = Due(k)
  BY <1>1, <1>3 DEF Matched, Due
<1>. QED BY <1>4 DEF filter

LEMMA BeginDirectStep ==
  ASSUME IInv, BeginDirect
  PROVE  IInv'
<1> DEFINE n == Splits
           ks == Checkpoints(n)
           filters == [i \in DOMAIN ks |-> BuildPartitionFilterFromCheckpoint(ks[i])]
<1>1. plan.mode = "direct" /\ Begin(ks, filters) /\ phase = "delete"
  BY DEF BeginDirect, Begin
<1>2. n \in Nat /\ ValidSet(n)
  BY <1>1, SplitsIsASet DEF IInv, FilesInv, PlanInv
<1>. HIDE DEF n
<1>3. /\ ks = [i \in 1 .. n |-> ks[i]] /\ DOMAIN ks = 1 .. n
      /\ \A i \in 1 .. n : ks[i] = files[<<i, n>>] /\ <<i, n>> \in DOMAIN files
  BY <1>2, SetOfFiles DEF Checkpoints
<1>4. /\ \A i \in 1 .. n : SoundCheckpoint(ks[i])
      /\ \A i, j \in 1 .. n : i < j => Before(ks[i], ks[j])
  <2>1. \A i \in 1 .. n : <<i, n>>[1] = i /\ <<i, n>>[2] = n
    OBVIOUS
  <2>. HIDE DEF ks
  <2>. QED BY <1>3, <2>1 DEF IInv, FilesInv, SoundFiles
<1>5. \A f \in DOMAIN files : f[2] = n /\ files[f] = ks[f[1]]
  <2>1. \A f \in DOMAIN files : f[1] \in 1 .. n /\ f[2] = n /\ f = <<f[1], n>>
    BY <1>2, SetOfFiles DEF IInv, FilesInv, Keys
  <2>. HIDE DEF ks
  <2>. QED BY <1>3, <2>1
<1>6. OnDisk(n)
  BY <1>2 DEF IInv, FilesInv
<1>7. \A i \in DOMAIN ks : filters[i] = BuildPartitionFilterFromCheckpoint(ks[i])
  OBVIOUS
<1>. HIDE DEF ks, filters
<1>8. \A i \in DOMAIN ks : ~ ks[i].completed => Matched(coll, filters[i]) = Due(ks[i])
  BY <1>3, <1>4, <1>7, ResumedFilter DEF IInv, Basics
<1>9. \A d \in Docs(coll) \ Settled :
        \E i \in DOMAIN ks : ~ ks[i].completed /\ d \in Matched(coll, filters[i])
  <2>1. TAKE d \in Docs(coll) \ Settled
  <2>2. PICK i \in 1 .. n : ~ files[<<i, n>>].completed /\ d \in Due(files[<<i, n>>])
    BY <1>6 DEF OnDisk
  <2>. QED BY <1>3, <1>8, <2>2
<1>10. Covers(ks, filters)
  BY <1>3, <1>4, <1>8, <1>9 DEF Covers
<1>. QED BY <1>1, <1>2, <1>3, <1>5, <1>10, BeginStep

-----------------------------------------------------------------------------
(* New partitions: their checkpoints have the bounds of the filters. *)
BoundedBy(ks, raw) ==
  /\ DOMAIN ks = DOMAIN raw
  /\ \A i \in DOMAIN raw :
       /\ ks[i].completed = FALSE /\ DOMAIN ks[i].progress = Present(coll)
       /\ \A t \in Present(coll) :
            LET clause == raw[i].clause[t]
                b == ks[i].progress[t]
            IN /\ b = Progress(clause.start, clause.end, b.saved) /\ IsBound(b.saved, t)
               /\ clause.start # Nil /\ b.saved # Nil => clause.start.val <= b.saved.val

LEMMA CutRanges ==
  ASSUME NEW raw, InOrder(coll, raw)
  PROVE  /\ \A d \in Docs(coll) : \E i \in DOMAIN raw : d \in Matched(coll, raw[i])
         /\ \A i \in DOMAIN raw : ~ raw[i].all /\ DOMAIN raw[i].clause = Present(coll)
         /\ \A i \in DOMAIN raw : \A t \in Present(coll) :
              LET c == raw[i].clause[t] IN
                /\ c.mod = <<>> /\ IsBound(c.start, t) /\ IsBound(c.end, t)
                /\ c.start # Nil /\ c.end # Nil => c.start.val <= c.end.val
         /\ \A i, j \in DOMAIN raw : i < j => \A t \in Present(coll) :
              /\ raw[i].clause[t].end # Nil /\ raw[j].clause[t].start # Nil
              /\ raw[i].clause[t].end.val <= raw[j].clause[t].start.val
<1>1. ASSUME NEW d \in Docs(coll) PROVE \E i \in DOMAIN raw : d \in Matched(coll, raw[i])
  <2>1. /\ Docs(coll) = UNION {Matched(coll, raw[i]) : i \in 1 .. Len(raw)}
        /\ DOMAIN raw = 1 .. Len(raw)
    BY DEF InOrder
  <2>. QED BY ONLY <1>1, <2>1
<1>. QED BY <1>1 DEF InOrder, IsBound

LEMMA NewCheckpoints ==
  ASSUME NEW raw, InOrder(coll, raw), NEW ks, BoundedBy(ks, raw)
  PROVE  /\ \A i \in DOMAIN ks : SoundCheckpoint(ks[i])
         /\ \A i, j \in DOMAIN ks : i < j => Before(ks[i], ks[j])
<1>1. ASSUME NEW i \in DOMAIN raw, NEW t \in Present(coll)
      PROVE  LET b == ks[i].progress[t] IN
               /\ b.start = raw[i].clause[t].start /\ b.end = raw[i].clause[t].end
               /\ Sound(b, t)
  <2> DEFINE b == ks[i].progress[t]
             c == raw[i].clause[t]
  <2>1. /\ b = Progress(c.start, c.end, b.saved) /\ IsBound(b.saved, t)
        /\ c.start # Nil /\ b.saved # Nil => c.start.val <= b.saved.val
    BY DEF BoundedBy
  <2>2. /\ IsBound(c.start, t) /\ IsBound(c.end, t)
        /\ c.start # Nil /\ c.end # Nil => c.start.val <= c.end.val
    BY CutRanges
  <2>. HIDE DEF b, c
  <2>3. b.start = c.start /\ b.end = c.end
    BY <2>1 DEF Progress
  <2>4. Sound(b, t)
    BY <2>1, <2>2, <2>3 DEF Sound
  <2>. QED BY <2>3, <2>4 DEF b, c
<1>2. \A i \in DOMAIN ks : SoundCheckpoint(ks[i])
  <2>1. \A i \in DOMAIN ks : i \in DOMAIN raw /\ ks[i].completed \in BOOLEAN
                             /\ DOMAIN ks[i].progress = Present(coll)
    BY DEF BoundedBy
  <2>. QED BY <1>1, <2>1 DEF SoundCheckpoint
<1>3. ASSUME NEW i \in DOMAIN ks, NEW j \in DOMAIN ks, i < j
      PROVE  Before(ks[i], ks[j])
  <2>1. /\ i \in DOMAIN raw /\ j \in DOMAIN raw
        /\ DOMAIN ks[i].progress = Present(coll) /\ DOMAIN ks[j].progress = Present(coll)
    BY DEF BoundedBy
  <2>2. ASSUME NEW t \in Present(coll)
        PROVE  /\ ks[i].progress[t].end # Nil /\ ks[j].progress[t].start # Nil
               /\ ks[i].progress[t].end.val <= ks[j].progress[t].start.val
    <3>1. /\ raw[i].clause[t].end # Nil /\ raw[j].clause[t].start # Nil
          /\ raw[i].clause[t].end.val <= raw[j].clause[t].start.val
      BY <1>3, <2>1, CutRanges
    <3>2. ks[i].progress[t].end = raw[i].clause[t].end
      BY <1>1, <2>1
    <3>3. ks[j].progress[t].start = raw[j].clause[t].start
      BY <1>1, <2>1
    <3>. QED BY <3>1, <3>2, <3>3
  <2>. QED BY <2>1, <2>2 DEF Before
<1>. QED BY <1>2, <1>3

(* The discovery does not fail where the partitions are in order. *)
LEMMA TypesAreKnown ==
  ASSUME CutsInOrder, coll \in Collections
  PROVE  DiscoverPresentBSONTypes(coll) = {Present(coll)}
BY DEF CutsInOrder, CutInOrder, DiscoverPresentBSONTypes, OnFailure

LEMMA BeginFreshStep ==
  ASSUME CutsInOrder, IInv, NEW total \in Totals, NEW max \in MaxReadPartitions,
         BeginFresh(CalculatePartitionCount(total, MinDocsPerPartition, max), max)
  PROVE  IInv'
<1> DEFINE count == CalculatePartitionCount(total, MinDocsPerPartition, max)
           progress(raw, i) ==
             [t \in DOMAIN raw[i].clause \cup Present(coll) |->
                IF t \in DOMAIN raw[i].clause
                THEN BoundariesOf(raw[i])[t] ELSE Progress(Nil, Nil, Nil)]
           cps(raw) == [i \in DOMAIN raw |-> [completed |-> FALSE, progress |-> progress(raw, i)]]
<1>1. PICK raw \in Partition(coll, count, max) : Begin(cps(raw), raw)
  <2>1. DiscoverPresentBSONTypes(coll) = {Present(coll)}
    BY TypesAreKnown DEF IInv, Basics
  <2>. QED BY <2>1 DEF BeginFresh
<1>2. files = <<>> /\ phase = "delete"
  BY <1>1 DEF BeginFresh, Begin
<1>3. InOrder(coll, raw)
  BY <1>1 DEF CutsInOrder, CutInOrder, IInv, Basics
<1> DEFINE ks == cps(raw)
           n == Len(raw)
<1>4. n \in Nat /\ DOMAIN raw = 1 .. n
  <2>1. n > 1 /\ DOMAIN raw = 1 .. n
    BY <1>3 DEF InOrder
  <2>. QED BY <2>1
<1>5. ASSUME NEW i \in DOMAIN raw
      PROVE  /\ ks[i].completed = FALSE /\ DOMAIN ks[i].progress = Present(coll)
             /\ \A t \in Present(coll) :
                  ks[i].progress[t] = Progress(raw[i].clause[t].start, raw[i].clause[t].end, Nil)
  <2>1. ks[i] = [completed |-> FALSE, progress |-> progress(raw, i)]
    OBVIOUS
  <2>2. DOMAIN raw[i].clause = Present(coll)
    BY <1>3, CutRanges
  <2>3. DOMAIN progress(raw, i) = Present(coll)
    BY <2>2
  <2>4. \A t \in Present(coll) :
          progress(raw, i)[t] = Progress(raw[i].clause[t].start, raw[i].clause[t].end, Nil)
    BY <2>2 DEF BoundariesOf
  <2>. QED BY <2>1, <2>3, <2>4
<1>6. ks = [i \in 1 .. n |-> ks[i]] /\ DOMAIN ks = DOMAIN raw
  BY <1>4
<1>. HIDE DEF ks, n, count
<1>7. BoundedBy(ks, raw)
  <2>1. \A i \in DOMAIN raw : \A t \in Present(coll) :
          ks[i].progress[t].saved = Nil
    <3>1. \A s, e : Progress(s, e, Nil).saved = Nil
      BY DEF Progress
    <3>. QED BY <1>5, <3>1
  <2>. QED BY <1>5, <1>6, <2>1 DEF BoundedBy, IsBound
<1>8. ASSUME NEW i \in DOMAIN ks, NEW d \in Matched(coll, raw[i]) PROVE d \in Due(ks[i])
  <2> DEFINE t == TypeOf(coll, d)
             c == raw[i].clause[t]
             b == ks[i].progress[t]
             x == coll.id[d]
  <2>1. d \in Docs(coll) /\ t \in Present(coll) /\ InClause(x, c)
    BY <1>3, <1>6, <1>8, CutRanges DEF Matched
  <2>2. b = Progress(c.start, c.end, Nil)
    BY <1>5, <1>6, <2>1
  <2>3. InRange(b, x)
    <3>. HIDE DEF b, c, x, t
    <3>1. b.start = c.start /\ b.end = c.end /\ b.saved = Nil
      BY <2>2 DEF Progress
    <3>. QED BY <2>1, <3>1 DEF InClause, InRange, AtLeast, LowerBound
  <2>. QED BY <1>5, <1>6, <2>1, <2>3 DEF Due
<1>9. ASSUME NEW d \in Docs(coll)
      PROVE  \E i \in DOMAIN ks : ~ ks[i].completed /\ d \in Matched(coll, raw[i])
  <2>1. PICK i \in DOMAIN raw : d \in Matched(coll, raw[i])
    BY <1>3, CutRanges
  <2>. QED BY <1>5, <1>6, <2>1
<1>10. Covers(ks, raw)
  <2>1. /\ \A i \in DOMAIN ks : SoundCheckpoint(ks[i])
        /\ \A i, j \in DOMAIN ks : i < j => Before(ks[i], ks[j])
    BY <1>3, <1>7, NewCheckpoints
  <2>. QED BY <1>8, <1>9, <2>1 DEF Covers
<1>11. DOMAIN files = {}
  BY <1>2
<1>12. Begin(ks, raw)
  BY <1>1 DEF ks
<1>. QED BY <1>4, <1>6, <1>10, <1>11, <1>12, BeginStep

(* The clamping: nothing is added to a filter, and no missing document lost. *)
OfCut(filter) ==
  /\ ~ filter.all /\ DOMAIN filter.clause = Present(coll)
  /\ \A t \in Present(coll) :
       LET c == filter.clause[t] IN c.mod = <<>> /\ IsBound(c.start, t) /\ IsBound(c.end, t)

Within(d, c) == AtLeast(c.start, coll.id[d]) /\ (c.end # Nil => coll.id[d].val < c.end.val)

LEMMA InClauseIs ==
  ASSUME coll \in Collections, NEW d \in Docs(coll), NEW c, c.mod = <<>>,
         IsBound(c.start, TypeOf(coll, d)), IsBound(c.end, TypeOf(coll, d))
  PROVE  InClause(coll.id[d], c) <=> Within(d, c)
BY Ids DEF InClause, Within, AtLeast, IsBound

LEMMA Clamping ==
  ASSUME coll \in Collections, NEW min, SafeMin(min), NEW filter, OfCut(filter)
  PROVE  LET clamped == clampPartition(filter, min) IN
           /\ \A d \in Matched(coll, clamped) :
                TypeOf(coll, d) \in Present(coll) /\ Within(d, filter.clause[TypeOf(coll, d)])
           /\ \A d \in Matched(coll, filter) \ Settled : d \in Matched(coll, clamped)
           /\ clamped = Nothing => \A t \in Present(coll) : filter.clause[t].end # Nil
<1> DEFINE safe(t) == IF t \in DOMAIN min THEN min[t] ELSE Nil
           below(a, t) == safe(t) # Nil /\ a # Nil /\ a.type = t /\ a.val <= safe(t).val
           clauses == filter.clause
           active == {t \in DOMAIN clauses : ~ below(clauses[t].end, t)}
           start(t) == IF safe(t) # Nil /\ (clauses[t].start = Nil \/ below(clauses[t].start, t))
                       THEN safe(t) ELSE clauses[t].start
           clause(t) == Between(start(t), clauses[t].end)
           clamped == clampPartition(filter, min)
<1>1. clamped = [all |-> FALSE, clause |-> [t \in active |-> clause(t)]]
  BY DEF clampPartition, OfCut
<1>2. /\ clamped.all = FALSE /\ DOMAIN clamped.clause = active
      /\ \A t \in active : clamped.clause[t] = clause(t)
  BY <1>1
<1>. HIDE DEF clamped
<1>3. /\ DOMAIN clauses = Present(coll) /\ ~ filter.all
      /\ \A t \in Present(coll) : clauses[t].mod = <<>> /\ IsBound(clauses[t].start, t)
                                  /\ IsBound(clauses[t].end, t) /\ IsBound(safe(t), t)
  BY DEF OfCut, SafeMin, IsBound
<1>4. \A t \in Present(coll) :
        clause(t).start = start(t) /\ clause(t).end = clauses[t].end /\ clause(t).mod = <<>>
  BY DEF Between
<1>5. \A t \in Present(coll) : IsBound(start(t), t)
  BY <1>3
<1>6. ASSUME NEW d \in Docs(coll), TypeOf(coll, d) \in Present(coll)
      PROVE  LET t == TypeOf(coll, d) IN
               /\ Within(d, clause(t)) => Within(d, clauses[t])
               /\ Within(d, clauses[t]) /\ AtLeast(safe(t), coll.id[d]) =>
                    Within(d, clause(t)) /\ ~ below(clauses[t].end, t)
               /\ InClause(coll.id[d], clause(t)) <=> Within(d, clause(t))
               /\ InClause(coll.id[d], clauses[t]) <=> Within(d, clauses[t])
  <2> DEFINE t == TypeOf(coll, d)
             x == coll.id[d]
             c == clauses[t]
             k == clause(t)
             s == safe(t)
  <2>1. /\ c.mod = <<>> /\ IsBound(c.start, t) /\ IsBound(c.end, t) /\ IsBound(s, t)
        /\ k.end = c.end /\ k.mod = <<>> /\ IsBound(k.start, t)
        /\ k.start = IF s # Nil /\ (c.start = Nil \/ (c.start.type = t /\ c.start.val <= s.val))
                     THEN s ELSE c.start
    BY <1>3, <1>4, <1>5, <1>6
  <2>2. x.val \in Int
    BY Ids
  <2>3. below(c.end, t) <=> s # Nil /\ c.end # Nil /\ c.end.type = t /\ c.end.val <= s.val
    OBVIOUS
  <2>4. InClause(x, k) <=> Within(d, k)
    <3>. HIDE DEF k
    <3>. QED BY <2>1, InClauseIs
  <2>5. InClause(x, c) <=> Within(d, c)
    <3>. HIDE DEF c
    <3>. QED BY <2>1, InClauseIs
  <2>. HIDE DEF c, k, s
  <2>6. AtLeast(k.start, x) => AtLeast(c.start, x)
    BY <2>1, <2>2 DEF AtLeast, IsBound
  <2>7. AtLeast(c.start, x) /\ AtLeast(s, x) => AtLeast(k.start, x)
    BY <2>1 DEF AtLeast
  <2>8. c.end # Nil /\ x.val < c.end.val /\ AtLeast(s, x) /\ s # Nil => ~ (c.end.val <= s.val)
    BY <2>1, <2>2 DEF AtLeast, IsBound
  <2>9. /\ Within(d, k) => Within(d, c)
        /\ Within(d, c) /\ AtLeast(s, x) =>
             Within(d, k) /\ ~ (s # Nil /\ c.end # Nil /\ c.end.type = t /\ c.end.val <= s.val)
    BY <2>1, <2>6, <2>7, <2>8 DEF Within
  <2>. QED BY <2>3, <2>4, <2>5, <2>9 DEF c, k, s
<1>7. \A d \in Docs(coll) \ Settled :
        TypeOf(coll, d) \in DOMAIN min /\ AtLeast(safe(TypeOf(coll, d)), coll.id[d])
  BY DEF SafeMin
<1>8. clamped = Nothing => \A t \in Present(coll) : clauses[t].end # Nil
  <2>. SUFFICES ASSUME clamped = Nothing, NEW t \in Present(coll) PROVE clauses[t].end # Nil
    OBVIOUS
  <2>1. clamped.clause = <<>>
    BY DEF Nothing
  <2>2. DOMAIN clamped.clause = {}
    BY <2>1
  <2>3. below(clauses[t].end, t)
    BY <1>2, <1>3, <2>2
  <2>. QED BY <2>3
<1>. HIDE DEF clause, clauses, safe, below
<1>9. ASSUME NEW d \in Matched(coll, clamped)
      PROVE  TypeOf(coll, d) \in Present(coll) /\ Within(d, clauses[TypeOf(coll, d)])
  <2>1. /\ d \in Docs(coll) /\ TypeOf(coll, d) \in active
        /\ InClause(coll.id[d], clause(TypeOf(coll, d)))
    BY <1>2, <1>9 DEF Matched
  <2>2. TypeOf(coll, d) \in Present(coll)
    BY <1>3, <2>1
  <2>. QED BY <1>6, <2>1, <2>2
<1>10. ASSUME NEW d \in Matched(coll, filter), d \notin Settled
       PROVE  d \in Matched(coll, clamped)
  <2> DEFINE t == TypeOf(coll, d)
  <2>1. d \in Docs(coll) /\ t \in Present(coll) /\ InClause(coll.id[d], clauses[t])
    BY <1>3, <1>10 DEF Matched, clauses
  <2>2. InClause(coll.id[d], clause(t)) /\ ~ below(clauses[t].end, t)
    BY <1>6, <1>7, <1>10, <2>1
  <2>3. t \in active
    BY <1>3, <2>1, <2>2
  <2>. QED BY <1>2, <2>1, <2>2, <2>3 DEF Matched
<1>. QED BY <1>8, <1>9, <1>10 DEF clamped, clauses

(* A resampled partition with nothing left is bookmarked at its ends. *)
LEMMA Resampled ==
  ASSUME NEW filter, OfCut(filter), NEW clamped,
         clamped = Nothing => \A t \in Present(coll) : filter.clause[t].end # Nil
  PROVE  LET k == ResampledCheckpoint(filter, clamped) IN
           /\ k.completed = FALSE /\ DOMAIN k.progress = Present(coll)
           /\ \A t \in Present(coll) :
                LET c == filter.clause[t] IN
                  k.progress[t] = Progress(c.start, c.end, IF clamped = Nothing THEN c.end ELSE Nil)
<1> DEFINE k == ResampledCheckpoint(filter, clamped)
           bookmark(t) == IF BoundariesOf(filter)[t].end # Nil THEN BoundariesOf(filter)[t].end
                          ELSE IF t \in DOMAIN plan.min THEN plan.min[t] ELSE Nil
           progress == [t \in DOMAIN filter.clause |->
                          IF clamped = Nothing
                          THEN [BoundariesOf(filter)[t] EXCEPT !.saved = bookmark(t)]
                          ELSE BoundariesOf(filter)[t]]
<1>1. k = [completed |-> FALSE, progress |-> progress]
  BY DEF ResampledCheckpoint
<1>2. k.completed = FALSE /\ k.progress = progress /\ DOMAIN progress = Present(coll)
  BY <1>1 DEF OfCut
<1>. HIDE DEF k
<1>3. ASSUME NEW t \in Present(coll)
      PROVE  LET c == filter.clause[t] IN
               progress[t] = Progress(c.start, c.end, IF clamped = Nothing THEN c.end ELSE Nil)
  <2> DEFINE c == filter.clause[t]
             b == BoundariesOf(filter)[t]
  <2>1. b = Progress(c.start, c.end, Nil)
    BY DEF BoundariesOf, OfCut
  <2>2. progress[t] = IF clamped = Nothing THEN [b EXCEPT !.saved = bookmark(t)] ELSE b
    BY DEF OfCut
  <2>3. bookmark(t) = IF b.end # Nil THEN b.end
                      ELSE IF t \in DOMAIN plan.min THEN plan.min[t] ELSE Nil
    OBVIOUS
  <2>4. clamped = Nothing => c.end # Nil
    OBVIOUS
  <2>. HIDE DEF b, bookmark, progress, c
  <2>5. b.end = c.end
    BY <2>1 DEF Progress
  <2>6. clamped = Nothing => bookmark(t) = c.end
    BY <2>3, <2>4, <2>5
  <2>7. \A m : [b EXCEPT !.saved = m] = Progress(c.start, c.end, m)
    BY <2>1 DEF Progress
  <2>8. progress[t] = Progress(c.start, c.end, IF clamped = Nothing THEN c.end ELSE Nil)
    BY <2>1, <2>2, <2>6, <2>7
  <2>. QED BY <2>8 DEF c
<1>. QED BY <1>2, <1>3 DEF k

LEMMA BeginResampledStep ==
  ASSUME CutsInOrder, IInv, NEW total \in Totals, NEW max \in MaxReadPartitions,
         BeginResampled(CalculatePartitionCount(total, MinDocsPerPartition, max), max)
  PROVE  IInv'
<1> DEFINE count == CalculatePartitionCount(total, MinDocsPerPartition, max)
           clampedOf(raw) == ClampPartitionsWithGlobalMinSafeIDs(raw, plan.min)
           cps(raw) == [i \in DOMAIN raw |-> ResampledCheckpoint(raw[i], clampedOf(raw)[i])]
<1>1. PICK raw \in Partition(coll, count, max) : Begin(cps(raw), clampedOf(raw))
  BY DEF BeginResampled
<1>2. files = <<>> /\ phase = "delete" /\ plan.mode = "resample"
  BY <1>1 DEF BeginResampled, Begin
<1>3. InOrder(coll, raw) /\ coll \in Collections
  BY <1>1 DEF CutsInOrder, CutInOrder, IInv, Basics
<1>4. SafeMin(plan.min)
  BY <1>2 DEF IInv, PlanInv
<1> DEFINE ks == cps(raw)
           clamped == clampedOf(raw)
           n == Len(raw)
<1>5. n \in Nat /\ DOMAIN raw = 1 .. n
  <2>1. n > 1 /\ DOMAIN raw = 1 .. n
    BY <1>3 DEF InOrder
  <2>. QED BY <2>1
<1>6. ks = [i \in 1 .. n |-> ks[i]] /\ DOMAIN ks = DOMAIN raw
      /\ \A i \in DOMAIN raw : ks[i] = ResampledCheckpoint(raw[i], clamped[i])
  BY <1>5
<1>7. \A i \in DOMAIN raw : clamped[i] = IF plan.min = <<>> THEN raw[i]
                                         ELSE clampPartition(raw[i], plan.min)
  BY DEF ClampPartitionsWithGlobalMinSafeIDs
<1>8. Begin(ks, clamped)
  BY <1>1
<1>. HIDE DEF ks, n, clamped, count
<1>9. \A i \in DOMAIN raw : OfCut(raw[i])
  BY <1>3, CutRanges DEF OfCut
<1>10. ASSUME NEW i \in DOMAIN raw
       PROVE  /\ \A d \in Matched(coll, clamped[i]) :
                   TypeOf(coll, d) \in Present(coll) /\ Within(d, raw[i].clause[TypeOf(coll, d)])
              /\ \A d \in Matched(coll, raw[i]) \ Settled : d \in Matched(coll, clamped[i])
              /\ clamped[i] = Nothing => \A t \in Present(coll) : raw[i].clause[t].end # Nil
  <2>1. CASE plan.min = <<>>
    <3>1. clamped[i] = raw[i] /\ OfCut(raw[i])
      BY <1>7, <1>9, <2>1
    <3>2. ASSUME NEW d \in Matched(coll, raw[i])
          PROVE  TypeOf(coll, d) \in Present(coll) /\ Within(d, raw[i].clause[TypeOf(coll, d)])
      <4>1. /\ d \in Docs(coll) /\ TypeOf(coll, d) \in Present(coll)
            /\ InClause(coll.id[d], raw[i].clause[TypeOf(coll, d)])
        BY <3>1, <3>2 DEF Matched, OfCut
      <4>. QED BY <1>3, <3>1, <4>1, InClauseIs DEF OfCut
    <3>3. raw[i] = Nothing => Present(coll) = {}
      <4>1. Nothing.clause = <<>> /\ DOMAIN <<>> = {}
        BY DEF Nothing
      <4>. QED BY <3>1, <4>1 DEF OfCut
    <3>. QED BY <3>1, <3>2, <3>3
  <2>2. CASE plan.min # <<>>
    BY <1>3, <1>4, <1>7, <1>9, <2>2, Clamping
  <2>. QED BY <2>1, <2>2
<1>11. ASSUME NEW i \in DOMAIN raw
       PROVE  /\ ks[i].completed = FALSE /\ DOMAIN ks[i].progress = Present(coll)
              /\ \A t \in Present(coll) :
                   LET c == raw[i].clause[t] IN
                     ks[i].progress[t] =
                       Progress(c.start, c.end, IF clamped[i] = Nothing THEN c.end ELSE Nil)
  <2>1. /\ OfCut(raw[i])
        /\ clamped[i] = Nothing => \A t \in Present(coll) : raw[i].clause[t].end # Nil
    BY <1>9, <1>10
  <2> DEFINE k == ResampledCheckpoint(raw[i], clamped[i])
  <2>2. /\ k.completed = FALSE /\ DOMAIN k.progress = Present(coll)
        /\ \A t \in Present(coll) :
             LET c == raw[i].clause[t] IN
               k.progress[t] =
                 Progress(c.start, c.end, IF clamped[i] = Nothing THEN c.end ELSE Nil)
    BY <2>1, Resampled
  <2>3. ks[i] = k
    BY <1>6
  <2>. HIDE DEF k
  <2>. QED BY <2>2, <2>3
<1>12. BoundedBy(ks, raw)
  <2>1. \A s, e, m : Progress(s, e, m).saved = m
    BY DEF Progress
  <2>2. ASSUME NEW i \in DOMAIN raw, NEW t \in Present(coll)
        PROVE  LET clause == raw[i].clause[t]
                   b == ks[i].progress[t]
               IN /\ b = Progress(clause.start, clause.end, b.saved) /\ IsBound(b.saved, t)
                  /\ clause.start # Nil /\ b.saved # Nil => clause.start.val <= b.saved.val
    <3> DEFINE c == raw[i].clause[t]
               b == ks[i].progress[t]
               m == IF clamped[i] = Nothing THEN c.end ELSE Nil
    <3>1. b = Progress(c.start, c.end, m) /\ b.saved = m
      <4>1. b = Progress(c.start, c.end, m)
        BY <1>11
      <4>. HIDE DEF b, m
      <4>. QED BY <2>1, <4>1
    <3>2. IsBound(c.end, t) /\ (c.start # Nil /\ c.end # Nil => c.start.val <= c.end.val)
      BY <1>3, CutRanges
    <3>. HIDE DEF c, b
    <3>3. IsBound(m, t) /\ (c.start # Nil /\ m # Nil => c.start.val <= m.val)
      BY <3>2 DEF IsBound
    <3>. HIDE DEF m
    <3>4. b = Progress(c.start, c.end, b.saved) /\ IsBound(b.saved, t)
           /\ (c.start # Nil /\ b.saved # Nil => c.start.val <= b.saved.val)
      BY <3>1, <3>3
    <3>. QED BY <3>4 DEF b, c
  <2>. QED BY <1>6, <1>11, <2>2 DEF BoundedBy
<1>13. ASSUME NEW i \in DOMAIN ks, NEW d \in Matched(coll, clamped[i]) PROVE d \in Due(ks[i])
  <2> DEFINE t == TypeOf(coll, d)
             c == raw[i].clause[t]
             b == ks[i].progress[t]
             x == coll.id[d]
  <2>1. i \in DOMAIN raw /\ d \in Docs(coll) /\ t \in Present(coll) /\ Within(d, c)
    BY <1>6, <1>10, <1>13 DEF Matched
  <2>2. clamped[i] # Nothing
    <3>1. Nothing.all = FALSE /\ DOMAIN Nothing.clause = {}
      BY DEF Nothing
    <3>. QED BY <1>13, <3>1 DEF Matched
  <2>3. b = Progress(c.start, c.end, Nil)
    BY <1>11, <2>1, <2>2
  <2>4. InRange(b, x)
    <3>1. Within(d, c) <=> AtLeast(c.start, x) /\ (c.end # Nil => x.val < c.end.val)
      BY DEF Within
    <3>. HIDE DEF b, c, x
    <3>2. b.start = c.start /\ b.end = c.end /\ b.saved = Nil
      BY <2>3 DEF Progress
    <3>. QED BY <2>1, <3>1, <3>2 DEF InRange, LowerBound
  <2>. QED BY <1>11, <2>1, <2>4 DEF Due
<1>14. ASSUME NEW d \in Docs(coll) \ Settled
       PROVE  \E i \in DOMAIN ks : ~ ks[i].completed /\ d \in Matched(coll, clamped[i])
  <2>1. PICK i \in DOMAIN raw : d \in Matched(coll, raw[i])
    BY <1>3, CutRanges
  <2>. QED BY <1>6, <1>10, <1>11, <2>1
<1>15. Covers(ks, clamped)
  <2>1. /\ \A i \in DOMAIN ks : SoundCheckpoint(ks[i])
        /\ \A i, j \in DOMAIN ks : i < j => Before(ks[i], ks[j])
    BY <1>3, <1>12, NewCheckpoints
  <2>. QED BY <1>13, <1>14, <2>1 DEF Covers
<1>16. DOMAIN files = {}
  BY <1>2
<1>. QED BY <1>5, <1>6, <1>8, <1>15, <1>16, BeginStep

(* The sequential copy: a single partition, of which every type has at most a bookmark. *)
LEMMA BeginSequentialStep ==
  ASSUME CutsInOrder, IInv, BeginSequential
  PROVE  IInv'
<1> DEFINE types == IF plan.mode = "resample" THEN DOMAIN plan.min ELSE Present(coll)
           mark(t) == IF plan.mode = "resample" THEN plan.min[t] ELSE Nil
           progress == [t \in types |-> Progress(Nil, Nil, mark(t))]
           k == [completed |-> FALSE, progress |-> progress]
           filter == IF plan.mode = "resample" THEN BuildPartitionFilterFromCheckpoint(k)
                                               ELSE Everything
<1>1. files = <<>> /\ plan.mode # "direct" /\ Begin(<<k>>, <<filter>>) /\ phase = "delete"
  <2>1. DiscoverPresentBSONTypes(coll) = {Present(coll)}
    BY TypesAreKnown DEF IInv, Basics
  <2>. QED BY <2>1 DEF BeginSequential, Begin
<1>2. plan.mode \in {"fresh", "resample"} /\ (plan.mode = "resample" => SafeMin(plan.min))
  BY <1>1 DEF IInv, PlanInv
<1>3. /\ k.completed = FALSE /\ DOMAIN k.progress = types
      /\ \A t \in types : k.progress[t] = Progress(Nil, Nil, mark(t))
  OBVIOUS
<1>. HIDE DEF k
<1>4. \A t \in types : IsBound(mark(t), t)
  BY <1>2 DEF SafeMin, IsBound
<1>5. SoundCheckpoint(k)
  <2>1. ASSUME NEW t \in types PROVE Sound(Progress(Nil, Nil, mark(t)), t)
    BY <1>4 DEF Sound, Progress, IsBound
  <2>. HIDE DEF types, mark
  <2>. QED BY <1>3, <2>1 DEF SoundCheckpoint
<1>6. coll \in Collections /\ \A d \in Docs(coll) : TypeOf(coll, d) \in Present(coll)
  BY DEF CutsInOrder, CutInOrder, IInv, Basics, Present
<1>7. \A d \in Docs(coll) \ Settled : d \in Due(k)
  <2>1. TAKE d \in Docs(coll) \ Settled
  <2> DEFINE t == TypeOf(coll, d)
  <2>2. t \in types /\ AtLeast(mark(t), coll.id[d])
    BY <1>2, <1>6 DEF SafeMin, AtLeast
  <2>3. InRange(Progress(Nil, Nil, mark(t)), coll.id[d])
    BY <2>2 DEF InRange, LowerBound, AtLeast, Progress
  <2>. QED BY <1>3, <2>2, <2>3 DEF Due
<1>8. Matched(coll, filter) \subseteq Due(k) /\ \A d \in Due(k) : d \in Matched(coll, filter)
  <2>1. CASE plan.mode = "resample"
    BY <1>3, <1>5, <1>6, <2>1, ResumedFilter
  <2>2. CASE plan.mode = "fresh"
    <3>1. filter = Everything /\ Everything.all = TRUE
      BY <2>2 DEF Everything
    <3>2. Matched(coll, filter) = Docs(coll) /\ Due(k) \subseteq Docs(coll)
      BY <3>1 DEF Matched, Due
    <3>3. ASSUME NEW d \in Docs(coll) PROVE d \in Due(k)
      <4> DEFINE t == TypeOf(coll, d)
      <4>1. t \in types /\ mark(t) = Nil
        BY <1>6, <2>2
      <4>2. InRange(Progress(Nil, Nil, Nil), coll.id[d])
        BY DEF InRange, LowerBound, AtLeast, Progress
      <4>. QED BY <1>3, <4>1, <4>2 DEF Due
    <3>. QED BY <3>2, <3>3
  <2>. QED BY <1>2, <2>1, <2>2
<1>. HIDE DEF filter, types
<1>9. DOMAIN <<k>> = {1} /\ <<k>>[1] = k /\ <<filter>>[1] = filter /\ 1 .. 1 = {1}
  OBVIOUS
<1> DEFINE ks == <<k>>
           filters == <<filter>>
<1>10. Covers(ks, filters)
  <2>1. DOMAIN ks = {1} /\ ks[1] = k /\ filters[1] = filter
    BY <1>9
  <2>. HIDE DEF ks, filters
  <2>2. \A i, j \in DOMAIN ks : ~ (i < j)
    BY <2>1
  <2>. QED BY <1>3, <1>5, <1>7, <1>8, <2>1, <2>2 DEF Covers
<1>11. ks = [i \in 1 .. 1 |-> ks[i]] /\ Begin(ks, filters) /\ DOMAIN files = {}
  BY <1>1
<1>. HIDE DEF ks, filters
<1>. QED BY <1>10, <1>11, BeginStep

-----------------------------------------------------------------------------
(* The invariant. *)
LEMMA IInvInit == Init => IInv
<1>. SUFFICES ASSUME Init PROVE IInv
  OBVIOUS
<1>1. /\ coll \in Collections /\ files = <<>> /\ phase = "plan" /\ handled = {} /\ ignored = {}
      /\ plan.mode = "fresh" /\ plan.min = <<>>
      /\ cp = <<>> /\ unread = <<>> /\ open = <<>> /\ failed = <<>> /\ acked = <<>> /\ reading = {}
  BY DEF Init
<1>2. RunInv
  BY <1>1, NoRun
<1>3. DOMAIN files = {}
  BY <1>1
<1>4. FilesInv
  <2>1. ~ \E n \in Nat : ValidSet(n)
    BY <1>3, SetOfFiles
  <2>. QED BY <1>3, <2>1 DEF FilesInv, Keys, SoundFiles
<1>5. PlanInv
  BY <1>1 DEF PlanInv
<1>. QED BY <1>1, <1>2, <1>4, <1>5 DEF IInv, Basics

LEMMA IInvNext ==
  ASSUME CutsInOrder, IInv, [Next]_vars
  PROVE  IInv'
<1>1. CASE AlreadyCompleted
  BY <1>1, AlreadyCompletedStep
<1>2. CASE \E parallel, expected : MakePlan(parallel, expected)
  BY <1>2, MakePlanStep
<1>3. CASE \E f \in DOMAIN files : DeleteFile(f)
  BY <1>3, DeleteFileStep
<1>4. CASE BeginDirect
  BY <1>4, BeginDirectStep
<1>5. CASE \E total \in Totals, max \in MaxReadPartitions :
             LET n == CalculatePartitionCount(total, MinDocsPerPartition, max) IN
               BeginResampled(n, max) \/ BeginFresh(n, max)
  BY <1>5, BeginResampledStep, BeginFreshStep
<1>6. CASE BeginSequential
  BY <1>6, BeginSequentialStep
<1>7. CASE \E p \in DOMAIN cp : PartitionNext(p) \/ WorkerFails(p)
  BY <1>7, ReadStep, AckStep, ReturnErrorStep, CompleteStep, WorkerFailsStep DEF PartitionNext
<1>8. CASE \E d \in Docs(coll) : Write(d)
  BY <1>8, WriteStep
<1>9. CASE Restart
  BY <1>9, RestartStep
<1>10. CASE UNCHANGED vars
  <2>1. UNCHANGED <<coll, files, phase, plan, cp, unread, open, failed, acked, reading,
                    handled, ignored>>
    BY <1>10 DEF vars, run, history
  <2>2. Basics' /\ FilesInv'
    BY <2>1, FilesStay DEF IInv, Basics, Settled
  <2>3. PlanInv'
    BY <2>1 DEF IInv, PlanInv, Splits, ValidSet, SafeMin, AtLeast, Settled
  <2>4. Lists' /\ Sorted' /\ PartitionsAreDisjoint' /\ Stored' /\ NothingSkipped'
    BY <2>1 DEF IInv, RunInv, Lists, Sorted, Before, PartitionsAreDisjoint, Stored, NothingSkipped
  <2>5. \A p \in DOMAIN cp : Part(p)'
    BY <2>1 DEF IInv, RunInv, Part, SoundCheckpoint, Due, Settled
  <2>. QED BY <2>1, <2>2, <2>3, <2>4, <2>5 DEF IInv, RunInv
<1>11. PlanNext => \/ AlreadyCompleted
                   \/ \E parallel, expected : MakePlan(parallel, expected)
                   \/ \E f \in DOMAIN files : DeleteFile(f)
                   \/ BeginDirect
                   \/ \E total \in Totals, max \in MaxReadPartitions :
                        LET n == CalculatePartitionCount(total, MinDocsPerPartition, max) IN
                          BeginResampled(n, max) \/ BeginFresh(n, max)
                   \/ BeginSequential
  BY DEF PlanNext
<1>. QED BY <1>1, <1>2, <1>3, <1>4, <1>5, <1>6, <1>7, <1>8, <1>9, <1>10, <1>11 DEF Next

LEMMA IInvIsInvariant == CutsInOrder => (Spec => []IInv)
<1>. SUFFICES ASSUME CutsInOrder PROVE Spec => []IInv
  OBVIOUS
<1>1. IInv /\ [Next]_vars => IInv'
  BY IInvNext
<1>. QED BY IInvInit, <1>1, PTL DEF Spec

-----------------------------------------------------------------------------
(* What the runs check. *)
LEMMA InvariantParts ==
  IInv => TypeOK /\ NothingSkipped /\ FinishedMeansDone /\ PartitionsAreDisjoint
<1>. SUFFICES ASSUME IInv
              PROVE  TypeOK /\ NothingSkipped /\ FinishedMeansDone /\ PartitionsAreDisjoint
  OBVIOUS
<1>1. NothingSkipped /\ PartitionsAreDisjoint
  BY DEF IInv, RunInv
<1>2. FinishedMeansDone
  <2>. SUFFICES ASSUME Finished, NEW d \in Docs(coll), d \notin Settled
                PROVE  FALSE
    BY DEF FinishedMeansDone, Settled
  <2>1. Splits \in Nat /\ ValidSet(Splits)
    BY SplitsIsASet DEF Finished, IInv, FilesInv
  <2>2. PICK i \in 1 .. Splits : ~ files[<<i, Splits>>].completed
    BY <2>1 DEF IInv, FilesInv, OnDisk
  <2>3. Checkpoints(Splits)[i] = files[<<i, Splits>>]
    BY DEF Checkpoints
  <2>. QED BY <2>2, <2>3 DEF Finished, AllCompleted
<1>3. TypeOK
  <2>1. \A f \in DOMAIN files : f[1] \in 1 .. f[2]
    BY DEF IInv, FilesInv, Keys
  <2>2. \A p \in DOMAIN cp :
          /\ unread[p] \subseteq Docs(coll) /\ open[p] \subseteq Docs(coll)
          /\ failed[p] \subseteq open[p]
          /\ acked[p] \subseteq handled /\ open[p] \cap acked[p] = {}
          /\ Cardinality(open[p]) <= MaxInFlight
    BY DEF IInv, RunInv, Part, Due
  <2>. QED BY <2>1, <2>2 DEF TypeOK, IInv, Basics, PlanInv, RunInv, Lists
<1>. QED BY <1>1, <1>2, <1>3

(* The lists of a run keep their shape, a document is with one goroutine in one
   role, and no partition has more documents out than its channel and its workers
   take, whatever the counts of the starts were (migrateCollectionParallel). *)
THEOREM ResumptionTypeCorrect == CutsInOrder => (Spec => []TypeOK)
BY IInvIsInvariant, InvariantParts, PTL

(* However often the copy is stopped, planned for another number of partitions and
   started again, no document is left behind unless an ignored error gave it up:
   it is with one of the goroutines (DetermineBackfillResumptionPlan,
   clampPartition, saveCheckpointsLocked). *)
THEOREM NothingIsSkipped == CutsInOrder => (Spec => []NothingSkipped)
BY IInvIsInvariant, InvariantParts, PTL

(* The files by which every later start skips the collection are written only when
   all of it has been copied or recorded, with the same exception (MarkCompleted,
   ValidateCheckpointSet). *)
THEOREM FinishedIsDone == CutsInOrder => (Spec => []FinishedMeansDone)
BY IInvIsInvariant, InvariantParts, PTL

(* No document is read by two partitions of one run, fresh, resumed or cut anew. *)
THEOREM PartitionsStayDisjoint == CutsInOrder => (Spec => []PartitionsAreDisjoint)
BY IInvIsInvariant, InvariantParts, PTL

-----------------------------------------------------------------------------
(* When the partitioner cuts in order. *)

(* Each number up to the size of a set is the rank of one of its elements. *)
LEMMA Ranks ==
  ASSUME NEW m \in Nat, NEW S \in SUBSET (1 .. m), IsFiniteSet(S), NEW k \in 1 .. Cardinality(S)
  PROVE  Ranked(S, k) \in S /\ Cardinality({e \in S : e <= Ranked(S, k)}) = k
<1> DEFINE Below(d) == {e \in S : e <= d}
           rank == [d \in S |-> Cardinality(Below(d))]
           N == Cardinality(S)
<1>1. N \in Nat
  BY FS_CardinalityType
<1>2. \A d \in S : IsFiniteSet(Below(d)) /\ Cardinality(Below(d)) \in 1 .. N
  <2>1. TAKE d \in S
  <2>2. Below(d) \in SUBSET S /\ d \in Below(d)
    OBVIOUS
  <2>. HIDE DEF Below
  <2>3. IsFiniteSet(Below(d)) /\ Cardinality(Below(d)) <= N
    BY <2>2, FS_Subset
  <2>4. Cardinality(Below(d)) \in Nat /\ Cardinality(Below(d)) # 0
    BY <2>2, <2>3, FS_CardinalityType, FS_EmptySet
  <2>. QED BY <1>1, <2>3, <2>4
<1>3. \A d, e \in S : d < e => Cardinality(Below(d)) # Cardinality(Below(e))
  <2>1. SUFFICES ASSUME NEW d \in S, NEW e \in S, d < e
                 PROVE  Cardinality(Below(d)) # Cardinality(Below(e))
    OBVIOUS
  <2>2. \A x \in S : x \in Int
    OBVIOUS
  <2>3. \A x \in S : x <= d => x <= e
    BY <2>1, <2>2
  <2>4. Below(d) \in SUBSET Below(e)
    BY <2>3
  <2>5. e \in Below(e) /\ e \notin Below(d)
    BY <2>1, <2>2
  <2>. HIDE DEF Below
  <2>. QED BY <1>2, <2>4, <2>5, FS_Subset
<1>4. \A d, e \in S : rank[d] = rank[e] => d = e
  <2>. HIDE DEF Below
  <2>. QED BY <1>3
<1>5. rank \in [S -> 1 .. N]
  <2>. HIDE DEF Below, N
  <2>. QED BY <1>2
<1>6. IsFiniteSet(1 .. N) /\ Cardinality(1 .. N) = N
  <2>1. 1 \in Int /\ N \in Int
    BY <1>1
  <2>. HIDE DEF N
  <2>2. IsFiniteSet(1 .. N) /\ Cardinality(1 .. N) = IF 1 > N THEN 0 ELSE N - 1 + 1
    BY <2>1, FS_Interval
  <2>. QED BY <2>1, <2>2, <1>1
<1>. HIDE DEF rank
<1>7. rank \in Injection(S, 1 .. N)
  BY <1>4, <1>5 DEF Injection, IsInjective
<1>8. rank \in Surjection(S, 1 .. N)
  BY <1>6, <1>7, FS_Injection
<1>9. \E d \in S : rank[d] = k
  BY <1>8 DEF Surjection
<1>10. \E d \in S : Cardinality({e \in S : e <= d}) = k
  BY <1>9 DEF rank
<1>. QED BY <1>10 DEF Ranked

(* The k-th document of a sample lies before the later ones. *)
LEMMA RanksAscend ==
  ASSUME NEW m \in Nat, NEW S \in SUBSET (1 .. m), IsFiniteSet(S),
         NEW i \in 1 .. Cardinality(S), NEW j \in 1 .. Cardinality(S), i < j
  PROVE  Ranked(S, i) < Ranked(S, j)
<1> DEFINE d == Ranked(S, i)
           e == Ranked(S, j)
<1>1. /\ d \in S /\ Cardinality({x \in S : x <= d}) = i
      /\ e \in S /\ Cardinality({x \in S : x <= e}) = j
  BY Ranks
<1>. HIDE DEF d, e
<1>2. \A x \in S : x \in Int
  OBVIOUS
<1>3. ASSUME e <= d PROVE FALSE
  <2>1. \A x \in S : x <= e => x <= d
    BY <1>1, <1>2, <1>3
  <2>2. {x \in S : x <= e} \in SUBSET {x \in S : x <= d}
    BY <2>1
  <2>3. IsFiniteSet({x \in S : x <= d})
    BY FS_Subset
  <2>4. Cardinality({x \in S : x <= e}) <= Cardinality({x \in S : x <= d})
    BY <2>2, <2>3, FS_Subset
  <2>. QED BY <1>1, <2>4
<1>4. d < e
  BY <1>1, <1>2, <1>3
<1>. QED BY <1>4 DEF d, e

-----------------------------------------------------------------------------
(* Values of one type in order, of which n - 1 cut the type into n ranges. *)
Rising(b, t, n) ==
  /\ n \in Nat /\ Len(b) = n /\ DOMAIN b = 1 .. n
  /\ \A k \in 1 .. n : b[k] # Nil /\ b[k].type = t /\ b[k].val \in Int
  /\ \A i, j \in 1 .. n : i <= j => b[i].val <= b[j].val

(* The sorted sample of a type. *)
LEMMA SampleRises ==
  ASSUME NEW c \in Collections, NEW t, NEW s \in Samples(c, DocsOfType(c, t))
  PROVE  Rising(s, t, Len(s))
<1>1. PICK sub \in SUBSET DocsOfType(c, t) :
        s = [k \in 1 .. Cardinality(sub) |-> c.id[Ranked(sub, k)]]
  BY DEF Samples
<1> DEFINE n == Cardinality(sub)
<1>2. sub \in SUBSET (1 .. Len(c.id)) /\ Len(c.id) \in Nat
  BY Ids DEF DocsOfType, Docs
<1>3. IsFiniteSet(sub)
  BY <1>2, FiniteDocs, FS_Subset DEF Docs
<1>4. n \in Nat
  BY <1>3, FS_CardinalityType
<1>5. s = [k \in 1 .. n |-> s[k]]
  BY <1>1
<1>6. Len(s) = n /\ DOMAIN s = 1 .. n
  BY <1>4, <1>5, ListLength
<1>7. \A k \in 1 .. n : Ranked(sub, k) \in sub
  BY <1>2, <1>3, Ranks
<1>8. \A i, j \in 1 .. n : i < j => Ranked(sub, i) < Ranked(sub, j)
  BY <1>2, <1>3, RanksAscend
<1>9. \A d \in sub : d \in Docs(c) /\ TypeOf(c, d) = t
  BY DEF DocsOfType
<1>10. \A k \in 1 .. n : s[k] = c.id[Ranked(sub, k)]
  BY <1>1
<1>. HIDE DEF n
<1>11. \A k \in 1 .. n : s[k] # Nil /\ s[k].type = t /\ s[k].val \in Int
  BY <1>7, <1>9, <1>10, Ids DEF TypeOf
<1>12. \A i, j \in 1 .. n : i <= j => s[i].val <= s[j].val
  <2>1. SUFFICES ASSUME NEW i \in 1 .. n, NEW j \in 1 .. n, i < j
                 PROVE  s[i].val <= s[j].val
    BY <1>4, <1>11
  <2>2. c.id[Ranked(sub, i)].val < c.id[Ranked(sub, j)].val
    BY <2>1, <1>7, <1>8, <1>9, Ids
  <2>. QED BY <2>2, <1>10, <1>11
<1>. QED BY <1>4, <1>6, <1>11, <1>12 DEF Rising

(* The sample of all documents is one of those that may be returned. *)
LEMMA WholeSample ==
  ASSUME NEW c \in Collections, NEW t
  PROVE  \E s \in Samples(c, DocsOfType(c, t)) : Len(s) = Cardinality(DocsOfType(c, t))
<1> DEFINE docs == DocsOfType(c, t)
           s == [k \in 1 .. Cardinality(docs) |-> c.id[Ranked(docs, k)]]
<1>1. s \in Samples(c, docs)
  BY DEF Samples
<1>2. docs \in SUBSET Docs(c)
  BY DEF DocsOfType
<1>3. Cardinality(docs) \in Nat
  BY <1>2, FiniteDocs, FS_Subset, FS_CardinalityType
<1>4. s = [k \in 1 .. Cardinality(docs) |-> s[k]]
  OBVIOUS
<1>. HIDE DEF docs, s
<1>5. Len(s) = Cardinality(docs)
  BY <1>3, <1>4, ListLength
<1>. QED BY <1>1, <1>5 DEF docs

LEMMA Times ==
  ASSUME NEW a \in Nat, NEW b \in Nat, NEW d \in Nat, a <= b
  PROVE  a * d \in Nat /\ a * d <= b * d
<1>1. PICK e \in Nat : b = a + e
  <2>1. b - a \in Nat /\ b = a + (b - a)
    OBVIOUS
  <2>. QED BY <2>1
<1>2. b * d = a * d + e * d
  BY <1>1
<1>3. a * d \in Nat /\ e * d \in Nat
  OBVIOUS
<1>. QED BY <1>2, <1>3

LEMMA Quotients ==
  ASSUME NEW a \in Nat, NEW n \in Nat \ {0}
  PROVE  /\ a \div n \in Nat /\ (a \div n) * n <= a
         /\ a >= n => a \div n >= 1
         /\ \A b \in Nat : a <= b => a \div n <= b \div n
OBVIOUS

(* Evenly spaced elements of a sample that is large enough rise as well. *)
LEMMA EverySoManyRises ==
  ASSUME NEW t, NEW s, Rising(s, t, Len(s)), NEW n \in Nat \ {0}, NEW step \in Nat,
         NEW first \in Nat, (n - 1 + first) * step + 1 <= Len(s)
  PROVE  Rising(EverySoMany(s, step, first, n), t, n - 1)
<1> DEFINE b == EverySoMany(s, step, first, n)
           at(k) == (k + first) * step + 1
<1>1. n - 1 \in Nat
  OBVIOUS
<1>2. b = [k \in 1 .. n - 1 |-> s[at(k)]]
  BY DEF EverySoMany
<1>3. b = [k \in 1 .. n - 1 |-> b[k]]
  BY <1>2
<1>4. \A i, j \in 1 .. n - 1 : i <= j => at(i) <= at(j) /\ at(i) \in Nat
  <2>1. SUFFICES ASSUME NEW i \in 1 .. n - 1, NEW j \in 1 .. n - 1, i <= j
                 PROVE  at(i) <= at(j) /\ at(i) \in Nat
    OBVIOUS
  <2>2. i + first \in Nat /\ j + first \in Nat /\ i + first <= j + first
    BY <2>1
  <2>3. (i + first) * step \in Nat /\ (i + first) * step <= (j + first) * step
    BY <2>2, Times
  <2>4. (j + first) * step \in Nat
    BY <2>2, Times
  <2>. QED BY <2>3, <2>4
<1>5. \A i \in 1 .. n - 1 : at(i) \in 1 .. Len(s)
  <2>1. TAKE i \in 1 .. n - 1
  <2>2. i + first \in Nat /\ n - 1 + first \in Nat /\ i + first <= n - 1 + first
    BY <1>1
  <2>3. (i + first) * step \in Nat /\ (i + first) * step <= (n - 1 + first) * step
    BY <2>2, Times
  <2>4. (n - 1 + first) * step \in Nat
    BY <2>2, Times
  <2>5. Len(s) \in Nat
    BY DEF Rising
  <2>. QED BY <2>3, <2>4, <2>5
<1>. HIDE DEF b, at
<1>6. Len(b) = n - 1 /\ DOMAIN b = 1 .. n - 1
  BY <1>1, <1>3, ListLength
<1>7. \A k \in 1 .. n - 1 : b[k] = s[at(k)]
  BY <1>2
<1>. QED BY <1>1, <1>4, <1>5, <1>6, <1>7 DEF Rising, b

(* createObjectIdUniformSlices and the partitions between two extreme values. *)
LEMMA EqualBoundsRise ==
  ASSUME NEW t, t # Nil.type, NEW lo \in Int, NEW hi \in Int, lo <= hi, NEW n \in Nat \ {0}
  PROVE  Rising(EqualBounds(t, lo, hi, n), t, n - 1)
<1> DEFINE b == EqualBounds(t, lo, hi, n)
           part(k) == (k * (hi - lo)) \div n
<1>1. n - 1 \in Nat /\ hi - lo \in Nat
  OBVIOUS
<1>2. b = [k \in 1 .. n - 1 |-> [type |-> t, val |-> lo + part(k)]]
  BY DEF EqualBounds
<1>3. b = [k \in 1 .. n - 1 |-> b[k]]
  BY <1>2
<1>4. \A i, j \in 1 .. n - 1 : i <= j => part(i) <= part(j) /\ part(i) \in Nat
  <2>1. SUFFICES ASSUME NEW i \in 1 .. n - 1, NEW j \in 1 .. n - 1, i <= j
                 PROVE  part(i) <= part(j) /\ part(i) \in Nat
    OBVIOUS
  <2>2. /\ i * (hi - lo) \in Nat /\ j * (hi - lo) \in Nat
        /\ i * (hi - lo) <= j * (hi - lo)
    BY <1>1, <2>1, Times
  <2>. QED BY <2>2, Quotients
<1>. HIDE DEF b, part
<1>5. Len(b) = n - 1 /\ DOMAIN b = 1 .. n - 1
  BY <1>1, <1>3, ListLength
<1>6. \A k \in 1 .. n - 1 : b[k].type = t /\ b[k].val = lo + part(k)
  BY <1>2
<1>8. \A k \in 1 .. n - 1 : part(k) \in Nat
  BY <1>4
<1>9. \A k \in 1 .. n - 1 : b[k] # Nil /\ b[k].type = t /\ b[k].val \in Int
  BY <1>6, <1>8
<1>10. \A i, j \in 1 .. n - 1 : i <= j => b[i].val <= b[j].val
  BY <1>4, <1>6, <1>8
<1>. QED BY <1>1, <1>5, <1>9, <1>10 DEF Rising, b

(* The prefixes of createStringUniformSlices. *)
HexPrefixes(n) ==
  LET step == IF n > 256 THEN 1 ELSE 256 \div n IN
    [k \in 1 .. n - 1 |-> [type |-> "string", val |-> k * step]]

LEMMA HexPrefixesRise ==
  ASSUME NEW n \in Nat \ {0}
  PROVE  Rising(HexPrefixes(n), "string", n - 1)
<1> DEFINE b == HexPrefixes(n)
           step == IF n > 256 THEN 1 ELSE 256 \div n
<1>1. n - 1 \in Nat /\ step \in Nat
  BY Quotients
<1>2. b = [k \in 1 .. n - 1 |-> [type |-> "string", val |-> k * step]]
  BY DEF HexPrefixes
<1>3. b = [k \in 1 .. n - 1 |-> b[k]]
  BY <1>2
<1>. HIDE DEF b, step
<1>4. \A i, j \in 1 .. n - 1 : i <= j => i * step <= j * step /\ i * step \in Nat
  BY <1>1, Times
<1>5. Len(b) = n - 1 /\ DOMAIN b = 1 .. n - 1
  BY <1>1, <1>3, ListLength
<1>6. \A k \in 1 .. n - 1 : b[k].type = "string" /\ b[k].val = k * step
  BY <1>2
<1>7. "string" # Nil.type
  BY DEF Nil
<1>8. \A k \in 1 .. n - 1 : b[k] # Nil /\ b[k].type = "string" /\ b[k].val \in Int
  <2>1. TAKE k \in 1 .. n - 1
  <2>2. k * step \in Nat
    BY <1>4
  <2>. QED BY <1>6, <1>7, <2>2
<1>9. \A i, j \in 1 .. n - 1 : i <= j => b[i].val <= b[j].val
  BY <1>4, <1>6
<1>. QED BY <1>1, <1>5, <1>8, <1>9 DEF Rising, b

(* n slices of a type that follow one another and leave nothing out. *)
Slices(r, t, n) ==
  /\ DOMAIN r = 1 .. n /\ Len(r) = n
  /\ \A i \in 1 .. n : /\ r[i].mod = <<>>
                       /\ IsBound(r[i].start, t) /\ IsBound(r[i].end, t)
                       /\ r[i].start # Nil /\ r[i].end # Nil =>
                            r[i].start.val <= r[i].end.val
  /\ \A i, j \in 1 .. n : i < j => /\ r[i].end # Nil /\ r[j].start # Nil
                                   /\ r[i].end.val <= r[j].start.val
  /\ \A x : x.type = t /\ x.val \in Int => \E i \in 1 .. n : InClause(x, r[i])

(* What lies between rising bounds; a value is in the last range whose lower bound it
   is not below. *)
LEMMA RangesAreSlices ==
  ASSUME NEW t, NEW n \in Nat \ {0}, NEW b, Rising(b, t, n - 1)
  PROVE  Slices(Ranges(b), t, n)
<1> DEFINE r == Ranges(b)
<1>1. n - 1 \in Nat /\ Len(b) + 1 = n
  BY DEF Rising
<1>2. r = [i \in 1 .. n |-> Between(IF i = 1 THEN Nil ELSE b[i - 1],
                                    IF i = n THEN Nil ELSE b[i])]
  BY <1>1 DEF Ranges
<1>3. r = [i \in 1 .. n |-> r[i]]
  BY <1>2
<1>. HIDE DEF r
<1>4. Len(r) = n /\ DOMAIN r = 1 .. n
  BY <1>3, ListLength
<1>5. \A i \in 1 .. n : /\ r[i].start = IF i = 1 THEN Nil ELSE b[i - 1]
                        /\ r[i].end = IF i = n THEN Nil ELSE b[i]
                        /\ r[i].mod = <<>>
  BY <1>2 DEF Between
<1>6. /\ \A i \in 1 .. n : i # 1 => i - 1 \in 1 .. n - 1
      /\ \A i \in 1 .. n : i # n => i \in 1 .. n - 1
  OBVIOUS
<1>7. \A k \in 1 .. n - 1 : b[k] # Nil /\ b[k].type = t /\ b[k].val \in Int
  BY DEF Rising
<1>8. \A i, j \in 1 .. n - 1 : i <= j => b[i].val <= b[j].val
  BY DEF Rising
<1>9. \A i \in 1 .. n : /\ IsBound(r[i].start, t) /\ IsBound(r[i].end, t)
                        /\ r[i].start # Nil /\ r[i].end # Nil =>
                             r[i].start.val <= r[i].end.val
  <2>1. TAKE i \in 1 .. n
  <2>2. IsBound(r[i].start, t) /\ IsBound(r[i].end, t)
    BY <1>5, <1>6, <1>7 DEF IsBound
  <2>3. ASSUME i # 1, i # n PROVE b[i - 1].val <= b[i].val
    BY <2>3, <1>6, <1>8
  <2>. QED BY <1>5, <2>2, <2>3
<1>10. \A i, j \in 1 .. n : i < j => /\ r[i].end # Nil /\ r[j].start # Nil
                                     /\ r[i].end.val <= r[j].start.val
  <2>1. SUFFICES ASSUME NEW i \in 1 .. n, NEW j \in 1 .. n, i < j
                 PROVE  /\ r[i].end # Nil /\ r[j].start # Nil
                        /\ r[i].end.val <= r[j].start.val
    OBVIOUS
  <2>2. i # n /\ j # 1 /\ i \in 1 .. n - 1 /\ j - 1 \in 1 .. n - 1 /\ i <= j - 1
    BY <2>1
  <2>3. r[i].end = b[i] /\ r[j].start = b[j - 1]
    BY <1>5, <2>2
  <2>. QED BY <1>7, <1>8, <2>2, <2>3
<1>11. ASSUME NEW x, x.type = t, x.val \in Int PROVE \E i \in 1 .. n : InClause(x, r[i])
  <2> DEFINE S == {i \in 1 .. n : i = 1 \/ b[i - 1].val <= x.val}
  <2>1. S \in SUBSET (0 .. n) /\ 1 \in S
    OBVIOUS
  <2>2. PICK m \in S : \A i \in S : i <= m
    <3>. HIDE DEF S
    <3>. QED BY <2>1, MaxInRange
  <2>3. m \in 1 .. n /\ (m = 1 \/ b[m - 1].val <= x.val)
    BY <2>2
  <2>4. r[m].start # Nil => r[m].start.type = x.type /\ r[m].start.val <= x.val
    BY <1>5, <1>6, <1>7, <1>11, <2>3
  <2>5. r[m].end # Nil => r[m].end.type = x.type /\ x.val < r[m].end.val
    <3>1. CASE m = n
      BY <1>5, <2>3, <3>1
    <3>2. CASE m # n
      <4>1. m + 1 \in 1 .. n /\ m + 1 \notin S /\ m \in 1 .. n - 1
        BY <2>2, <2>3, <3>2
      <4>2. ~ (b[m].val <= x.val)
        BY <2>3, <4>1
      <4>. QED BY <1>5, <1>7, <1>11, <2>3, <3>2, <4>1, <4>2
    <3>. QED BY <3>1, <3>2
  <2>. QED BY <1>5, <2>3, <2>4, <2>5 DEF InClause
<1>. QED BY <1>4, <1>5, <1>9, <1>10, <1>11 DEF Slices, r

LEMMA Literals == "objectId" # Nil.type /\ "number" # Nil.type
BY DEF Nil

(* The extreme _ids of a collection, when both are of type t. *)
LEMMA Extremes ==
  ASSUME NEW c \in Collections, Docs(c) # {}, NEW t, c.id[1].type = t, Last(c.id).type = t
  PROVE  c.id[1].val \in Int /\ Last(c.id).val \in Int /\ c.id[1].val <= Last(c.id).val
<1>1. Len(c.id) \in Nat /\ 1 \in Docs(c) /\ Len(c.id) \in Docs(c)
  BY Ids DEF Docs
<1>2. Last(c.id) = c.id[Len(c.id)]
  BY DEF Last
<1>3. /\ c.id[1].val \in Int /\ c.id[Len(c.id)].val \in Int
      /\ TypeOf(c, 1) = t /\ TypeOf(c, Len(c.id)) = t
  BY <1>1, <1>2, Ids DEF TypeOf
<1>4. Len(c.id) = 1 \/ c.id[1].val < c.id[Len(c.id)].val
  <2>1. CASE Len(c.id) # 1
    <3>1. 1 < Len(c.id)
      <4> DEFINE n == Len(c.id)
      <4>1. n \in Nat /\ 1 \in 1 .. n /\ n # 1
        BY <1>1, <2>1 DEF Docs
      <4>. HIDE DEF n
      <4>2. 1 < n
        BY <4>1
      <4>. QED BY <4>2 DEF n
    <3>. QED BY <1>1, <1>3, <3>1, Ids
  <2>. QED BY <2>1
<1>. QED BY <1>2, <1>3, <1>4

(* createQuantileSlicesForType and createUniformSlicesForType, for one type. *)
LEMMA TypeIsSliced ==
  ASSUME NEW c \in Collections, Docs(c) # {}, NEW t, CutAtOwnValues(c, t),
         NEW max \in MaxReadPartitions, NEW n \in Nat \ {0}, n <= max,
         NEW r \in SlicesForType(c, t, n)
  PROVE  Slices(r, t, n)
<1> DEFINE samples == Samples(c, DocsOfType(c, t))
           enough == {s \in samples : Len(s) >= n}
           sampled == {Ranges(QuantileBounds(s, n)) : s \in enough}
<1>1. \/ r \in sampled
      \/ /\ r \in createUniformSlicesForType(c, t, n)
         /\ ~ (t \in c.large /\ "sample" \notin c.failing /\ enough # {})
  BY DEF SlicesForType, OnFailure
<1>2. CASE r \in sampled
  <2>1. PICK s \in enough : r = Ranges(QuantileBounds(s, n))
    BY <1>2
  <2>2. s \in samples /\ Len(s) >= n
    BY <2>1
  <2>3. Rising(s, t, Len(s)) /\ Len(s) \in Nat
    BY <2>2, SampleRises DEF Rising
  <2> DEFINE step == Len(s) \div n
  <2>4. step \in Nat /\ step * n <= Len(s) /\ step >= 1
    BY <2>2, <2>3, Quotients
  <2>5. (n - 1 + 0) * step + 1 <= Len(s)
    <3>. HIDE DEF step
    <3>1. (n - 1 + 0) * step = step * n - step
      BY <2>4
    <3>2. step * n \in Nat
      BY <2>4
    <3>. QED BY <2>3, <2>4, <3>1, <3>2
  <2>6. Rising(EverySoMany(s, step, 0, n), t, n - 1)
    <3>. HIDE DEF step
    <3>. QED BY <2>3, <2>4, <2>5, EverySoManyRises
  <2>. QED BY <2>1, <2>6, RangesAreSlices DEF QuantileBounds
<1>3. CASE /\ r \in createUniformSlicesForType(c, t, n)
           /\ ~ (t \in c.large /\ "sample" \notin c.failing /\ enough # {})
  <2>1. ~ (/\ t \in c.large /\ "sample" \notin c.failing
           /\ \A m \in MaxReadPartitions : m <= Cardinality(DocsOfType(c, t)))
    <3>1. SUFFICES ASSUME max <= Cardinality(DocsOfType(c, t)) PROVE enough # {}
      BY <1>3
    <3>2. PICK s \in samples : Len(s) = Cardinality(DocsOfType(c, t))
      BY WholeSample
    <3>3. Len(s) \in Nat /\ max \in Nat
      BY <3>2, SampleRises, ParallelBackfillAssumption DEF Rising
    <3>. QED BY <3>1, <3>2, <3>3
  <2>2. CASE t = "string"
    <3>1. r = createStringUniformSlices(n)
      BY <1>3, <2>2 DEF createUniformSlicesForType
    <3>2. r = Ranges(HexPrefixes(n))
      BY <3>1 DEF createStringUniformSlices, HexPrefixes
    <3>. QED BY <2>2, <3>2, HexPrefixesRise, RangesAreSlices
  <2>3. CASE /\ t = "objectId" /\ "extremes" \notin c.failing
             /\ {c.id[1].type, Last(c.id).type} = {t} /\ c.id[1] # Last(c.id)
    <3>1. r \in createObjectIdUniformSlices(c, n)
      BY <1>3, <2>3 DEF createUniformSlicesForType
    <3>2. c.id[1].type = "objectId" /\ Last(c.id).type = "objectId"
      BY <2>3
    <3>3. r = Ranges(EqualBounds("objectId", c.id[1].val, Last(c.id).val, n))
      BY <2>3, <3>1 DEF createObjectIdUniformSlices, OnFailure
    <3>4. Rising(EqualBounds("objectId", c.id[1].val, Last(c.id).val, n), "objectId", n - 1)
      BY <3>2, Extremes, EqualBoundsRise, Literals
    <3>. QED BY <2>3, <3>3, <3>4, RangesAreSlices
  <2>. QED BY <2>1, <2>2, <2>3 DEF CutAtOwnValues
<1>. QED BY <1>1, <1>2, <1>3

(* Filters with such slices of each type present are in order. *)
LEMMA SlicedIsInOrder ==
  ASSUME NEW c \in Collections, \A d \in Docs(c) : TypeOf(c, d) \in CandidateBSONTypes,
         NEW n \in Nat, n > 1, NEW filters, Len(filters) = n, DOMAIN filters = 1 .. n,
         \A i \in 1 .. n : ~ filters[i].all /\ DOMAIN filters[i].clause = Present(c),
         NEW f, \A t \in Present(c) : Slices(f[t], t, n),
         \A t \in Present(c) : \A i \in 1 .. n : filters[i].clause[t] = f[t][i]
  PROVE  InOrder(c, filters)
<1>1. \A d \in Docs(c) : TypeOf(c, d) \in Present(c)
  BY DEF Present
<1>2. Docs(c) = UNION {Matched(c, filters[i]) : i \in 1 .. n}
  <2>1. \A i \in 1 .. n : Matched(c, filters[i]) \subseteq Docs(c)
    BY DEF Matched
  <2>2. ASSUME NEW d \in Docs(c) PROVE \E i \in 1 .. n : d \in Matched(c, filters[i])
    <3> DEFINE t == TypeOf(c, d)
    <3>1. t \in Present(c) /\ c.id[d].type = t /\ c.id[d].val \in Int
      BY <1>1, Ids
    <3>2. PICK i \in 1 .. n : InClause(c.id[d], f[t][i])
      BY <3>1 DEF Slices
    <3>3. t \in DOMAIN filters[i].clause /\ InClause(c.id[d], filters[i].clause[t])
      BY <3>1, <3>2
    <3>. QED BY <3>3 DEF Matched
  <2>. QED BY <2>1, <2>2
<1>3. ASSUME NEW t \in Present(c)
      PROVE  /\ \A i \in 1 .. n :
                  /\ filters[i].clause[t].mod = <<>>
                  /\ \A b \in {filters[i].clause[t].start, filters[i].clause[t].end} :
                       b # Nil => b.type = t /\ b.val \in Int
                  /\ filters[i].clause[t].start # Nil /\ filters[i].clause[t].end # Nil =>
                       filters[i].clause[t].start.val <= filters[i].clause[t].end.val
             /\ \A i, j \in 1 .. n : i < j =>
                  /\ filters[i].clause[t].end # Nil /\ filters[j].clause[t].start # Nil
                  /\ filters[i].clause[t].end.val <= filters[j].clause[t].start.val
  <2>1. Slices(f[t], t, n) /\ \A i \in 1 .. n : filters[i].clause[t] = f[t][i]
    BY <1>3
  <2> DEFINE r == f[t]
  <2>2. Slices(r, t, n) /\ \A i \in 1 .. n : filters[i].clause[t] = r[i]
    BY <2>1
  <2>. HIDE DEF r
  <2>3. ASSUME NEW i \in 1 .. n
        PROVE  /\ r[i].mod = <<>>
               /\ \A b \in {r[i].start, r[i].end} : b # Nil => b.type = t /\ b.val \in Int
               /\ r[i].start # Nil /\ r[i].end # Nil => r[i].start.val <= r[i].end.val
    BY <2>2 DEF Slices, IsBound
  <2>4. ASSUME NEW i \in 1 .. n, NEW j \in 1 .. n, i < j
        PROVE  r[i].end # Nil /\ r[j].start # Nil /\ r[i].end.val <= r[j].start.val
    BY <2>2, <2>4 DEF Slices
  <2>. QED BY <2>2, <2>3, <2>4
<1>. QED BY <1>2, <1>3 DEF InOrder

(* The strategy of mixed types, createPartitionsGroupedByType. *)
LEMMA MergedInOrder ==
  ASSUME NEW c \in Collections, CutByRanges(c), \A t \in Present(c) : CutAtOwnValues(c, t),
         NEW max \in MaxReadPartitions, NEW n \in Nat, n > 1, n <= max,
         NEW filters \in createPartitionsGroupedByType(c, n)
  PROVE  InOrder(c, filters)
<1>1. /\ Docs(c) # {} /\ \A d \in Docs(c) : TypeOf(c, d) \in CandidateBSONTypes
      /\ "probe" \notin c.failing /\ \A t \in Present(c) : CutAtOwnValues(c, t)
  BY DEF CutByRanges
<1>2. Present(c) # {}
  BY <1>1 DEF Present
<1>3. PICK f \in [Present(c) -> UNION {SlicesForType(c, t, n) : t \in Present(c)}] :
        /\ \A t \in Present(c) : f[t] \in SlicesForType(c, t, n)
        /\ filters = mergeTypeSlices(f, n)
  BY <1>1, <1>2 DEF createPartitionsGroupedByType, OnFailure
<1>4. \A t \in Present(c) : Slices(f[t], t, n)
  BY <1>1, <1>3, TypeIsSliced
<1>5. DOMAIN f = Present(c)
  BY <1>3
<1>6. filters = [i \in 1 .. n |-> [all |-> FALSE, clause |-> [t \in Present(c) |-> f[t][i]]]]
  BY <1>3, <1>5 DEF mergeTypeSlices
<1>7. filters = [i \in 1 .. n |-> filters[i]]
  BY <1>6
<1>8. Len(filters) = n /\ DOMAIN filters = 1 .. n
  BY <1>7, ListLength
<1>9. \A i \in 1 .. n : ~ filters[i].all /\ DOMAIN filters[i].clause = Present(c)
  BY <1>6
<1>10. \A t \in Present(c) : \A i \in 1 .. n : filters[i].clause[t] = f[t][i]
  BY <1>6
<1>. QED BY <1>1, <1>4, <1>8, <1>9, <1>10, SlicedIsInOrder

(* The strategies "objectid" and "numeric" in a collection of that type only. *)
LEMMA SingleTypeInOrder ==
  ASSUME NEW c \in Collections, CutByRanges(c), NEW t, t # Nil.type, Present(c) = {t},
         NEW n \in Nat, n > 1, NEW max \in Nat, max > 1,
         NEW filters \in PartitionsByRange(c, t, n, max)
  PROVE  InOrder(c, filters)
<1> DEFINE cut(b) == [i \in 1 .. Len(b) + 1 |-> FilterOf(t, Ranges(b)[i])]
           samples == Samples(c, DocsOfType(c, t))
           enough == {s \in samples : Len(s) >= n + 1}
           minMax == EqualBounds(t, ValueAs(t, c.id[1]), ValueAs(t, Last(c.id)), max)
<1>1. \E m \in Nat : \E b : m > 1 /\ Rising(b, t, m - 1) /\ filters = cut(b)
  <2>1. \/ \E s \in enough : filters = cut(EverySoMany(s, Len(s) \div (n + 1), 1, n))
        \/ filters = cut(minMax)
    BY DEF PartitionsByRange
  <2>2. ASSUME NEW s \in enough
        PROVE  Rising(EverySoMany(s, Len(s) \div (n + 1), 1, n), t, n - 1)
    <3>1. s \in samples /\ Len(s) >= n + 1
      OBVIOUS
    <3>2. Rising(s, t, Len(s)) /\ Len(s) \in Nat
      BY <3>1, SampleRises DEF Rising
    <3> DEFINE step == Len(s) \div (n + 1)
    <3>3. step \in Nat /\ step * (n + 1) <= Len(s) /\ step >= 1
      BY <3>1, <3>2, Quotients
    <3>. HIDE DEF step
    <3>4. (n - 1 + 1) * step + 1 <= Len(s)
      <4>1. (n - 1 + 1) * step = step * (n + 1) - step /\ step * (n + 1) \in Nat
        BY <3>3
      <4>. QED BY <3>2, <3>3, <4>1
    <3>5. Rising(EverySoMany(s, step, 1, n), t, n - 1)
      BY <3>2, <3>3, <3>4, EverySoManyRises
    <3>. QED BY <3>5 DEF step
  <2>3. Rising(minMax, t, max - 1)
    <3>1. /\ Docs(c) # {} /\ \A d \in Docs(c) : TypeOf(c, d) = t
      BY DEF CutByRanges, Present
    <3>2. 1 \in Docs(c) /\ Len(c.id) \in Docs(c)
      BY <3>1, Ids DEF Docs
    <3>3. c.id[1].type = t /\ Last(c.id).type = t
      BY <3>1, <3>2 DEF TypeOf, Last
    <3>4. minMax = EqualBounds(t, c.id[1].val, Last(c.id).val, max)
      BY <3>3 DEF ValueAs
    <3>. QED BY <3>1, <3>3, <3>4, Extremes, EqualBoundsRise
  <2>. QED BY <2>1, <2>2, <2>3
<1>2. PICK m, b : m \in Nat /\ m > 1 /\ Rising(b, t, m - 1) /\ filters = cut(b)
  BY <1>1
<1>3. Len(b) + 1 = m
  BY <1>2 DEF Rising
<1>4. filters = [i \in 1 .. m |-> FilterOf(t, Ranges(b)[i])]
  BY <1>2, <1>3
<1>5. filters = [i \in 1 .. m |-> filters[i]]
  BY <1>4
<1>6. Len(filters) = m /\ DOMAIN filters = 1 .. m
  BY <1>2, <1>5, ListLength
<1>7. Slices(Ranges(b), t, m)
  BY <1>2, RangesAreSlices
<1>8. \A i \in 1 .. m : /\ ~ filters[i].all /\ DOMAIN filters[i].clause = {t}
                        /\ filters[i].clause[t] = Ranges(b)[i]
  BY <1>4 DEF FilterOf
<1> DEFINE f == [u \in {t} |-> Ranges(b)]
<1>9. \A u \in Present(c) : Slices(f[u], u, m)
  BY <1>7
<1>10. \A u \in Present(c) : \A i \in 1 .. m : filters[i].clause[u] = f[u][i]
  BY <1>8
<1>11. \A d \in Docs(c) : TypeOf(c, d) \in CandidateBSONTypes
  BY DEF CutByRanges
<1>12. \A i \in 1 .. m : ~ filters[i].all /\ DOMAIN filters[i].clause = Present(c)
  BY <1>8
<1>. HIDE DEF cut, samples, enough, minMax, f
<1>13. m \in Nat /\ m > 1
  BY <1>2
<1>14. \A g :
         /\ \A u \in Present(c) : Slices(g[u], u, m)
         /\ \A u \in Present(c) : \A i \in 1 .. m : filters[i].clause[u] = g[u][i]
         => InOrder(c, filters)
  BY ONLY <1>13, <1>6, <1>11, <1>12, SlicedIsInOrder, c \in Collections
<1>. QED BY <1>9, <1>10, <1>14

LEMMA SeveralPartitions ==
  ASSUME NEW total \in Nat, NEW m \in Nat \ {0}, NEW max \in Nat, total >= 2 * m, max >= 2
  PROVE  CalculatePartitionCount(total, m, max) \in 2 .. max
<1>1. total \div m \in Nat /\ (2 * m) \div m <= total \div m
  BY Quotients
<1>2. (2 * m) \div m = 2
  OBVIOUS
<1>. QED BY <1>1, <1>2 DEF CalculatePartitionCount

(* The hypothesis of the theorems above holds for every collection that is cut at its
   own values, whatever the samples and the counts are and whichever of the other
   queries fail (detection of the strategy, the sample of strings): sampled bounds, bounds at equal
   distances between the extreme _ids and string prefixes all make for ranges that
   follow one another, cover their type, and stay so when the types are merged
   (parallel_read.go:54-112, 115-275, 277-464, 643-679, 697-979). *)
THEOREM OwnRangesAreInOrder == \A c \in Collections : CutByRanges(c) => CutInOrder(c)
<1>1. SUFFICES ASSUME NEW c \in Collections, CutByRanges(c),
                      NEW total \in Totals, NEW max \in MaxReadPartitions,
                      NEW filters \in Partition(c, CalculatePartitionCount(total,
                                                     MinDocsPerPartition, max), max)
               PROVE  InOrder(c, filters)
  BY DEF CutInOrder, CutByRanges
<1> DEFINE n == CalculatePartitionCount(total, MinDocsPerPartition, max)
<1>2. total \in Nat /\ max \in Nat /\ MinDocsPerPartition \in Nat \ {0}
  BY ParallelBackfillAssumption
<1>3. max >= 2 /\ n \in 2 .. max
  BY <1>1, <1>2, SeveralPartitions DEF CutByRanges
<1>4. n \in Nat /\ n > 1 /\ n <= max
  BY <1>2, <1>3
<1>. HIDE DEF n
<1>5. PICK s \in Strategies(c) : filters \in PartitionBy(s, c, n, max)
  <2>1. filters \in Partition(c, n, max) /\ n # 1
    BY <1>4 DEF n
  <2>. QED BY <2>1 DEF Partition
<1>6. CASE s = "objectid" /\ Present(c) = {"objectId"}
  <2>1. filters \in PartitionsByRange(c, "objectId", n, max)
    BY <1>5, <1>6 DEF PartitionBy
  <2>. QED BY <1>1, <1>2, <1>3, <1>4, <1>6, <2>1, Literals, SingleTypeInOrder
<1>7. CASE s = "numeric" /\ Present(c) = {"number"}
  <2>1. filters \in PartitionsByRange(c, "number", n, max)
    BY <1>5, <1>7 DEF PartitionBy
  <2>. QED BY <1>1, <1>2, <1>3, <1>4, <1>7, <2>1, Literals, SingleTypeInOrder
<1>8. CASE s \notin {"objectid", "numeric"} /\ \A t \in Present(c) : CutAtOwnValues(c, t)
  <2>1. filters \in createPartitionsGroupedByType(c, n)
    BY <1>5, <1>8 DEF PartitionBy
  <2>. QED BY <1>1, <1>4, <1>8, <2>1, MergedInOrder
<1>. QED BY <1>1, <1>6, <1>7, <1>8 DEF CutByRanges
=============================================================================
