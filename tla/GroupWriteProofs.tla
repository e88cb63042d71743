-------------------------- MODULE GroupWriteProofs --------------------------
(***************************************************************************)
(* What the marks of a group write are worth, for groups of any length     *)
(* over any documents, whatever single operations the server refuses and   *)
(* however often a bulk write is lost and retried.                         *)
(*                                                                         *)
(* No early return of the fallbacks leaves an operation unmarked.  And in  *)
(* groups of distinct documents that are written unordered, an operation   *)
(* marked as written is in the target, and every operation that is not in  *)
(* the target is in the dead letter queue.                                 *)
(***************************************************************************)
EXTENDS GroupWrite, Extrema, FiniteSetTheorems

(* The inputs of a group write. *)
GroupOK ==
  \E n \in Nat \ {0} :
    /\ group \in [1 .. n -> [doc : Docs, opType : OpTypes]]
    /\ untransformable \subseteq 1 .. n

(* Every operation is still to be written, or marked. *)
Marked ==
  /\ phase = "fallback" /\ ~ canceled => Ops \subseteq succeeded \cup dlqed \cup fallback
  /\ phase \in {"resolve", "done"} /\ ~ canceled => Ops \subseteq succeeded \cup dlqed

Shape ==
  /\ GroupOK
  /\ phase \in {"build", "bulk", "broken", "fallback", "resolve", "done"}
  /\ DOMAIN models \subseteq Ops
  /\ fallback \subseteq Ops
  /\ phase = "fallback" <=> fallback # {}
  /\ succeeded \subseteq Ops /\ dlqed \subseteq Ops

MarkInv == Shape /\ Marked

-----------------------------------------------------------------------------
(* A group is a sequence of at least one operation. *)
LEMMA GroupIsSequence ==
  ASSUME GroupOK
  PROVE  \E n \in Nat \ {0} :
           /\ Ops = 1 .. n
           /\ IsFiniteSet(Ops) /\ Cardinality(Ops) = n
           /\ \A i \in Ops : group[i].doc \in Docs
           /\ untransformable \subseteq Ops
<1>1. PICK n \in Nat \ {0} : /\ group \in [1 .. n -> [doc : Docs, opType : OpTypes]]
                             /\ untransformable \subseteq 1 .. n
  BY DEF GroupOK
<1>2. Ops = 1 .. n
  BY <1>1 DEF Ops
<1>3. IsFiniteSet(1 .. n) /\ Cardinality(1 .. n) = n
  BY <1>1, FS_Interval
<1>4. \A i \in 1 .. n : group[i].doc \in Docs
  BY <1>1
<1>. QED BY <1>1, <1>2, <1>3, <1>4

(* There are no more models than operations. *)
LEMMA ModelsOfOps ==
  ASSUME GroupOK, NEW I \in SUBSET Ops
  PROVE  DOMAIN InOrder(I) \subseteq Ops
<1>1. PICK n \in Nat \ {0} : Ops = 1 .. n /\ IsFiniteSet(Ops) /\ Cardinality(Ops) = n
  BY GroupIsSequence
<1>2. Cardinality(I) \in Nat /\ Cardinality(I) <= n
  BY <1>1, FS_Subset, FS_CardinalityType
<1>3. DOMAIN InOrder(I) = 1 .. Cardinality(I)
  BY DEF InOrder
<1>. QED BY <1>1, <1>2, <1>3

(* The operation whose turn it is in the fallback is one of it. *)
LEMMA CurrentInFallback ==
  ASSUME Shape, phase = "fallback"
  PROVE  Current \in fallback /\ Current \in Ops
<1>1. PICK n \in Nat \ {0} : Ops = 1 .. n
  BY GroupIsSequence DEF Shape
<1>2. fallback \in SUBSET Nat /\ fallback # {} /\ fallback \subseteq Ops
  BY <1>1 DEF Shape
<1>. QED BY <1>2, MinOfNats DEF Current

(* The group is an input. *)
LEMMA SameGroup ==
  ASSUME Next
  PROVE  UNCHANGED inputs
BY DEF Next, Build, BulkSucceeds, BulkRefused, BulkBroken, BulkGivenUp, BulkCanceled, Stores,
       StoresNothing, Fails, FallbackCanceled, NextFallback, Resolve, Cancel

(* Each way out of the bulk write and each fallback marks what it takes. *)
LEMMA MarkStep == ASSUME MarkInv, [Next]_vars PROVE MarkInv'
<1>0. Shape /\ Marked
  BY DEF MarkInv
<1>1. PICK n \in Nat \ {0} : Ops = 1 .. n /\ untransformable \subseteq Ops
  BY <1>0, GroupIsSequence DEF Shape
<1>2. CASE Build
  <2>1. /\ phase = "build"
        /\ dlqed' = dlqed \cup untransformable
        /\ models' = InOrder(Ops \ untransformable)
        /\ phase' = IF untransformable = Ops THEN "resolve" ELSE "bulk"
        /\ UNCHANGED <<inputs, fallback, succeeded, canceled>>
    BY <1>2 DEF Build, markDLQ
  <2>2. DOMAIN models' \subseteq Ops
    BY <1>0, <2>1, ModelsOfOps DEF Shape
  <2>. QED BY <1>0, <1>1, <2>1, <2>2 DEF MarkInv, Shape, Marked, GroupOK, Ops, inputs
<1>3. CASE BulkSucceeds \/ BulkBroken \/ BulkCanceled \/ BulkGivenUp
  <2>1. /\ phase \in {"bulk", "broken"}
        /\ UNCHANGED <<inputs, models, dlqed, canceled>>
    BY <1>3 DEF BulkSucceeds, BulkBroken, BulkCanceled, BulkGivenUp, marks
  <2>2. \/ phase' = "resolve" /\ succeeded' = Ops /\ fallback' = fallback
        \/ phase' = "broken" /\ UNCHANGED <<succeeded, fallback>>
        \/ phase' = "resolve" /\ canceled /\ UNCHANGED <<succeeded, fallback>>
        \/ phase' = "fallback" /\ fallback' = Ops /\ succeeded' = succeeded
    BY <1>3 DEF BulkSucceeds, BulkBroken, BulkCanceled, BulkGivenUp, marks
  <2>3. Ops # {} /\ Ops' = Ops /\ GroupOK'
    BY <1>0, <1>1, <2>1 DEF Ops, inputs, Shape, GroupOK
  <2>4. Shape'
    BY <1>0, <2>1, <2>2, <2>3 DEF Shape
  <2>5. Marked'
    BY <1>0, <2>1, <2>2, <2>3 DEF Marked
  <2>. QED BY <2>4, <2>5 DEF MarkInv
<1>4. CASE BulkRefused
  <2>1. PICK failed \in (SUBSET DOMAIN models) \ {{}} :
          succeeded' = Ops \ failed /\ fallback' = failed
    BY <1>4 DEF BulkRefused
  <2>2. /\ phase' = "fallback"
        /\ UNCHANGED <<inputs, models, dlqed, canceled>>
    BY <1>4 DEF BulkRefused
  <2>3. failed \subseteq Ops /\ failed # {} /\ Ops' = Ops /\ GroupOK'
    <3>a. failed \subseteq DOMAIN models /\ failed # {}
      BY <2>1
    <3>b. DOMAIN models \subseteq Ops
      BY <1>0 DEF Shape
    <3>1. failed \subseteq Ops /\ failed # {}
      BY <3>a, <3>b
    <3>2. Ops' = Ops /\ GroupOK'
      BY <1>0, <2>2 DEF Ops, inputs, Shape, GroupOK
    <3>. QED BY <3>1, <3>2
  <2>4. Shape'
    BY <1>0, <2>1, <2>2, <2>3 DEF Shape
  <2>5. Marked'
    BY <1>0, <2>1, <2>2, <2>3 DEF Marked
  <2>. QED BY <2>4, <2>5 DEF MarkInv
<1>5. CASE Stores \/ StoresNothing \/ Fails \/ FallbackCanceled
  <2>1. /\ phase = "fallback"
        /\ fallback' = fallback \ {Current}
        /\ phase' = IF fallback' = {} THEN "resolve" ELSE "fallback"
        /\ UNCHANGED <<inputs, models, canceled>>
    BY <1>5 DEF Stores, StoresNothing, Fails, FallbackCanceled, NextFallback
  <2>2. /\ succeeded' \in {succeeded, succeeded \cup {Current}}
        /\ dlqed' \in {dlqed, dlqed \cup {Current}}
        /\ Current \in succeeded' \cup dlqed' \/ canceled
    BY <1>5 DEF Stores, StoresNothing, Fails, FallbackCanceled, markDLQ, marks
  <2>3. Current \in fallback /\ Current \in Ops
    BY <1>0, <2>1, CurrentInFallback
  <2>4. Shape'
    BY <1>0, <2>1, <2>2, <2>3 DEF Shape, GroupOK, Ops, inputs
  <2>5. Marked'
    BY <1>0, <2>1, <2>2, <2>3 DEF Shape, Marked, Ops, inputs
  <2>. QED BY <2>4, <2>5 DEF MarkInv
<1>6. CASE Resolve \/ Cancel \/ UNCHANGED vars
  BY <1>0, <1>6 DEF Resolve, Cancel, vars, MarkInv, Shape, Marked, GroupOK, Ops, inputs, marks
<1>. QED BY <1>2, <1>3, <1>4, <1>5, <1>6 DEF Next

LEMMA MarkInitially == Init => MarkInv
<1> SUFFICES ASSUME Init PROVE MarkInv
  OBVIOUS
<1>1. PICK n \in 1 .. MaxOps :
        /\ group \in {g \in [1 .. n -> [doc : Docs, opType : OpTypes]] : IsGroup(g)}
        /\ untransformable \in IF TransformErrors THEN SUBSET (1 .. n) ELSE {{}}
  BY DEF Init
<1>2. GroupOK
  BY <1>1, GroupAssumption DEF GroupOK
<1>3. DOMAIN models \subseteq Ops
  BY DEF Init
<1>. QED BY <1>2, <1>3 DEF Init, MarkInv, Shape, Marked

(* executeBatchWrite with all its early returns: when a group that was not
   canceled is done, each operation is marked as written or as DLQed. *)
THEOREM AllMarked == Spec => []EveryOperationMarked
<1>1. MarkInv => EveryOperationMarked
  BY DEF MarkInv, Shape, Marked, EveryOperationMarked
<1>. QED BY <1>1, MarkInitially, MarkStep, PTL DEF Spec

-----------------------------------------------------------------------------
(* The last operation on its document, i left there what it was to leave. *)
InTarget(i) == target[group[i].doc] = Effect(i)

(* In a group of distinct documents that can be transformed and violate no unique
   index, written unordered:  what is marked as written is in the target, and
   what a finished write leaves out is recorded. *)
Honest ==
  Undisturbed =>
    /\ Distinct(group)
    /\ phase \in {"bulk", "broken"} =>
         DOMAIN models = Ops /\ \A k \in Ops : models[k] = k
    /\ phase \in {"build", "bulk", "broken"} => succeeded = {} /\ dlqed = {}
    /\ \A i \in succeeded \ dlqed : InTarget(i)
    /\ phase \in {"fallback", "resolve", "done"} /\ ~ canceled =>
         \A i \in Ops : i \in fallback \/ InTarget(i) \/ group[i].doc \in ledger

(* InOrder: all operations of the group in order are the group. *)
LEMMA AllInOrder ==
  ASSUME GroupOK
  PROVE  DOMAIN InOrder(Ops) = Ops /\ \A k \in Ops : InOrder(Ops)[k] = k
<1>1. PICK n \in Nat \ {0} : Ops = 1 .. n /\ Cardinality(Ops) = n
  BY GroupIsSequence
<1>2. InOrder(Ops) =
        [k \in 1 .. n |-> CHOOSE i \in 1 .. n : Cardinality({j \in 1 .. n : j <= i}) = k]
  BY <1>1 DEF InOrder
<1>3. ASSUME NEW i \in 1 .. n
      PROVE  Cardinality({j \in 1 .. n : j <= i}) = i
  <2>1. {j \in 1 .. n : j <= i} = 1 .. i
    OBVIOUS
  <2>2. Cardinality(1 .. i) = i
    BY FS_Interval
  <2>. QED BY <2>1, <2>2
<1>4. ASSUME NEW k \in 1 .. n
      PROVE  (CHOOSE i \in 1 .. n : Cardinality({j \in 1 .. n : j <= i}) = k) = k
  BY <1>3
<1>. QED BY <1>1, <1>2, <1>4

(* Applied: in a group of distinct documents an operation that is applied is in
   the target, and the document of another one is left alone. *)
LEMMA AppliedToDistinct ==
  ASSUME GroupOK, Distinct(group), NEW I \in SUBSET Ops, NEW i \in Ops
  PROVE  /\ i \in I => Applied(I)[group[i].doc] = Effect(i)
         /\ i \notin I => Applied(I)[group[i].doc] = target[group[i].doc]
<1>1. PICK n \in Nat \ {0} : Ops = 1 .. n /\ \A j \in Ops : group[j].doc \in Docs
  BY GroupIsSequence
<1> DEFINE d == group[i].doc
<1>2. d \in Docs
  BY <1>1
<1>3. OpsOn(d) = {i}
  BY DEF OpsOn, Distinct, Ops
<1>4. Max({i}) = i
  <2>1. {i} \in SUBSET (0 .. n) /\ {i} # {}
    BY <1>1
  <2>. QED BY <2>1, MaxInRange
<1>5. CASE i \in I
  <2>1. OpsOn(d) \cap I = {i}
    BY <1>3, <1>5
  <2>. QED BY <1>2, <1>4, <1>5, <2>1 DEF Applied
<1>6. CASE i \notin I
  <2>1. OpsOn(d) \cap I = {}
    BY <1>3, <1>6
  <2>. QED BY <1>2, <1>6, <2>1 DEF Applied
<1>. QED BY <1>5, <1>6

(* Reflected, in a group of distinct documents. *)
LEMMA ReflectedWhenInTarget ==
  ASSUME GroupOK, Distinct(group), NEW i \in Ops, InTarget(i)
  PROVE  i = Max(OpsOn(group[i].doc)) /\ Reflected(group[i].doc)
<1>1. PICK n \in Nat \ {0} : Ops = 1 .. n
  BY GroupIsSequence
<1>2. OpsOn(group[i].doc) = {i}
  BY DEF OpsOn, Distinct, Ops
<1>3. Max({i}) = i
  <2>1. {i} \in SUBSET (0 .. n) /\ {i} # {}
    BY <1>1
  <2>. QED BY <2>1, MaxInRange
<1>. QED BY <1>2, <1>3 DEF InTarget, Reflected

(* Only what the server executed is marked as written; what failed is recorded
   before it leaves the fallback; and what leaves the DLQ is in the target. *)
LEMMA HonestStep ==
  ASSUME ~ ForceOrdered, MarkInv, Honest, [Next]_vars
  PROVE  /\ Honest'
         /\ Undisturbed => \A d \in ledger \ ledger' : Reflected(d)
<1> SUFFICES ASSUME Undisturbed, Next
             PROVE  /\ Honest'
                    /\ \A d \in ledger \ ledger' : Reflected(d)
  <2>1. CASE UNCHANGED vars
    BY <2>1 DEF vars, inputs, marks, Honest, Undisturbed, InTarget, Effect, Distinct, Ops
  <2>2. CASE Next /\ ~ Undisturbed
    <3>1. ~ Undisturbed'
      BY <2>2, SameGroup DEF inputs, Undisturbed
    <3>. QED BY <2>2, <3>1 DEF Honest
  <2>. QED BY <2>1, <2>2
<1>0. /\ Shape /\ GroupOK /\ Distinct(group)
      /\ untransformable = {} /\ conflicting = {} /\ groupByDistinctId
      /\ UNCHANGED <<group, untransformable, conflicting, groupByDistinctId>>
      /\ Ops' = Ops /\ Undisturbed' /\ Distinct(group)'
      /\ \A i : Effect(i)' = Effect(i)
  BY SameGroup DEF MarkInv, Shape, Honest, Undisturbed, inputs, Ops, Distinct, Effect
<1>a. PICK n \in Nat \ {0} : Ops = 1 .. n /\ \A i \in Ops : group[i].doc \in Docs
  BY <1>0, GroupIsSequence
<1>1. CASE Build
  <2>1. /\ phase = "build"
        /\ models' = InOrder(Ops)
        /\ phase' = "bulk"
        /\ dlqed' = dlqed
        /\ ledger \subseteq ledger'
        /\ UNCHANGED <<target, succeeded>>
    <3>1. untransformable # Ops /\ Ops \ untransformable = Ops
      BY <1>0, <1>a
    <3>. QED BY <1>0, <1>1, <3>1 DEF Build, markDLQ
  <2>. QED BY <1>0, <2>1, AllInOrder DEF Honest
<1>2. CASE BulkSucceeds
  <2>1. /\ phase \in {"bulk", "broken"} /\ phase' = "resolve"
        /\ target' = Applied(Modelled)
        /\ UNCHANGED ledger
    BY <1>2 DEF BulkSucceeds
  <2>2. Modelled = Ops
    BY <2>1 DEF Honest, Modelled
  <2>3. \A i \in Ops : InTarget(i)'
    BY <1>0, <2>1, <2>2, AppliedToDistinct DEF InTarget
  <2>4. succeeded' = Ops
    BY <1>2 DEF BulkSucceeds
  <2>. QED BY <1>0, <2>1, <2>3, <2>4 DEF Honest
<1>3. CASE BulkRefused
  <2>1. /\ phase = "bulk" /\ phase' = "fallback"
        /\ UNCHANGED <<ledger, dlqed, canceled>>
    BY <1>3 DEF BulkRefused
  <2>2. PICK failed \in (SUBSET DOMAIN models) \ {{}} :
          /\ target' = Applied({models[k] : k \in Reached(failed) \ failed})
          /\ succeeded' = Ops \ failed
          /\ fallback' = failed
    BY <1>3 DEF BulkRefused
  <2>3. DOMAIN models = Ops /\ \A k \in Ops : models[k] = k
    BY <2>1 DEF Honest
  <2>4. Reached(failed) = Ops
    BY <1>0, <2>3 DEF Reached, useOrdered
  <2>5. {models[k] : k \in Reached(failed) \ failed} = Ops \ failed
    BY <2>3, <2>4
  <2>6. \A i \in Ops \ failed : InTarget(i)'
    BY <1>0, <2>2, <2>5, AppliedToDistinct DEF InTarget
  <2>. QED BY <1>0, <2>1, <2>2, <2>6 DEF Honest
<1>4. CASE BulkBroken \/ BulkCanceled
  <2>1. /\ phase \in {"bulk", "broken"}
        /\ phase' = "broken" \/ (phase' = "resolve" /\ canceled /\ canceled')
        /\ UNCHANGED <<models, succeeded, dlqed, ledger>>
    BY <1>4 DEF BulkBroken, BulkCanceled, marks
  <2>. QED BY <1>0, <2>1 DEF Honest
<1>5. CASE BulkGivenUp
  <2>1. /\ phase = "broken" /\ phase' = "fallback" /\ fallback' = Ops
        /\ UNCHANGED <<succeeded, dlqed, ledger>>
    BY <1>5 DEF BulkGivenUp, marks
  <2>. QED BY <1>0, <2>1 DEF Honest
<1>6. CASE Stores \/ StoresNothing \/ Fails \/ FallbackCanceled
  <2>1. /\ phase = "fallback" /\ phase' \in {"fallback", "resolve"}
        /\ fallback' = fallback \ {Current}
        /\ canceled' = canceled
    BY <1>6 DEF Stores, StoresNothing, Fails, FallbackCanceled, NextFallback
  <2>2. Current \in Ops
    BY <1>0, <2>1, CurrentInFallback
  <2>3. CASE Stores
    <3>1. /\ target' = Applied({Current})
          /\ succeeded' = succeeded \cup {Current}
          /\ UNCHANGED <<ledger, dlqed>>
      BY <2>3 DEF Stores
    <3>2. \A i \in Ops :
             target'[group[i].doc] = IF i = Current THEN Effect(i) ELSE target[group[i].doc]
      <4>1. {Current} \in SUBSET Ops
        BY <2>2
      <4>. QED BY <1>0, <3>1, <4>1, AppliedToDistinct
    <3>3. \A i \in Ops : i = Current => InTarget(i)'
      BY <1>0, <3>2 DEF InTarget
    <3>4. \A i \in Ops : InTarget(i) => InTarget(i)'
      BY <1>0, <3>2 DEF InTarget
    <3>5. \A i \in (succeeded' \ dlqed') : i = Current \/ i \in succeeded \ dlqed
      BY <3>1
    <3>6. \A i \in (succeeded' \ dlqed') : InTarget(i)'
      <4>1. \A i \in succeeded \ dlqed : i \in Ops /\ InTarget(i)
        BY <1>0 DEF Honest, Shape
      <4>. QED BY <2>2, <3>3, <3>4, <3>5, <4>1
    <3>7. ~ canceled' => \A i \in Ops : i \in fallback' \/ InTarget(i)' \/ group[i].doc \in ledger'
      <4>1. ~ canceled => \A i \in Ops : i \in fallback \/ InTarget(i) \/ group[i].doc \in ledger
        BY <2>1 DEF Honest
      <4>. QED BY <2>1, <3>1, <3>3, <3>4, <4>1
    <3>. QED BY <1>0, <2>1, <3>1, <3>6, <3>7 DEF Honest
  <2>4. CASE StoresNothing
    BY <1>0, <2>4 DEF StoresNothing, MatchesNothing
  <2>5. CASE Fails
    <3>1. PICK recorded \in BOOLEAN : markDLQ({Current}, recorded) /\ (canceled \/ recorded)
      BY <1>0, <2>5 DEF Fails
    <3>2. UNCHANGED <<target, succeeded>>
      BY <2>5 DEF Fails
    <3>3. /\ dlqed' = dlqed \cup {Current} /\ ledger \subseteq ledger'
          /\ canceled \/ group[Current].doc \in ledger'
      BY <3>1 DEF markDLQ
    <3>4. \A i : InTarget(i)' = InTarget(i)
      BY <1>0, <3>2 DEF InTarget
    <3>. QED BY <1>0, <2>1, <3>2, <3>3, <3>4 DEF Honest
  <2>6. CASE FallbackCanceled
    <3>1. canceled /\ UNCHANGED <<target, ledger, succeeded, dlqed>>
      BY <2>6 DEF FallbackCanceled, marks
    <3>2. \A i : InTarget(i)' = InTarget(i)
      BY <1>0, <3>1 DEF InTarget
    <3>. QED BY <1>0, <2>1, <3>1, <3>2 DEF Honest
  <2>. QED BY <1>6, <2>3, <2>4, <2>5, <2>6
<1>7. CASE Resolve
  <2> DEFINE resolved == active \cap {group[i].doc : i \in succeeded \ dlqed}
  <2>1. /\ phase = "resolve" /\ phase' = "done"
        /\ ledger' = ledger \ resolved
        /\ UNCHANGED <<target, models, fallback, succeeded, dlqed, canceled>>
    BY <1>7 DEF Resolve, marks
  <2>2. \A d \in resolved : \E i \in succeeded \ dlqed : d = group[i].doc
    OBVIOUS
  <2>. HIDE DEF resolved
  <2>3. succeeded \subseteq Ops
    BY <1>0 DEF Shape
  <2>4. \A d \in ledger \ ledger' : \E i \in Ops : d = group[i].doc /\ InTarget(i)
    BY <2>1, <2>2, <2>3 DEF Honest
  <2>5. \A i : InTarget(i)' = InTarget(i)
    BY <1>0, <2>1 DEF InTarget
  <2>6. \A i \in Ops : group[i].doc \in ledger \ ledger' => InTarget(i)
    BY <1>0, <2>4 DEF Distinct, Ops
  <2>7. Honest'
    BY <1>0, <2>1, <2>5, <2>6 DEF Honest
  <2>. QED BY <1>0, <2>4, <2>7, ReflectedWhenInTarget
<1>8. CASE Cancel
  <2>1. /\ canceled' = TRUE
        /\ UNCHANGED <<target, ledger, models, phase, fallback, succeeded, dlqed>>
    BY <1>8 DEF Cancel, marks
  <2>2. \A i : InTarget(i)' = InTarget(i)
    BY <1>0, <2>1 DEF InTarget
  <2>. QED BY <1>0, <2>1, <2>2 DEF Honest
<1>. QED BY <1>1, <1>2, <1>3, <1>4, <1>5, <1>6, <1>7, <1>8 DEF Next

LEMMA HonestInitially == Init => Honest
<1> SUFFICES ASSUME Init, Undisturbed PROVE Distinct(group)
  BY DEF Init, Honest
<1>. QED BY DEF Init, IsGroup, Undisturbed

(* Both invariants hold from the start and are kept. *)
LEMMA GroupInvariant ==
  ASSUME ~ ForceOrdered
  PROVE  /\ Init => MarkInv /\ Honest
         /\ MarkInv /\ Honest /\ [Next]_vars => (MarkInv /\ Honest)'
BY MarkInitially, HonestInitially, MarkStep, HonestStep

(* Efficient error handling: whatever is refused, lost or retried, the last
   operation on each document is in the target or the document in the DLQ when a
   group that was not canceled is done. *)
THEOREM NothingSilentlyLost ==
  ASSUME ~ ForceOrdered
  PROVE  Spec => []NoSilentLoss
<1>1. MarkInv /\ Honest => NoSilentLoss
  <2> SUFFICES ASSUME MarkInv, Honest, Undisturbed, phase = "done", ~ canceled,
                      NEW d \in Docs
               PROVE  Reflected(d) \/ d \in ledger
    BY DEF NoSilentLoss
  <2>1. GroupOK /\ Distinct(group) /\ fallback = {}
    BY DEF MarkInv, Shape, Honest
  <2>2. ASSUME NEW i \in OpsOn(d) PROVE Reflected(d) \/ d \in ledger
    <3>1. i \in Ops /\ group[i].doc = d
      BY DEF OpsOn
    <3>2. InTarget(i) \/ d \in ledger
      BY <2>1, <3>1 DEF Honest
    <3>. QED BY <2>1, <3>1, <3>2, ReflectedWhenInTarget
  <2>. QED BY <2>2 DEF Reflected
<1>. QED BY <1>1, GroupInvariant, PTL DEF Spec

(* handleBulkWriteResult: an operation that is reported as written is in the
   target, canceled or not. *)
THEOREM SuccessesAreReal ==
  ASSUME ~ ForceOrdered
  PROVE  Spec => []SuccessIsReal
<1>1. MarkInv /\ Honest => SuccessIsReal
  <2> SUFFICES ASSUME MarkInv, Honest, Undisturbed, NEW i \in succeeded \ dlqed
               PROVE  Reflected(group[i].doc)
    BY DEF SuccessIsReal
  <2>1. GroupOK /\ Distinct(group) /\ i \in Ops /\ InTarget(i)
    BY DEF MarkInv, Shape, Honest
  <2>. QED BY <2>1, ReflectedWhenInTarget
<1>. QED BY <1>1, GroupInvariant, PTL DEF Spec

(* The tombstone scan of executeBatchWrite: a document leaves the DLQ only when
   the target holds what its last operation left of it. *)
THEOREM ResolvedAreCurrent ==
  ASSUME ~ ForceOrdered
  PROVE  Spec => ResolvedIsCurrent
<1>1. MarkInv /\ Honest /\ [Next]_vars =>
        [Undisturbed => \A d \in ledger \ ledger' : Reflected(d)]_vars
  BY HonestStep
<1>. QED BY <1>1, GroupInvariant, PTL DEF Spec, ResolvedIsCurrent
-----------------------------------------------------------------------------
(* InOrder: its values are operations of I, as each of 1 .. Cardinality(I) is the
   rank of one of them. *)
LEMMA OrderedOperations ==
  ASSUME GroupOK, NEW I \in SUBSET Ops, NEW k \in DOMAIN InOrder(I)
  PROVE  InOrder(I)[k] \in I
<1>1. PICK n \in Nat \ {0} : Ops = 1 .. n /\ IsFiniteSet(Ops)
  BY GroupIsSequence
<1>a. I \in SUBSET Nat
  BY <1>1
<1>b. IsFiniteSet(I)
  BY <1>1, FS_Subset
<1>2. IsFiniteSet(I) /\ I \subseteq Nat /\ Cardinality(I) \in Nat
  BY <1>a, <1>b, FS_CardinalityType
<1> DEFINE UpTo(i) == {j \in I : j <= i}
           rank == [i \in I |-> Cardinality(UpTo(i))]
<1>3. ASSUME NEW i \in I
      PROVE  IsFiniteSet(UpTo(i)) /\ UpTo(i) \subseteq I /\ i \in UpTo(i)
  BY <1>2, <1>3, FS_Subset
<1>4. ASSUME NEW i \in I
      PROVE  rank[i] \in 1 .. Cardinality(I)
  <2>1. rank[i] \in Nat /\ rank[i] <= Cardinality(I)
    BY <1>2, <1>3, FS_Subset, FS_CardinalityType
  <2>2. rank[i] # 0
    BY <1>3, FS_EmptySet
  <2>. QED BY <1>2, <2>1, <2>2
<1>5. ASSUME NEW i \in I, NEW j \in I, rank[i] = rank[j], i < j
      PROVE  FALSE
  <2>1. UpTo(i) \subseteq UpTo(j)
    <3>1. \A m \in I : m <= i => m <= j
      BY <1>a, <1>5
    <3>. QED BY <3>1
  <2>2. UpTo(i) = UpTo(j)
    <3>1. UpTo(i) \in SUBSET UpTo(j) /\ IsFiniteSet(UpTo(j))
      BY <1>3, <2>1
    <3>2. Cardinality(UpTo(i)) = Cardinality(UpTo(j))
      BY <1>5
    <3>. QED BY <3>1, <3>2, FS_Subset
  <2>3. j \in UpTo(i)
    BY <1>3, <2>2
  <2>. QED BY <1>2, <1>5, <2>3
<1>6. rank \in Injection(I, 1 .. Cardinality(I))
  <2>1. \A i, j \in I : rank[i] = rank[j] => i = j
    BY <1>2, <1>5
  <2>2. rank \in [I -> 1 .. Cardinality(I)]
    BY <1>4
  <2>. HIDE DEF rank
  <2>. QED BY <2>1, <2>2 DEF Injection, IsInjective
<1>7. rank \in Surjection(I, 1 .. Cardinality(I))
  <2>1. IsFiniteSet(1 .. Cardinality(I)) /\ Cardinality(1 .. Cardinality(I)) = Cardinality(I)
    BY <1>2, FS_Interval
  <2>. HIDE DEF rank
  <2>. QED BY <1>6, <2>1, FS_Injection
<1>8. k \in 1 .. Cardinality(I)
  BY DEF InOrder
<1>9. \E i \in I : Cardinality(UpTo(i)) = k
  <2>1. \E i \in I : rank[i] = k
    <3>. HIDE DEF rank
    <3>. QED BY <1>7, <1>8 DEF Surjection
  <2>. QED BY <2>1
<1>. QED BY <1>8, <1>9 DEF InOrder

TypeInv == Ops \subseteq 1 .. MaxOps /\ TypeOK

(* Applied: what it puts into the target is an operation, or nothing. *)
LEMMA AppliedIsTarget ==
  ASSUME GroupOK, Ops \subseteq 1 .. MaxOps, target \in [Docs -> 0 .. Old],
         NEW I \in SUBSET Ops
  PROVE  Applied(I) \in [Docs -> 0 .. Old]
<1>1. PICK n \in Nat \ {0} : Ops = 1 .. n
  BY GroupIsSequence
<1>2. ASSUME NEW i \in Ops PROVE Effect(i) \in 0 .. Old
  BY <1>1, <1>2, GroupAssumption DEF Effect, Absent, Old
<1>3. ASSUME NEW d \in Docs, OpsOn(d) \cap I # {} PROVE Effect(Max(OpsOn(d) \cap I)) \in 0 .. Old
  <2>1. OpsOn(d) \cap I \in SUBSET (0 .. n)
    BY <1>1 DEF OpsOn
  <2>2. Max(OpsOn(d) \cap I) \in I
    BY <1>3, <2>1, MaxInRange
  <2>. QED BY <1>2, <2>2
<1>. QED BY <1>3 DEF Applied

(* The fallback keeps the types of the marks and of the ledger. *)
LEMMA MarkingKeepsTypes ==
  ASSUME GroupOK, TypeOK, NEW I \in SUBSET Ops, NEW recorded \in BOOLEAN, markDLQ(I, recorded)
  PROVE  dlqed' \subseteq Ops /\ ledger' \subseteq active' /\ active' \subseteq Docs
<1>1. \A i \in Ops : group[i].doc \in Docs
  BY GroupIsSequence
<1>. QED BY <1>1 DEF TypeOK, markDLQ

LEMMA TypeStep == ASSUME MarkInv, TypeInv, [Next]_vars PROVE TypeInv'
<1>0. Shape /\ GroupOK /\ TypeOK /\ Ops \subseteq 1 .. MaxOps
  BY DEF MarkInv, Shape, TypeInv
<1>1. CASE UNCHANGED vars
  BY <1>0, <1>1 DEF vars, inputs, marks, TypeInv, TypeOK, Modelled, Ops
<1>2. CASE Next
  <2>1. UNCHANGED inputs /\ Ops' = Ops
    BY <1>2, SameGroup DEF inputs, Ops
  <2>2. MarkInv' /\ Shape'
    BY MarkStep DEF MarkInv
  <2>3. target' \in [Docs -> 0 .. Old]
    <3>1. CASE BulkSucceeds
      <4>1. target' = Applied(Modelled) /\ Modelled \in SUBSET Ops
        BY <1>0, <3>1 DEF BulkSucceeds, TypeOK
      <4>. QED BY <1>0, <4>1, AppliedIsTarget DEF TypeOK
    <3>2. CASE BulkRefused
      <4>1. PICK failed \in (SUBSET DOMAIN models) \ {{}} :
              target' = Applied({models[k] : k \in Reached(failed) \ failed})
        BY <3>2 DEF BulkRefused
      <4>2. {models[k] : k \in Reached(failed) \ failed} \subseteq Modelled
        BY DEF Reached, Modelled
      <4>3. {models[k] : k \in Reached(failed) \ failed} \in SUBSET Ops
        BY <1>0, <4>2 DEF TypeOK
      <4>. QED BY <1>0, <4>1, <4>3, AppliedIsTarget DEF TypeOK
    <3>3. CASE BulkBroken \/ BulkCanceled
      <4>1. PICK I \in SUBSET Modelled : target' = Applied(I)
        BY <3>3 DEF BulkBroken, BulkCanceled, PartlyApplied
      <4>2. I \in SUBSET Ops
        BY <1>0, <4>1 DEF TypeOK
      <4>. QED BY <1>0, <4>1, <4>2, AppliedIsTarget DEF TypeOK
    <3>4. CASE Stores
      <4>1. target' = Applied({Current}) /\ phase = "fallback"
        BY <3>4 DEF Stores
      <4>2. {Current} \in SUBSET Ops
        BY <1>0, <4>1, CurrentInFallback
      <4>. QED BY <1>0, <4>1, <4>2, AppliedIsTarget DEF TypeOK
    <3>5. CASE UNCHANGED target
      BY <1>0, <3>5 DEF TypeOK
    <3>. QED BY <1>2, <3>1, <3>2, <3>3, <3>4, <3>5
         DEF Next, Build, BulkGivenUp, StoresNothing, Fails, FallbackCanceled, Resolve, Cancel
  <2>4. dlqed' \subseteq Ops /\ ledger' \subseteq active' /\ active' \subseteq Docs
    <3>1. CASE Build
      <4>1. untransformable \in SUBSET Ops
        BY <1>0, GroupIsSequence
      <4>. QED BY <1>0, <3>1, <4>1, MarkingKeepsTypes DEF Build
    <3>2. CASE Fails
      <4>1. PICK recorded \in BOOLEAN : markDLQ({Current}, recorded)
        BY <3>2 DEF Fails
      <4>2. {Current} \in SUBSET Ops
        BY <1>0, <3>2, CurrentInFallback DEF Fails
      <4>. QED BY <1>0, <4>1, <4>2, MarkingKeepsTypes
    <3>3. CASE Resolve
      BY <1>0, <3>3 DEF Resolve, TypeOK, marks
    <3>4. CASE UNCHANGED <<dlqed, ledger, active>>
      BY <1>0, <3>4 DEF TypeOK
    <3>. QED BY <1>2, <3>1, <3>2, <3>3, <3>4
         DEF Next, BulkSucceeds, BulkRefused, BulkBroken, BulkGivenUp, BulkCanceled, Stores,
             StoresNothing, FallbackCanceled, Cancel, marks
  <2>5. Modelled' \subseteq (Ops \ untransformable)'
    <3>1. CASE Build
      <4>1. models' = InOrder(Ops \ untransformable)
        BY <3>1 DEF Build
      <4>2. \A k \in DOMAIN models' : models'[k] \in Ops \ untransformable
        BY <1>0, <4>1, OrderedOperations
      <4>. QED BY <2>1, <4>2 DEF Modelled, inputs
    <3>2. CASE UNCHANGED models
      BY <1>0, <2>1, <3>2 DEF TypeOK, Modelled, inputs
    <3>. QED BY <1>2, <3>1, <3>2
         DEF Next, BulkSucceeds, BulkRefused, BulkBroken, BulkGivenUp, BulkCanceled, Stores,
             StoresNothing, Fails, NextFallback, FallbackCanceled, Resolve, Cancel
  <2>6. canceled' \in BOOLEAN
    BY <1>0, <1>2 DEF TypeOK, Next, Build, BulkSucceeds, BulkRefused, BulkBroken, BulkGivenUp,
      BulkCanceled, Stores, StoresNothing, Fails, NextFallback, FallbackCanceled, Resolve, Cancel
  <2>. QED BY <1>0, <2>1, <2>2, <2>3, <2>4, <2>5, <2>6 DEF TypeInv, TypeOK, Shape
<1>. QED BY <1>1, <1>2

(* Type correctness, for groups of any length: the target holds operations of the
   group, every failed document of the DLQ file is tracked as failed, and there is
   no model of an operation that cannot be transformed. *)
THEOREM TypeCorrect == Spec => []TypeOK
<1>1. ASSUME Init PROVE TypeInv
  <2>1. PICK n \in 1 .. MaxOps :
          group \in {g \in [1 .. n -> [doc : Docs, opType : OpTypes]] : IsGroup(g)}
    BY <1>1 DEF Init
  <2>2. Ops \subseteq 1 .. MaxOps
    BY <2>1, GroupAssumption DEF Ops
  <2>3. target \in [Docs -> 0 .. Old]
    BY <1>1, GroupAssumption DEF Init, Absent, Old
  <2>4. /\ ledger \subseteq active /\ active \subseteq Docs
        /\ phase = "build" /\ fallback = {} /\ succeeded = {} /\ dlqed = {} /\ canceled = FALSE
    BY <1>1 DEF Init
  <2>5. models = <<>>
    BY <1>1 DEF Init
  <2>6. Modelled = {}
    BY <2>5 DEF Modelled
  <2>. QED BY <2>2, <2>3, <2>4, <2>6 DEF TypeInv, TypeOK
<1>2. TypeInv => TypeOK
  BY DEF TypeInv
<1>. QED BY <1>1, <1>2, MarkInitially, MarkStep, TypeStep, PTL DEF Spec

=============================================================================
