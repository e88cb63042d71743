----------------------------- MODULE Partitioning ------------------------------
(***************************************************************************)
(* How parallel_read.go cuts a collection into partitions: the filter of   *)
(* each partition, per strategy, from the sampled or the extreme _ids.     *)
(*                                                                         *)
(* An _id is a record [type, val], ordered by val within its type.  A      *)
(* collection c is a record of                                             *)
(*   id        the _ids of the documents 1 .. Len(c.id), in _id order,     *)
(*   large     the _id types that count 2000 documents or more,            *)
(*   strategy  what idTypeForPartition says: "objectid", "numeric",        *)
(*             "mixed" or "auto",                                          *)
(*   failing   the queries that may fail or time out, any time anew:       *)
(*             "detection" of the strategy, "probe" for the types present, *)
(*             "sample" of one type, "extremes" for the first or last _id. *)
(*                                                                         *)
(* The partitions are numbered from 1.  What depends on a random sample or *)
(* on a failing query is an operator whose value is the set of the         *)
(* possible outcomes.  A query whose failure ends the start, such as the   *)
(* one for the count, is not listed: the process stops at any step anyway. *)
(***************************************************************************)
EXTENDS Integers, FiniteSets, SequencesExt

(* The _id types that the discovery probes for. *)
CandidateBSONTypes ==
  {"objectId", "string", "number", "date", "binData", "bool", "timestamp"}

Nil == [type |-> "", val |-> 0]

Docs(c) == 1 .. Len(c.id)
TypeOf(c, d) == c.id[d].type
DocsOfType(c, t) == {d \in Docs(c) : TypeOf(c, d) = t}
Present(c) == {TypeOf(c, d) : d \in Docs(c)} \cap CandidateBSONTypes

(* What a step may come to besides, where the code goes on without a query. *)
OnFailure(c, query, outcomes) == IF query \in c.failing THEN outcomes ELSE {}

(* DiscoverPresentBSONTypes as migrateCollection uses it: none after an error. *)
DiscoverPresentBSONTypes(c) == {Present(c)} \cup OnFailure(c, "probe", {{}})

-----------------------------------------------------------------------------
(* A filter is {} (all) or one clause per type, joined by $or: an inclusive
   $gte, an exclusive $lt and a $mod, each of which may be missing. *)
Everything == [all |-> TRUE, clause |-> <<>>]
Nothing == [all |-> FALSE, clause |-> <<>>]     \* {_id: {$exists: false}}

Between(from, to) == [start |-> from, end |-> to, mod |-> <<>>]

(* The remainder of $mod has the sign of the dividend. *)
Remainder(a, n) == IF a >= 0 THEN a % n ELSE - ((- a) % n)

(* A bound matches values of its own type only. *)
InClause(id, clause) ==
  /\ clause.start # Nil => clause.start.type = id.type /\ clause.start.val <= id.val
  /\ clause.end # Nil => clause.end.type = id.type /\ id.val < clause.end.val
  /\ clause.mod # <<>> => Remainder(id.val, clause.mod[1]) = clause.mod[2]

Matched(c, filter) ==
  {d \in Docs(c) : \/ filter.all
                   \/ /\ TypeOf(c, d) \in DOMAIN filter.clause
                      /\ InClause(c.id[d], filter.clause[TypeOf(c, d)])}

-----------------------------------------------------------------------------
(* Contiguous ranges between bounds: the first has no lower bound and the last
   no upper one. *)
Ranges(bounds) ==
  LET n == Len(bounds) + 1 IN
    [i \in 1 .. n |-> Between(IF i = 1 THEN Nil ELSE bounds[i - 1],
                              IF i = n THEN Nil ELSE bounds[i])]

(* One clause, under the type its bounds have. *)
FilterOf(t, clause) == [all |-> FALSE, clause |-> [u \in {t} |-> clause]]
ImpliedType(clause) == IF clause.start # Nil THEN clause.start.type ELSE clause.end.type

(* The _ids that a $sample may return, sorted: the k-th is of the document that has
   k documents of the sample up to itself. *)
Ranked(docs, k) == CHOOSE d \in docs : Cardinality({e \in docs : e <= d}) = k

Samples(c, docs) ==
  {[k \in 1 .. Cardinality(sub) |-> c.id[Ranked(sub, k)]] : sub \in SUBSET docs}

(* Evenly spaced elements of a sorted sample, counted from 0. *)
EverySoMany(s, step, first, n) == [k \in 1 .. n - 1 |-> s[(k + first) * step + 1]]

(* buildPartitionFilters, and buildTypeScopedPartitionFilters for one type. *)
QuantileBounds(s, n) == EverySoMany(s, Len(s) \div n, 0, n)

(* n ranges of equal length between two values of a type. *)
EqualBounds(t, min, max, n) ==
  [k \in 1 .. n - 1 |-> [type |-> t, val |-> min + (k * (max - min)) \div n]]

-----------------------------------------------------------------------------
(* createObjectIDPartitions and createNumericPartitions, WithSampling and
   WithMinMax, for a collection whose _ids are all of type t.  An _id of another
   type leaves the zero value behind. *)
ValueAs(t, id) == IF id.type = t THEN id.val ELSE 0

PartitionsByRange(c, t, n, maxPartitions) ==
  LET filters(bounds) == [i \in 1 .. Len(bounds) + 1 |-> FilterOf(t, Ranges(bounds)[i])]
      samples == Samples(c, DocsOfType(c, t))
      enough == {s \in samples : Len(s) >= n + 1}
      minMax == EqualBounds(t, ValueAs(t, c.id[1]), ValueAs(t, Last(c.id)), maxPartitions)
  IN {filters(EverySoMany(s, Len(s) \div (n + 1), 1, n)) : s \in enough}
       \cup {filters(minMax) : s \in samples \ enough}

-----------------------------------------------------------------------------
(* The grouping by type. *)
createNumberUniformSlices(n) ==
  [i \in 1 .. n |-> [start |-> Nil, end |-> Nil, mod |-> <<n, i - 1>>]]

(* Two hexadecimal digits as bounds, whatever the type is.  Past 256 partitions some
   have three, which are not in the order of their values. *)
createStringUniformSlices(n) ==
  LET step == IF n > 256 THEN 1 ELSE 256 \div n IN
    Ranges([k \in 1 .. n - 1 |-> [type |-> "string", val |-> k * step]])

(* By time, from the extreme _ids of the whole collection, or else by prefixes. *)
createObjectIdUniformSlices(c, n) ==
  LET byTime == Ranges(EqualBounds("objectId", c.id[1].val, Last(c.id).val, n))
      usable == {c.id[1].type, Last(c.id).type} = {"objectId"} /\ c.id[1] # Last(c.id)
      prefixes == createStringUniformSlices(n)
  IN {IF usable THEN byTime ELSE prefixes} \cup OnFailure(c, "extremes", {prefixes})

createUniformSlicesForType(c, t, n) ==
  CASE t = "number"   -> {createNumberUniformSlices(n)}
    [] t = "objectId" -> createObjectIdUniformSlices(c, n)
    [] OTHER          -> {createStringUniformSlices(n)}

(* The slices a type may be cut into.  The sample of a large type is of 1000
   documents or more; it falls back when the query fails or there are too few. *)
SlicesForType(c, t, n) ==
  LET enough == {s \in Samples(c, DocsOfType(c, t)) : Len(s) >= n}
      uniform == createUniformSlicesForType(c, t, n)
  IN IF t \in c.large /\ enough # {}
     THEN {Ranges(QuantileBounds(s, n)) : s \in enough} \cup OnFailure(c, "sample", uniform)
     ELSE uniform

(* mergeTypeSlices: partition i is the $or of the i-th slices of the types. *)
mergeTypeSlices(slices, n) ==
  [i \in 1 .. n |-> [all |-> FALSE, clause |-> [t \in DOMAIN slices |-> slices[t][i]]]]

(* The sampling of all types together, after a failed probe. *)
createPartitionsWithSampling(c, n) ==
  LET filters(bounds) ==
        [i \in 1 .. n |-> FilterOf(ImpliedType(Ranges(bounds)[i]), Ranges(bounds)[i])]
  IN {IF Len(s) < n THEN <<Everything>> ELSE filters(QuantileBounds(s, n)) :
        s \in Samples(c, Docs(c))}

createPartitionsGroupedByType(c, n) ==
  LET slices == [t \in Present(c) |-> SlicesForType(c, t, n)]
      choices == {f \in [Present(c) -> UNION {slices[t] : t \in Present(c)}] :
                    \A t \in Present(c) : f[t] \in slices[t]}
  IN (IF Present(c) = {} THEN {<<Everything>>}
      ELSE {mergeTypeSlices(f, n) : f \in choices})
       \cup OnFailure(c, "probe", createPartitionsWithSampling(c, n))

(* CalculatePartitionCount: no more than maxPartitions, at least one. *)
CalculatePartitionCount(total, minDocsPerPartition, maxPartitions) ==
  IF total < minDocsPerPartition THEN 1
  ELSE IF total \div minDocsPerPartition > maxPartitions THEN maxPartitions
  ELSE total \div minDocsPerPartition

(* What a sample shows that consists of _ids of these types. *)
StrategyOf(types) ==
  CASE types = {"objectId"} -> "objectid"
    [] types = {"number"}   -> "numeric"
    [] OTHER                -> "mixed"

RecommendIDPartitioning(c) ==
  {StrategyOf({TypeOf(c, d) : d \in sub}) :
     sub \in {docs \in SUBSET Docs(c) : docs = {} => Docs(c) = {}}}

(* The strategies a start may take. *)
Strategies(c) ==
  IF c.strategy = "auto"
  THEN RecommendIDPartitioning(c) \cup OnFailure(c, "detection", {"mixed"})
  ELSE {c.strategy}

PartitionBy(strategy, c, n, maxPartitions) ==
  CASE strategy = "objectid" -> PartitionsByRange(c, "objectId", n, maxPartitions)
    [] strategy = "numeric"  -> PartitionsByRange(c, "number", n, maxPartitions)
    [] OTHER                 -> createPartitionsGroupedByType(c, n)

(* Partition: the sequences of filters it may return for n partitions. *)
Partition(c, n, maxPartitions) ==
  IF n = 1 THEN {<<Everything>>}
  ELSE UNION {PartitionBy(s, c, n, maxPartitions) : s \in Strategies(c)}
=============================================================================
