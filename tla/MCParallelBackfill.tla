--------------------------- MODULE MCParallelBackfill ----------------------------
EXTENDS ParallelBackfill

OfType(t, vals) == [i \in DOMAIN vals |-> [type |-> t, val |-> vals[i]]]

(* Only ObjectIDs, by sampling or by the extreme values, or by time in a start whose
   detection of the strategy fails. *)
Uniform == [id |-> OfType("objectId", <<1, 2, 9>>), large |-> {},
            strategy |-> "auto", failing |-> {"detection"}]

(* Many numbers, cut at sampled values, and few strings. *)
Mixed == [id |-> OfType("number", <<1, 2, 3>>) \o OfType("string", <<200>>),
          large |-> {"number"}, strategy |-> "mixed", failing |-> {}]

(* Many strings, cut at sampled values or, when the sample fails, at fixed prefixes. *)
Strings == [id |-> OfType("string", <<10, 130, 250>>), large |-> {"string"},
            strategy |-> "mixed", failing |-> {"sample"}]

(* Few ObjectIDs, cut by time. *)
ByTime == [id |-> OfType("objectId", <<1, 4, 9>>), large |-> {},
           strategy |-> "mixed", failing |-> {}]

(* Few numbers, cut by their remainder. *)
Numbers == [id |-> OfType("number", <<1, 2, 3, 4>>), large |-> {},
            strategy |-> "mixed", failing |-> {}]

(* Few dates, cut at string prefixes. *)
Dates == [id |-> OfType("date", <<1, 2, 3>>), large |-> {},
          strategy |-> "mixed", failing |-> {}]

(* A negative number among few numbers. *)
Negative == [id |-> OfType("number", <<-1, 2, 3>>), large |-> {},
             strategy |-> "mixed", failing |-> {}]

(* Two types, of which the detection has sampled one. *)
Guessed == [id |-> OfType("string", <<10>>) \o OfType("objectId", <<1, 4, 9>>),
            large |-> {}, strategy |-> "auto", failing |-> {}]

(* Few ObjectIDs among strings: the extreme _ids are not both ObjectIDs. *)
Fallback == [Guessed EXCEPT !.strategy = "mixed"]

(* Embedded documents as _id, next to strings. *)
Embedded == [id |-> OfType("string", <<10, 200>>) \o OfType("object", <<1>>),
             large |-> {}, strategy |-> "mixed", failing |-> {}]

(* Collections of which a query may fail: the probe for the types, the sample of the
   numbers, the extreme _ids. *)
Unprobed == [Fallback EXCEPT !.failing = {"probe"}]
Unsampled == [Mixed EXCEPT !.failing = {"sample"}]
Untimed == [ByTime EXCEPT !.failing = {"extremes"}]

CollectionsByRange == {Uniform, Mixed, Strings, ByTime}
CollectionsByRemainder == {Numbers}
CollectionsUnsampled == {Unsampled}
CollectionsUntimed == {Untimed}

(* Which of them a resumption can cope with, whatever the sample: when more than
   one partition may be read, those cut by ranges of their own type. *)
ASSUME RangesAreInOrder ==
  (\A max \in MaxReadPartitions : max > 1) =>
    /\ \A c \in CollectionsByRange : CutByRanges(c) /\ CutInOrder(c)
    /\ \A c \in {Numbers, Dates, Guessed, Embedded, Unprobed, Unsampled, Untimed} :
         ~ CutByRanges(c) /\ ~ CutInOrder(c)
=============================================================================
