--------------------------- MODULE MCLivePipeline ---------------------------
EXTENDS LivePipeline, TLC

CONSTANTS s1, s2, d1, d2, d3

(* One document per worker; d3 is the second document of worker 1. *)
TwoWorkers == d1 :> 1 @@ d2 :> 2 @@ d3 :> 1

OneWorker == d1 :> 1 @@ d2 :> 1 @@ d3 :> 1

Op(d, type) == [doc |-> d, opType |-> type]

(* Two documents of one worker in one stream, one of the other worker. *)
Writes ==
  s1 :> <<Op(d1, "insert"), Op(d1, "update")>> @@
  s2 :> <<Op(d3, "insert"), Op(d2, "insert")>>

(* A document written twice, another in between by the other worker, and a
   stream of which everything is skipped. *)
Skipped ==
  s1 :> <<Op(d1, "insert"), Op(d2, "delete"), Op(d1, "replace")>> @@
  s2 :> <<Op(d3, "other"), Op(d3, "other"), Op(d3, "nullUpdate")>>

(* The collection of the second stream is dropped. *)
Dropped ==
  s1 :> <<Op(d1, "insert"), Op(d1, "delete")>> @@
  s2 :> <<Op(d3, "insert"), Op(d3, "drop")>>
=============================================================================
