----------------------------- MODULE MCBackfill ------------------------------
EXTENDS Backfill, TLC

WorkerSymmetry == Permutations(Workers)

(* _id values of two types that the discovery knows. *)
TwoTypes == <<"number", "number", "number", "string", "string">>

OneType == [d \in 1 .. NumDocs |-> "objectId"]

(* Embedded documents as _id. *)
Embedded == [d \in 1 .. NumDocs |-> "object"]
=============================================================================
