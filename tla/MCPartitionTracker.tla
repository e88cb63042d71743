------------------------- MODULE MCPartitionTracker -------------------------
(* Instances of PartitionTracker for TLC.  The streams are interchangeable. *)
EXTENDS PartitionTracker, TLC

StreamSymmetry == Permutations(Streams)
=============================================================================
