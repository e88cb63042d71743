--------------------------- MODULE Checkpointing ----------------------------
(***************************************************************************)
(* What the checkpoint of a live replication promises, whatever the        *)
(* program does in memory: the position kept on disk for a change stream   *)
(* never goes back, and every event up to it has been finished, so that a  *)
(* run resuming after it misses nothing.                                   *)
(*                                                                         *)
(*   done        per stream, the positions whose event is finished         *)
(*   checkpoint  per stream, the position of the resume token on disk      *)
(***************************************************************************)
EXTENDS Naturals

CONSTANT Streams            (* the change stream partitions *)

VARIABLES done, checkpoint

cpVars == <<done, checkpoint>>

Init ==
  /\ done = [s \in Streams |-> {}]
  /\ checkpoint = [s \in Streams |-> 0]

(* A finished event stays finished. *)
Finish == \A s \in Streams : done[s] \subseteq done'[s]

(* A checkpoint moves forward only, over finished events only. *)
Advance ==
  \A s \in Streams :
    /\ checkpoint[s] <= checkpoint'[s]
    /\ 1 .. checkpoint'[s] \subseteq done'[s]

Next == Finish /\ Advance

Spec == Init /\ [][Next]_cpVars
=============================================================================
