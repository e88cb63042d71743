------------------------ MODULE MCReplicationStartup ------------------------
EXTENDS ReplicationStartup, TLC

(* One change per second. *)
Seconds == [c \in Changes |-> c]

(* With two partitions the changes alternate. *)
Alternating == 1 :> [c \in Changes |-> 1] @@ 2 :> [c \in Changes |-> 1 + (c % 2)]

(* With up to three partitions they take turns. *)
Turns == [n \in 1 .. 3 |-> [c \in Changes |-> 1 + (c % n)]]

Invoked(mode, count) ==
  [mode |-> mode, partitions |-> count, indexOnly |-> FALSE, dryRun |-> FALSE,
   since |-> Never]

(* Every mode, with its options. *)
AllStarts ==
  {Invoked("live", 1), Invoked("live", 2), Invoked("live-only", 2),
   Invoked("migrate", 1), Invoked("capture-resume-token", 1),
   [Invoked("live", 1) EXCEPT !.indexOnly = TRUE],
   [Invoked("live", 2) EXCEPT !.dryRun = TRUE],
   [Invoked("live-only", 2) EXCEPT !.since = 2]}

(* A migration first, replication afterwards. *)
MigrateThenLive == {Invoked("migrate", 1), Invoked("live", 1)}

(* Replication, rescaled to and fro between three numbers of partitions. *)
ThreeNumbers == {Invoked("live", n) : n \in 1 .. 3}

(* The files of the two earlier versions. *)
OldFiles == {{Global}, {<<0, 1>>, <<0, 2>>}}
NoOldFiles == {}
=============================================================================
