------------------------- MODULE MCOplogReplication -------------------------
EXTENDS OplogReplication

Invoked(mode) ==
  [mode |-> mode, legacy |-> FALSE, dryRun |-> FALSE, indexOnly |-> FALSE, since |-> None]

Legacy(mode) == [Invoked(mode) EXCEPT !.legacy = TRUE]

(* Every mode of both replicators, with their options. *)
AllStarts ==
  {Invoked("live"), Legacy("live"), Invoked("live-only"), Invoked("retry-dlq"),
   [Invoked("live") EXCEPT !.dryRun = TRUE],
   [Legacy("live") EXCEPT !.indexOnly = TRUE],
   [Invoked("live-only") EXCEPT !.since = 1],
   [Legacy("live-only") EXCEPT !.since = 0]}

(* A copy, its tail and a retry. *)
LiveThenRetry == {Invoked("live"), Invoked("retry-dlq")}

LiveOnly == {Invoked("live-only")}
=============================================================================
