------------------------- MODULE ReplicationStartup --------------------------
(***************************************************************************)
(* From where live replication starts: Start, captureResumeToken and       *)
(* startChangeStreamReplication of migrator.go, StartReplication of        *)
(* client_stream.go and the files they decide by, the resume tokens of     *)
(* resumetoken.go, the state of migrationstate.go and the checkpoint of    *)
(* the backfill.                                                           *)
(*                                                                         *)
(* Every file is replaced atomically, one after the other, and the process *)
(* may stop between any two of them and be started again in another mode   *)
(* or with another number of stream partitions.                            *)
(*                                                                         *)
(* The source is a history of changes 1 .. now; a resume token is the      *)
(* position after which a stream continues.  The copy of the collections   *)
(* is modelled in Backfill, the streaming in LivePipeline: here a copy     *)
(* reflects at least the changes made before it began, a stream reflects   *)
(* its changes in order, and its token may be saved any time later.        *)
(***************************************************************************)
EXTENDS Integers, FiniteSetsExt, Sequences

CONSTANTS
  MaxPosition,      (* bound: changes of the source                           *)
  EventTime,        (* change -> second of its clusterTime                    *)
  PartitionOf,      (* number of partitions -> change -> its partition        *)
  Starts,           (* the invocations: [mode, partitions, indexOnly, dryRun, *)
                    (* since], since being liveStartTime or Never             *)
  Leftovers,        (* sets of token files that earlier versions left         *)
  HistoryCanExpire, (* whether the source may drop the head of its history    *)
  DeletesCanFail    (* whether deleting a token file may fail                 *)

Changes == 1 .. MaxPosition
MaxPartitions == Max(DOMAIN PartitionOf)
Never == 0
Modes == {"migrate", "live", "live-only", "capture-resume-token"}

ASSUME StartupAssumption ==
  /\ MaxPosition \in Nat \ {0}
  /\ EventTime \in [Changes -> Nat \ {0}]
  /\ \A c, d \in Changes : c < d => EventTime[c] <= EventTime[d]
  /\ MaxPartitions \in Nat /\ DOMAIN PartitionOf \subseteq 1 .. MaxPartitions
  /\ \A n \in DOMAIN PartitionOf : PartitionOf[n] \in [Changes -> 1 .. n]
  /\ Starts \subseteq [mode : Modes, partitions : DOMAIN PartitionOf,
                       indexOnly : BOOLEAN, dryRun : BOOLEAN, since : 0 .. MaxPosition]
  /\ \A s \in Starts : s.since # Never => s.mode = "live-only"
  /\ \A left \in Leftovers : left \subseteq {0} \X (0 .. MaxPartitions)
  /\ {HistoryCanExpire, DeletesCanFail} \subseteq BOOLEAN

VARIABLES
  tokens,       (* resume token file -> its content                           *)
  status,       (* initial migration state file, "none" when it is missing    *)
  copyOf,       (* backfill checkpoint: the copy began after this many        *)
                (* changes; 0 when no copy of anything was begun              *)
  copied,       (* backfill checkpoint: the copy is completed                 *)
  phase,        (* where the process is; "down" when there is none            *)
  start,        (* how the process was invoked                                *)
  global,       (* globalResumeToken                                          *)
  state,        (* status in initialMigrationState                            *)
  restarted,    (* StartReplication has called itself                         *)
  todo,         (* token files still to be written, or deleted when expired   *)
  existing,     (* existingPaths of a rescale, still to be deleted            *)
  streams,      (* partition -> position its change stream has reached        *)
  now,          (* changes made to the source so far                          *)
  oldest,       (* the source has dropped the changes before this one         *)
  handled,      (* history: changes in the target, or the user's own affair   *)
  abandoned     (* history: changes given up by a run that says so nowhere    *)

disk == <<tokens, status, copyOf, copied>>
process == <<phase, start, global, state, restarted, todo, existing, streams>>
source == <<now, oldest>>
history == <<handled, abandoned>>
vars == <<disk, process, source, history>>

-----------------------------------------------------------------------------
(* The files.  <<n, i>> is resumeToken-...-partition-i-of-n.json, <<0, i>> is
   ...-partition-i.json of an earlier version, Global the file of all streams. *)
Global == <<0, 0>>
Files(n) == [i \in 1 .. n |-> <<n, i>>]
partitions == start.partitions

(* A missing token and the token of an empty file.  Time 0 stands for a token
   without a timestamp, which counts as the oldest. *)
Nil == [at |-> -1, time |-> 0]
Token(p) == [at |-> p, time |-> 0]
TimedToken(p) == [at |-> p, time |-> EventTime[p]]

Loaded(f) == IF f \in DOMAIN tokens THEN tokens[f] ELSE Nil
Saved(F, t) == [f \in DOMAIN tokens \cup F |-> IF f \in F THEN t ELSE tokens[f]]
Deleted(f) == [g \in DOMAIN tokens \ {f} |-> tokens[g]]

(* ScanPartitionCheckpoints and ResolveActiveCheckpoints: the set with the most
   partitions, or that of the earlier version when there is no other. *)
Format == Max({0} \cup {f[1] : f \in DOMAIN tokens})
Active == {f \in DOMAIN tokens \ {Global} : f[1] = Format}
historicalTotal ==
  IF Format = 0 THEN Max({0} \cup {f[2] : f \in Active}) ELSE Format

(* No partition's file is missing or empty. *)
Complete == \A i \in 1 .. historicalTotal : Loaded(<<Format, i>>) # Nil

(* Mutation of Watermark: the newest token. *)
NewestWatermark ==
  tokens[CHOOSE f \in Active : \A g \in Active : tokens[g].at <= tokens[f].at]

(* The token with the earliest timestamp, of the first partition among equals. *)
Watermark ==
  LET earliest == {f \in Active : \A g \in Active : tokens[f].time <= tokens[g].time}
  IN tokens[CHOOSE f \in earliest : \A g \in earliest : f[2] <= g[2]]

-----------------------------------------------------------------------------
NoStart == [mode |-> "live", partitions |-> 1, indexOnly |-> FALSE,
            dryRun |-> FALSE, since |-> Never]

NoProcess ==
  /\ phase = "down" /\ start = NoStart /\ global = Nil /\ state = "none"
  /\ restarted = FALSE /\ todo = <<>> /\ existing = {} /\ streams = <<>>

(* The process returns, crashes, or is told to stop. *)
Ends ==
  /\ phase' = "down" /\ start' = NoStart /\ global' = Nil /\ state' = "none"
  /\ restarted' = FALSE /\ todo' = <<>> /\ existing' = {} /\ streams' = <<>>

Init ==
  /\ now = 0 /\ oldest = 0 /\ handled = {} /\ abandoned = {}
  /\ \E left \in {{}} \cup Leftovers :
       /\ tokens = [f \in left |-> Token(0)]
       /\ status = IF left = {} THEN "none" ELSE "completed"
  /\ copyOf = 0 /\ copied = FALSE
  /\ NoProcess

Unfinished(s) == s \in {"none", "inprogress"}

(* The changes a capture leaves behind its token for good: the user starts from
   here with data of his own, unless the run means to copy them itself. *)
Forgotten ==
  IF start.mode = "live" /\ copyOf = 0 THEN {} ELSE 1 .. now \ handled
OwnAffair == start.mode # "live" /\ ~ restarted

-----------------------------------------------------------------------------
(* startChangeStreamReplication.  The DLQ of the new process counts nothing, so
   the check of its count in StartReplication lets every start pass; the file
   that LoadResumeToken creates for a missing Global is as good as none. *)
StartLive(s) ==
  /\ phase = "down"
  /\ s.mode \in {"live", "live-only"}
  /\ status # "completed_with_failures"
  /\ s.since <= now                      \* liveStartTime has passed
  /\ start' = s
  /\ global' = Loaded(Global)
  /\ state' = status
  /\ phase' = "resolve"
  /\ UNCHANGED <<disk, restarted, todo, existing, streams, source, history>>

StartCapture(s) ==
  /\ phase = "down"
  /\ s.mode = "capture-resume-token" /\ ~ s.dryRun
  /\ start' = s
  /\ phase' = "capture"
  /\ UNCHANGED <<disk, global, state, restarted, todo, existing, streams, source,
                 history>>

(* migrateCollection reads a collection from its beginning unless its checkpoint
   says from where; an empty collection leaves no checkpoint. *)
BeginCopy == copyOf' = IF copyOf = 0 THEN now ELSE copyOf

StartMigrate(s) ==
  /\ phase = "down"
  /\ s.mode = "migrate" /\ ~ s.dryRun /\ ~ s.indexOnly
  /\ start' = s
  /\ BeginCopy
  /\ phase' = "copy"
  /\ UNCHANGED <<tokens, status, copied, global, state, restarted, todo, existing,
                 streams, source, history>>

-----------------------------------------------------------------------------
(* StartReplication: the tokens on disk. *)

(* "Abort immediately if any historical checkpoint is missing", or empty. *)
RefuseIncomplete ==
  /\ phase = "resolve"
  /\ ~ Complete
  /\ Ends
  /\ UNCHANGED <<disk, source, history>>

ResumeAsBefore ==
  /\ phase = "resolve"
  /\ Complete
  /\ Format = partitions
  /\ global' = Watermark
  /\ phase' = "check"
  /\ UNCHANGED <<disk, start, state, restarted, todo, existing, streams, source,
                 history>>

(* Another number of partitions, or the files of an earlier version: all new
   files get the watermark before the old ones are deleted. *)
Rescale ==
  /\ phase = "resolve"
  /\ historicalTotal # 0 /\ Complete
  /\ Format # partitions
  /\ global' = Watermark
  /\ todo' = Files(partitions)
  /\ existing' = Active
  /\ phase' = "rescale"
  /\ UNCHANGED <<disk, start, state, restarted, streams, source, history>>

(* Mutation of CleanUp: the old files are left where they are. *)
KeepOldFiles ==
  /\ phase = "cleanup"
  /\ existing' = {}
  /\ phase' = "check"
  /\ UNCHANGED <<disk, start, global, state, restarted, todo, streams, source, history>>

(* The old files go in any order; one that cannot be deleted only warns. *)
CleanUp ==
  /\ phase = "cleanup"
  /\ \E f \in existing :
       /\ existing' = existing \ {f}
       /\ tokens' \in {Deleted(f)} \cup IF DeletesCanFail THEN {tokens} ELSE {}
  /\ phase' = IF existing' = {} THEN "check" ELSE "cleanup"
  /\ UNCHANGED <<status, copyOf, copied, start, global, state, restarted, todo,
                 streams, source, history>>

(* The single token of an earlier version is the token of every partition. *)
Upgrade ==
  /\ phase = "resolve"
  /\ historicalTotal = 0
  /\ todo' = IF global = Nil THEN <<>> ELSE Files(partitions)
  /\ phase' = IF global = Nil THEN "check" ELSE "upgrade"
  /\ UNCHANGED <<disk, start, global, state, restarted, existing, streams, source,
                 history>>

(* CaptureAndSaveInitialResumeToken: the position of a stream opened now. *)
Capture ==
  /\ phase = "capture"
  /\ global' = Token(now)
  /\ todo' = Files(partitions) \o IF partitions = 1 THEN <<Global>> ELSE <<>>
  /\ phase' = "captured"
  /\ handled' = handled \cup IF OwnAffair THEN Forgotten ELSE {}
  /\ abandoned' = abandoned \cup IF OwnAffair THEN {} ELSE Forgotten
  /\ UNCHANGED <<disk, start, state, restarted, existing, streams, source>>

AfterSaving ==
  CASE phase = "rescale" -> "cleanup"
    [] phase = "upgrade" -> "check"
    [] phase = "captured" -> IF start.mode = "capture-resume-token" THEN "skip"
                                                                    ELSE "begin"

(* SaveResumeToken for one file after the other; an error ends the process. *)
SaveToken ==
  /\ phase \in {"rescale", "upgrade", "captured"}
  /\ tokens' = Saved({Head(todo)}, global)
  /\ todo' = Tail(todo)
  /\ phase' = IF todo' = <<>> THEN AfterSaving ELSE phase
  /\ UNCHANGED <<status, copyOf, copied, start, global, state, restarted, existing,
                 streams, source, history>>

-----------------------------------------------------------------------------
(* StartReplication: tokens against the state of the initial migration. *)

(* The safety violations between liveStartTime, state and tokens. *)
Contradiction ==
  IF start.since # Never THEN global # Nil
  ELSE \/ state = "none" /\ global # Nil
       \/ ~ Unfinished(state) /\ global = Nil

RefuseContradiction ==
  /\ phase = "check"
  /\ Contradiction
  /\ Ends
  /\ UNCHANGED <<disk, source, history>>

(* Live-only mode skips the initial migration for good, in a dry run too: whoever
   asks for it vouches for what the tokens have passed. *)
Proceed ==
  LET skip == Unfinished(state) /\ start.mode = "live-only" IN
    /\ phase = "check"
    /\ ~ Contradiction
    /\ status' = IF skip THEN "skipped" ELSE status
    /\ state' = IF skip THEN "skipped" ELSE state
    /\ handled' = handled \cup IF skip THEN 1 .. global.at ELSE {}
    /\ phase' = IF global = Nil /\ start.since = Never THEN "capture" ELSE "begin"
    /\ UNCHANGED <<tokens, copyOf, copied, start, global, restarted, todo, existing,
                   streams, source, abandoned>>

(* captureResumeToken: the backfill is somebody else's. *)
SkipBackfill ==
  /\ phase = "skip"
  /\ status' = "skipped"
  /\ Ends
  /\ UNCHANGED <<tokens, copyOf, copied, source, history>>

(* The initial migration, of which a dry run only says what it would do. *)
BeginBackfill ==
  /\ phase = "begin"
  /\ Unfinished(state)
  /\ status' = IF start.dryRun THEN status ELSE "inprogress"
  /\ phase' = "copy"
  /\ IF start.dryRun \/ start.indexOnly THEN UNCHANGED copyOf ELSE BeginCopy
  /\ UNCHANGED <<tokens, copied, start, global, state, restarted, todo, existing,
                 streams, source, history>>

SkipMigration ==
  /\ phase = "begin"
  /\ ~ Unfinished(state)
  /\ IF start.indexOnly
     THEN Ends
     ELSE /\ phase' = "open"
          /\ UNCHANGED <<start, global, state, restarted, todo, existing, streams>>
  /\ UNCHANGED <<disk, source, history>>

(* IndexOnly mode: the indexes are built and the migration counts as completed. *)
OnlyIndexes ==
  /\ phase = "copy"
  /\ start.indexOnly
  /\ status' = "completed"
  /\ abandoned' = abandoned \cup (1 .. global.at \ handled)
  /\ Ends
  /\ UNCHANGED <<tokens, copyOf, copied, source, handled>>

(* The copy is completed; a critical error ends the process before that. *)
EndCopy ==
  /\ phase = "copy"
  /\ ~ start.indexOnly
  /\ IF start.dryRun
     THEN UNCHANGED <<copied, handled>>
     ELSE /\ copied' = (copyOf > 0)
          /\ handled' = handled \cup 1 .. copyOf
  /\ IF start.mode = "migrate"
     THEN Ends
     ELSE /\ phase' = "report"
          /\ UNCHANGED <<start, global, state, restarted, todo, existing, streams>>
  /\ UNCHANGED <<tokens, status, copyOf, source, abandoned>>

(* Without failed documents replication follows at once. *)
ReportSuccess ==
  /\ phase = "report"
  /\ status' = IF start.dryRun THEN status ELSE "completed"
  /\ phase' = "open"
  /\ UNCHANGED <<tokens, copyOf, copied, start, global, state, restarted, todo,
                 existing, streams, source, history>>

(* With failed documents, which the DLQ has, it waits for them to be retried. *)
ReportFailures ==
  /\ phase = "report"
  /\ ~ start.dryRun /\ copied
  /\ status' = "completed_with_failures"
  /\ Ends
  /\ UNCHANGED <<tokens, copyOf, copied, source, history>>

(* reprocessDLQ, when everything in the DLQ could be written. *)
ReprocessDLQ ==
  /\ phase = "down"
  /\ status = "completed_with_failures"
  /\ status' = "completed"
  /\ UNCHANGED <<tokens, copyOf, copied, process, source, history>>

-----------------------------------------------------------------------------
(* The change streams. *)

(* Where the stream of partition i starts: after its token, or at liveStartTime,
   before which the data is the user's own affair. *)
OpenedAt(i) ==
  LET token == Loaded(<<partitions, i>>)
  IN IF token = Nil THEN start.since - 1 ELSE token.at

(* LoadResumeToken creates the files that are missing, which they are only when
   the streams start from liveStartTime. *)
CreateMissing ==
  tokens' = Saved({<<partitions, i>> : i \in 1 .. partitions} \ DOMAIN tokens, Nil)

Open ==
  /\ phase = "open"
  /\ \A i \in 1 .. partitions : OpenedAt(i) >= oldest
  /\ streams' = [i \in 1 .. partitions |-> OpenedAt(i)]
  /\ CreateMissing
  /\ handled' = handled \cup 1 .. start.since - 1
  /\ phase' = "streaming"
  /\ UNCHANGED <<status, copyOf, copied, start, global, state, restarted, todo,
                 existing, source, abandoned>>

(* ChangeStreamHistoryLost. *)
HistoryLost ==
  /\ phase = "open"
  /\ \E i \in 1 .. partitions : OpenedAt(i) < oldest
  /\ CreateMissing
  /\ todo' = Files(partitions) \o <<Global>>
  /\ phase' = "expired"
  /\ UNCHANGED <<status, copyOf, copied, start, global, state, restarted, existing,
                 streams, source, history>>

(* The tokens are deleted, then the state; errors are only logged. *)
DeleteToken ==
  /\ phase = "expired" /\ todo # <<>>
  /\ tokens' \in {Deleted(Head(todo))} \cup IF DeletesCanFail THEN {tokens} ELSE {}
  /\ todo' = Tail(todo)
  /\ UNCHANGED <<status, copyOf, copied, phase, start, global, state, restarted,
                 existing, streams, source, history>>

(* StartReplication calls itself, without token, state and liveStartTime. *)
StartAgain ==
  /\ phase = "expired" /\ todo = <<>>
  /\ status' = "none"
  /\ start' = [start EXCEPT !.since = Never]
  /\ global' = Nil
  /\ state' = "none"
  /\ restarted' = TRUE
  /\ phase' = "resolve"
  /\ UNCHANGED <<tokens, copyOf, copied, todo, existing, streams, source, history>>

(* The stream of partition i delivers its next change. *)
Replicate(i) ==
  LET ahead == {c \in 1 .. now : c > streams[i] /\ PartitionOf[partitions][c] = i} IN
    /\ phase = "streaming" /\ ~ start.dryRun
    /\ ahead # {}
    /\ streams' = [streams EXCEPT ![i] = Min(ahead)]
    /\ handled' = handled \cup {Min(ahead)}
    /\ UNCHANGED <<disk, phase, start, global, state, restarted, todo, existing,
                   source, abandoned>>

(* Mutation of Checkpoint: the token of the next change. *)
CheckpointNext(i) ==
  /\ phase = "streaming" /\ ~ start.dryRun
  /\ streams[i] > OpenedAt(i) /\ streams[i] < MaxPosition
  /\ tokens' = Saved({<<partitions, i>>}, TimedToken(streams[i] + 1))
  /\ UNCHANGED <<status, copyOf, copied, process, source, history>>

(* The tracker of PartitionTracker saves the token of the last change. *)
Checkpoint(i) ==
  /\ phase = "streaming" /\ ~ start.dryRun
  /\ streams[i] > OpenedAt(i)
  /\ tokens' = Saved({<<partitions, i>>}, TimedToken(streams[i]))
  /\ UNCHANGED <<status, copyOf, copied, process, source, history>>

Stop ==
  /\ phase # "down"
  /\ Ends
  /\ UNCHANGED <<disk, source, history>>

-----------------------------------------------------------------------------
SourceChanges ==
  /\ now < MaxPosition
  /\ now' = now + 1
  /\ UNCHANGED <<disk, process, oldest, history>>

HistoryExpires ==
  /\ HistoryCanExpire
  /\ oldest < now
  /\ oldest' = oldest + 1
  /\ UNCHANGED <<disk, process, now, history>>

ResolveNext == RefuseIncomplete \/ ResumeAsBefore \/ Rescale \/ CleanUp \/ Upgrade
CheckNext == RefuseContradiction \/ Proceed \/ Capture \/ SaveToken \/ SkipBackfill
BackfillNext == \/ BeginBackfill \/ SkipMigration \/ OnlyIndexes \/ EndCopy
                \/ ReportSuccess \/ ReportFailures \/ ReprocessDLQ
StreamNext == \/ Open \/ HistoryLost \/ DeleteToken \/ StartAgain
              \/ \E i \in 1 .. partitions : Replicate(i) \/ Checkpoint(i)

Next ==
  \/ \E s \in Starts : StartLive(s) \/ StartCapture(s) \/ StartMigrate(s)
  \/ ResolveNext \/ CheckNext \/ BackfillNext \/ StreamNext
  \/ Stop
  \/ SourceChanges \/ HistoryExpires

Spec == Init /\ [][Next]_vars

-----------------------------------------------------------------------------
TypeOK ==
  LET Tokens == {Nil} \cup [at : 0 .. now, time : {0} \cup {EventTime[c] : c \in 1 .. now}]
  IN /\ DOMAIN tokens \subseteq ({0} \cup DOMAIN PartitionOf) \X (0 .. MaxPartitions)
     /\ \A f \in DOMAIN tokens : tokens[f] \in Tokens
     /\ status \in {"none", "inprogress", "completed", "completed_with_failures", "skipped"}
     /\ copyOf \in 0 .. now /\ copied \in BOOLEAN
     /\ start \in Starts \cup {NoStart} \cup {[s EXCEPT !.since = Never] : s \in Starts}
     /\ global \in Tokens
     /\ state \in {"none", "inprogress", "completed", "skipped"}
     /\ restarted \in BOOLEAN
     /\ phase \in {"rescale", "upgrade", "captured"} => todo # <<>>
     /\ existing \subseteq DOMAIN tokens
     /\ phase = "streaming" => streams \in [1 .. partitions -> -1 .. now]
     /\ oldest \in 0 .. now
     /\ handled \cup abandoned \subseteq 1 .. now

(* README, Enhanced Checkpoint Mechanism: replication starts from a token taken
   before the copy, "capturing all changes".  Whatever stopped before, and with
   whatever number of partitions and in whatever mode it was started before, a
   running replication has every change of the source behind it or before it,
   but for those given up when the history was lost, when only indexes were
   built or when the collections had been copied without a token. *)
Ahead(c) == c > streams[PartitionOf[partitions][c]]
StreamsCoverAll ==
  phase = "streaming" /\ ~ start.dryRun =>
    \A c \in 1 .. now : c \in handled \cup abandoned \/ Ahead(c)

(* README, Enhanced Checkpoint Mechanism, without these exceptions: "incremental
   replication starts using the initial resume token, capturing all changes that
   occurred after the initial migration". *)
NothingMissed ==
  phase = "streaming" /\ ~ start.dryRun =>
    \A c \in 1 .. now : c \in handled \/ Ahead(c)

(* README, Failure recovery: "Replication resumes precisely from the last
   checkpoint".  Whatever was rescaled, upgraded or interrupted before, when the
   streams run from tokens the files on disk let the same start resume them:
   none is missing, empty or hidden by files of another number of partitions.
   That is so while no more than two numbers are in use: with a third one, what
   an interrupted rescale left may hide the files of the next. *)
TwoNumbers == Cardinality({s.partitions : s \in Starts}) <= 2
RestartResumes ==
  TwoNumbers /\ phase = "streaming" /\ start.since = Never /\ ~ start.dryRun =>
    /\ Format = partitions /\ Complete
    /\ ~ Unfinished(status)
    /\ \A i \in 1 .. partitions : Loaded(<<partitions, i>>).at <= streams[i]
=============================================================================
