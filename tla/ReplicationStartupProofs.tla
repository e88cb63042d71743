---------------------- MODULE ReplicationStartupProofs ----------------------
(***************************************************************************)
(* Why a running replication has every change behind or before it, however *)
(* it was stopped, restarted, rescaled or switched between modes before.   *)
(*                                                                         *)
(* A token file is as good as the changes its partition will never see     *)
(* again (Below).  Once the initial migration is over on disk, all of them *)
(* have been dealt with (AllDone).  Until then all token files hold the    *)
(* one token that was captured before the copy (Agreement), and what lies  *)
(* below it is what the copy owes (Owing).  A rescale keeps this because   *)
(* the token with the earliest event time has no change of any partition   *)
(* before it that is not below the token of that partition -- if no two    *)
(* changes have the same event time, the hypothesis DistinctTimes.         *)
(*                                                                         *)
(* The second half of the module needs no event times: the types of all    *)
(* variables (TypeInv), and that a running replication can be started      *)
(* again from the files it left (ResumeInv).  For the latter old files     *)
(* must go when they are to be deleted, and two numbers of partitions are  *)
(* in use at most: otherwise files of a third number hide the new ones.    *)
(***************************************************************************)
EXTENDS ReplicationStartup, Extrema, FiniteSetTheorems, SequenceTheorems

(* The resolution of clusterTime tells any two changes apart. *)
DistinctTimes == \A c, d \in Changes : c < d => EventTime[c] < EventTime[d]

Counts == DOMAIN PartitionOf
PartitionFiles == {partitions} \X (1 .. partitions)
Parts == DOMAIN tokens \ {Global}
Settled == handled \cup abandoned

(* What a stream that continues after token t of file f never sees. *)
Below(f, t) == {c \in 1 .. t.at : t.time # 0 => PartitionOf[f[1]][c] = f[2]}
AllBelow(files, S) == \A f \in DOMAIN files : Below(f, files[f]) \subseteq S

AllDone == AllBelow(tokens, Settled)

(* What is settled once the copy is completed. *)
Owed == IF copyOf = 0 THEN 1 .. now ELSE Settled \cup 1 .. copyOf

(* Every token file holds t, or nothing. *)
Uniform(files, t) ==
  /\ \A f \in DOMAIN files \ {Global} : files[f] \in {t, Nil}
  /\ Global \in DOMAIN files => files[Global].at <= t.at

-----------------------------------------------------------------------------
IsToken(t, n) ==
  \/ t = Nil
  \/ /\ t = [at |-> t.at, time |-> t.time]
     /\ t.at \in 0 .. n
     /\ t.time # 0 => t.at \in Changes /\ t.time = EventTime[t.at]

TokenFiles ==
  /\ DOMAIN tokens \subseteq ({0} \cup Counts) \X (0 .. MaxPartitions)
  /\ \A f \in DOMAIN tokens :
       /\ IF f[1] = 0 THEN tokens[f].time = 0 ELSE f[2] \in 1 .. f[1]
       /\ IsToken(tokens[f], now)

Invocations == [mode : Modes, partitions : Counts, indexOnly : BOOLEAN,
                dryRun : BOOLEAN, since : 0 .. MaxPosition]

Shape ==
  /\ now \in 0 .. MaxPosition /\ copyOf \in 0 .. now
  /\ TokenFiles
  /\ IsToken(global, now)
  /\ phase = "down" => ~ restarted
  /\ phase # "down" =>
       /\ start \in Invocations
       /\ start.since <= now
       /\ start.since # Never => start.mode = "live-only"
  /\ phase \in {"rescale", "upgrade"} => todo \in Seq(PartitionFiles)
  /\ phase = "captured" => todo \in Seq(PartitionFiles \cup {Global})
  /\ phase \in {"rescale", "upgrade", "captured"} => todo # <<>> /\ global # Nil
  /\ phase = "cleanup" => global # Nil
  /\ phase = "captured" => global.time = 0

-----------------------------------------------------------------------------
(* The files. *)
Vouched == ~ Unfinished(status) => AllDone
Agreement ==
  AllDone \/ \A f \in Parts : tokens[f] # Nil => Uniform(tokens, tokens[f])
Owing == AllBelow(tokens, Owed)

(* The process. *)
Live == start.mode \in {"live", "live-only"}

KnowsState ==
  /\ ~ Unfinished(state) => AllDone
  /\ phase \in {"resolve", "rescale", "upgrade", "cleanup", "check", "begin"} =>
       Live /\ state = status
  /\ phase \in {"capture", "captured"} =>
       \/ start.mode = "capture-resume-token"
       \/ Live /\ state = status
  /\ phase \in {"capture", "captured", "begin"} /\ start.mode = "live-only" =>
       ~ Unfinished(state)
  /\ phase \in {"open", "expired"} => Live

Resolving ==
  /\ phase = "resolve" =>
       IF restarted THEN global = Nil /\ (AllDone \/ start.mode = "live")
                    ELSE global = Loaded(Global)
  /\ phase \in {"rescale", "upgrade"} =>
       /\ 1 .. global.at \subseteq Owed
       /\ AllDone => 1 .. global.at \subseteq Settled
  /\ phase \in {"rescale", "upgrade", "cleanup"} => AllDone \/ Uniform(tokens, global)

Checking ==
  /\ phase \in {"check", "begin"} /\ global # Nil => AllDone \/ Uniform(tokens, global)
  /\ phase = "check" /\ global = Nil => Parts = {} /\ (AllDone \/ start.mode = "live")
  /\ phase = "capture" /\ start.mode = "live" => Parts = {} /\ Unfinished(state)
  /\ phase = "captured" =>
       /\ 1 .. global.at \subseteq Owed
       /\ \/ AllDone /\ 1 .. global.at \subseteq Settled
          \/ start.mode = "live" /\ Unfinished(state) /\ Uniform(tokens, global)
  /\ phase = "begin" /\ global = Nil => AllDone /\ ~ Unfinished(state)
  /\ phase = "skip" => AllDone

Copying ==
  /\ phase = "copy" => start.mode = "live" \/ (start.mode = "migrate" /\ ~ start.indexOnly)
  /\ phase = "copy" /\ start.mode = "live" => AllDone \/ Uniform(tokens, global)
  /\ phase = "copy" /\ ~ start.dryRun /\ ~ start.indexOnly =>
       AllBelow(tokens, Settled \cup 1 .. copyOf)
  /\ phase = "report" => start.mode = "live" /\ (start.dryRun \/ AllDone)
  /\ phase \in {"open", "expired"} => AllDone \/ (start.mode = "live" /\ start.dryRun)

Streaming ==
  phase = "streaming" /\ ~ start.dryRun =>
    /\ AllDone
    /\ DOMAIN streams = 1 .. partitions
    /\ \A i \in 1 .. partitions :
         /\ streams[i] \in -1 .. now
         /\ streams[i] > 0 \/ streams[i] = OpenedAt(i)
         /\ \A c \in 1 .. streams[i] : PartitionOf[partitions][c] = i => c \in Settled

Inv ==
  /\ Shape
  /\ Vouched /\ Agreement /\ Owing
  /\ KnowsState /\ Resolving /\ Checking /\ Copying /\ Streaming

-----------------------------------------------------------------------------
(* The files of the largest partition count. *)
LEMMA FormatOfFiles ==
  ASSUME TokenFiles
  PROVE  /\ Format \in Nat
         /\ \A f \in DOMAIN tokens : f[1] \in Nat /\ f[2] \in Nat /\ f = <<f[1], f[2]>>
         /\ \A f \in DOMAIN tokens : f[1] <= Format
         /\ Format # 0 => \E f \in DOMAIN tokens : f[1] = Format
<1> DEFINE S == {0} \cup {f[1] : f \in DOMAIN tokens}
<1>1. MaxPartitions \in Nat /\ Counts \subseteq 1 .. MaxPartitions
  BY StartupAssumption DEF Counts
<1>2. \A f \in DOMAIN tokens :
        f[1] \in 0 .. MaxPartitions /\ f[2] \in 0 .. MaxPartitions /\ f = <<f[1], f[2]>>
  <2>1. TAKE f \in DOMAIN tokens
  <2>2. f \in ({0} \cup Counts) \X (0 .. MaxPartitions)
    BY DEF TokenFiles
  <2>3. f[1] \in {0} \cup Counts /\ f[2] \in 0 .. MaxPartitions /\ f = <<f[1], f[2]>>
    BY <2>2
  <2>4. {0} \cup Counts \subseteq 0 .. MaxPartitions
    BY <1>1
  <2>. QED BY <2>3, <2>4, Zenon
<1>3. S \in SUBSET (0 .. MaxPartitions) /\ S # {}
  BY <1>1, <1>2
<1>4. Max(S) \in S /\ \A q \in S : q <= Max(S)
  <2>. HIDE DEF S
  <2>. QED BY <1>1, <1>3, MaxInRange
<1>5. Format = Max(S)
  BY DEF Format
<1>. QED BY <1>1, <1>2, <1>3, <1>4, <1>5

(* Files of the earlier version are counted by their largest number. *)
LEMMA TotalOfFiles ==
  ASSUME TokenFiles
  PROVE  /\ historicalTotal = 0 => Parts = {}
         /\ historicalTotal # 0 => Active # {}
         /\ \A f \in Active : f[2] \in 1 .. historicalTotal
<1>1. CASE Format # 0
  <2>1. historicalTotal = Format
    BY <1>1 DEF historicalTotal
  <2>2. PICK f \in DOMAIN tokens : f[1] = Format
    BY <1>1, FormatOfFiles
  <2>3. f # Global
    BY <1>1, <2>2 DEF Global
  <2>4. \A g \in Active : g[2] \in 1 .. Format
    BY <1>1 DEF Active, TokenFiles
  <2>. QED BY <1>1, <2>1, <2>2, <2>3, <2>4 DEF Active
<1>2. CASE Format = 0
  <2> DEFINE S == {0} \cup {f[2] : f \in Active}
  <2>1. \A f \in Parts : f[1] = 0 /\ f[2] \in 1 .. MaxPartitions /\ f \in Active
    <3>1. MaxPartitions \in Nat
      BY StartupAssumption
    <3>2. TAKE f \in Parts
    <3>3. f \in DOMAIN tokens /\ f # <<0, 0>>
      BY DEF Parts, Global
    <3>4. f[1] = 0 /\ f[2] \in Nat /\ f = <<f[1], f[2]>>
      BY <1>2, <3>3, FormatOfFiles
    <3>5. f[2] \in 0 .. MaxPartitions
      BY <3>3 DEF TokenFiles
    <3>6. f[2] # 0
      BY <3>3, <3>4
    <3>. QED BY <1>2, <3>1, <3>4, <3>5, <3>6 DEF Active, Parts
  <2>2. Active \subseteq Parts
    BY DEF Active, Parts
  <2>3. MaxPartitions \in Nat
    BY StartupAssumption
  <2>4. S \in SUBSET (0 .. MaxPartitions) /\ S # {}
    BY <2>1, <2>2, <2>3
  <2>5. Max(S) \in S /\ \A q \in S : q <= Max(S)
    <3>. HIDE DEF S
    <3>. QED BY <2>3, <2>4, MaxInRange
  <2>6. historicalTotal = Max(S)
    BY <1>2 DEF historicalTotal
  <2>7. \A f \in Active : f[2] \in S
    OBVIOUS
  <2>8. Active = {} => S = {0}
    OBVIOUS
  <2>9. historicalTotal \in S /\ \A q \in S : q <= historicalTotal
    BY <2>5, <2>6
  <2>. HIDE DEF S
  <2>10. \A f \in Active : f[2] \in 1 .. historicalTotal
    BY <2>1, <2>2, <2>3, <2>4, <2>7, <2>9
  <2>. QED BY <2>1, <2>8, <2>9, <2>10
<1>. QED BY <1>1, <1>2

(* Watermark: the token of a file, none of which has an earlier event time. *)
LEMMA WatermarkIsEarliest ==
  ASSUME TokenFiles, Active # {}
  PROVE  \E w \in Active :
           /\ Watermark = tokens[w]
           /\ \A g \in Active : tokens[w].time <= tokens[g].time
<1> DEFINE times == {tokens[f].time : f \in Active}
           earliest == {f \in Active : \A g \in Active : tokens[f].time <= tokens[g].time}
           numbers == {f[2] : f \in earliest}
<1>1. Active \subseteq DOMAIN tokens
  BY DEF Active
<1>2. \A f \in DOMAIN tokens : tokens[f].time \in Nat
  <2>1. TAKE f \in DOMAIN tokens
  <2>2. IsToken(tokens[f], now)
    BY DEF TokenFiles
  <2>3. CASE tokens[f] = Nil
    BY <2>3 DEF Nil
  <2>4. CASE tokens[f].time = 0
    BY <2>4
  <2>5. CASE tokens[f] # Nil /\ tokens[f].time # 0
    BY <2>2, <2>5, StartupAssumption DEF IsToken
  <2>. QED BY <2>3, <2>4, <2>5
<1>3. \E f \in Active : f \in earliest
  <2>1. times \in SUBSET Nat /\ times # {}
    BY <1>1, <1>2
  <2>2. Min(times) \in times /\ \A q \in times : Min(times) <= q
    <3>. HIDE DEF times
    <3>. QED BY <2>1, MinOfNats
  <2>3. PICK f \in Active : tokens[f].time = Min(times)
    BY <2>2
  <2>. QED BY <2>2, <2>3
<1>4. \E w \in earliest : \A g \in earliest : w[2] <= g[2]
  <2>1. \A f \in Active : f[2] \in Nat
    BY <1>1, FormatOfFiles
  <2>2. numbers \in SUBSET Nat /\ numbers # {}
    BY <1>3, <2>1
  <2>3. Min(numbers) \in numbers /\ \A q \in numbers : Min(numbers) <= q
    <3>. HIDE DEF numbers
    <3>. QED BY <2>2, MinOfNats
  <2>4. PICK w \in earliest : w[2] = Min(numbers)
    BY <2>3
  <2>. QED BY <2>3, <2>4
<1> DEFINE w == CHOOSE f \in earliest : \A g \in earliest : f[2] <= g[2]
<1>5. w \in earliest
  <2>. HIDE DEF earliest
  <2>. QED BY <1>4
<1>6. Watermark = tokens[w]
  BY DEF Watermark
<1>. QED BY <1>5, <1>6

(* No change of any partition before the watermark is left to its stream. *)
LEMMA WatermarkIsSafe ==
  ASSUME DistinctTimes, TokenFiles, Complete, historicalTotal # 0
  PROVE  /\ Watermark # Nil
         /\ \E w \in Parts : Watermark = tokens[w]
         /\ \A S : AllBelow(tokens, S) => 1 .. Watermark.at \subseteq S
<1>1. PICK w \in Active : /\ Watermark = tokens[w]
                         /\ \A g \in Active : tokens[w].time <= tokens[g].time
  BY TotalOfFiles, WatermarkIsEarliest
<1>2. /\ w \in DOMAIN tokens /\ w \in Parts /\ w[1] = Format
      /\ w[2] \in 1 .. historicalTotal /\ w = <<Format, w[2]>>
  BY TotalOfFiles, FormatOfFiles DEF Active, Parts
<1>3. tokens[w] # Nil
  BY <1>2 DEF Complete, Loaded
<1>4. ASSUME NEW S, AllBelow(tokens, S), NEW c \in 1 .. tokens[w].at
      PROVE  c \in S
  <2>1. CASE tokens[w].time = 0
    <3>1. c \in Below(w, tokens[w])
      BY <2>1 DEF Below
    <3>. QED BY <1>2, <1>4, <3>1 DEF AllBelow
  <2>2. CASE tokens[w].time # 0
    <3> DEFINE i == PartitionOf[Format][c]
               g == <<Format, i>>
    <3>1. tokens[w].at \in Changes /\ tokens[w].time = EventTime[tokens[w].at]
      BY <1>2, <1>3, <2>2 DEF TokenFiles, IsToken
    <3>2. MaxPosition \in Nat /\ Changes = 1 .. MaxPosition
      BY StartupAssumption DEF Changes
    <3>3. c \in Changes
      BY <3>1, <3>2
    <3>4. Format \in Counts /\ Format # 0
      <4>1. w[1] # 0
        BY <1>2, <2>2 DEF TokenFiles
      <4>2. w \in ({0} \cup Counts) \X (0 .. MaxPartitions)
        BY <1>2 DEF TokenFiles
      <4>. QED BY <1>2, <4>1, <4>2
    <3>5. i \in 1 .. Format
      BY <3>3, <3>4, StartupAssumption DEF Counts
    <3>6. historicalTotal = Format
      BY <3>4 DEF historicalTotal
    <3>7. Loaded(g) # Nil
      BY <3>5, <3>6 DEF Complete
    <3>8. g \in DOMAIN tokens /\ tokens[g] # Nil
      BY <3>7 DEF Loaded
    <3>9. g \in Active
      BY <3>4, <3>8 DEF Active, Global
    <3>10. tokens[w].time <= tokens[g].time
      BY <1>1, <3>9
    <3>11. EventTime[tokens[w].at] \in Nat \ {0}
      BY <3>1, StartupAssumption
    <3>12. tokens[g].at \in Changes /\ tokens[g].time = EventTime[tokens[g].at]
      <4>1. tokens[g].time # 0
        BY <3>1, <3>10, <3>11
      <4>. QED BY <3>8, <4>1 DEF TokenFiles, IsToken
    <3>13. tokens[w].at <= tokens[g].at
      <4>1. EventTime[tokens[g].at] \in Nat
        BY <3>12, StartupAssumption
      <4>2. ~ (tokens[g].at < tokens[w].at)
        BY <3>1, <3>10, <3>11, <3>12, <4>1 DEF DistinctTimes
      <4>. QED BY <3>1, <3>2, <3>12, <4>2
    <3>14. c \in 1 .. tokens[g].at
      BY <3>1, <3>2, <3>12, <3>13
    <3>15. c \in Below(g, tokens[g])
      BY <3>14 DEF Below
    <3>. QED BY <1>4, <3>8, <3>15 DEF AllBelow
  <2>. QED BY <2>1, <2>2
<1>. QED BY <1>1, <1>2, <1>3, <1>4

-----------------------------------------------------------------------------
(* Files that are left, created empty, or given the token t. *)
Rewritten(old, new, t) ==
  \A f \in DOMAIN new : new[f] = t \/ (f \in DOMAIN old /\ new[f] = old[f])

(* Nothing is below the new files but what was below the old ones and t. *)
LEMMA RewrittenBelow ==
  ASSUME NEW old, NEW new, NEW t, NEW S, Rewritten(old, new, t),
         AllBelow(old, S), t = Nil \/ 1 .. t.at \subseteq S
  PROVE  AllBelow(new, S)
<1>1. 1 .. t.at \subseteq S
  BY DEF Nil
<1>2. \A f : Below(f, t) \subseteq S
  BY <1>1 DEF Below
<1>. QED BY <1>2 DEF AllBelow, Rewritten

(* Writing t to some files, or nothing, leaves all files with t. *)
LEMMA RewrittenUniform ==
  ASSUME NEW old, NEW new, NEW t, NEW u, Rewritten(old, new, t),
         Uniform(old, u), t \in {u, Nil}, u.at \in Int, u.at >= -1
  PROVE  Uniform(new, u)
<1>1. ASSUME NEW f \in DOMAIN new \ {Global}
      PROVE  new[f] \in {u, Nil}
  BY DEF Rewritten, Uniform
<1>2. ASSUME Global \in DOMAIN new
      PROVE  new[Global].at <= u.at
  <2>1. t.at <= u.at
    BY DEF Nil
  <2>. QED BY <1>2, <2>1 DEF Rewritten, Uniform
<1>. QED BY <1>1, <1>2 DEF Uniform

(* When all files hold t, only changes up to t are below them. *)
LEMMA UniformBelow ==
  ASSUME NEW t, t.at \in Int, TokenFiles, Uniform(tokens, t)
  PROVE  AllBelow(tokens, 1 .. t.at)
<1>1. SUFFICES ASSUME NEW f \in DOMAIN tokens
               PROVE  Below(f, tokens[f]) \subseteq 1 .. t.at
  BY DEF AllBelow
<1>2. CASE f = Global
  <2>1. tokens[f].at <= t.at /\ IsToken(tokens[f], now)
    BY <1>2 DEF Uniform, TokenFiles
  <2>2. tokens[f].at \in Int
    BY <2>1 DEF IsToken, Nil
  <2>. QED BY <2>1, <2>2 DEF Below
<1>3. CASE f # Global
  <2>1. tokens[f] \in {t, Nil}
    BY <1>3 DEF Uniform
  <2>. QED BY <2>1 DEF Below, Nil
<1>. QED BY <1>2, <1>3

(* Files that are uniform already lose nothing when t is written to one. *)
LEMMA UniformRewritten ==
  ASSUME NEW old, NEW new, NEW t, NEW S, Uniform(old, t),
         DOMAIN old \subseteq DOMAIN new, Rewritten(old, new, t),
         Global \in DOMAIN old => new[Global] = old[Global],
         AllBelow(new, S)
  PROVE  AllBelow(old, S)
<1>1. \A f : Below(f, Nil) = {}
  BY DEF Below, Nil
<1>2. ASSUME NEW f \in DOMAIN old, old[f] # Nil PROVE new[f] = old[f]
  BY <1>2 DEF Uniform, Rewritten
<1>. QED BY <1>1, <1>2 DEF AllBelow

(* A position is an integer, -1 for a missing token. *)
LEMMA TokenPositions ==
  ASSUME NEW t, NEW n \in Nat, IsToken(t, n)
  PROVE  t.at \in Int /\ t.at >= -1
BY DEF IsToken, Nil

(* What a step leaves of the facts about the files when it only deletes files
   or creates empty ones. *)
LEMMA Kept ==
  ASSUME Shape, Rewritten(tokens, tokens', Nil),
         handled \subseteq handled', abandoned \subseteq abandoned', Owed \subseteq Owed'
  PROVE  /\ Settled \subseteq Settled'
         /\ AllDone => AllDone'
         /\ Agreement => Agreement'
         /\ Owing => Owing'
         /\ \A t : t.at \in Int /\ t.at >= -1 /\ Uniform(tokens, t) => Uniform(tokens', t)
<1>1. Settled \subseteq Settled'
  BY DEF Settled
<1>2. ASSUME NEW S, NEW T, S \subseteq T, AllBelow(tokens, S)
      PROVE  AllBelow(tokens', T)
  <2>1. AllBelow(tokens', S)
    BY <1>2, RewrittenBelow
  <2>. QED BY <1>2, <2>1 DEF AllBelow
<1>3. AllDone => AllDone'
  BY <1>1, <1>2 DEF AllDone
<1>4. Owing => Owing'
  BY <1>2 DEF Owing
<1>5. ASSUME NEW t, t.at \in Int, t.at >= -1, Uniform(tokens, t)
      PROVE  Uniform(tokens', t)
  BY <1>5, RewrittenUniform
<1>6. ASSUME Agreement, ~ AllDone, NEW f \in DOMAIN tokens' \ {Global}, tokens'[f] # Nil
      PROVE  Uniform(tokens', tokens'[f])
  <2>1. f \in Parts /\ tokens'[f] = tokens[f]
    BY <1>6 DEF Rewritten, Parts
  <2>2. Uniform(tokens, tokens[f])
    BY <1>6, <2>1 DEF Agreement
  <2>3. IsToken(tokens[f], now) /\ now \in Nat
    BY <2>1, StartupAssumption DEF Parts, Shape, TokenFiles
  <2>4. tokens[f].at \in Int /\ tokens[f].at >= -1
    BY <2>3, TokenPositions
  <2>. QED BY <1>5, <2>1, <2>2, <2>4
<1>7. Agreement => Agreement'
  BY <1>3, <1>6 DEF Agreement, Parts
<1>. QED BY <1>1, <1>3, <1>4, <1>5, <1>7

(* The names of the files, and what they hold, when t is written to some. *)
LEMMA WrittenFiles ==
  ASSUME TokenFiles, now \in Nat, now' \in Nat, now <= now', partitions \in Counts,
         NEW t, IsToken(t, now'),
         \A f \in DOMAIN tokens' :
           \/ f \in DOMAIN tokens /\ tokens'[f] = tokens[f]
           \/ tokens'[f] = t /\ f \in PartitionFiles
           \/ tokens'[f] = t /\ f = Global /\ t.time = 0
  PROVE  TokenFiles'
<1>1. MaxPartitions \in Nat /\ Counts \subseteq 1 .. MaxPartitions
  BY StartupAssumption DEF Counts
<1>2. ASSUME NEW f \in DOMAIN tokens'
      PROVE  /\ f \in ({0} \cup Counts) \X (0 .. MaxPartitions)
             /\ IF f[1] = 0 THEN tokens'[f].time = 0 ELSE f[2] \in 1 .. f[1]
             /\ IsToken(tokens'[f], now')
  <2>1. CASE f \in DOMAIN tokens /\ tokens'[f] = tokens[f]
    <3>1. IsToken(tokens[f], now)
      BY <2>1 DEF TokenFiles
    <3>2. IsToken(tokens[f], now')
      BY <3>1 DEF IsToken
    <3>3. /\ f \in ({0} \cup Counts) \X (0 .. MaxPartitions)
          /\ IF f[1] = 0 THEN tokens[f].time = 0 ELSE f[2] \in 1 .. f[1]
      BY <2>1 DEF TokenFiles
    <3>. QED BY <2>1, <3>2, <3>3
  <2>2. CASE tokens'[f] = t /\ f \in PartitionFiles
    <3>1. PICK i \in 1 .. partitions : f = <<partitions, i>>
      BY <2>2 DEF PartitionFiles
    <3>2. partitions # 0 /\ i \in 0 .. MaxPartitions
      BY <1>1
    <3>. QED BY <2>2, <3>1, <3>2
  <2>3. CASE tokens'[f] = t /\ f = Global /\ t.time = 0
    <3>1. f = <<0, 0>> /\ 0 \in 0 .. MaxPartitions
      BY <1>1, <2>3 DEF Global
    <3>. QED BY <2>3, <3>1
  <2>. QED BY <1>2, <2>1, <2>2, <2>3
<1>3. (DOMAIN tokens)' = DOMAIN tokens'
  OBVIOUS
<1>. QED BY <1>2 DEF TokenFiles

(* A step that leaves the files, the copy and the history as they are. *)
LEMMA Steady ==
  ASSUME UNCHANGED <<tokens, copyOf, now, handled, abandoned>>
  PROVE  /\ AllDone' = AllDone /\ Settled' = Settled /\ Owed' = Owed
         /\ Agreement' = Agreement /\ Owing' = Owing
         /\ TokenFiles' = TokenFiles /\ Parts' = Parts
BY DEF AllDone, Settled, Owed, Agreement, Owing, TokenFiles, Parts

(* A process that ends leaves only the files behind. *)
LEMMA EndKeepsInv ==
  ASSUME Ends, now' \in 0 .. MaxPosition, copyOf' \in 0 .. now', TokenFiles',
         Vouched', Agreement', Owing'
  PROVE  Inv'
<1>1. IsToken(global', now')
  BY DEF Ends, IsToken
<1>2. Shape'
  BY <1>1 DEF Ends, Shape
<1>3. KnowsState'
  BY DEF Ends, KnowsState, Unfinished
<1>4. Resolving' /\ Checking'
  BY DEF Ends, Resolving, Checking
<1>5. Copying' /\ Streaming'
  BY DEF Ends, Copying, Streaming
<1>. QED BY <1>2, <1>3, <1>4, <1>5 DEF Inv

-----------------------------------------------------------------------------
(* The files of an earlier version are below no change yet. *)
LEMMA InitInv == Init => Inv
<1>1. SUFFICES ASSUME Init PROVE Inv
  OBVIOUS
<1>2. PICK left \in {{}} \cup Leftovers :
        /\ tokens = [f \in left |-> Token(0)]
        /\ status = IF left = {} THEN "none" ELSE "completed"
  BY <1>1 DEF Init
<1>3. /\ now = 0 /\ copyOf = 0 /\ handled = {} /\ abandoned = {}
      /\ phase = "down" /\ global = Nil /\ state = "none" /\ restarted = FALSE
  BY <1>1 DEF Init, NoProcess
<1>4. \A f \in DOMAIN tokens : f \in {0} \X (0 .. MaxPartitions) /\ tokens[f] = Token(0)
  BY <1>2, StartupAssumption
<1>5. TokenFiles
  <2>1. DOMAIN tokens \subseteq ({0} \cup Counts) \X (0 .. MaxPartitions)
    BY <1>4
  <2>2. \A f \in DOMAIN tokens :
          /\ f[1] = 0 /\ tokens[f].time = 0 /\ tokens[f].at = 0
          /\ tokens[f] = [at |-> tokens[f].at, time |-> tokens[f].time]
    BY <1>4 DEF Token
  <2>. QED BY <1>3, <2>1, <2>2 DEF TokenFiles, IsToken
<1>6. \A S : AllBelow(tokens, S)
  BY <1>4 DEF AllBelow, Below, Token
<1>7. AllDone /\ Owing
  BY <1>6 DEF AllDone, Owing
<1>8. MaxPosition \in Nat
  BY StartupAssumption
<1>9. Shape
  BY <1>3, <1>5, <1>8 DEF Shape, IsToken
<1>10. Vouched /\ Agreement /\ KnowsState
  BY <1>3, <1>7 DEF Vouched, Agreement, KnowsState
<1>11. Resolving /\ Checking /\ Copying /\ Streaming
  BY <1>3 DEF Resolving, Checking, Copying, Streaming
<1>. QED BY <1>7, <1>9, <1>10, <1>11 DEF Inv

-----------------------------------------------------------------------------
(* The invocations. *)

(* A live start believes the state and the single token on disk. *)
LEMMA StartLiveInv ==
  ASSUME Inv, NEW s \in Starts, StartLive(s)
  PROVE  Inv'
<1>1. UNCHANGED <<tokens, copyOf, now, handled, abandoned>>
  BY DEF StartLive, disk, source, history
<1>2. /\ phase = "down" /\ phase' = "resolve" /\ start' = s /\ s.mode \in {"live", "live-only"}
      /\ global' = Loaded(Global) /\ state' = status /\ status' = status
      /\ restarted' = restarted /\ s.since <= now /\ now' = now
  BY DEF StartLive, disk, source
<1>3. s \in Invocations /\ (s.since # Never => s.mode = "live-only")
  BY StartupAssumption DEF Invocations, Counts
<1>4. IsToken(global', now')
  BY <1>2 DEF Inv, Shape, TokenFiles, Loaded, IsToken
<1>5. Shape'
  BY <1>1, <1>2, <1>3, <1>4, Steady DEF Inv, Shape
<1>6. Vouched' /\ Agreement' /\ Owing'
  BY <1>1, <1>2, Steady DEF Inv, Vouched
<1>7. KnowsState'
  BY <1>2, <1>6 DEF KnowsState, Vouched, Live
<1>8. Resolving'
  <2>1. ~ restarted'
    BY <1>2 DEF Inv, Shape
  <2>2. global' = Loaded(Global)'
    BY <1>1, <1>2 DEF Loaded
  <2>. QED BY <1>2, <2>1, <2>2 DEF Resolving
<1>9. Checking' /\ Copying' /\ Streaming'
  BY <1>2 DEF Checking, Copying, Streaming
<1>. QED BY <1>5, <1>6, <1>7, <1>8, <1>9 DEF Inv

(* A capture looks at nothing on disk. *)
LEMMA StartCaptureInv ==
  ASSUME Inv, NEW s \in Starts, StartCapture(s)
  PROVE  Inv'
<1>1. UNCHANGED <<tokens, copyOf, now, handled, abandoned>>
  BY DEF StartCapture, disk, source, history
<1>2. /\ phase = "down" /\ phase' = "capture" /\ start' = s
      /\ s.mode = "capture-resume-token"
      /\ global' = global /\ state' = state /\ status' = status
      /\ restarted' = restarted /\ now' = now
  BY DEF StartCapture, disk, source
<1>3. s \in Invocations /\ s.since = Never
  BY <1>2, StartupAssumption DEF Invocations, Counts
<1>4. Shape'
  BY <1>1, <1>2, <1>3, Steady DEF Inv, Shape, Never
<1>5. Vouched' /\ Agreement' /\ Owing'
  BY <1>1, <1>2, Steady DEF Inv, Vouched
<1>6. KnowsState'
  BY <1>1, <1>2, Steady DEF Inv, KnowsState
<1>7. Resolving' /\ Checking' /\ Copying' /\ Streaming'
  BY <1>2 DEF Resolving, Checking, Copying, Streaming
<1>. QED BY <1>4, <1>5, <1>6, <1>7 DEF Inv

(* BeginCopy makes what the copy owes concrete. *)
LEMMA BegunCopy ==
  ASSUME Shape, BeginCopy, UNCHANGED <<tokens, now, handled, abandoned>>
  PROVE  /\ copyOf' \in 0 .. now'
         /\ Owed \subseteq Owed'
         /\ Owing => AllBelow(tokens', (Settled \cup 1 .. copyOf)')
<1>1. copyOf' \in 0 .. now' /\ now \in Nat
  BY StartupAssumption DEF BeginCopy, Shape
<1>2. Settled' = Settled
  BY DEF Settled
<1>3. Owed \subseteq Settled \cup 1 .. copyOf'
  BY DEF BeginCopy, Owed
<1>4. Owed \subseteq Owed'
  BY <1>2 DEF BeginCopy, Owed
<1>5. Owing => AllBelow(tokens', Settled' \cup 1 .. copyOf')
  BY <1>2, <1>3 DEF Owing, AllBelow
<1>. QED BY <1>1, <1>4, <1>5

(* A migration owes the copy from here on. *)
LEMMA StartMigrateInv ==
  ASSUME Inv, NEW s \in Starts, StartMigrate(s)
  PROVE  Inv'
<1>1. UNCHANGED <<tokens, now, handled, abandoned>> /\ BeginCopy
  BY DEF StartMigrate, source, history
<1>2. /\ phase = "down" /\ phase' = "copy" /\ start' = s
      /\ s.mode = "migrate" /\ ~ s.indexOnly
      /\ global' = global /\ state' = state /\ status' = status
      /\ restarted' = restarted /\ now' = now
  BY DEF StartMigrate, source
<1>3. s \in Invocations /\ s.since = Never
  BY <1>2, StartupAssumption DEF Invocations, Counts
<1>4. /\ copyOf' \in 0 .. now' /\ Owed \subseteq Owed'
      /\ AllBelow(tokens', (Settled \cup 1 .. copyOf)')
  BY <1>1, BegunCopy DEF Inv
<1>5. Rewritten(tokens, tokens', Nil)
  BY <1>1 DEF Rewritten
<1>6. (AllDone => AllDone') /\ Agreement' /\ Owing'
  BY <1>1, <1>4, <1>5, Kept DEF Inv
<1>7. TokenFiles'
  BY <1>1 DEF Inv, Shape, TokenFiles
<1>8. Shape'
  BY <1>2, <1>3, <1>4, <1>7 DEF Inv, Shape, Never
<1>9. Vouched' /\ KnowsState'
  BY <1>2, <1>6 DEF Inv, Vouched, KnowsState
<1>10. Resolving' /\ Checking' /\ Streaming'
  BY <1>2 DEF Resolving, Checking, Streaming
<1>11. Copying'
  BY <1>2, <1>4 DEF Copying
<1>. QED BY <1>6, <1>8, <1>9, <1>10, <1>11 DEF Inv

-----------------------------------------------------------------------------
(* The tokens on disk. *)

(* The watermark of uniform files is their token. *)
LEMMA ResumeAsBeforeInv ==
  ASSUME DistinctTimes, Inv, ResumeAsBefore
  PROVE  Inv'
<1>1. UNCHANGED <<tokens, copyOf, now, handled, abandoned>>
  BY DEF ResumeAsBefore, disk, source, history
<1>2. /\ phase = "resolve" /\ phase' = "check" /\ Complete /\ Format = partitions
      /\ global' = Watermark /\ state' = state /\ status' = status
      /\ start' = start /\ restarted' = restarted /\ now' = now
  BY DEF ResumeAsBefore, disk, source
<1>3. partitions \in Counts
  BY <1>2 DEF Inv, Shape, Invocations, partitions
<1>4. historicalTotal # 0
  BY <1>2, <1>3, StartupAssumption DEF historicalTotal, Counts
<1>5. PICK w \in Parts : Watermark = tokens[w] /\ tokens[w] # Nil
  BY <1>2, <1>4, WatermarkIsSafe DEF Inv, Shape
<1>6. AllDone \/ Uniform(tokens, Watermark)
  BY <1>5 DEF Inv, Agreement
<1>7. IsToken(global', now')
  BY <1>2, <1>5 DEF Inv, Shape, TokenFiles, Parts
<1>8. Shape'
  BY <1>1, <1>2, <1>7, Steady DEF Inv, Shape
<1>9. Vouched' /\ Agreement' /\ Owing'
  BY <1>1, <1>2, Steady DEF Inv, Vouched
<1>10. KnowsState'
  BY <1>1, <1>2, Steady DEF Inv, KnowsState, Live
<1>11. Checking'
  <2>1. global' # Nil /\ (AllDone' \/ Uniform(tokens', global'))
    BY <1>1, <1>2, <1>5, <1>6, Steady
  <2>. QED BY <1>2, <2>1 DEF Checking
<1>12. Resolving' /\ Copying' /\ Streaming'
  BY <1>2 DEF Resolving, Copying, Streaming
<1>. QED BY <1>8, <1>9, <1>10, <1>11, <1>12 DEF Inv

(* The names of new files, to be written one after the other. *)
LEMMA FilesOfPartitions ==
  ASSUME partitions \in Counts
  PROVE  Files(partitions) \in Seq(PartitionFiles) /\ Files(partitions) # <<>>
<1>1. partitions \in Nat \ {0}
  BY StartupAssumption DEF Counts
<1>2. Files(partitions) \in [1 .. partitions -> PartitionFiles]
  BY DEF Files, PartitionFiles
<1>3. Files(partitions) \in Seq(PartitionFiles)
  BY <1>1, <1>2, SeqDef
<1>4. 1 \in DOMAIN Files(partitions)
  BY <1>1, <1>2
<1>. QED BY <1>3, <1>4

(* The watermark is safe for any partition: all new files may get it. *)
LEMMA RescaleInv ==
  ASSUME DistinctTimes, Inv, Rescale
  PROVE  Inv'
<1>1. UNCHANGED <<tokens, copyOf, now, handled, abandoned>>
  BY DEF Rescale, disk, source, history
<1>2. /\ phase = "resolve" /\ phase' = "rescale" /\ Complete /\ historicalTotal # 0
      /\ global' = Watermark /\ state' = state /\ status' = status
      /\ start' = start /\ restarted' = restarted /\ now' = now
      /\ todo' = Files(partitions)
  BY DEF Rescale, disk, source
<1>3. partitions \in Counts
  BY <1>2 DEF Inv, Shape, Invocations, partitions
<1>4. PICK w \in Parts : Watermark = tokens[w] /\ tokens[w] # Nil
  BY <1>2, WatermarkIsSafe DEF Inv, Shape
<1>5. \A S : AllBelow(tokens, S) => 1 .. Watermark.at \subseteq S
  BY <1>2, WatermarkIsSafe DEF Inv, Shape
<1>6. AllDone \/ Uniform(tokens, Watermark)
  BY <1>4 DEF Inv, Agreement
<1>7. IsToken(global', now')
  BY <1>2, <1>4 DEF Inv, Shape, TokenFiles, Parts
<1>8. todo' \in Seq(PartitionFiles') /\ todo' # <<>>
  BY <1>2, <1>3, FilesOfPartitions DEF PartitionFiles, partitions
<1>9. Shape'
  BY <1>1, <1>2, <1>4, <1>7, <1>8, Steady DEF Inv, Shape
<1>10. Vouched' /\ Agreement' /\ Owing'
  BY <1>1, <1>2, Steady DEF Inv, Vouched
<1>11. KnowsState'
  BY <1>1, <1>2, Steady DEF Inv, KnowsState, Live
<1>12. Resolving'
  <2>1. 1 .. global'.at \subseteq Owed'
    BY <1>1, <1>2, <1>5, Steady DEF Inv, Owing
  <2>2. AllDone' => 1 .. global'.at \subseteq Settled'
    BY <1>1, <1>2, <1>5, Steady DEF AllDone
  <2>3. AllDone' \/ Uniform(tokens', global')
    BY <1>1, <1>2, <1>6, Steady
  <2>. QED BY <1>2, <2>1, <2>2, <2>3 DEF Resolving
<1>13. Checking' /\ Copying' /\ Streaming'
  BY <1>2 DEF Checking, Copying, Streaming
<1>. QED BY <1>9, <1>10, <1>11, <1>12, <1>13 DEF Inv

(* The single token covers all partitions; without it there is no file at all. *)
LEMMA UpgradeInv ==
  ASSUME Inv, Upgrade
  PROVE  Inv'
<1>1. UNCHANGED <<tokens, copyOf, now, handled, abandoned>>
  BY DEF Upgrade, disk, source, history
<1>2. /\ phase = "resolve" /\ historicalTotal = 0
      /\ phase' = IF global = Nil THEN "check" ELSE "upgrade"
      /\ todo' = IF global = Nil THEN <<>> ELSE Files(partitions)
      /\ global' = global /\ state' = state /\ status' = status
      /\ start' = start /\ restarted' = restarted /\ now' = now
  BY DEF Upgrade, disk, source
<1>3. partitions \in Counts
  BY <1>2 DEF Inv, Shape, Invocations, partitions
<1>4. Parts = {}
  BY <1>2, TotalOfFiles DEF Inv, Shape
<1>5. Vouched' /\ Agreement' /\ Owing'
  BY <1>1, <1>2, Steady DEF Inv, Vouched
<1>6. KnowsState'
  BY <1>1, <1>2, Steady DEF Inv, KnowsState, Live
<1>7. IF restarted THEN global = Nil /\ (AllDone \/ start.mode = "live")
                   ELSE global = Loaded(Global)
  BY <1>2 DEF Inv, Resolving
<1>8. CASE global = Nil
  <2>1. phase' = "check" /\ global' = Nil
    BY <1>2, <1>8
  <2>2. AllDone \/ start.mode = "live"
    <3>1. CASE restarted
      BY <1>7, <3>1
    <3>2. CASE ~ restarted
      <4>1. Loaded(Global) = Nil
        BY <1>7, <1>8, <3>2
      <4>2. \A f \in DOMAIN tokens : tokens[f] = Nil
        BY <1>4, <4>1 DEF Parts, Loaded
      <4>. QED BY <4>2 DEF AllDone, AllBelow, Below, Nil
    <3>. QED BY <3>1, <3>2
  <2>3. Shape'
    BY <1>1, <1>2, <2>1, Steady DEF Inv, Shape
  <2>4. Checking'
    BY <1>1, <1>2, <1>4, <2>1, <2>2, Steady DEF Checking
  <2>5. Resolving' /\ Copying' /\ Streaming'
    BY <2>1 DEF Resolving, Copying, Streaming
  <2>. QED BY <1>5, <1>6, <2>3, <2>4, <2>5 DEF Inv
<1>9. CASE global # Nil
  <2>1. phase' = "upgrade" /\ global' # Nil /\ todo' = Files(partitions)
    BY <1>2, <1>9
  <2>2. Global \in DOMAIN tokens /\ global = tokens[Global]
    BY <1>7, <1>9 DEF Loaded
  <2>3. global.time = 0
    BY <2>2 DEF Inv, Shape, TokenFiles, Global
  <2>4. Below(Global, global) = 1 .. global.at
    BY <2>3 DEF Below
  <2>5. \A S : AllBelow(tokens, S) => 1 .. global.at \subseteq S
    BY <2>2, <2>4 DEF AllBelow
  <2>6. Uniform(tokens, global)
    <3>1. IsToken(global, now) /\ now \in Nat
      BY StartupAssumption DEF Inv, Shape
    <3>2. global.at \in Int
      BY <3>1, TokenPositions
    <3>3. tokens[Global].at <= global.at
      BY <2>2, <3>2
    <3>. QED BY <1>4, <3>3 DEF Uniform, Parts
  <2>7. todo' \in Seq(PartitionFiles') /\ todo' # <<>>
    BY <1>2, <1>3, <2>1, FilesOfPartitions DEF PartitionFiles, partitions
  <2>8. Shape'
    BY <1>1, <1>2, <2>1, <2>7, Steady DEF Inv, Shape
  <2>9. Resolving'
    <3>1. 1 .. global'.at \subseteq Owed'
      BY <1>1, <1>2, <2>5, Steady DEF Inv, Owing
    <3>2. AllDone' => 1 .. global'.at \subseteq Settled'
      BY <1>1, <1>2, <2>5, Steady DEF AllDone
    <3>3. Uniform(tokens', global')
      BY <1>1, <1>2, <2>6
    <3>. QED BY <2>1, <3>1, <3>2, <3>3 DEF Resolving
  <2>10. Checking' /\ Copying' /\ Streaming'
    BY <2>1 DEF Checking, Copying, Streaming
  <2>. QED BY <1>5, <1>6, <2>8, <2>9, <2>10 DEF Inv
<1>. QED BY <1>8, <1>9

(* A token file is deleted, or could not be. *)
LEMMA DeletedFiles ==
  ASSUME TokenFiles, now \in Nat, partitions \in Counts,
         NEW f, tokens' \in {Deleted(f), tokens}, now' = now
  PROVE  Rewritten(tokens, tokens', Nil) /\ TokenFiles'
<1>1. \A g \in DOMAIN tokens' : g \in DOMAIN tokens /\ tokens'[g] = tokens[g]
  <2>1. CASE tokens' = tokens
    BY <2>1
  <2>2. CASE tokens' = Deleted(f)
    BY <2>2 DEF Deleted
  <2>. QED BY <2>1, <2>2
<1>2. IsToken(Nil, now')
  BY DEF IsToken
<1>. QED BY <1>1, <1>2, WrittenFiles DEF Rewritten

(* Deleting old files makes nothing unsafe. *)
LEMMA CleanUpInv ==
  ASSUME Inv, CleanUp
  PROVE  Inv'
<1>1. PICK f \in existing : tokens' \in {Deleted(f), tokens}
  BY DEF CleanUp
<1>2. /\ phase = "cleanup" /\ phase' \in {"check", "cleanup"}
      /\ global' = global /\ state' = state /\ status' = status /\ copyOf' = copyOf
      /\ start' = start /\ restarted' = restarted /\ now' = now
      /\ handled' = handled /\ abandoned' = abandoned
  BY DEF CleanUp, source, history
<1>3. partitions \in Counts
  BY <1>2 DEF Inv, Shape, Invocations, partitions
<1>4. Rewritten(tokens, tokens', Nil) /\ TokenFiles'
  BY <1>1, <1>2, <1>3, DeletedFiles, StartupAssumption DEF Inv, Shape
<1>5. Owed' = Owed
  BY <1>2 DEF Owed, Settled
<1>6. /\ AllDone => AllDone'
      /\ Agreement' /\ Owing'
      /\ \A t : t.at \in Int /\ t.at >= -1 /\ Uniform(tokens, t) => Uniform(tokens', t)
  BY <1>2, <1>4, <1>5, Kept DEF Inv
<1>7. Shape'
  BY <1>2, <1>4 DEF Inv, Shape
<1>8. Vouched' /\ KnowsState'
  BY <1>2, <1>6 DEF Inv, Vouched, KnowsState, Live
<1>9. global' # Nil /\ (AllDone' \/ Uniform(tokens', global'))
  <2>1. IsToken(global, now) /\ now \in Nat
    BY StartupAssumption DEF Inv, Shape
  <2>2. global.at \in Int /\ global.at >= -1
    BY <2>1, TokenPositions
  <2>3. global # Nil /\ (AllDone \/ Uniform(tokens, global))
    BY <1>2 DEF Inv, Shape, Resolving
  <2>. QED BY <1>2, <1>6, <2>2, <2>3
<1>10. Resolving' /\ Checking'
  BY <1>2, <1>9 DEF Resolving, Checking
<1>11. Copying' /\ Streaming'
  BY <1>2 DEF Copying, Streaming
<1>. QED BY <1>6, <1>7, <1>8, <1>10, <1>11 DEF Inv

(* What a captured token passes is given up, or the copy still owes it. *)
LEMMA CaptureInv ==
  ASSUME Inv, Capture
  PROVE  Inv'
<1>1. /\ phase = "capture" /\ phase' = "captured" /\ global' = Token(now)
      /\ state' = state /\ status' = status /\ start' = start /\ restarted' = restarted
      /\ tokens' = tokens /\ copyOf' = copyOf /\ now' = now
  BY DEF Capture, disk, source
<1>2. todo' = Files(partitions) \o IF partitions = 1 THEN <<Global>> ELSE <<>>
  BY DEF Capture
<1>3. partitions \in Counts
  BY <1>1 DEF Inv, Shape, Invocations, partitions
<1>4. /\ handled \subseteq handled' /\ abandoned \subseteq abandoned'
      /\ Forgotten \subseteq Settled'
  BY DEF Capture, Settled
<1>5. now \in Nat /\ copyOf \in Nat
  BY StartupAssumption DEF Inv, Shape
<1>6. Owed \subseteq Owed'
  BY <1>1, <1>4 DEF Owed, Settled
<1>7. Rewritten(tokens, tokens', Nil)
  BY <1>1 DEF Rewritten
<1>8. (AllDone => AllDone') /\ Agreement' /\ Owing'
  BY <1>4, <1>6, <1>7, Kept DEF Inv
<1>9. todo' \in Seq(PartitionFiles' \cup {Global}) /\ todo' # <<>>
  <2> DEFINE T == PartitionFiles \cup {Global}
             last == IF partitions = 1 THEN <<Global>> ELSE <<>>
  <2>1. Files(partitions) \in Seq(T) /\ Files(partitions) # <<>>
    BY <1>3, FilesOfPartitions, SeqMonotonic
  <2>2. last \in Seq(T)
    OBVIOUS
  <2>3. PartitionFiles' = PartitionFiles
    BY <1>1 DEF PartitionFiles, partitions
  <2>. HIDE DEF T, last
  <2>4. Files(partitions) \o last \in Seq(T) /\ Files(partitions) \o last # <<>>
    BY <2>1, <2>2, ConcatProperties, ConcatSimplifications
  <2>. QED BY <1>2, <2>3, <2>4 DEF T, last
<1>10. Shape'
  <2>1. TokenFiles'
    BY <1>1 DEF Inv, Shape, TokenFiles
  <2>2. IsToken(global', now') /\ global' # Nil /\ global'.time = 0
    BY <1>1, <1>5 DEF IsToken, Token, Nil
  <2>. QED BY <1>1, <1>9, <2>1, <2>2 DEF Inv, Shape
<1>11. Vouched' /\ KnowsState'
  BY <1>1, <1>8 DEF Inv, Vouched, KnowsState, Live
<1>12. Checking'
  <2>1. global'.at = now
    BY <1>1 DEF Token
  <2>2. CASE start.mode = "live" /\ copyOf = 0
    <3>1. Parts = {} /\ Unfinished(state)
      BY <1>1, <2>2 DEF Inv, Checking
    <3>2. Uniform(tokens', global')
      <4>1. Global \in DOMAIN tokens => tokens[Global].at <= now
        BY <1>5 DEF Inv, Shape, TokenFiles, IsToken, Nil
      <4>. QED BY <1>1, <2>1, <3>1, <4>1 DEF Uniform, Parts
    <3>3. 1 .. global'.at \subseteq Owed'
      BY <1>1, <2>1, <2>2 DEF Owed
    <3>. QED BY <1>1, <2>2, <3>1, <3>2, <3>3 DEF Checking
  <2>3. CASE ~ (start.mode = "live" /\ copyOf = 0)
    <3>1. 1 .. now \subseteq Settled'
      BY <1>4, <2>3 DEF Forgotten, Settled
    <3>2. AllDone'
      <4>1. \A f \in DOMAIN tokens : tokens[f].at \in Int /\ tokens[f].at <= now
        BY <1>5 DEF Inv, Shape, TokenFiles, IsToken, Nil
      <4>2. \A f \in DOMAIN tokens : Below(f, tokens[f]) \subseteq 1 .. now
        BY <1>5, <4>1 DEF Below
      <4>. QED BY <1>1, <3>1, <4>2 DEF AllDone, AllBelow
    <3>3. 1 .. global'.at \subseteq Owed'
      BY <1>1, <2>1, <3>1 DEF Owed
    <3>. QED BY <1>1, <2>1, <3>1, <3>2, <3>3 DEF Checking
  <2>. QED BY <2>2, <2>3
<1>13. Resolving' /\ Copying' /\ Streaming'
  BY <1>1 DEF Resolving, Copying, Streaming
<1>. QED BY <1>8, <1>10, <1>11, <1>12, <1>13 DEF Inv

(* One more file with the watermark, the old single token or the captured one. *)
LEMMA SaveTokenInv ==
  ASSUME Inv, SaveToken
  PROVE  Inv'
<1> DEFINE h == Head(todo)
<1>1. /\ phase \in {"rescale", "upgrade", "captured"}
      /\ phase' = IF todo' = <<>> THEN AfterSaving ELSE phase
      /\ global' = global /\ state' = state /\ status' = status /\ copyOf' = copyOf
      /\ start' = start /\ restarted' = restarted /\ now' = now
      /\ handled' = handled /\ abandoned' = abandoned
      /\ todo' = Tail(todo)
  BY DEF SaveToken, source, history
<1>2. /\ DOMAIN tokens' = DOMAIN tokens \cup {h}
      /\ tokens'[h] = global
      /\ \A f \in DOMAIN tokens' : f # h => f \in DOMAIN tokens /\ tokens'[f] = tokens[f]
  <2>1. tokens' = Saved({h}, global)
    BY DEF SaveToken
  <2>. HIDE DEF h
  <2>. QED BY <2>1 DEF Saved
<1>3. partitions \in Counts
  BY <1>1 DEF Inv, Shape, Invocations, partitions
<1>4. h \in PartitionFiles \/ (phase = "captured" /\ h = Global)
  <2>1. CASE phase = "captured"
    <3> DEFINE T == PartitionFiles \cup {Global}
    <3>1. todo \in Seq(T) /\ todo # <<>>
      BY <2>1 DEF Inv, Shape
    <3>. HIDE DEF T
    <3>2. h \in T
      BY <3>1, HeadTailProperties
    <3>. QED BY <2>1, <3>2 DEF T
  <2>2. CASE phase # "captured"
    <3>1. todo \in Seq(PartitionFiles) /\ todo # <<>>
      BY <1>1, <2>2 DEF Inv, Shape
    <3>. QED BY <3>1, HeadTailProperties
  <2>. QED BY <2>1, <2>2
<1>5. /\ phase = "captured" => todo' \in Seq(PartitionFiles' \cup {Global})
      /\ phase # "captured" => todo' \in Seq(PartitionFiles')
  <2>1. PartitionFiles' = PartitionFiles
    BY <1>1 DEF PartitionFiles, partitions
  <2>2. CASE phase = "captured"
    <3> DEFINE T == PartitionFiles \cup {Global}
    <3>1. todo \in Seq(T) /\ todo # <<>>
      BY <2>2 DEF Inv, Shape
    <3>. HIDE DEF T
    <3>2. todo' \in Seq(T)
      BY <1>1, <3>1, HeadTailProperties
    <3>. QED BY <2>1, <2>2, <3>2 DEF T
  <2>3. CASE phase # "captured"
    <3>1. todo \in Seq(PartitionFiles) /\ todo # <<>>
      BY <1>1, <2>3 DEF Inv, Shape
    <3>2. todo' \in Seq(PartitionFiles)
      BY <1>1, <3>1, HeadTailProperties
    <3>. QED BY <2>1, <2>3, <3>2
  <2>. QED BY <2>2, <2>3
<1>. HIDE DEF h
<1>6. /\ IsToken(global, now) /\ now \in Nat /\ global # Nil
      /\ phase = "captured" => global.time = 0
  BY <1>1, StartupAssumption DEF Inv, Shape
<1>7. global.at \in Int /\ global.at >= -1
  BY <1>6, TokenPositions
<1>8. Rewritten(tokens, tokens', global)
  BY <1>2 DEF Rewritten
<1>9. TokenFiles'
  BY <1>1, <1>2, <1>3, <1>4, <1>6, WrittenFiles DEF Inv, Shape
<1>10. \A S : AllBelow(tokens, S) /\ 1 .. global.at \subseteq S => AllBelow(tokens', S)
  BY <1>8, RewrittenBelow
<1>11. Uniform(tokens, global) => Uniform(tokens', global)
  BY <1>7, <1>8, RewrittenUniform
<1>12. Settled' = Settled /\ Owed' = Owed
  BY <1>1 DEF Settled, Owed
<1>13. 1 .. global.at \subseteq Owed
  BY <1>1 DEF Inv, Resolving, Checking
<1>14. Owing'
  BY <1>10, <1>12, <1>13 DEF Inv, Owing
<1>15. AllDone /\ 1 .. global.at \subseteq Settled => AllDone'
  BY <1>10, <1>12 DEF AllDone
<1>16. AllDone' \/ Uniform(tokens', global) => Agreement'
  BY DEF Agreement, Uniform, Parts
<1>17. AfterSaving = IF phase = "rescale" THEN "cleanup" ELSE
                     IF phase = "upgrade" THEN "check" ELSE
                     IF start.mode = "capture-resume-token" THEN "skip" ELSE "begin"
  BY <1>1 DEF AfterSaving
<1>18. Shape'
  BY <1>1, <1>5, <1>6, <1>9, <1>17 DEF Inv, Shape
<1>19. CASE phase \in {"rescale", "upgrade"}
  <2>1. /\ AllDone => 1 .. global.at \subseteq Settled
        /\ AllDone \/ Uniform(tokens, global)
    BY <1>19 DEF Inv, Resolving
  <2>2. AllDone => AllDone'
    BY <1>15, <2>1
  <2>3. AllDone' \/ Uniform(tokens', global)
    BY <1>11, <2>1, <2>2
  <2>4. AllDone' => 1 .. global.at \subseteq Settled
    <3>1. h # Global
      <4>1. PICK i \in 1 .. partitions : h = <<partitions, i>>
        BY <1>4, <1>19 DEF PartitionFiles
      <4>2. partitions # 0
        BY <1>3, StartupAssumption DEF Counts
      <4>. QED BY <4>1, <4>2 DEF Global
    <3>2. Global \in DOMAIN tokens => tokens'[Global] = tokens[Global]
      BY <1>2, <3>1
    <3>3. AllDone' /\ Uniform(tokens, global) => AllDone
      BY <1>2, <1>8, <1>12, <3>2, UniformRewritten DEF AllDone
    <3>. QED BY <2>1, <3>3
  <2>5. phase' \in {phase, "cleanup", "check"}
    BY <1>1, <1>17, <1>19
  <2>6. Vouched' /\ Agreement' /\ KnowsState'
    BY <1>1, <1>16, <1>19, <2>2, <2>3, <2>5 DEF Inv, Vouched, KnowsState, Live
  <2>7. Resolving' /\ Checking'
    BY <1>1, <1>6, <1>12, <1>13, <1>19, <2>3, <2>4, <2>5 DEF Resolving, Checking
  <2>8. Copying' /\ Streaming'
    BY <1>19, <2>5 DEF Copying, Streaming
  <2>. QED BY <1>14, <1>18, <2>6, <2>7, <2>8 DEF Inv
<1>20. CASE phase = "captured"
  <2>1. \/ AllDone /\ 1 .. global.at \subseteq Settled
        \/ start.mode = "live" /\ Unfinished(state) /\ Uniform(tokens, global)
    BY <1>20 DEF Inv, Checking
  <2>2. \/ AllDone' /\ 1 .. global.at \subseteq Settled
        \/ start.mode = "live" /\ Unfinished(state) /\ Uniform(tokens', global)
    BY <1>11, <1>15, <2>1
  <2>3. start.mode # "capture-resume-token" => Live /\ state = status
    BY <1>20 DEF Inv, KnowsState
  <2>4. /\ phase' \in {"captured", "skip", "begin"}
        /\ phase' = "skip" => start.mode = "capture-resume-token"
        /\ phase' = "begin" => start.mode # "capture-resume-token"
    BY <1>1, <1>17, <1>20
  <2>5. Agreement' /\ Vouched'
    BY <1>1, <1>16, <2>2, <2>3 DEF Vouched
  <2>6. KnowsState'
    <3>1. start.mode = "live-only" => ~ Unfinished(state)
      BY <1>20 DEF Inv, KnowsState
    <3>2. ~ Unfinished(state') => AllDone'
      BY <1>1, <2>2
    <3>. QED BY <1>1, <2>3, <2>4, <3>1, <3>2 DEF KnowsState, Live
  <2>7. Checking'
    BY <1>1, <1>6, <1>12, <1>13, <2>2, <2>4 DEF Checking
  <2>8. Resolving' /\ Copying' /\ Streaming'
    BY <2>4 DEF Resolving, Copying, Streaming
  <2>. QED BY <1>14, <1>18, <2>5, <2>6, <2>7, <2>8 DEF Inv
<1>. QED BY <1>1, <1>19, <1>20

-----------------------------------------------------------------------------
(* The tokens against the state of the initial migration, and the backfill. *)

(* Live-only mode vouches for what the tokens have passed. *)
LEMMA ProceedInv ==
  ASSUME Inv, Proceed
  PROVE  Inv'
<1> DEFINE skip == Unfinished(state) /\ start.mode = "live-only"
<1>1. /\ phase = "check" /\ ~ Contradiction
      /\ phase' = IF global = Nil /\ start.since = Never THEN "capture" ELSE "begin"
      /\ status' = IF skip THEN "skipped" ELSE status
      /\ state' = IF skip THEN "skipped" ELSE state
      /\ handled' = handled \cup IF skip THEN 1 .. global.at ELSE {}
      /\ tokens' = tokens /\ copyOf' = copyOf /\ global' = global /\ start' = start
      /\ restarted' = restarted /\ now' = now /\ abandoned' = abandoned
  BY DEF Proceed, source
<1>2. /\ start \in Invocations /\ (start.since # Never => start.mode = "live-only")
      /\ IsToken(global, now) /\ now \in Nat /\ TokenFiles
  BY <1>1, StartupAssumption DEF Inv, Shape
<1>3. handled \subseteq handled'
  BY <1>1
<1>. HIDE DEF skip
<1>4. Owed \subseteq Owed'
  BY <1>1, <1>3 DEF Owed, Settled
<1>5. Rewritten(tokens, tokens', Nil)
  BY <1>1 DEF Rewritten
<1>6. (AllDone => AllDone') /\ Agreement' /\ Owing'
  BY <1>1, <1>3, <1>4, <1>5, Kept DEF Inv
<1>7. /\ global # Nil => AllDone \/ Uniform(tokens, global)
      /\ global = Nil => Parts = {} /\ (AllDone \/ start.mode = "live")
  BY <1>1 DEF Inv, Checking
<1>8. skip => AllDone'
  <2>1. SUFFICES ASSUME skip, ~ AllDone PROVE AllDone'
    BY <1>6
  <2>2. Uniform(tokens, global)
    BY <1>7, <2>1 DEF skip
  <2>3. global.at \in Int
    BY <1>2, TokenPositions
  <2>4. AllBelow(tokens, 1 .. global.at)
    BY <1>2, <2>2, <2>3, UniformBelow
  <2>5. 1 .. global.at \subseteq Settled'
    BY <1>1, <2>1 DEF Settled
  <2>. QED BY <1>1, <2>4, <2>5 DEF AllDone, AllBelow
<1>9. Live /\ state = status /\ (~ Unfinished(state) => AllDone)
  BY <1>1 DEF Inv, KnowsState
<1>10. /\ state' = status'
       /\ ~ Unfinished(state') => AllDone'
       /\ start.mode = "live-only" => ~ Unfinished(state')
  BY <1>1, <1>6, <1>8, <1>9 DEF skip, Unfinished
<1>11. Shape'
  <2>1. TokenFiles'
    BY <1>1 DEF Inv, Shape, TokenFiles
  <2>. QED BY <1>1, <2>1 DEF Inv, Shape
<1>12. Vouched' /\ KnowsState'
  BY <1>1, <1>9, <1>10 DEF Vouched, KnowsState, Live
<1>13. Checking'
  <2>1. CASE phase' = "capture"
    <3>1. global = Nil /\ start.since = Never
      BY <1>1, <2>1
    <3>2. Unfinished(state) /\ Parts' = {}
      BY <1>1, <1>7, <3>1 DEF Contradiction, Parts
    <3>3. start.mode = "live" => Unfinished(state')
      BY <1>1, <3>2 DEF skip
    <3>. QED BY <1>1, <2>1, <3>2, <3>3 DEF Checking
  <2>2. CASE phase' = "begin"
    <3>1. global = Nil => AllDone' /\ ~ Unfinished(state')
      <4>1. SUFFICES ASSUME global = Nil PROVE AllDone' /\ ~ Unfinished(state')
        OBVIOUS
      <4>2. start.mode = "live-only"
        BY <1>1, <1>2, <2>2, <4>1
      <4>. QED BY <1>6, <1>7, <1>10, <4>1, <4>2
    <3>2. global' # Nil => AllDone' \/ Uniform(tokens', global')
      BY <1>1, <1>6, <1>7
    <3>. QED BY <1>1, <2>2, <3>1, <3>2 DEF Checking
  <2>. QED BY <1>1, <2>1, <2>2
<1>14. Resolving' /\ Copying' /\ Streaming'
  BY <1>1 DEF Resolving, Copying, Streaming
<1>. QED BY <1>6, <1>11, <1>12, <1>13, <1>14 DEF Inv

(* The copy begins behind a token that was captured before. *)
LEMMA BeginBackfillInv ==
  ASSUME Inv, BeginBackfill
  PROVE  Inv'
<1>1. /\ phase = "begin" /\ Unfinished(state) /\ phase' = "copy"
      /\ status' = IF start.dryRun THEN status ELSE "inprogress"
      /\ global' = global /\ state' = state /\ start' = start /\ restarted' = restarted
      /\ UNCHANGED <<tokens, now, handled, abandoned>>
      /\ start.dryRun \/ start.indexOnly => copyOf' = copyOf
      /\ ~ (start.dryRun \/ start.indexOnly) => BeginCopy
  BY DEF BeginBackfill, source, history
<1>2. /\ copyOf' \in 0 .. now' /\ Owed \subseteq Owed'
      /\ ~ start.dryRun /\ ~ start.indexOnly => AllBelow(tokens', (Settled \cup 1 .. copyOf)')
  <2>1. CASE start.dryRun \/ start.indexOnly
    <3>1. Owed' = Owed /\ copyOf' = copyOf
      BY <1>1, <2>1 DEF Owed, Settled
    <3>. QED BY <1>1, <2>1, <3>1 DEF Inv, Shape
  <2>2. CASE ~ (start.dryRun \/ start.indexOnly)
    BY <1>1, <2>2, BegunCopy DEF Inv
  <2>. QED BY <2>1, <2>2
<1>3. Rewritten(tokens, tokens', Nil)
  BY <1>1 DEF Rewritten
<1>4. (AllDone => AllDone') /\ Agreement' /\ Owing'
  BY <1>1, <1>2, <1>3, Kept DEF Inv
<1>5. TokenFiles'
  BY <1>1 DEF Inv, Shape, TokenFiles
<1>6. Shape'
  BY <1>1, <1>2, <1>5 DEF Inv, Shape
<1>7. Live /\ state = status /\ start.mode # "live-only"
  BY <1>1 DEF Inv, KnowsState
<1>8. Vouched' /\ KnowsState'
  BY <1>1, <1>4, <1>7 DEF Inv, Vouched, KnowsState, Unfinished
<1>9. Copying'
  <2>1. start.mode = "live"
    BY <1>7 DEF Live
  <2>2. AllDone' \/ Uniform(tokens', global')
    BY <1>1, <1>4 DEF Inv, Checking
  <2>. QED BY <1>1, <1>2, <2>1, <2>2 DEF Copying
<1>10. Resolving' /\ Checking' /\ Streaming'
  BY <1>1 DEF Resolving, Checking, Streaming
<1>. QED BY <1>4, <1>6, <1>8, <1>9, <1>10 DEF Inv

(* The initial migration is over: everything below the tokens is settled. *)
LEMMA SkipMigrationInv ==
  ASSUME Inv, SkipMigration
  PROVE  Inv'
<1>1. /\ phase = "begin" /\ ~ Unfinished(state)
      /\ UNCHANGED <<tokens, copyOf, now, handled, abandoned>> /\ status' = status
  BY DEF SkipMigration, disk, source, history
<1>2. Vouched' /\ Agreement' /\ Owing' /\ TokenFiles'
  BY <1>1, Steady DEF Inv, Vouched, Shape
<1>3. CASE Ends
  BY <1>1, <1>2, <1>3, EndKeepsInv DEF Inv, Shape
<1>4. CASE phase' = "open" /\ UNCHANGED <<start, global, state, restarted>>
  <2>1. AllDone' /\ Live
    BY <1>1, Steady DEF Inv, KnowsState
  <2>2. Shape'
    BY <1>1, <1>2, <1>4 DEF Inv, Shape
  <2>3. KnowsState' /\ Copying'
    BY <1>4, <2>1 DEF KnowsState, Copying, Live
  <2>4. Resolving' /\ Checking' /\ Streaming'
    BY <1>4 DEF Resolving, Checking, Streaming
  <2>. QED BY <1>2, <2>2, <2>3, <2>4 DEF Inv
<1>. QED BY <1>3, <1>4 DEF SkipMigration

(* An index-only run gives up what the tokens have passed. *)
LEMMA OnlyIndexesInv ==
  ASSUME Inv, OnlyIndexes
  PROVE  Inv'
<1>1. /\ phase = "copy" /\ start.indexOnly /\ Ends
      /\ abandoned' = abandoned \cup (1 .. global.at \ handled)
      /\ UNCHANGED <<tokens, copyOf, now, handled>>
  BY DEF OnlyIndexes, source
<1>2. abandoned \subseteq abandoned' /\ 1 .. global.at \subseteq Settled'
  BY <1>1 DEF Settled
<1>3. Owed \subseteq Owed'
  BY <1>1, <1>2 DEF Owed, Settled
<1>4. Rewritten(tokens, tokens', Nil)
  BY <1>1 DEF Rewritten
<1>5. (AllDone => AllDone') /\ Agreement' /\ Owing'
  BY <1>1, <1>2, <1>3, <1>4, Kept DEF Inv
<1>6. IsToken(global, now) /\ now \in Nat /\ TokenFiles
  BY StartupAssumption DEF Inv, Shape
<1>7. AllDone'
  <2>1. AllDone \/ Uniform(tokens, global)
    BY <1>1 DEF Inv, Copying
  <2>2. CASE Uniform(tokens, global)
    <3>1. AllBelow(tokens, 1 .. global.at)
      BY <1>6, <2>2, TokenPositions, UniformBelow
    <3>. QED BY <1>1, <1>2, <3>1 DEF AllDone, AllBelow
  <2>. QED BY <1>5, <2>1, <2>2
<1>8. TokenFiles'
  BY <1>1, <1>6 DEF TokenFiles
<1>. QED BY <1>1, <1>5, <1>7, <1>8, EndKeepsInv DEF Inv, Shape, Vouched

(* The completed copy settles what it owed. *)
LEMMA EndCopyInv ==
  ASSUME Inv, EndCopy
  PROVE  Inv'
<1>1. /\ phase = "copy" /\ ~ start.indexOnly
      /\ handled' = handled \cup IF start.dryRun THEN {} ELSE 1 .. copyOf
      /\ UNCHANGED <<tokens, status, copyOf, now, abandoned>>
  BY DEF EndCopy, source
<1>2. handled \subseteq handled' /\ (~ start.dryRun => Settled \cup 1 .. copyOf \subseteq Settled')
  BY <1>1 DEF Settled
<1>3. Owed \subseteq Owed'
  BY <1>1, <1>2 DEF Owed, Settled
<1>4. Rewritten(tokens, tokens', Nil)
  BY <1>1 DEF Rewritten
<1>5. (AllDone => AllDone') /\ Agreement' /\ Owing'
  BY <1>1, <1>2, <1>3, <1>4, Kept DEF Inv
<1>6. Vouched' /\ TokenFiles'
  BY <1>1, <1>5 DEF Inv, Vouched, Shape, TokenFiles
<1>7. CASE Ends
  BY <1>1, <1>5, <1>6, <1>7, EndKeepsInv DEF Inv, Shape
<1>8. CASE /\ start.mode # "migrate" /\ phase' = "report"
           /\ UNCHANGED <<start, global, state, restarted>>
  <2>1. start.mode = "live"
    BY <1>1, <1>8 DEF Inv, Copying
  <2>2. ~ start.dryRun => AllDone'
    <3>1. SUFFICES ASSUME ~ start.dryRun PROVE AllDone'
      OBVIOUS
    <3>2. AllBelow(tokens, Settled \cup 1 .. copyOf)
      BY <1>1, <3>1 DEF Inv, Copying
    <3>. QED BY <1>1, <1>2, <3>1, <3>2 DEF AllDone, AllBelow
  <2>3. Shape'
    BY <1>1, <1>6, <1>8 DEF Inv, Shape
  <2>4. KnowsState' /\ Copying'
    BY <1>5, <1>8, <2>1, <2>2 DEF Inv, KnowsState, Copying
  <2>5. Resolving' /\ Checking' /\ Streaming'
    BY <1>8 DEF Resolving, Checking, Streaming
  <2>. QED BY <1>5, <1>6, <2>3, <2>4, <2>5 DEF Inv
<1>. QED BY <1>7, <1>8 DEF EndCopy

(* Only a completed copy is reported. *)
LEMMA ReportSuccessInv ==
  ASSUME Inv, ReportSuccess
  PROVE  Inv'
<1>1. /\ phase = "report" /\ phase' = "open"
      /\ status' = IF start.dryRun THEN status ELSE "completed"
      /\ UNCHANGED <<tokens, copyOf, now, handled, abandoned, start, global, state, restarted>>
  BY DEF ReportSuccess, source, history
<1>2. start.mode = "live" /\ (start.dryRun \/ AllDone)
  BY <1>1 DEF Inv, Copying
<1>3. Vouched' /\ Agreement' /\ Owing' /\ TokenFiles'
  BY <1>1, <1>2, Steady DEF Inv, Vouched, Shape
<1>4. Shape'
  BY <1>1, <1>3 DEF Inv, Shape
<1>5. KnowsState' /\ Copying'
  BY <1>1, <1>2, Steady DEF Inv, KnowsState, Copying, Live
<1>6. Resolving' /\ Checking' /\ Streaming'
  BY <1>1 DEF Resolving, Checking, Streaming
<1>. QED BY <1>3, <1>4, <1>5, <1>6 DEF Inv

(* The steps with which a process ends, and the retry of the DLQ. *)
LEMMA EndsInv ==
  ASSUME Inv,
         RefuseIncomplete \/ RefuseContradiction \/ SkipBackfill \/ ReportFailures \/ Stop
  PROVE  Inv'
<1>1. /\ Ends /\ UNCHANGED <<tokens, copyOf, now, handled, abandoned>>
      /\ status' = status \/ phase = "skip" \/ (phase = "report" /\ ~ start.dryRun)
  BY DEF RefuseIncomplete, RefuseContradiction, SkipBackfill, ReportFailures, Stop,
         disk, source, history
<1>2. Agreement' /\ Owing' /\ TokenFiles'
  BY <1>1, Steady DEF Inv, Shape
<1>3. Vouched'
  BY <1>1, Steady DEF Inv, Vouched, Checking, Copying
<1>. QED BY <1>1, <1>2, <1>3, EndKeepsInv DEF Inv, Shape

(* Failed documents are settled: the DLQ has them. *)
LEMMA ReprocessDLQInv ==
  ASSUME Inv, ReprocessDLQ
  PROVE  Inv'
<1>1. /\ phase = "down" /\ phase' = phase /\ status = "completed_with_failures"
      /\ UNCHANGED <<tokens, copyOf, now, handled, abandoned, start, global, state, restarted>>
  BY DEF ReprocessDLQ, process, source, history
<1>2. AllDone'
  BY <1>1, Steady DEF Inv, Vouched, Unfinished
<1>3. Vouched' /\ Agreement' /\ Owing' /\ TokenFiles'
  BY <1>1, <1>2, Steady DEF Inv, Vouched, Shape
<1>4. Shape'
  BY <1>1, <1>3 DEF Inv, Shape
<1>5. KnowsState' /\ Resolving' /\ Checking' /\ Copying' /\ Streaming'
  BY <1>1, <1>2 DEF KnowsState, Resolving, Checking, Copying, Streaming
<1>. QED BY <1>3, <1>4, <1>5 DEF Inv

-----------------------------------------------------------------------------
(* The change streams. *)

(* Missing files are created empty, the others stay. *)
LEMMA CreatedFiles ==
  ASSUME TokenFiles, now \in Nat, partitions \in Counts, CreateMissing, now' = now
  PROVE  /\ Rewritten(tokens, tokens', Nil) /\ TokenFiles'
         /\ \A i \in 1 .. partitions :
              /\ <<partitions, i>> \in DOMAIN tokens'
              /\ tokens'[<<partitions, i>>] = Loaded(<<partitions, i>>)
<1> DEFINE missing == {<<partitions, i>> : i \in 1 .. partitions} \ DOMAIN tokens
<1>1. /\ DOMAIN tokens' = DOMAIN tokens \cup missing
      /\ \A f \in DOMAIN tokens' : tokens'[f] = IF f \in missing THEN Nil ELSE tokens[f]
  <2>1. tokens' = Saved(missing, Nil)
    BY DEF CreateMissing
  <2>. HIDE DEF missing
  <2>. QED BY <2>1 DEF Saved
<1>2. Rewritten(tokens, tokens', Nil)
  <2>. HIDE DEF missing
  <2>. QED BY <1>1 DEF Rewritten
<1>3. \A i \in 1 .. partitions :
        /\ <<partitions, i>> \in DOMAIN tokens'
        /\ tokens'[<<partitions, i>>] = Loaded(<<partitions, i>>)
  BY <1>1 DEF Loaded
<1>4. TokenFiles'
  <2>1. IsToken(Nil, now')
    BY DEF IsToken
  <2>2. missing \subseteq PartitionFiles
    BY DEF PartitionFiles
  <2>. HIDE DEF missing
  <2>. QED BY <1>1, <2>1, <2>2, WrittenFiles
<1>. QED BY <1>2, <1>3, <1>4

(* The streams start where their tokens are. *)
LEMMA OpenInv ==
  ASSUME Inv, Open
  PROVE  Inv'
<1>1. /\ phase = "open" /\ phase' = "streaming" /\ CreateMissing
      /\ streams' = [i \in 1 .. partitions |-> OpenedAt(i)]
      /\ handled' = handled \cup 1 .. start.since - 1
      /\ UNCHANGED <<status, copyOf, now, abandoned, start, global, state, restarted>>
  BY DEF Open, source
<1>2. /\ partitions \in Counts /\ partitions' = partitions
      /\ start.since \in Nat /\ start.since <= now /\ now \in Nat /\ now' \in Nat
  BY <1>1, StartupAssumption DEF Inv, Shape, Invocations, partitions
<1>3. /\ Rewritten(tokens, tokens', Nil) /\ TokenFiles'
      /\ \A i \in 1 .. partitions :
           /\ <<partitions, i>> \in DOMAIN tokens'
           /\ tokens'[<<partitions, i>>] = Loaded(<<partitions, i>>)
  BY <1>1, <1>2, CreatedFiles, StartupAssumption DEF Inv, Shape
<1>4. handled \subseteq handled' /\ 1 .. start.since - 1 \subseteq Settled'
  BY <1>1 DEF Settled
<1>5. Owed \subseteq Owed'
  BY <1>1, <1>4 DEF Owed, Settled
<1>6. (AllDone => AllDone') /\ Agreement' /\ Owing'
  BY <1>1, <1>3, <1>4, <1>5, Kept DEF Inv
<1>7. Shape'
  BY <1>1, <1>3 DEF Inv, Shape
<1>8. Vouched' /\ KnowsState'
  BY <1>1, <1>6 DEF Inv, Vouched, KnowsState
<1>9. Resolving' /\ Checking' /\ Copying'
  BY <1>1 DEF Resolving, Checking, Copying
<1>10. ASSUME NEW i \in 1 .. partitions
       PROVE  /\ streams'[i] = OpenedAt(i) /\ OpenedAt(i) = OpenedAt(i)'
              /\ OpenedAt(i) \in -1 .. now
              /\ AllDone => \A c \in 1 .. OpenedAt(i) :
                              PartitionOf[partitions][c] = i => c \in Settled'
  <2> DEFINE f == <<partitions, i>>
  <2>1. streams'[i] = OpenedAt(i)
    BY <1>1
  <2>2. Loaded(f)' = Loaded(f)
    BY <1>1, <1>3 DEF Loaded, partitions
  <2>3. OpenedAt(i)' = OpenedAt(i)
    BY <1>1, <2>2 DEF OpenedAt, partitions
  <2>4. CASE Loaded(f) = Nil
    <3>1. OpenedAt(i) = start.since - 1
      BY <2>4 DEF OpenedAt
    <3>. QED BY <1>2, <1>4, <2>1, <2>3, <3>1
  <2>5. CASE Loaded(f) # Nil
    <3>1. f \in DOMAIN tokens /\ Loaded(f) = tokens[f] /\ tokens[f] # Nil
      BY <2>5 DEF Loaded
    <3>2. OpenedAt(i) = tokens[f].at
      BY <2>5, <3>1 DEF OpenedAt
    <3>3. tokens[f].at \in 0 .. now
      BY <3>1 DEF Inv, Shape, TokenFiles, IsToken
    <3>4. AllDone => \A c \in 1 .. tokens[f].at :
                       PartitionOf[partitions][c] = i => c \in Settled
      BY <3>1 DEF AllDone, AllBelow, Below
    <3>5. Settled \subseteq Settled'
      BY <1>1, <1>4 DEF Settled
    <3>. QED BY <1>2, <2>1, <2>3, <3>2, <3>3, <3>4, <3>5
  <2>. QED BY <2>4, <2>5
<1>11. Streaming'
  <2>1. SUFFICES ASSUME ~ start.dryRun PROVE Streaming'
    BY <1>1 DEF Streaming
  <2>2. AllDone
    BY <1>1, <2>1 DEF Inv, Copying
  <2>3. DOMAIN streams' = 1 .. partitions'
    BY <1>1, <1>2
  <2>4. \A i \in 1 .. partitions' :
          /\ streams'[i] \in -1 .. now'
          /\ streams'[i] = OpenedAt(i)'
          /\ \A c \in 1 .. streams'[i] : PartitionOf[partitions'][c] = i => c \in Settled'
    BY <1>1, <1>2, <1>10, <2>2
  <2>. QED BY <1>6, <2>2, <2>3, <2>4 DEF Streaming
<1>. QED BY <1>6, <1>7, <1>8, <1>9, <1>11 DEF Inv

(* A lost history changes no token. *)
LEMMA HistoryLostInv ==
  ASSUME Inv, HistoryLost
  PROVE  Inv'
<1>1. /\ phase = "open" /\ phase' = "expired" /\ CreateMissing
      /\ UNCHANGED <<status, copyOf, now, handled, abandoned, start, global, state, restarted>>
  BY DEF HistoryLost, source, history
<1>2. partitions \in Counts
  BY <1>1 DEF Inv, Shape, Invocations, partitions
<1>3. Rewritten(tokens, tokens', Nil) /\ TokenFiles'
  BY <1>1, <1>2, CreatedFiles, StartupAssumption DEF Inv, Shape
<1>4. Owed' = Owed
  BY <1>1 DEF Owed, Settled
<1>5. (AllDone => AllDone') /\ Agreement' /\ Owing'
  BY <1>1, <1>3, <1>4, Kept DEF Inv
<1>6. Shape'
  BY <1>1, <1>3 DEF Inv, Shape
<1>7. Vouched' /\ KnowsState' /\ Copying'
  BY <1>1, <1>5 DEF Inv, Vouched, KnowsState, Copying, Live
<1>8. Resolving' /\ Checking' /\ Streaming'
  BY <1>1 DEF Resolving, Checking, Streaming
<1>. QED BY <1>5, <1>6, <1>7, <1>8 DEF Inv

(* The tokens are deleted before the state. *)
LEMMA DeleteTokenInv ==
  ASSUME Inv, DeleteToken
  PROVE  Inv'
<1>1. /\ phase = "expired" /\ phase' = "expired"
      /\ tokens' \in {Deleted(Head(todo)), tokens}
      /\ UNCHANGED <<status, copyOf, now, handled, abandoned, start, global, state, restarted>>
  BY DEF DeleteToken, source, history
<1>2. partitions \in Counts
  BY <1>1 DEF Inv, Shape, Invocations, partitions
<1>3. Rewritten(tokens, tokens', Nil) /\ TokenFiles'
  BY <1>1, <1>2, DeletedFiles, StartupAssumption DEF Inv, Shape
<1>4. Owed' = Owed
  BY <1>1 DEF Owed, Settled
<1>5. (AllDone => AllDone') /\ Agreement' /\ Owing'
  BY <1>1, <1>3, <1>4, Kept DEF Inv
<1>6. Shape'
  BY <1>1, <1>3 DEF Inv, Shape
<1>7. Vouched' /\ KnowsState' /\ Copying'
  BY <1>1, <1>5 DEF Inv, Vouched, KnowsState, Copying, Live
<1>8. Resolving' /\ Checking' /\ Streaming'
  BY <1>1 DEF Resolving, Checking, Streaming
<1>. QED BY <1>5, <1>6, <1>7, <1>8 DEF Inv

(* The second start has neither state nor token in memory. *)
LEMMA StartAgainInv ==
  ASSUME Inv, StartAgain
  PROVE  Inv'
<1>1. /\ phase = "expired" /\ phase' = "resolve" /\ status' = "none" /\ state' = "none"
      /\ start' = [start EXCEPT !.since = Never] /\ global' = Nil /\ restarted' = TRUE
      /\ UNCHANGED <<tokens, copyOf, now, handled, abandoned>>
  BY DEF StartAgain, source, history
<1>2. start \in Invocations /\ Never \in 0 .. MaxPosition /\ now \in Nat
  BY <1>1, StartupAssumption DEF Inv, Shape, Never
<1>3. start' \in Invocations /\ start'.since = Never /\ start'.mode = start.mode
  BY <1>1, <1>2 DEF Invocations
<1>4. Agreement' /\ Owing' /\ TokenFiles'
  BY <1>1, Steady DEF Inv, Shape
<1>5. Shape'
  <2>1. IsToken(global', now')
    BY <1>1 DEF IsToken
  <2>. QED BY <1>1, <1>2, <1>3, <1>4, <2>1 DEF Inv, Shape, Never
<1>6. Live /\ (AllDone \/ start.mode = "live")
  BY <1>1 DEF Inv, KnowsState, Copying
<1>7. Vouched' /\ KnowsState'
  BY <1>1, <1>3, <1>6 DEF Vouched, KnowsState, Unfinished, Live
<1>8. Resolving'
  BY <1>1, <1>3, <1>6, Steady DEF Resolving
<1>9. Checking' /\ Copying' /\ Streaming'
  BY <1>1 DEF Checking, Copying, Streaming
<1>. QED BY <1>4, <1>5, <1>7, <1>8, <1>9 DEF Inv

(* A stream settles the next change of its partition. *)
LEMMA ReplicateInv ==
  ASSUME Inv, NEW i \in 1 .. partitions, Replicate(i)
  PROVE  Inv'
<1> DEFINE ahead == {c \in 1 .. now : c > streams[i] /\ PartitionOf[partitions][c] = i}
           m == Min(ahead)
<1>1. /\ phase = "streaming" /\ ~ start.dryRun /\ ahead # {}
      /\ streams' = [streams EXCEPT ![i] = m]
      /\ handled' = handled \cup {m}
      /\ UNCHANGED <<tokens, status, copyOf, now, abandoned, phase, start, global, state,
                     restarted>>
  BY DEF Replicate, disk, source
<1>2. m \in ahead /\ \A c \in ahead : m <= c
  <2>1. ahead \in SUBSET Nat
    OBVIOUS
  <2>. HIDE DEF ahead
  <2>. QED BY <1>1, <2>1, MinOfNats
<1>3. /\ AllDone /\ DOMAIN streams = 1 .. partitions
      /\ \A j \in 1 .. partitions :
           /\ streams[j] \in -1 .. now
           /\ streams[j] > 0 \/ streams[j] = OpenedAt(j)
           /\ \A c \in 1 .. streams[j] : PartitionOf[partitions][c] = j => c \in Settled
  BY <1>1 DEF Inv, Streaming
<1>4. m \in 1 .. now /\ now \in Nat /\ partitions' = partitions
  BY <1>1, <1>2, StartupAssumption DEF Inv, Shape, partitions
<1>5. \A c \in 1 .. m : PartitionOf[partitions][c] = i => c \in Settled \cup {m}
  <2>1. SUFFICES ASSUME NEW c \in 1 .. m, PartitionOf[partitions][c] = i, c # m
                 PROVE  c \in Settled
    OBVIOUS
  <2>2. ~ (c \in ahead)
    BY <1>2, <1>4, <2>1
  <2>3. c \in 1 .. now /\ ~ (c > streams[i])
    BY <1>4, <2>1, <2>2
  <2>4. c \in 1 .. streams[i]
    BY <1>3, <2>3
  <2>. QED BY <1>3, <2>1, <2>4
<1>. HIDE DEF ahead, m
<1>6. handled \subseteq handled' /\ Settled \cup {m} \subseteq Settled'
  BY <1>1 DEF Settled
<1>7. Owed \subseteq Owed'
  BY <1>1, <1>6 DEF Owed, Settled
<1>8. Rewritten(tokens, tokens', Nil)
  BY <1>1 DEF Rewritten
<1>9. AllDone' /\ Agreement' /\ Owing'
  BY <1>1, <1>3, <1>6, <1>7, <1>8, Kept DEF Inv
<1>10. Shape'
  <2>1. TokenFiles'
    BY <1>1 DEF Inv, Shape, TokenFiles
  <2>. QED BY <1>1, <2>1 DEF Inv, Shape
<1>11. Vouched' /\ KnowsState'
  BY <1>1, <1>9 DEF Vouched, KnowsState
<1>12. Resolving' /\ Checking' /\ Copying'
  BY <1>1 DEF Resolving, Checking, Copying
<1>13. Streaming'
  <2>1. \A j \in 1 .. partitions : OpenedAt(j)' = OpenedAt(j)
    BY <1>1 DEF OpenedAt, Loaded, partitions
  <2>2. \A j \in 1 .. partitions :
          /\ streams'[j] \in -1 .. now
          /\ streams'[j] > 0 \/ streams'[j] = OpenedAt(j)
          /\ \A c \in 1 .. streams'[j] : PartitionOf[partitions][c] = j => c \in Settled'
    <3>1. TAKE j \in 1 .. partitions
    <3>2. CASE j = i
      <4>1. streams'[j] = m
        BY <1>1, <1>3, <3>2
      <4>. QED BY <1>4, <1>5, <1>6, <3>2, <4>1
    <3>3. CASE j # i
      <4>1. streams'[j] = streams[j]
        BY <1>1, <1>3, <3>3
      <4>. QED BY <1>3, <1>6, <4>1
    <3>. QED BY <3>2, <3>3
  <2>3. DOMAIN streams' = 1 .. partitions
    BY <1>1, <1>3
  <2>. QED BY <1>1, <1>4, <1>9, <2>1, <2>2, <2>3 DEF Streaming
<1>. QED BY <1>9, <1>10, <1>11, <1>12, <1>13 DEF Inv

(* A checkpoint covers what its stream has settled. *)
LEMMA CheckpointInv ==
  ASSUME Inv, NEW i \in 1 .. partitions, Checkpoint(i)
  PROVE  Inv'
<1> DEFINE f == <<partitions, i>>
           t == TimedToken(streams[i])
<1>1. /\ phase = "streaming" /\ ~ start.dryRun /\ streams[i] > OpenedAt(i)
      /\ tokens' = Saved({f}, t)
      /\ UNCHANGED <<status, copyOf, now, handled, abandoned, phase, start, global, state,
                     restarted, streams>>
  BY DEF Checkpoint, process, source, history
<1>2. /\ AllDone /\ DOMAIN streams = 1 .. partitions
      /\ \A j \in 1 .. partitions :
           /\ streams[j] \in -1 .. now
           /\ streams[j] > 0 \/ streams[j] = OpenedAt(j)
           /\ \A c \in 1 .. streams[j] : PartitionOf[partitions][c] = j => c \in Settled
  BY <1>1 DEF Inv, Streaming
<1>3. /\ now \in 0 .. MaxPosition /\ MaxPosition \in Nat
      /\ partitions \in Counts /\ partitions' = partitions
  BY <1>1, StartupAssumption DEF Inv, Shape, Invocations, partitions
<1>4. streams[i] \in Changes /\ streams[i] \in 1 .. now
  <2>1. streams[i] # OpenedAt(i)
    BY <1>1, <1>2
  <2>2. streams[i] > 0
    BY <1>2, <2>1
  <2>. QED BY <1>2, <1>3, <2>2 DEF Changes
<1>5. /\ t.at = streams[i] /\ t.time = EventTime[streams[i]] /\ t.time # 0
      /\ IsToken(t, now')
  BY <1>1, <1>4, StartupAssumption DEF TimedToken, IsToken
<1>. HIDE DEF t
<1>6. /\ DOMAIN tokens' = DOMAIN tokens \cup {f}
      /\ tokens'[f] = t
      /\ \A g \in DOMAIN tokens : g # f => tokens'[g] = tokens[g]
  <2>. HIDE DEF f
  <2>. QED BY <1>1 DEF Saved
<1>7. TokenFiles'
  <2>1. f \in PartitionFiles
    BY DEF PartitionFiles
  <2>. QED BY <1>1, <1>3, <1>5, <1>6, <2>1, WrittenFiles DEF Inv, Shape
<1>8. AllDone'
  <2>1. Below(f, t) \subseteq Settled
    BY <1>2, <1>5 DEF Below
  <2>2. \A g \in DOMAIN tokens : Below(g, tokens[g]) \subseteq Settled
    BY <1>2 DEF AllDone, AllBelow
  <2>3. \A g \in DOMAIN tokens' : Below(g, tokens'[g]) \subseteq Settled
    BY <1>6, <2>1, <2>2
  <2>. QED BY <1>1, <2>3 DEF AllDone, AllBelow, Settled
<1>9. Agreement'
  BY <1>8 DEF Agreement
<1>10. Owing'
  <2>1. Below(f, t) \subseteq Owed
    <3>1. Below(f, t) \subseteq 1 .. now
      BY <1>3, <1>4, <1>5 DEF Below
    <3>2. Below(f, t) \subseteq Settled
      BY <1>2, <1>5 DEF Below
    <3>. QED BY <3>1, <3>2 DEF Owed
  <2>2. \A g \in DOMAIN tokens : Below(g, tokens[g]) \subseteq Owed
    BY DEF Inv, Owing, AllBelow
  <2>3. \A g \in DOMAIN tokens' : Below(g, tokens'[g]) \subseteq Owed
    BY <1>6, <2>1, <2>2
  <2>4. Owed' = Owed
    BY <1>1 DEF Owed, Settled
  <2>. QED BY <2>3, <2>4 DEF Owing, AllBelow
<1>11. Shape'
  BY <1>1, <1>7 DEF Inv, Shape
<1>12. Vouched' /\ KnowsState'
  BY <1>1, <1>8 DEF Vouched, KnowsState
<1>13. Resolving' /\ Checking' /\ Copying'
  BY <1>1 DEF Resolving, Checking, Copying
<1>14. Streaming'
  <2>1. \A j \in 1 .. partitions : j # i => OpenedAt(j)' = OpenedAt(j)
    <3>1. ASSUME NEW j \in 1 .. partitions, j # i
          PROVE  Loaded(<<partitions, j>>)' = Loaded(<<partitions, j>>)
      <4>1. <<partitions, j>> # f
        BY <3>1
      <4>. QED BY <1>3, <1>6, <4>1 DEF Loaded
    <3>. QED BY <1>1, <1>3, <3>1 DEF OpenedAt
  <2>2. \A j \in 1 .. partitions : streams'[j] > 0 \/ streams'[j] = OpenedAt(j)'
    BY <1>1, <1>2, <1>4, <2>1
  <2>3. Settled' = Settled
    BY <1>1 DEF Settled
  <2>. QED BY <1>1, <1>2, <1>3, <1>8, <2>2, <2>3 DEF Streaming
<1>. QED BY <1>8, <1>9, <1>10, <1>11, <1>12, <1>13, <1>14 DEF Inv

-----------------------------------------------------------------------------
(* The source. *)

(* A new change is ahead of every stream and behind no token. *)
LEMMA SourceChangesInv ==
  ASSUME Inv, SourceChanges
  PROVE  Inv'
<1>1. /\ now' = now + 1 /\ now < MaxPosition
      /\ UNCHANGED <<tokens, status, copyOf, handled, abandoned, phase, start, global, state,
                     restarted, todo, streams>>
  BY DEF SourceChanges, disk, process, history
<1>2. now \in 0 .. MaxPosition /\ MaxPosition \in Nat /\ now' \in 0 .. MaxPosition
  BY <1>1, StartupAssumption DEF Inv, Shape
<1>3. Rewritten(tokens, tokens', Nil) /\ Owed \subseteq Owed'
  BY <1>1, <1>2 DEF Rewritten, Owed, Settled
<1>4. (AllDone => AllDone') /\ Agreement' /\ Owing'
  BY <1>1, <1>3, Kept DEF Inv
<1>5. AllDone' = AllDone /\ Settled' = Settled /\ Parts' = Parts
  BY <1>1 DEF AllDone, Settled, Parts
<1>6. \A t : IsToken(t, now) => IsToken(t, now')
  BY <1>1, <1>2 DEF IsToken
<1>7. Shape'
  <2>1. TokenFiles'
    BY <1>1, <1>6 DEF Inv, Shape, TokenFiles
  <2>2. IsToken(global', now')
    BY <1>1, <1>6 DEF Inv, Shape
  <2>3. PartitionFiles' = PartitionFiles
    BY <1>1 DEF PartitionFiles, partitions
  <2>4. copyOf' \in 0 .. now'
    BY <1>1, <1>2 DEF Inv, Shape
  <2>5. phase' # "down" => start'.since <= now'
    BY <1>1, <1>2 DEF Inv, Shape, Invocations
  <2>. QED BY <1>1, <1>2, <2>1, <2>2, <2>3, <2>4, <2>5 DEF Inv, Shape
<1>8. Vouched' /\ KnowsState'
  BY <1>1, <1>5 DEF Inv, Vouched, KnowsState, Live
<1>9. Resolving' /\ Checking'
  <2>1. Loaded(Global)' = Loaded(Global)
    BY <1>1 DEF Loaded
  <2>2. 1 .. global.at \subseteq Owed => 1 .. global'.at \subseteq Owed'
    BY <1>1, <1>3
  <2>. QED BY <1>1, <1>5, <2>1, <2>2 DEF Inv, Resolving, Checking
<1>10. Copying'
  BY <1>1, <1>5 DEF Inv, Copying
<1>11. Streaming'
  <2>1. partitions' = partitions /\ \A j : OpenedAt(j)' = OpenedAt(j)
    BY <1>1 DEF partitions, OpenedAt, Loaded
  <2>. QED BY <1>1, <1>2, <1>5, <2>1 DEF Inv, Streaming
<1>. QED BY <1>4, <1>7, <1>8, <1>9, <1>10, <1>11 DEF Inv

(* A step that changes nothing but oldest. *)
LEMMA IdleInv ==
  ASSUME Inv,
         UNCHANGED <<tokens, status, copyOf, now, handled, abandoned, phase, start, global,
                     state, restarted, todo, streams>>
  PROVE  Inv'
<1>1. Shape'
  BY DEF Inv, Shape, TokenFiles, PartitionFiles, partitions
<1>2. Vouched' /\ Agreement' /\ Owing' /\ KnowsState'
  BY Steady DEF Inv, Vouched, KnowsState, Live
<1>3. Resolving' /\ Checking'
  BY Steady DEF Inv, Resolving, Checking, Loaded
<1>4. Copying'
  BY Steady DEF Inv, Copying
<1>5. Streaming'
  BY Steady DEF Inv, Streaming, OpenedAt, Loaded, partitions
<1>. QED BY <1>1, <1>2, <1>3, <1>4, <1>5 DEF Inv

-----------------------------------------------------------------------------
(* Every step keeps the invariant. *)
LEMMA NextInv ==
  ASSUME DistinctTimes, Inv, [Next]_vars
  PROVE  Inv'
<1>1. CASE \E s \in Starts : StartLive(s) \/ StartCapture(s) \/ StartMigrate(s)
  BY <1>1, StartLiveInv, StartCaptureInv, StartMigrateInv
<1>2. CASE ResolveNext
  BY <1>2, EndsInv, ResumeAsBeforeInv, RescaleInv, CleanUpInv, UpgradeInv DEF ResolveNext
<1>3. CASE CheckNext
  BY <1>3, EndsInv, ProceedInv, CaptureInv, SaveTokenInv DEF CheckNext
<1>4. CASE BackfillNext
  BY <1>4, BeginBackfillInv, SkipMigrationInv, OnlyIndexesInv, EndCopyInv, ReportSuccessInv,
     EndsInv, ReprocessDLQInv DEF BackfillNext
<1>5. CASE StreamNext
  BY <1>5, OpenInv, HistoryLostInv, DeleteTokenInv, StartAgainInv, ReplicateInv,
     CheckpointInv DEF StreamNext
<1>6. CASE Stop
  BY <1>6, EndsInv
<1>7. CASE SourceChanges
  BY <1>7, SourceChangesInv
<1>8. CASE HistoryExpires
  <2>1. UNCHANGED <<tokens, status, copyOf, now, handled, abandoned, phase, start, global,
                    state, restarted, todo, streams>>
    BY <1>8 DEF HistoryExpires, disk, process, history
  <2>. QED BY <2>1, IdleInv
<1>9. CASE UNCHANGED vars
  <2>1. UNCHANGED <<tokens, status, copyOf, now, handled, abandoned, phase, start, global,
                    state, restarted, todo, streams>>
    BY <1>9 DEF vars, disk, process, source, history
  <2>. QED BY <2>1, IdleInv
<1>. QED BY <1>1, <1>2, <1>3, <1>4, <1>5, <1>6, <1>7, <1>8, <1>9 DEF Next

(* What lies behind a stream was below its token, or was delivered. *)
LEMMA InvCovers == Inv => StreamsCoverAll
<1>1. SUFFICES ASSUME Inv, phase = "streaming", ~ start.dryRun, NEW c \in 1 .. now
               PROVE  c \in handled \cup abandoned \/ Ahead(c)
  BY DEF StreamsCoverAll
<1> DEFINE i == PartitionOf[partitions][c]
<1>2. i \in 1 .. partitions
  <2>1. partitions \in Counts /\ now \in 0 .. MaxPosition
    BY <1>1 DEF Inv, Shape, Invocations, partitions
  <2>2. c \in Changes
    BY <2>1, StartupAssumption DEF Changes
  <2>. QED BY <2>1, <2>2, StartupAssumption DEF Counts
<1>3. /\ streams[i] \in -1 .. now
      /\ c \in 1 .. streams[i] => c \in Settled
  BY <1>1, <1>2 DEF Inv, Streaming
<1>4. now \in Nat
  BY <1>1, StartupAssumption DEF Inv, Shape
<1>5. CASE c > streams[i]
  BY <1>5 DEF Ahead
<1>6. CASE ~ (c > streams[i])
  <2>1. c \in 1 .. streams[i]
    BY <1>3, <1>4, <1>6
  <2>. QED BY <1>3, <2>1 DEF Settled
<1>. QED BY <1>5, <1>6

(* README, Enhanced Checkpoint Mechanism: a running replication has every change
   of the source behind it or before it, but for those given up -- after any
   number of restarts, in any modes and with any numbers of partitions, whether
   old files can be deleted or not, when no two changes have one event time. *)
THEOREM EveryChangeCovered == DistinctTimes => (Spec => []StreamsCoverAll)
<1>1. SUFFICES ASSUME DistinctTimes PROVE Spec => []StreamsCoverAll
  OBVIOUS
<1>2. Init => Inv
  BY InitInv
<1>3. Inv /\ [Next]_vars => Inv'
  BY <1>1, NextInv
<1>4. Inv => StreamsCoverAll
  BY InvCovers
<1>. QED BY <1>2, <1>3, <1>4, PTL DEF Spec

-----------------------------------------------------------------------------
(* The types of all variables; nothing here depends on the event times.  The
   stream of a partition stands where it was opened, or behind a change. *)
Numbers == {s.partitions : s \in Starts}
Invoked == Starts \cup {[s EXCEPT !.since = Never] : s \in Starts}

Facts ==
  /\ now \in 0 .. MaxPosition /\ oldest \in 0 .. now
  /\ copyOf \in 0 .. now /\ copied \in BOOLEAN /\ restarted \in BOOLEAN
  /\ handled \subseteq 1 .. now /\ abandoned \subseteq 1 .. now
  /\ status \in {"none", "inprogress", "completed", "completed_with_failures", "skipped"}
  /\ state \in {"none", "inprogress", "completed", "skipped"}
  /\ IsToken(global, now)

Named == TokenFiles /\ \A f \in DOMAIN tokens : f[1] \in {0} \cup Numbers

Running ==
  /\ start \in Invoked \cup {NoStart}
  /\ phase # "down" => start \in Invoked /\ start.since <= now

Saving ==
  /\ phase \in {"rescale", "upgrade"} => todo \in Seq(PartitionFiles)
  /\ phase = "captured" => todo \in Seq(PartitionFiles \cup {Global}) /\ global.time = 0
  /\ phase \in {"rescale", "upgrade", "captured"} => todo # <<>>

Deleting ==
  /\ existing \subseteq DOMAIN tokens
  /\ phase \notin {"rescale", "cleanup"} => existing = {}

Standing ==
  phase = "streaming" =>
    /\ streams \in [1 .. partitions -> -1 .. now]
    /\ \A i \in 1 .. partitions : streams[i] > 0 \/ streams[i] = OpenedAt(i)

TypeInv == Facts /\ Named /\ Running /\ Saving /\ Deleting /\ Standing

(* An invocation names a number of partitions. *)
LEMMA InvokedTyped ==
  ASSUME NEW s \in Invoked
  PROVE  /\ s.partitions \in Counts /\ s.partitions \in Numbers
         /\ s.partitions \in Nat \ {0} /\ s.since \in Nat
         /\ [s EXCEPT !.since = Never] \in Invoked
<1>1. ASSUME NEW r \in Starts
      PROVE  /\ r.partitions \in Counts /\ r.partitions \in Numbers
             /\ r.since \in 0 .. MaxPosition
             /\ r = [mode |-> r.mode, partitions |-> r.partitions, indexOnly |-> r.indexOnly,
                     dryRun |-> r.dryRun, since |-> r.since]
  BY StartupAssumption DEF Counts, Numbers
<1>2. \A n \in Counts : n \in Nat \ {0}
  BY StartupAssumption DEF Counts
<1>3. CASE s \in Starts
  BY <1>1, <1>2, <1>3, StartupAssumption DEF Invoked
<1>4. CASE \E r \in Starts : s = [r EXCEPT !.since = Never]
  <2>1. PICK r \in Starts : s = [r EXCEPT !.since = Never]
    BY <1>4
  <2>2. s.partitions = r.partitions /\ s.since = 0
    BY <1>1, <2>1 DEF Never
  <2>3. [s EXCEPT !.since = Never] = s
    BY <1>1, <2>1 DEF Never
  <2>. QED BY <1>1, <1>2, <2>2, <2>3
<1>. QED BY <1>3, <1>4 DEF Invoked

LEMMA TypeInvImplies == TypeInv => TypeOK
<1>. SUFFICES ASSUME TypeInv PROVE TypeOK
  OBVIOUS
<1>. DEFINE Tokens == {Nil} \cup [at : 0 .. now, time : {0} \cup {EventTime[c] : c \in 1 .. now}]
<1>1. now \in 0 .. MaxPosition /\ MaxPosition \in Nat
  BY StartupAssumption DEF TypeInv, Facts
<1>2. ASSUME NEW t, IsToken(t, now) PROVE t \in Tokens
  <2>1. CASE t = Nil
    BY <2>1
  <2>2. CASE t # Nil
    <3>1. /\ t = [at |-> t.at, time |-> t.time] /\ t.at \in 0 .. now
          /\ t.time = 0 \/ (t.at # 0 /\ t.time = EventTime[t.at])
      BY <1>2, <2>2 DEF IsToken, Changes
    <3>2. t.time \in {0} \cup {EventTime[c] : c \in 1 .. now}
      BY <1>1, <3>1
    <3>. QED BY <3>1, <3>2
  <2>. QED BY <2>1, <2>2
<1>. HIDE DEF Tokens
<1>3. DOMAIN tokens \subseteq ({0} \cup DOMAIN PartitionOf) \X (0 .. MaxPartitions)
  BY DEF TypeInv, Named, TokenFiles, Counts
<1>4. \A f \in DOMAIN tokens : tokens[f] \in Tokens
  BY <1>2 DEF TypeInv, Named, TokenFiles
<1>5. global \in Tokens
  BY <1>2 DEF TypeInv, Facts
<1>6. start \in Starts \cup {NoStart} \cup {[s EXCEPT !.since = Never] : s \in Starts}
  BY DEF TypeInv, Running, Invoked
<1>7. /\ status \in {"none", "inprogress", "completed", "completed_with_failures", "skipped"}
      /\ copyOf \in 0 .. now /\ copied \in BOOLEAN
      /\ state \in {"none", "inprogress", "completed", "skipped"}
      /\ restarted \in BOOLEAN
      /\ oldest \in 0 .. now
      /\ handled \cup abandoned \subseteq 1 .. now
  BY DEF TypeInv, Facts
<1>8. phase \in {"rescale", "upgrade", "captured"} => todo # <<>>
  BY DEF TypeInv, Saving
<1>9. existing \subseteq DOMAIN tokens
  BY DEF TypeInv, Deleting
<1>10. phase = "streaming" => streams \in [1 .. partitions -> -1 .. now]
  BY DEF TypeInv, Standing
<1>. QED BY <1>3, <1>4, <1>5, <1>6, <1>7, <1>8, <1>9, <1>10 DEF TypeOK, Tokens

LEMMA InitTyped == Init => TypeInv
<1>. SUFFICES ASSUME Init PROVE TypeInv
  OBVIOUS
<1>1. PICK left \in {{}} \cup Leftovers :
        /\ tokens = [f \in left |-> Token(0)]
        /\ status = IF left = {} THEN "none" ELSE "completed"
  BY DEF Init
<1>2. /\ now = 0 /\ oldest = 0 /\ copyOf = 0 /\ copied = FALSE
      /\ handled = {} /\ abandoned = {}
      /\ phase = "down" /\ start = NoStart /\ global = Nil /\ state = "none"
      /\ restarted = FALSE /\ existing = {}
  BY DEF Init, NoProcess
<1>3. MaxPosition \in Nat
  BY StartupAssumption
<1>4. \A f \in DOMAIN tokens : f[1] = 0
  BY <1>1, StartupAssumption
<1>5. TokenFiles
  BY InitInv DEF Inv, Shape
<1>6. Facts
  <2>1. now \in 0 .. MaxPosition /\ oldest \in 0 .. now /\ copyOf \in 0 .. now
    BY <1>2, <1>3
  <2>2. copied \in BOOLEAN /\ restarted \in BOOLEAN
    BY <1>2
  <2>3. status \in {"none", "completed"}
    BY <1>1
  <2>4. handled \subseteq 1 .. now /\ abandoned \subseteq 1 .. now
    BY <1>2
  <2>. QED BY <1>2, <2>1, <2>2, <2>3, <2>4 DEF Facts, IsToken
<1>7. Named /\ Running /\ Saving /\ Deleting /\ Standing
  BY <1>2, <1>4, <1>5 DEF Named, Running, Saving, Deleting, Standing
<1>. QED BY <1>6, <1>7 DEF TypeInv

(* A step of a process, or its end, that leaves the files and the source alone. *)
LEMMA ProcessTyped ==
  ASSUME TypeInv, UNCHANGED <<tokens, now, oldest>>, Facts',
         \/ Ends
         \/ /\ phase' \notin {"down", "rescale", "cleanup", "upgrade", "captured", "streaming"}
            /\ existing' = existing /\ phase \notin {"rescale", "cleanup"}
            /\ start' \in Invoked /\ start'.since <= now
  PROVE  TypeInv'
<1>1. Named'
  BY DEF TypeInv, Named, TokenFiles
<1>2. Running' /\ Saving' /\ Deleting' /\ Standing'
  BY DEF TypeInv, Ends, Running, Saving, Deleting, Standing
<1>. QED BY <1>1, <1>2 DEF TypeInv

LEMMA StartTyped ==
  ASSUME TypeInv, NEW s \in Starts, StartLive(s) \/ StartCapture(s) \/ StartMigrate(s)
  PROVE  TypeInv'
<1>1. /\ UNCHANGED <<tokens, status, copied, now, oldest, handled, abandoned, restarted, existing>>
      /\ phase = "down" /\ phase' \in {"resolve", "capture", "copy"} /\ start' = s
      /\ copyOf' \in {copyOf, now}
      /\ global' \in {global, Loaded(Global)}
      /\ state' \in {state, status} /\ state' # "completed_with_failures"
      /\ s.since = Never \/ s.since <= now
  BY StartupAssumption
     DEF StartLive, StartCapture, StartMigrate, BeginCopy, disk, source, history, TypeInv, Facts
<1>2. now \in 0 .. MaxPosition /\ MaxPosition \in Nat
  BY StartupAssumption DEF TypeInv, Facts
<1>3. IsToken(Loaded(Global), now)
  BY DEF TypeInv, Named, TokenFiles, Loaded, IsToken
<1>4. Facts'
  BY <1>1, <1>2, <1>3 DEF TypeInv, Facts
<1>5. start' \in Invoked /\ start'.since <= now
  BY <1>1, <1>2 DEF Invoked, Never
<1>. QED BY <1>1, <1>4, <1>5, ProcessTyped

(* The invocation, while there is a process. *)
LEMMA RunningProcess ==
  ASSUME TypeInv, phase # "down"
  PROVE  /\ start \in Invoked /\ start.since \in Nat /\ start.since <= now
         /\ partitions \in Counts /\ partitions \in Numbers /\ partitions \in Nat \ {0}
BY InvokedTyped DEF TypeInv, Running, partitions

(* Every position of a token lies in the past. *)
LEMMA PastOnly ==
  ASSUME TypeInv, NEW t, IsToken(t, now)
  PROVE  1 .. t.at \subseteq 1 .. now
<1>1. now \in Nat /\ t.at \in Int /\ t.at <= now
  BY StartupAssumption DEF TypeInv, Facts, IsToken, Nil
<1>. QED BY <1>1

(* The steps between the files. *)
LEMMA QuietTyped ==
  ASSUME TypeInv,
         \/ RefuseIncomplete \/ RefuseContradiction \/ Proceed \/ SkipBackfill
         \/ BeginBackfill \/ SkipMigration \/ OnlyIndexes \/ EndCopy
         \/ ReportSuccess \/ ReportFailures \/ Stop
  PROVE  TypeInv'
<1>1. /\ UNCHANGED <<tokens, now, oldest>>
      /\ phase # "down"
  BY DEF RefuseIncomplete, RefuseContradiction, Proceed, SkipBackfill, BeginBackfill,
         SkipMigration, OnlyIndexes, EndCopy, ReportSuccess, ReportFailures, Stop,
         disk, source
<1>2. now \in 0 .. MaxPosition /\ MaxPosition \in Nat
  BY StartupAssumption DEF TypeInv, Facts
<1>3. /\ copyOf' \in {copyOf, now} /\ copied' \in BOOLEAN
      /\ status' \in {status, "skipped", "inprogress", "completed", "completed_with_failures"}
  <2>1. copyOf' \in {copyOf, now}
    BY DEF RefuseIncomplete, RefuseContradiction, Proceed, SkipBackfill, BeginBackfill,
           SkipMigration, OnlyIndexes, EndCopy, ReportSuccess, ReportFailures, Stop,
           disk, BeginCopy
  <2>2. copied' = copied \/ copied' = (copyOf > 0)
    BY DEF RefuseIncomplete, RefuseContradiction, Proceed, SkipBackfill, BeginBackfill,
           SkipMigration, OnlyIndexes, EndCopy, ReportSuccess, ReportFailures, Stop, disk
  <2>3. copied' \in BOOLEAN
    <3>1. copied \in BOOLEAN
      BY DEF TypeInv, Facts
    <3>2. (copyOf > 0) \in BOOLEAN
      OBVIOUS
    <3>. QED BY ONLY <2>2, <3>1, <3>2, Zenon
  <2>4. status' \in {status, "skipped", "inprogress", "completed", "completed_with_failures"}
    BY DEF RefuseIncomplete, RefuseContradiction, Proceed, SkipBackfill, BeginBackfill,
           SkipMigration, OnlyIndexes, EndCopy, ReportSuccess, ReportFailures, Stop, disk
  <2>. QED BY <2>1, <2>3, <2>4
<1>4. /\ handled' \subseteq handled \cup 1 .. global.at \cup 1 .. copyOf
      /\ abandoned' \subseteq abandoned \cup 1 .. global.at
  BY DEF RefuseIncomplete, RefuseContradiction, Proceed, SkipBackfill, BeginBackfill,
         SkipMigration, OnlyIndexes, EndCopy, ReportSuccess, ReportFailures, Stop, history
<1>5. \/ Ends
      \/ /\ phase \notin {"rescale", "cleanup"}
         /\ phase' \in {"capture", "begin", "copy", "open", "report"}
         /\ UNCHANGED <<start, global, restarted, existing>>
         /\ state' \in {state, "skipped"}
  BY DEF RefuseIncomplete, RefuseContradiction, Proceed, SkipBackfill, BeginBackfill,
         SkipMigration, OnlyIndexes, EndCopy, ReportSuccess, ReportFailures, Stop
<1>6. 1 .. global.at \subseteq 1 .. now /\ 1 .. copyOf \subseteq 1 .. now
  <2>1. copyOf \in 0 .. now /\ IsToken(global, now)
    BY DEF TypeInv, Facts
  <2>. QED BY <1>2, <2>1, PastOnly
<1>7. /\ handled' \subseteq 1 .. now' /\ abandoned' \subseteq 1 .. now'
      /\ now' \in 0 .. MaxPosition /\ oldest' \in 0 .. now' /\ copyOf' \in 0 .. now'
  BY <1>1, <1>2, <1>3, <1>4, <1>6 DEF TypeInv, Facts
<1>8. /\ IsToken(global', now') /\ restarted' \in BOOLEAN
      /\ state' \in {"none", "inprogress", "completed", "skipped"}
  BY <1>1, <1>5 DEF TypeInv, Facts, Ends, IsToken
<1>9. Facts'
  BY <1>3, <1>7, <1>8 DEF TypeInv, Facts
<1>10. start \in Invoked /\ start.since <= now
  BY <1>1, RunningProcess
<1>. QED BY <1>1, <1>5, <1>9, <1>10, ProcessTyped


(* The token of a complete set of files. *)
LEMMA WatermarkTyped ==
  ASSUME TokenFiles, Complete, historicalTotal # 0
  PROVE  IsToken(Watermark, now) /\ Watermark # Nil
<1>1. PICK w \in Active : Watermark = tokens[w]
  BY WatermarkIsEarliest, TotalOfFiles
<1>2. w \in DOMAIN tokens /\ w[1] = Format
  BY DEF Active
<1>3. w = <<Format, w[2]>> /\ w[2] \in 1 .. historicalTotal
  BY <1>2, FormatOfFiles, TotalOfFiles
<1>4. tokens[w] # Nil
  BY <1>2, <1>3 DEF Complete, Loaded
<1>5. IsToken(tokens[w], now)
  BY <1>2 DEF TokenFiles
<1>. QED BY <1>1, <1>4, <1>5

(* The steps that only read the files. *)
LEMMA ReadingTyped ==
  ASSUME TypeInv, ResumeAsBefore \/ Rescale \/ Upgrade
  PROVE  TypeInv'
<1>1. /\ UNCHANGED <<tokens, status, copyOf, copied, state, restarted, now, oldest,
                     handled, abandoned, start>>
      /\ phase = "resolve" /\ phase' \in {"check", "rescale", "upgrade"}
      /\ global' \in {global, Watermark}
  BY DEF ResumeAsBefore, Rescale, Upgrade, disk, source, history
<1>2. /\ start \in Invoked /\ start.since <= now
      /\ partitions \in Counts /\ partitions \in Nat \ {0} /\ partitions' = partitions
  BY <1>1, RunningProcess DEF partitions
<1>3. IsToken(global', now')
  <2>1. CASE Upgrade
    BY <1>1, <2>1 DEF Upgrade, TypeInv, Facts
  <2>2. CASE ResumeAsBefore \/ Rescale
    <3>1. Complete /\ historicalTotal # 0 /\ global' = Watermark
      BY <1>2, <2>2 DEF ResumeAsBefore, Rescale, historicalTotal
    <3>. QED BY <1>1, <3>1, WatermarkTyped DEF TypeInv, Named
  <2>. QED BY <2>1, <2>2
<1>4. Facts'
  BY <1>1, <1>3 DEF TypeInv, Facts
<1>5. Named'
  BY <1>1 DEF TypeInv, Named, TokenFiles
<1>6. Running' /\ Standing'
  BY <1>1, <1>2 DEF Running, Standing
<1>7. Saving'
  <2>1. phase' # "check" => todo' = Files(partitions)
    BY DEF ResumeAsBefore, Rescale, Upgrade
  <2>2. PartitionFiles' = PartitionFiles
    BY <1>2 DEF PartitionFiles
  <2>. QED BY <1>1, <1>2, <2>1, <2>2, FilesOfPartitions DEF Saving
<1>8. Deleting'
  <2>1. existing = {} /\ (existing' = existing \/ (phase' = "rescale" /\ existing' = Active))
    BY <1>1 DEF ResumeAsBefore, Rescale, Upgrade, TypeInv, Deleting
  <2>2. Active \subseteq DOMAIN tokens
    BY DEF Active
  <2>. QED BY <1>1, <2>1, <2>2 DEF Deleting
<1>. QED BY <1>4, <1>5, <1>6, <1>7, <1>8 DEF TypeInv

LEMMA CaptureTyped ==
  ASSUME TypeInv, Capture
  PROVE  TypeInv'
<1>1. /\ phase = "capture" /\ phase' = "captured" /\ global' = Token(now)
      /\ UNCHANGED <<tokens, status, copyOf, copied, start, state, restarted, existing,
                     now, oldest>>
      /\ handled' \subseteq handled \cup 1 .. now
      /\ abandoned' \subseteq abandoned \cup 1 .. now
  BY DEF Capture, disk, source, Forgotten
<1>2. todo' = Files(partitions) \o IF partitions = 1 THEN <<Global>> ELSE <<>>
  BY DEF Capture
<1>3. /\ start \in Invoked /\ start.since <= now
      /\ partitions \in Counts /\ partitions' = partitions
  BY <1>1, RunningProcess DEF partitions
<1>4. now \in 0 .. MaxPosition /\ MaxPosition \in Nat
  BY StartupAssumption DEF TypeInv, Facts
<1>5. IsToken(global', now') /\ global'.time = 0
  BY <1>1, <1>4 DEF IsToken, Token
<1>6. Facts'
  BY <1>1, <1>5 DEF TypeInv, Facts
<1>7. todo' \in Seq(PartitionFiles' \cup {Global}) /\ todo' # <<>>
  <2> DEFINE T == PartitionFiles \cup {Global}
             last == IF partitions = 1 THEN <<Global>> ELSE <<>>
  <2>1. Files(partitions) \in Seq(T) /\ Files(partitions) # <<>>
    BY <1>3, FilesOfPartitions, SeqMonotonic
  <2>2. last \in Seq(T)
    <3>1. Global \in T
      OBVIOUS
    <3>. HIDE DEF T
    <3>2. <<>> \in Seq(T) /\ <<Global>> \in Seq(T)
      BY <3>1
    <3>. QED BY <3>2
  <2>3. PartitionFiles' = PartitionFiles
    BY <1>3 DEF PartitionFiles
  <2>. HIDE DEF T, last
  <2>4. Files(partitions) \o last \in Seq(T) /\ Files(partitions) \o last # <<>>
    BY <2>1, <2>2, ConcatProperties, ConcatSimplifications
  <2>. QED BY <1>2, <2>3, <2>4 DEF T, last
<1>8. Named'
  BY <1>1 DEF TypeInv, Named, TokenFiles
<1>9. Running' /\ Saving' /\ Deleting' /\ Standing'
  BY <1>1, <1>3, <1>5, <1>7 DEF TypeInv, Running, Saving, Deleting, Standing
<1>. QED BY <1>6, <1>8, <1>9 DEF TypeInv

(* What SaveToken does to the files and to the list of those still to be written. *)
LEMMA FileSaved ==
  ASSUME TypeInv, SaveToken
  PROVE  /\ DOMAIN tokens' = DOMAIN tokens \cup {Head(todo)}
         /\ tokens'[Head(todo)] = global
         /\ \A f \in DOMAIN tokens' :
              f # Head(todo) => f \in DOMAIN tokens /\ tokens'[f] = tokens[f]
         /\ Head(todo) \in PartitionFiles
              \/ (phase = "captured" /\ Head(todo) = Global /\ global.time = 0)
         /\ phase = "captured" => todo' \in Seq(PartitionFiles \cup {Global})
         /\ phase # "captured" => todo' \in Seq(PartitionFiles)
<1> DEFINE h == Head(todo)
<1>1. tokens' = Saved({h}, global) /\ todo' = Tail(todo) /\ todo # <<>>
      /\ phase \in {"rescale", "upgrade", "captured"}
  BY DEF SaveToken, TypeInv, Saving
<1>2. /\ DOMAIN tokens' = DOMAIN tokens \cup {h} /\ tokens'[h] = global
      /\ \A f \in DOMAIN tokens' : f # h => f \in DOMAIN tokens /\ tokens'[f] = tokens[f]
  <2>. HIDE DEF h
  <2>. QED BY <1>1 DEF Saved
<1>3. CASE phase = "captured"
  <2> DEFINE T == PartitionFiles \cup {Global}
  <2>1. todo \in Seq(T) /\ global.time = 0
    BY <1>3 DEF TypeInv, Saving
  <2>. HIDE DEF T
  <2>2. h \in T /\ todo' \in Seq(T)
    BY <1>1, <2>1, HeadTailProperties
  <2>. QED BY <1>2, <1>3, <2>1, <2>2 DEF T
<1>4. CASE phase # "captured"
  <2>1. todo \in Seq(PartitionFiles)
    BY <1>1, <1>4 DEF TypeInv, Saving
  <2>2. h \in PartitionFiles /\ todo' \in Seq(PartitionFiles)
    BY <1>1, <2>1, HeadTailProperties
  <2>. QED BY <1>2, <1>4, <2>2
<1>. QED BY <1>3, <1>4

LEMMA AfterSavingIs ==
  ASSUME phase \in {"rescale", "upgrade", "captured"}
  PROVE  AfterSaving = IF phase = "rescale" THEN "cleanup" ELSE
                       IF phase = "upgrade" THEN "check" ELSE
                       IF start.mode = "capture-resume-token" THEN "skip" ELSE "begin"
BY DEF AfterSaving

LEMMA SaveTokenTyped ==
  ASSUME TypeInv, SaveToken
  PROVE  TypeInv'
<1>1. /\ phase \in {"rescale", "upgrade", "captured"}
      /\ phase' = IF todo' = <<>> THEN AfterSaving ELSE phase
      /\ UNCHANGED <<status, copyOf, copied, start, global, state, restarted, existing,
                     now, oldest, handled, abandoned>>
  BY DEF SaveToken, source, history
<1>2. /\ start \in Invoked /\ start.since <= now
      /\ partitions \in Counts /\ partitions \in Numbers /\ partitions' = partitions
  BY <1>1, RunningProcess DEF partitions
<1>3. Facts' /\ IsToken(global, now')
  BY <1>1 DEF TypeInv, Facts
<1>4. now \in Nat
  BY StartupAssumption DEF TypeInv, Facts
<1>5. TokenFiles'
  BY <1>1, <1>2, <1>3, <1>4, FileSaved, WrittenFiles DEF TypeInv, Named
<1>6. Named'
  <2>1. \A f \in PartitionFiles \cup {Global} : f[1] \in {0} \cup Numbers
    BY <1>2 DEF PartitionFiles, Global
  <2>. QED BY <1>5, <2>1, FileSaved DEF TypeInv, Named
<1>7. AfterSaving = IF phase = "rescale" THEN "cleanup" ELSE
                    IF phase = "upgrade" THEN "check" ELSE
                    IF start.mode = "capture-resume-token" THEN "skip" ELSE "begin"
  BY <1>1, AfterSavingIs
<1>8. Running' /\ Standing'
  BY <1>1, <1>2, <1>7 DEF Running, Standing
<1>9. Saving'
  <2>1. PartitionFiles' = PartitionFiles
    BY <1>2 DEF PartitionFiles
  <2>2. /\ phase = "captured" => todo' \in Seq(PartitionFiles \cup {Global}) /\ global.time = 0
        /\ phase # "captured" => todo' \in Seq(PartitionFiles)
    BY FileSaved DEF TypeInv, Saving
  <2>. QED BY <1>1, <1>7, <2>1, <2>2 DEF Saving
<1>10. Deleting'
  BY <1>1, <1>7, FileSaved DEF TypeInv, Deleting
<1>. QED BY <1>3, <1>6, <1>8, <1>9, <1>10 DEF TypeInv

(* A file that is deleted, or could not be. *)
LEMMA DeletingTyped ==
  ASSUME TypeInv, CleanUp \/ DeleteToken
  PROVE  TypeInv'
<1>1. /\ UNCHANGED <<status, copyOf, copied, start, global, state, restarted,
                     now, oldest, handled, abandoned>>
      /\ phase \in {"cleanup", "expired"}
  BY DEF CleanUp, DeleteToken, source, history
<1>2. PICK f : /\ tokens' \in {Deleted(f), tokens}
               /\ \/ /\ phase = "cleanup" /\ existing' = existing \ {f}
                     /\ phase' = IF existing' = {} THEN "check" ELSE "cleanup"
                  \/ phase = "expired" /\ phase' = "expired" /\ existing' = existing
  BY DEF CleanUp, DeleteToken
<1>3. /\ start \in Invoked /\ start.since <= now
      /\ partitions \in Counts /\ partitions \in Numbers /\ partitions' = partitions
  BY <1>1, RunningProcess DEF partitions
<1>4. now \in Nat
  BY StartupAssumption DEF TypeInv, Facts
<1>5. TokenFiles' /\ DOMAIN tokens' \in {DOMAIN tokens, DOMAIN tokens \ {f}}
  <2>1. TokenFiles'
    BY <1>1, <1>2, <1>3, <1>4, DeletedFiles DEF TypeInv, Named
  <2>. QED BY <1>2, <2>1 DEF Deleted
<1>6. Named'
  BY <1>5 DEF TypeInv, Named
<1>7. Deleting'
  BY <1>1, <1>2, <1>5 DEF TypeInv, Deleting
<1>8. Facts' /\ Running' /\ Saving' /\ Standing'
  BY <1>1, <1>2, <1>3 DEF TypeInv, Facts, Running, Saving, Standing
<1>. QED BY <1>6, <1>7, <1>8 DEF TypeInv

LEMMA StartAgainTyped ==
  ASSUME TypeInv, StartAgain
  PROVE  TypeInv'
<1>1. /\ UNCHANGED <<tokens, copyOf, copied, existing, now, oldest, handled, abandoned>>
      /\ phase = "expired" /\ phase' = "resolve"
      /\ start' = [start EXCEPT !.since = Never]
      /\ status' = "none" /\ state' = "none" /\ global' = Nil /\ restarted' = TRUE
  BY DEF StartAgain, source, history
<1>2. start \in Invoked /\ start' \in Invoked
  BY <1>1, RunningProcess, InvokedTyped
<1>3. start'.since <= now
  <2>1. PICK s : s = start' /\ s = [start EXCEPT !.since = Never] /\ start \in Invoked
    BY <1>1, <1>2
  <2>2. ASSUME NEW r \in Invoked PROVE r = [mode |-> r.mode, partitions |-> r.partitions,
              indexOnly |-> r.indexOnly, dryRun |-> r.dryRun, since |-> r.since]
    BY StartupAssumption DEF Invoked
  <2>3. start'.since = 0
    BY <1>1, <1>2, <2>2 DEF Never
  <2>. QED BY <2>3, StartupAssumption DEF TypeInv, Facts
<1>4. Facts'
  <2>1. restarted' \in BOOLEAN
    BY <1>1
  <2>2. IsToken(global', now')
    BY <1>1 DEF IsToken
  <2>. QED BY <1>1, <2>1, <2>2 DEF TypeInv, Facts
<1>. QED BY <1>1, <1>2, <1>3, <1>4, ProcessTyped DEF TypeInv


(* Missing files are created empty, and the streams stand where they were opened. *)
LEMMA CreatingTyped ==
  ASSUME TypeInv, Open \/ HistoryLost
  PROVE  TypeInv'
<1>1. /\ UNCHANGED <<status, copyOf, copied, start, global, state, restarted, existing,
                     now, oldest, abandoned>>
      /\ phase = "open" /\ phase' \in {"streaming", "expired"} /\ CreateMissing
      /\ handled' \subseteq handled \cup 1 .. start.since - 1
      /\ phase' = "streaming" => streams' = [i \in 1 .. partitions |-> OpenedAt(i)]
  BY DEF Open, HistoryLost, source, history
<1>2. /\ start \in Invoked /\ start.since \in Nat /\ start.since <= now
      /\ partitions \in Counts /\ partitions \in Numbers /\ partitions' = partitions
  BY <1>1, RunningProcess DEF partitions
<1>3. now \in Nat
  BY StartupAssumption DEF TypeInv, Facts
<1>4. /\ TokenFiles'
      /\ \A i \in 1 .. partitions :
           /\ <<partitions, i>> \in DOMAIN tokens'
           /\ tokens'[<<partitions, i>>] = Loaded(<<partitions, i>>)
  BY <1>1, <1>2, <1>3, CreatedFiles DEF TypeInv, Named
<1>5. /\ DOMAIN tokens \subseteq DOMAIN tokens'
      /\ \A f \in DOMAIN tokens' : f \in DOMAIN tokens \/ f[1] = partitions
  <2> DEFINE missing == {<<partitions, i>> : i \in 1 .. partitions} \ DOMAIN tokens
  <2>1. DOMAIN tokens' = DOMAIN tokens \cup missing
    BY <1>1 DEF CreateMissing, Saved
  <2>. QED BY <2>1
<1>6. Named'
  BY <1>2, <1>4, <1>5 DEF TypeInv, Named
<1>7. Facts'
  <2>1. handled' \subseteq 1 .. now
    <3>1. 1 .. start.since - 1 \subseteq 1 .. now
      BY <1>2, <1>3
    <3>. QED BY <1>1, <3>1 DEF TypeInv, Facts
  <2>. QED BY <1>1, <2>1 DEF TypeInv, Facts
<1>8. Running' /\ Saving' /\ Deleting'
  BY <1>1, <1>2, <1>5 DEF TypeInv, Running, Saving, Deleting
<1>9. ASSUME NEW i \in 1 .. partitions
      PROVE  OpenedAt(i)' = OpenedAt(i) /\ OpenedAt(i) \in -1 .. now
  <2> DEFINE f == <<partitions, i>>
  <2>1. Loaded(f)' = Loaded(f)
    BY <1>2, <1>4 DEF Loaded
  <2>2. OpenedAt(i)' = OpenedAt(i)
    BY <1>1, <1>2, <2>1 DEF OpenedAt
  <2>3. CASE Loaded(f) = Nil
    <3>1. OpenedAt(i) = start.since - 1
      BY <2>3 DEF OpenedAt
    <3>. QED BY <1>2, <1>3, <2>2, <3>1
  <2>4. CASE Loaded(f) # Nil
    <3>1. f \in DOMAIN tokens /\ Loaded(f) = tokens[f] /\ tokens[f] # Nil
      BY <2>4 DEF Loaded
    <3>2. OpenedAt(i) = tokens[f].at
      BY <2>4, <3>1 DEF OpenedAt
    <3>3. tokens[f].at \in 0 .. now
      BY <3>1 DEF TypeInv, Named, TokenFiles, IsToken
    <3>. QED BY <1>3, <2>2, <3>2, <3>3
  <2>. QED BY <2>3, <2>4
<1>10. Standing'
  <2>. SUFFICES ASSUME phase' = "streaming"
                PROVE  /\ streams' \in [1 .. partitions -> -1 .. now]
                       /\ \A i \in 1 .. partitions : streams'[i] = OpenedAt(i)'
    BY <1>1, <1>2 DEF Standing
  <2>1. streams' = [i \in 1 .. partitions |-> OpenedAt(i)]
    BY <1>1
  <2>. QED BY <1>9, <2>1
<1>. QED BY <1>6, <1>7, <1>8, <1>10 DEF TypeInv

LEMMA ReplicateTyped ==
  ASSUME TypeInv, NEW i \in 1 .. partitions, Replicate(i)
  PROVE  TypeInv'
<1> DEFINE ahead == {c \in 1 .. now : c > streams[i] /\ PartitionOf[partitions][c] = i}
           c == Min(ahead)
<1>1. /\ UNCHANGED <<tokens, status, copyOf, copied, phase, start, global, state, restarted,
                     todo, existing, now, oldest, abandoned>>
      /\ phase = "streaming" /\ ahead # {}
      /\ streams' = [streams EXCEPT ![i] = c]
      /\ handled' = handled \cup {c}
  BY DEF Replicate, disk, source
<1>2. now \in Nat
  BY StartupAssumption DEF TypeInv, Facts
<1>3. c \in 1 .. now
  <2>1. ahead \in SUBSET Nat /\ ahead \subseteq 1 .. now
    OBVIOUS
  <2>2. Min(ahead) \in ahead
    <3>. HIDE DEF ahead
    <3>. QED BY <1>1, <2>1, MinOfNats
  <2>. HIDE DEF ahead
  <2>. QED BY <2>1, <2>2
<1>. HIDE DEF c, ahead
<1>4. /\ streams \in [1 .. partitions -> -1 .. now]
      /\ \A j \in 1 .. partitions : streams[j] > 0 \/ streams[j] = OpenedAt(j)
  BY <1>1 DEF TypeInv, Standing
<1>5. partitions' = partitions /\ \A j : OpenedAt(j)' = OpenedAt(j)
  BY <1>1 DEF partitions, OpenedAt, Loaded
<1>6. streams' \in [1 .. partitions -> -1 .. now]
  BY <1>1, <1>2, <1>3, <1>4
<1>7. \A j \in 1 .. partitions : streams'[j] > 0 \/ streams'[j] = OpenedAt(j)'
  BY <1>1, <1>3, <1>4, <1>5
<1>8. Standing'
  BY <1>1, <1>5, <1>6, <1>7 DEF Standing
<1>9. Facts'
  BY <1>1, <1>3 DEF TypeInv, Facts
<1>10. Named'
  BY <1>1 DEF TypeInv, Named, TokenFiles
<1>11. Running' /\ Saving' /\ Deleting'
  BY <1>1 DEF TypeInv, Running, Saving, Deleting
<1>. QED BY <1>8, <1>9, <1>10, <1>11 DEF TypeInv

(* A stream that has passed the place where it was opened stands behind a change. *)
LEMMA CheckpointFile ==
  ASSUME TypeInv, NEW i \in 1 .. partitions, Checkpoint(i)
  PROVE  /\ streams[i] \in Changes /\ streams[i] \in 1 .. now
         /\ DOMAIN tokens' = DOMAIN tokens \cup {<<partitions, i>>}
         /\ tokens'[<<partitions, i>>] = TimedToken(streams[i])
         /\ \A g \in DOMAIN tokens : g # <<partitions, i>> => tokens'[g] = tokens[g]
         /\ IsToken(TimedToken(streams[i]), now)
<1> DEFINE f == <<partitions, i>>
           t == TimedToken(streams[i])
<1>1. /\ phase = "streaming" /\ streams[i] > OpenedAt(i)
      /\ tokens' = Saved({f}, t)
  BY DEF Checkpoint
<1>2. now \in 0 .. MaxPosition /\ MaxPosition \in Nat
  BY StartupAssumption DEF TypeInv, Facts
<1>3. streams[i] \in Changes /\ streams[i] \in 1 .. now
  <2>1. streams[i] \in -1 .. now /\ (streams[i] > 0 \/ streams[i] = OpenedAt(i))
    BY <1>1 DEF TypeInv, Standing
  <2>. QED BY <1>1, <1>2, <2>1 DEF Changes
<1>4. IsToken(t, now)
  BY <1>3, StartupAssumption DEF TimedToken, IsToken
<1>5. /\ DOMAIN tokens' = DOMAIN tokens \cup {f} /\ tokens'[f] = t
      /\ \A g \in DOMAIN tokens : g # f => tokens'[g] = tokens[g]
  <2>. HIDE DEF f, t
  <2>. QED BY <1>1 DEF Saved
<1>. QED BY <1>3, <1>4, <1>5

LEMMA CheckpointTyped ==
  ASSUME TypeInv, NEW i \in 1 .. partitions, Checkpoint(i)
  PROVE  TypeInv'
<1> DEFINE f == <<partitions, i>>
           t == TimedToken(streams[i])
<1>1. /\ UNCHANGED <<status, copyOf, copied, phase, start, global, state, restarted,
                     todo, existing, streams, now, oldest, handled, abandoned>>
      /\ phase = "streaming"
  BY DEF Checkpoint, process, source, history
<1>2. /\ streams[i] \in 1 .. now /\ IsToken(t, now)
      /\ DOMAIN tokens' = DOMAIN tokens \cup {f} /\ tokens'[f] = t
      /\ \A g \in DOMAIN tokens : g # f => tokens'[g] = tokens[g]
  BY CheckpointFile
<1>. HIDE DEF t
<1>3. /\ partitions \in Counts /\ partitions \in Numbers /\ partitions' = partitions
  BY <1>1, RunningProcess DEF partitions
<1>4. now \in Nat
  BY StartupAssumption DEF TypeInv, Facts
<1>5. TokenFiles'
  <2>1. f \in PartitionFiles
    BY DEF PartitionFiles
  <2>. HIDE DEF f
  <2>. QED BY <1>1, <1>2, <1>3, <1>4, <2>1, WrittenFiles DEF TypeInv, Named
<1>6. Named'
  BY <1>2, <1>3, <1>5 DEF TypeInv, Named
<1>7. ASSUME NEW j \in 1 .. partitions
      PROVE  streams[j] > 0 \/ streams[j] = OpenedAt(j)'
  <2>1. CASE j = i
    BY <1>2, <2>1
  <2>2. CASE j # i
    <3>1. <<partitions, j>> # f
      BY <2>2
    <3>2. Loaded(<<partitions, j>>)' = Loaded(<<partitions, j>>)
      BY <1>2, <1>3, <3>1 DEF Loaded
    <3>3. OpenedAt(j)' = OpenedAt(j)
      BY <1>1, <1>3, <3>2 DEF OpenedAt
    <3>. QED BY <1>1, <3>3 DEF TypeInv, Standing
  <2>. QED BY <2>1, <2>2
<1>8. Standing'
  BY <1>1, <1>3, <1>7 DEF TypeInv, Standing
<1>9. Facts' /\ Running' /\ Saving' /\ Deleting'
  BY <1>1, <1>2 DEF TypeInv, Facts, Running, Saving, Deleting
<1>. QED BY <1>6, <1>8, <1>9 DEF TypeInv

(* The rest: the source goes on, the DLQ is written, or nothing happens. *)
LEMMA BesidesTyped ==
  ASSUME TypeInv, SourceChanges \/ HistoryExpires \/ ReprocessDLQ \/ UNCHANGED vars
  PROVE  TypeInv'
<1>1. /\ UNCHANGED <<tokens, copyOf, copied, phase, start, global, state, restarted,
                     todo, existing, streams, handled, abandoned>>
      /\ status' \in {status, "completed"}
      /\ now' \in {now, now + 1} /\ now' \in 0 .. MaxPosition /\ oldest' \in 0 .. now'
  <2>1. now \in 0 .. MaxPosition /\ oldest \in 0 .. now /\ MaxPosition \in Nat
    BY StartupAssumption DEF TypeInv, Facts
  <2>. QED BY <2>1
       DEF SourceChanges, HistoryExpires, ReprocessDLQ, vars, disk, process, source, history
<1>2. now \in Nat /\ now <= now' /\ now' \in Nat
  BY <1>1, StartupAssumption DEF TypeInv, Facts
<1>3. \A t : IsToken(t, now) => IsToken(t, now')
  BY <1>1, <1>2 DEF IsToken
<1>4. Named'
  BY <1>1, <1>3 DEF TypeInv, Named, TokenFiles
<1>5. Facts'
  <2>1. 1 .. now \subseteq 1 .. now' /\ 0 .. now \subseteq 0 .. now'
    BY <1>2
  <2>2. copied' \in BOOLEAN /\ restarted' \in BOOLEAN
    BY <1>1 DEF TypeInv, Facts
  <2>. QED BY <1>1, <1>3, <2>1, <2>2 DEF TypeInv, Facts
<1>6. Running'
  BY <1>1, <1>2, RunningProcess DEF TypeInv, Running
<1>7. PartitionFiles' = PartitionFiles /\ partitions' = partitions
      /\ \A j : OpenedAt(j)' = OpenedAt(j)
  BY <1>1 DEF PartitionFiles, partitions, OpenedAt, Loaded
<1>8. Saving' /\ Deleting'
  BY <1>1, <1>7 DEF TypeInv, Saving, Deleting
<1>9. Standing'
  <2>. SUFFICES ASSUME phase = "streaming" PROVE Standing'
    BY <1>1 DEF Standing
  <2>1. streams \in [1 .. partitions -> -1 .. now] /\ -1 .. now \subseteq -1 .. now'
    BY <1>2 DEF TypeInv, Standing
  <2>2. streams' \in [1 .. partitions -> -1 .. now']
    BY <1>1, <2>1
  <2>. QED BY <1>1, <1>7, <2>2 DEF TypeInv, Standing
<1>. QED BY <1>4, <1>5, <1>6, <1>8, <1>9 DEF TypeInv

LEMMA NextTyped == TypeInv /\ [Next]_vars => TypeInv'
<1>. SUFFICES ASSUME TypeInv, [Next]_vars PROVE TypeInv'
  OBVIOUS
<1>1. CASE \E s \in Starts : StartLive(s) \/ StartCapture(s) \/ StartMigrate(s)
  BY <1>1, StartTyped
<1>2. CASE ResolveNext
  BY <1>2, QuietTyped, ReadingTyped, DeletingTyped DEF ResolveNext
<1>3. CASE CheckNext
  BY <1>3, QuietTyped, CaptureTyped, SaveTokenTyped DEF CheckNext
<1>4. CASE BackfillNext
  BY <1>4, QuietTyped, BesidesTyped DEF BackfillNext
<1>5. CASE StreamNext
  BY <1>5, CreatingTyped, DeletingTyped, StartAgainTyped, ReplicateTyped, CheckpointTyped
     DEF StreamNext
<1>6. CASE Stop
  BY <1>6, QuietTyped
<1>7. CASE SourceChanges \/ HistoryExpires \/ UNCHANGED vars
  BY <1>7, BesidesTyped
<1>. QED BY <1>1, <1>2, <1>3, <1>4, <1>5, <1>6, <1>7 DEF Next

(* Over all modes, restarts, rescales and lost histories: the files on disk are those
   of the numbers of partitions in use, every token names a change that was made and
   its time, and what is still to be deleted is there (client_stream.go:60-260,
   resumetoken.go:360-520, migrationstate.go). *)
THEOREM StartupTypeCorrect == Spec => []TypeOK
BY InitTyped, NextTyped, TypeInvImplies, PTL DEF Spec

-----------------------------------------------------------------------------
(* Why a running replication can be started again.  With two numbers of partitions
   a rescale or a capture leaves no other files than the new ones and those that it
   is going to delete (Planned); from the check of the tokens to the streams, the
   files are complete and not hidden (Ready). *)

(* The files are those of n partitions, none of which is missing or empty. *)
Usable(n) ==
  /\ \A f \in DOMAIN tokens : f[1] <= n
  /\ \A i \in 1 .. n : <<n, i>> \in DOMAIN tokens /\ tokens[<<n, i>>] # Nil

Knowing ==
  /\ phase \in {"resolve", "rescale", "upgrade", "cleanup", "check", "begin"} =>
       Live /\ state = status
  /\ phase \in {"capture", "captured"} =>
       start.mode = "capture-resume-token" \/ (Live /\ state = status)
  /\ phase = "copy" => start.mode = "migrate" \/ Live
  /\ phase \in {"report", "open", "expired"} => Live
  /\ phase \in {"open", "streaming"} => start.dryRun \/ ~ Unfinished(status)
  /\ phase \in {"rescale", "upgrade", "cleanup", "captured"} => global # Nil

(* The files to come: each is written or on the list. *)
Listed(i) == \E k \in 1 .. Len(todo) : todo[k] = <<partitions, i>>
Planned ==
  phase \in {"rescale", "upgrade", "cleanup"} \/ (phase = "captured" /\ Live) =>
    /\ \A f \in DOMAIN tokens : f[1] \in {0, partitions} \/ f \in existing
    /\ \A f \in existing : f[1] # partitions
    /\ \A i \in 1 .. partitions :
         \/ <<partitions, i>> \in DOMAIN tokens /\ tokens[<<partitions, i>>] # Nil
         \/ phase # "cleanup" /\ Listed(i)

Ready ==
  /\ phase \in {"check", "begin", "copy", "report", "open"} /\ Live /\ global # Nil =>
       Usable(partitions)
  /\ phase = "check" /\ global = Nil => Parts = {}
  /\ phase = "capture" /\ Live => Parts = {}
  /\ phase \in {"begin", "copy", "report", "open"} /\ Live /\ global = Nil =>
       start.since # Never
  /\ phase = "streaming" /\ start.since = Never =>
       /\ Usable(partitions)
       /\ \A i \in 1 .. partitions : tokens[<<partitions, i>>].at <= streams[i]

ResumeInv == TypeInv /\ Knowing /\ Planned /\ Ready

LEMMA UsableResumes ==
  ASSUME TypeInv, partitions \in Counts
  PROVE  Usable(partitions) <=> Format = partitions /\ Complete
<1>1. partitions \in Nat \ {0}
  BY StartupAssumption DEF Counts
<1>2. /\ Format \in Nat
      /\ \A f \in DOMAIN tokens : f[1] \in Nat /\ f[1] <= Format
      /\ Format # 0 => \E f \in DOMAIN tokens : f[1] = Format
  BY FormatOfFiles DEF TypeInv, Named
<1>3. ASSUME Usable(partitions) PROVE Format = partitions
  <2>1. <<partitions, 1>> \in DOMAIN tokens
    BY <1>1, <1>3 DEF Usable
  <2>2. <<partitions, 1>>[1] <= Format
    BY ONLY <1>2, <2>1
  <2>3. partitions <= Format
    BY <2>2
  <2>4. PICK f \in DOMAIN tokens : f[1] = Format
    BY <1>1, <1>2, <2>3
  <2>5. Format <= partitions
    BY <1>3, <2>4 DEF Usable
  <2>. QED BY <1>1, <1>2, <2>3, <2>5
<1>4. ASSUME Format = partitions
      PROVE  Complete <=> \A i \in 1 .. partitions :
                            <<partitions, i>> \in DOMAIN tokens /\ tokens[<<partitions, i>>] # Nil
  <2>1. historicalTotal = partitions
    BY <1>1, <1>4 DEF historicalTotal
  <2>. QED BY <1>4, <2>1 DEF Complete, Loaded
<1>5. ASSUME Format = partitions PROVE \A f \in DOMAIN tokens : f[1] <= partitions
  BY <1>2, <1>5
<1>. QED BY <1>3, <1>4, <1>5 DEF Usable

LEMMA ResumeInvImplies == ResumeInv => RestartResumes
<1>. SUFFICES ASSUME ResumeInv, phase = "streaming", start.since = Never, ~ start.dryRun
              PROVE  /\ Format = partitions /\ Complete
                     /\ ~ Unfinished(status)
                     /\ \A i \in 1 .. partitions : Loaded(<<partitions, i>>).at <= streams[i]
  BY DEF RestartResumes
<1>1. partitions \in Counts
  BY RunningProcess DEF ResumeInv
<1>2. /\ Usable(partitions)
      /\ \A i \in 1 .. partitions : tokens[<<partitions, i>>].at <= streams[i]
  BY DEF ResumeInv, Ready
<1>3. Format = partitions /\ Complete
  BY <1>1, <1>2, UsableResumes DEF ResumeInv
<1>4. ~ Unfinished(status)
  BY DEF ResumeInv, Knowing
<1>5. \A i \in 1 .. partitions : Loaded(<<partitions, i>>).at <= streams[i]
  BY <1>2 DEF Usable, Loaded
<1>. QED BY <1>3, <1>4, <1>5

LEMMA InitResumes == Init => ResumeInv
<1>. SUFFICES ASSUME Init PROVE ResumeInv
  OBVIOUS
<1>1. TypeInv /\ phase = "down"
  BY InitTyped DEF Init, NoProcess
<1>. QED BY <1>1 DEF ResumeInv, Knowing, Planned, Ready

(* A process that ends promises nothing. *)
LEMMA EndResumes ==
  ASSUME TypeInv', Ends
  PROVE  ResumeInv'
BY DEF Ends, ResumeInv, Knowing, Planned, Ready

LEMMA StartResumes ==
  ASSUME ResumeInv, TypeInv',
         NEW s \in Starts, StartLive(s) \/ StartCapture(s) \/ StartMigrate(s)
  PROVE  ResumeInv'
<1>1. \/ phase' = "resolve" /\ start' = s /\ s.mode \in {"live", "live-only"} /\ state' = status'
      \/ phase' = "capture" /\ start' = s /\ s.mode = "capture-resume-token"
      \/ phase' = "copy" /\ start' = s /\ s.mode = "migrate"
  BY DEF StartLive, StartCapture, StartMigrate, disk
<1>2. Knowing' /\ Planned' /\ Ready'
  BY <1>1 DEF Knowing, Planned, Ready, Live
<1>. QED BY <1>2 DEF ResumeInv

(* The steps of a live process between the tokens and the streams leave the files
   as they are, and the streams are opened only when the migration is over. *)
LEMMA QuietResumes ==
  ASSUME ResumeInv, TypeInv',
         \/ RefuseIncomplete \/ RefuseContradiction \/ Proceed \/ SkipBackfill
         \/ BeginBackfill \/ SkipMigration \/ OnlyIndexes \/ EndCopy
         \/ ReportSuccess \/ ReportFailures \/ Stop
  PROVE  ResumeInv'
<1>1. CASE Ends
  BY <1>1, EndResumes
<1>2. CASE ~ Ends
  <2>1. /\ UNCHANGED <<tokens, start, global>>
        /\ \/ Proceed
           \/ BeginBackfill
           \/ SkipMigration /\ phase = "begin" /\ phase' = "open" /\ ~ Unfinished(state)
                /\ status' = status
           \/ EndCopy /\ phase = "copy" /\ phase' = "report" /\ start.mode # "migrate"
           \/ ReportSuccess
    BY <1>2 DEF RefuseIncomplete, RefuseContradiction, Proceed, SkipBackfill, BeginBackfill,
         SkipMigration, OnlyIndexes, EndCopy, ReportSuccess, ReportFailures, Stop, disk
  <2>2. /\ partitions' = partitions /\ Parts' = Parts /\ (Live' <=> Live)
        /\ (Usable(partitions)' <=> Usable(partitions))
    BY <2>1 DEF partitions, Parts, Live, Usable
  <2>3. CASE Proceed
    <3>1. /\ phase = "check"
          /\ state = status => state' = status'
          /\ phase' = IF global = Nil /\ start.since = Never THEN "capture" ELSE "begin"
      BY <2>3 DEF Proceed
    <3>2. Live /\ state' = status'
      BY <3>1 DEF ResumeInv, Knowing
    <3>3. Knowing' /\ Planned'
      BY <2>1, <2>2, <3>1, <3>2 DEF Knowing, Planned
    <3>4. Ready'
      BY <2>1, <2>2, <3>1, <3>2 DEF ResumeInv, Ready
    <3>. QED BY <3>3, <3>4 DEF ResumeInv
  <2>4. CASE BeginBackfill
    <3>1. phase = "begin" /\ phase' = "copy"
      BY <2>4 DEF BeginBackfill
    <3>. QED BY <2>1, <2>2, <3>1 DEF ResumeInv, Knowing, Planned, Ready
  <2>5. CASE SkipMigration /\ phase = "begin" /\ phase' = "open" /\ ~ Unfinished(state)
                /\ status' = status
    BY <2>1, <2>2, <2>5 DEF ResumeInv, Knowing, Planned, Ready
  <2>6. CASE EndCopy /\ phase = "copy" /\ phase' = "report" /\ start.mode # "migrate"
    BY <2>1, <2>2, <2>6 DEF ResumeInv, Knowing, Planned, Ready
  <2>7. CASE ReportSuccess
    <3>1. phase = "report" /\ phase' = "open" /\ (start.dryRun \/ status' = "completed")
      BY <2>7 DEF ReportSuccess
    <3>2. Knowing'
      BY <2>1, <2>2, <3>1 DEF ResumeInv, Knowing, Unfinished
    <3>3. Planned' /\ Ready'
      BY <2>1, <2>2, <3>1 DEF ResumeInv, Planned, Ready
    <3>. QED BY <3>2, <3>3 DEF ResumeInv
  <2>. QED BY <2>1, <2>3, <2>4, <2>5, <2>6, <2>7
<1>. QED BY <1>1, <1>2

(* Tokens that are resumed as they are. *)
LEMMA ResumeResumes ==
  ASSUME ResumeInv, TypeInv', ResumeAsBefore
  PROVE  ResumeInv'
<1>1. /\ UNCHANGED <<tokens, start, state, status>>
      /\ phase = "resolve" /\ phase' = "check" /\ Complete /\ Format = partitions
      /\ global' = Watermark
  BY DEF ResumeAsBefore, disk
<1>2. /\ partitions \in Counts /\ partitions \in Nat \ {0}
      /\ partitions' = partitions /\ (Live' <=> Live)
  BY <1>1, RunningProcess DEF ResumeInv, partitions, Live
<1>3. Usable(partitions)
  BY <1>1, <1>2, UsableResumes DEF ResumeInv
<1>4. global' # Nil
  <2>1. historicalTotal # 0
    BY <1>1, <1>2 DEF historicalTotal
  <2>. QED BY <1>1, <2>1, WatermarkTyped DEF ResumeInv, TypeInv, Named
<1>5. Usable(partitions)'
  BY <1>1, <1>2, <1>3 DEF Usable
<1>6. Knowing' /\ Planned' /\ Ready'
  BY <1>1, <1>2, <1>4, <1>5 DEF ResumeInv, Knowing, Planned, Ready
<1>. QED BY <1>6 DEF ResumeInv

(* Of two numbers in use, what is neither is both. *)
LEMMA TwoOfThem ==
  ASSUME TwoNumbers, NEW a \in Numbers, NEW b \in Numbers, NEW c \in Numbers, a # b, a # c
  PROVE  b = c
<1>. SUFFICES ASSUME b # c PROVE FALSE
  OBVIOUS
<1>1. IsFiniteSet(Numbers) /\ Cardinality(Numbers) <= 2
  <2>1. Numbers \subseteq 1 .. MaxPartitions /\ MaxPartitions \in Nat
    BY StartupAssumption DEF Numbers
  <2>2. IsFiniteSet(1 .. MaxPartitions)
    BY <2>1, FS_Interval
  <2>3. IsFiniteSet(Numbers)
    BY <2>1, <2>2, FS_Subset
  <2>. QED BY <2>3 DEF TwoNumbers, Numbers
<1>2. {a, b, c} \in SUBSET Numbers
  OBVIOUS
<1>3. Cardinality({a, b, c}) <= Cardinality(Numbers) /\ IsFiniteSet({a, b, c})
  BY <1>1, <1>2, FS_Subset
<1>4. Cardinality({a, b, c}) = 3
  <2>1. IsFiniteSet({a}) /\ Cardinality({a}) = 1
    BY FS_Singleton
  <2>2. IsFiniteSet({a} \cup {b}) /\ Cardinality({a} \cup {b}) = 2
    BY <2>1, FS_AddElement
  <2>3. Cardinality(({a} \cup {b}) \cup {c}) = 3
    BY <2>2, FS_AddElement
  <2>4. ({a} \cup {b}) \cup {c} = {a, b, c}
    OBVIOUS
  <2>. QED BY <2>3, <2>4
<1>5. Cardinality(Numbers) \in Nat
  BY <1>1, FS_CardinalityType
<1>. QED BY <1>1, <1>3, <1>4, <1>5


(* A list that begins with the files of n partitions has each of them. *)
LEMMA FilesListed ==
  ASSUME NEW n \in Nat, NEW T, NEW rest \in Seq(T)
  PROVE  \A i \in 1 .. n :
           /\ \E k \in 1 .. Len(Files(n)) : Files(n)[k] = <<n, i>>
           /\ \E k \in 1 .. Len(Files(n) \o rest) : (Files(n) \o rest)[k] = <<n, i>>
<1> DEFINE U == T \cup ({n} \X (1 .. n))
           first == Files(n)
<1>1. first \in Seq(U) /\ Len(first) = n /\ \A i \in 1 .. n : first[i] = <<n, i>>
  BY DEF Files
<1>2. rest \in Seq(U)
  BY SeqMonotonic
<1>. HIDE DEF U, first
<1>3. TAKE i \in 1 .. n
<1>4. Len(first \o rest) = Len(first) + Len(rest) /\ (first \o rest)[i] = first[i]
      /\ Len(rest) \in Nat
  <2>1. Len(first \o rest) = Len(first) + Len(rest) /\ Len(rest) \in Nat
    BY <1>1, <1>2, ConcatProperties, LenProperties
  <2>2. i \in 1 .. Len(first) + Len(rest) /\ i <= Len(first)
    BY <1>1, <2>1
  <2>3. (first \o rest)[i] = first[i]
    BY <1>1, <1>2, <2>2, ConcatProperties
  <2>. QED BY <2>1, <2>3
<1>5. i \in 1 .. Len(first) /\ i \in 1 .. Len(first \o rest)
  BY <1>1, <1>4
<1>. QED BY <1>1, <1>4, <1>5 DEF first

(* Of two numbers, that of the old files and the new one, there is no third. *)
LEMMA RescaleResumes ==
  ASSUME TwoNumbers, ResumeInv, TypeInv', Rescale
  PROVE  ResumeInv'
<1>1. /\ UNCHANGED <<tokens, start, state, status>>
      /\ phase = "resolve" /\ phase' = "rescale"
      /\ historicalTotal # 0 /\ Complete /\ Format # partitions
      /\ global' = Watermark /\ todo' = Files(partitions) /\ existing' = Active
  BY DEF Rescale, disk
<1>2. /\ partitions \in Numbers /\ partitions \in Nat \ {0}
      /\ partitions' = partitions /\ (Live' <=> Live)
  BY <1>1, RunningProcess DEF ResumeInv, partitions, Live
<1>3. TokenFiles /\ \A f \in DOMAIN tokens : f[1] \in {0} \cup Numbers
  BY DEF ResumeInv, TypeInv, Named
<1>4. global' # Nil
  BY <1>1, <1>3, WatermarkTyped
<1>5. ASSUME NEW f \in DOMAIN tokens
      PROVE  f[1] \in {0, partitions} \/ f \in Active
  <2>. SUFFICES ASSUME f[1] # 0, f[1] # partitions PROVE f \in Active
    OBVIOUS
  <2>1. /\ f[1] \in Numbers /\ f[1] \in Nat /\ f[1] <= Format /\ Format \in Nat
        /\ (Format # 0 => \E g \in DOMAIN tokens : g[1] = Format)
    BY <1>3, FormatOfFiles
  <2>2. Format # 0
    BY <2>1
  <2>3. Format \in Numbers
    BY <1>3, <2>1, <2>2
  <2>4. f[1] = Format
    BY <1>1, <1>2, <2>1, <2>3, TwoOfThem
  <2>5. f # Global
    BY DEF Global
  <2>. QED BY <2>4, <2>5 DEF Active
<1>6. \A f \in Active : f[1] # partitions
  BY <1>1 DEF Active
<1>7. \A i \in 1 .. partitions : \E k \in 1 .. Len(todo') : todo'[k] = <<partitions, i>>
  <2>1. <<>> \in Seq({})
    OBVIOUS
  <2>. QED BY <1>1, <1>2, <2>1, FilesListed
<1>8. \A i \in 1 .. partitions : Listed(i)'
  BY <1>2, <1>7 DEF Listed
<1>9. Planned'
  BY <1>1, <1>2, <1>5, <1>6, <1>8 DEF Planned
<1>10. Knowing' /\ Ready'
  BY <1>1, <1>2, <1>4 DEF ResumeInv, Knowing, Ready
<1>. QED BY <1>9, <1>10 DEF ResumeInv

(* Nothing but the file of all streams is there when it becomes that of each. *)
LEMMA UpgradeResumes ==
  ASSUME ResumeInv, TypeInv', Upgrade
  PROVE  ResumeInv'
<1>1. /\ UNCHANGED <<tokens, start, state, status, global, existing>>
      /\ phase = "resolve" /\ historicalTotal = 0
      /\ \/ global = Nil /\ phase' = "check"
         \/ global # Nil /\ phase' = "upgrade" /\ todo' = Files(partitions)
  BY DEF Upgrade, disk
<1>2. /\ partitions \in Nat \ {0}
      /\ partitions' = partitions /\ (Live' <=> Live) /\ Parts' = Parts
  BY <1>1, RunningProcess DEF ResumeInv, partitions, Live, Parts
<1>3. Parts = {}
  BY <1>1, TotalOfFiles DEF ResumeInv, TypeInv, Named
<1>4. existing' = {}
  BY <1>1 DEF ResumeInv, TypeInv, Deleting
<1>5. phase' = "upgrade" => \A i \in 1 .. partitions : Listed(i)'
  <2>. SUFFICES ASSUME phase' = "upgrade"
                PROVE  \A i \in 1 .. partitions :
                         \E k \in 1 .. Len(todo') : todo'[k] = <<partitions, i>>
    BY <1>2 DEF Listed
  <2>1. <<>> \in Seq({})
    OBVIOUS
  <2>. QED BY <1>1, <1>2, <2>1, FilesListed
<1>6. \A f \in DOMAIN tokens : f[1] = 0
  BY <1>3 DEF Parts, Global
<1>7. Planned'
  BY <1>1, <1>2, <1>4, <1>5, <1>6 DEF Planned
<1>8. Knowing' /\ Ready'
  BY <1>1, <1>2, <1>3 DEF ResumeInv, Knowing, Ready
<1>. QED BY <1>7, <1>8 DEF ResumeInv

(* A live process captures a token only when there is no file of any partition. *)
LEMMA CaptureResumes ==
  ASSUME ResumeInv, TypeInv', Capture
  PROVE  ResumeInv'
<1>1. /\ UNCHANGED <<tokens, start, state, status, existing>>
      /\ phase = "capture" /\ phase' = "captured"
      /\ global' = Token(now)
      /\ todo' = Files(partitions) \o IF partitions = 1 THEN <<Global>> ELSE <<>>
  BY DEF Capture, disk
<1>2. /\ partitions \in Nat \ {0}
      /\ partitions' = partitions /\ (Live' <=> Live)
  BY <1>1, RunningProcess DEF ResumeInv, partitions, Live
<1>3. global' # Nil
  <2>1. now \in Nat
    BY StartupAssumption DEF ResumeInv, TypeInv, Facts
  <2>2. Token(now).at = now /\ Nil.at = -1
    BY DEF Token, Nil
  <2>. QED BY <1>1, <2>1, <2>2
<1>4. existing' = {}
  BY <1>1 DEF ResumeInv, TypeInv, Deleting
<1>5. \A i \in 1 .. partitions : Listed(i)'
  <2> DEFINE rest == IF partitions = 1 THEN <<Global>> ELSE <<>>
  <2>1. rest \in Seq({Global})
    <3>1. <<Global>> \in Seq({Global}) /\ <<>> \in Seq({Global})
      OBVIOUS
    <3>. QED BY <3>1
  <2>. HIDE DEF rest
  <2>2. \A i \in 1 .. partitions :
          \E k \in 1 .. Len(Files(partitions) \o rest) :
            (Files(partitions) \o rest)[k] = <<partitions, i>>
    BY <1>2, <2>1, FilesListed
  <2>. QED BY <1>1, <1>2, <2>2 DEF Listed, rest
<1>6. Live => \A f \in DOMAIN tokens : f[1] = 0
  BY <1>1 DEF ResumeInv, Ready, Parts, Global
<1>7. Planned'
  BY <1>1, <1>2, <1>4, <1>5, <1>6 DEF Planned
<1>8. Knowing' /\ Ready'
  BY <1>1, <1>2, <1>3 DEF ResumeInv, Knowing, Ready
<1>. QED BY <1>7, <1>8 DEF ResumeInv


(* A file that is on the list is written now, or stays on it. *)
LEMMA ListShortened ==
  ASSUME TypeInv, SaveToken, global # Nil, NEW i \in 1 .. partitions,
         \/ <<partitions, i>> \in DOMAIN tokens /\ tokens[<<partitions, i>>] # Nil
         \/ Listed(i)
  PROVE  \/ <<partitions, i>> \in DOMAIN tokens' /\ tokens'[<<partitions, i>>] # Nil
         \/ todo' # <<>> /\ Listed(i)'
<1> DEFINE f == <<partitions, i>>
           T == PartitionFiles \cup {Global}
<1>1. /\ DOMAIN tokens' = DOMAIN tokens \cup {Head(todo)}
      /\ tokens'[Head(todo)] = global
      /\ \A g \in DOMAIN tokens' : g # Head(todo) => g \in DOMAIN tokens /\ tokens'[g] = tokens[g]
  BY FileSaved
<1>2. todo' = Tail(todo) /\ partitions' = partitions
  BY DEF SaveToken, partitions
<1>3. todo \in Seq(T) /\ todo # <<>>
  <2>1. phase \in {"rescale", "upgrade", "captured"}
    BY DEF SaveToken
  <2>. QED BY <2>1, SeqMonotonic DEF TypeInv, Saving
<1>4. CASE f \in DOMAIN tokens /\ tokens[f] # Nil
  <2>. HIDE DEF f
  <2>1. f \in DOMAIN tokens' /\ tokens'[f] # Nil
    BY <1>1, <1>4
  <2>. QED BY <2>1 DEF f
<1>5. CASE Listed(i)
  <2>1. PICK k \in 1 .. Len(todo) : todo[k] = f
    BY <1>5 DEF Listed
  <2>. HIDE DEF f, T
  <2>2. Head(todo) = todo[1] /\ Len(todo) \in Nat
    BY <1>3, HeadTailProperties, LenProperties
  <2>3. CASE k = 1
    <3>1. f \in DOMAIN tokens' /\ tokens'[f] # Nil
      BY <1>1, <2>1, <2>2, <2>3
    <3>. QED BY <3>1 DEF f
  <2>4. CASE k # 1
    <3>1. /\ Len(Tail(todo)) = Len(todo) - 1
          /\ k - 1 \in 1 .. Len(Tail(todo)) /\ Tail(todo)[k - 1] = todo[k]
      <4>1. Len(Tail(todo)) = Len(todo) - 1
        BY <1>3, HeadTailProperties
      <4>2. k - 1 \in 1 .. Len(Tail(todo)) /\ (k - 1) + 1 = k
        BY <2>1, <2>2, <2>4, <4>1
      <4>3. Tail(todo)[k - 1] = todo[(k - 1) + 1]
        BY <1>3, <4>2, HeadTailProperties
      <4>. QED BY <4>1, <4>2, <4>3
    <3>2. Len(<<>>) = 0 /\ Len(Tail(todo)) # 0
      BY <2>2, <3>1
    <3>3. Tail(todo) # <<>>
      BY ONLY <3>2, Zenon
    <3>4. \E j \in 1 .. Len(todo') : todo'[j] = f
      BY <1>2, <2>1, <3>1
    <3>. QED BY <1>2, <3>3, <3>4 DEF Listed, f
  <2>. QED BY <2>3, <2>4
<1>. QED BY <1>4, <1>5

(* When the list is done all files of the new number have a token, and the old ones
   are those that CleanUp is going to delete. *)
LEMMA SaveTokenResumes ==
  ASSUME ResumeInv, TypeInv', SaveToken
  PROVE  ResumeInv'
<1>1. /\ UNCHANGED <<status, start, state, global, existing>>
      /\ phase \in {"rescale", "upgrade", "captured"}
      /\ phase' = IF todo' = <<>> THEN AfterSaving ELSE phase
  BY DEF SaveToken
<1>2. /\ partitions \in Nat \ {0}
      /\ partitions' = partitions /\ (Live' <=> Live)
  BY <1>1, RunningProcess DEF ResumeInv, partitions, Live
<1>3. TypeInv /\ global # Nil
  BY <1>1 DEF ResumeInv, Knowing
<1>4. phase' = IF todo' # <<>> THEN phase ELSE
               IF phase = "rescale" THEN "cleanup" ELSE
               IF phase = "upgrade" THEN "check" ELSE
               IF start.mode = "capture-resume-token" THEN "skip" ELSE "begin"
  BY <1>1, AfterSavingIs
<1>5. Knowing'
  BY <1>1, <1>2, <1>3, <1>4 DEF ResumeInv, Knowing
<1>6. CASE phase = "captured" /\ ~ Live
  <2>1. start.mode = "capture-resume-token"
    BY <1>6 DEF ResumeInv, Knowing
  <2>2. phase' \in {"captured", "skip"}
    BY <1>4, <1>6, <2>1
  <2>3. Planned' /\ Ready'
    BY <1>2, <1>6, <2>2 DEF Planned, Ready
  <2>. QED BY <1>5, <2>3 DEF ResumeInv
<1>7. CASE phase # "captured" \/ Live
  <2>1. /\ \A f \in DOMAIN tokens : f[1] \in {0, partitions} \/ f \in existing
        /\ \A f \in existing : f[1] # partitions
        /\ \A i \in 1 .. partitions :
             \/ <<partitions, i>> \in DOMAIN tokens /\ tokens[<<partitions, i>>] # Nil
             \/ Listed(i)
    BY <1>1, <1>7 DEF ResumeInv, Planned
  <2>2. \A f \in DOMAIN tokens' : f[1] \in {0, partitions} \/ f \in existing
    <3>1. Head(todo)[1] \in {0, partitions}
      <4>1. \A f \in PartitionFiles : f[1] = partitions
        BY DEF PartitionFiles
      <4>2. Global[1] = 0
        BY DEF Global
      <4>. QED BY <1>3, <4>1, <4>2, FileSaved
    <3>. QED BY <1>3, <2>1, <3>1, FileSaved
  <2>3. \A i \in 1 .. partitions :
          \/ <<partitions, i>> \in DOMAIN tokens' /\ tokens'[<<partitions, i>>] # Nil
          \/ todo' # <<>> /\ Listed(i)'
    BY <1>3, <2>1, ListShortened
  <2>4. CASE todo' # <<>>
    <3>1. phase' = phase
      BY <1>4, <2>4
    <3>2. Planned'
      BY <1>1, <1>2, <2>1, <2>2, <2>3, <3>1 DEF Planned
    <3>3. Ready'
      BY <1>1, <3>1 DEF Ready
    <3>. QED BY <1>5, <3>2, <3>3 DEF ResumeInv
  <2>5. CASE todo' = <<>>
    <3>1. \A i \in 1 .. partitions :
            <<partitions, i>> \in DOMAIN tokens' /\ tokens'[<<partitions, i>>] # Nil
      BY <2>3, <2>5
    <3>2. CASE phase' = "cleanup"
      BY <1>1, <1>2, <1>5, <2>1, <2>2, <3>1, <3>2 DEF ResumeInv, Planned, Ready
    <3>3. CASE phase' # "cleanup"
      <4>1. phase' \in {"check", "begin", "skip"} /\ phase \in {"upgrade", "captured"}
        BY <1>1, <1>4, <2>5, <3>3
      <4>2. existing = {}
        BY <4>1 DEF ResumeInv, TypeInv, Deleting
      <4>3. \A f \in DOMAIN tokens' : f[1] <= partitions
        BY <1>2, <2>2, <4>2
      <4>4. Usable(partitions)'
        BY <1>2, <3>1, <4>3 DEF Usable
      <4>5. Planned' /\ Ready'
        BY <1>1, <1>3, <4>1, <4>4 DEF Planned, Ready
      <4>. QED BY <1>5, <4>5 DEF ResumeInv
    <3>. QED BY <3>2, <3>3
  <2>. QED BY <2>4, <2>5
<1>. QED BY <1>6, <1>7

(* The new files stay, and with the last of the old ones nothing hides them. *)
LEMMA CleanUpResumes ==
  ASSUME ~ DeletesCanFail, ResumeInv, TypeInv', CleanUp
  PROVE  ResumeInv'
<1>1. /\ UNCHANGED <<status, start, state, global>>
      /\ phase = "cleanup" /\ phase' = IF existing' = {} THEN "check" ELSE "cleanup"
  BY DEF CleanUp
<1>2. PICK f \in existing : existing' = existing \ {f} /\ tokens' = Deleted(f)
  BY DEF CleanUp
<1>3. /\ partitions \in Nat \ {0}
      /\ partitions' = partitions /\ (Live' <=> Live) /\ Live
  BY <1>1, RunningProcess DEF ResumeInv, Knowing, partitions, Live
<1>4. /\ \A g \in DOMAIN tokens : g[1] \in {0, partitions} \/ g \in existing
      /\ \A g \in existing : g[1] # partitions
      /\ \A i \in 1 .. partitions :
           <<partitions, i>> \in DOMAIN tokens /\ tokens[<<partitions, i>>] # Nil
  BY <1>1 DEF ResumeInv, Planned
<1>5. /\ DOMAIN tokens' = DOMAIN tokens \ {f}
      /\ \A g \in DOMAIN tokens' : tokens'[g] = tokens[g]
  BY <1>2 DEF Deleted
<1>6. \A g \in DOMAIN tokens' : g[1] \in {0, partitions} \/ g \in existing'
  BY <1>2, <1>4, <1>5
<1>7. \A i \in 1 .. partitions :
        <<partitions, i>> \in DOMAIN tokens' /\ tokens'[<<partitions, i>>] # Nil
  <2>1. TAKE i \in 1 .. partitions
  <2>2. <<partitions, i>>[1] = partitions
    OBVIOUS
  <2>3. <<partitions, i>> # f
    BY <1>2, <1>4, <2>2
  <2>. QED BY <1>4, <1>5, <2>3
<1>8. Knowing'
  BY <1>1, <1>3 DEF ResumeInv, Knowing
<1>9. Planned'
  BY <1>1, <1>2, <1>3, <1>4, <1>6, <1>7 DEF Planned
<1>10. Ready'
  <2>1. phase' = "check" => Usable(partitions)'
    BY <1>1, <1>3, <1>6, <1>7 DEF Usable
  <2>2. global' # Nil
    BY <1>1 DEF ResumeInv, Knowing
  <2>. QED BY <1>1, <2>1, <2>2 DEF Ready
<1>. QED BY <1>8, <1>9, <1>10 DEF ResumeInv


(* The streams are opened where the files say, or at the time that was asked for. *)
LEMMA CreatingResumes ==
  ASSUME ResumeInv, TypeInv', Open \/ HistoryLost
  PROVE  ResumeInv'
<1>1. /\ UNCHANGED <<status, start, global>>
      /\ phase = "open" /\ phase' \in {"streaming", "expired"} /\ CreateMissing
      /\ phase' = "streaming" => streams' = [i \in 1 .. partitions |-> OpenedAt(i)]
  BY DEF Open, HistoryLost
<1>2. /\ partitions \in Nat \ {0} /\ partitions \in Counts
      /\ partitions' = partitions /\ (Live' <=> Live) /\ Live
  BY <1>1, RunningProcess DEF ResumeInv, Knowing, partitions, Live
<1>3. Knowing' /\ Planned'
  BY <1>1, <1>2 DEF ResumeInv, Knowing, Planned
<1>4. ASSUME phase' = "streaming", start.since = Never
      PROVE  /\ Usable(partitions)'
             /\ \A i \in 1 .. partitions : tokens'[<<partitions, i>>].at <= streams'[i]
  <2>1. Usable(partitions)
    BY <1>1, <1>2, <1>4 DEF ResumeInv, Ready
  <2>2. {<<partitions, i>> : i \in 1 .. partitions} \ DOMAIN tokens = {}
    BY <2>1 DEF Usable
  <2>3. DOMAIN tokens' = DOMAIN tokens /\ \A f \in DOMAIN tokens : tokens'[f] = tokens[f]
    BY <1>1, <2>2 DEF CreateMissing, Saved
  <2>4. Usable(partitions)'
    BY <1>2, <2>1, <2>3 DEF Usable
  <2>5. ASSUME NEW i \in 1 .. partitions
        PROVE  tokens'[<<partitions, i>>].at <= streams'[i]
    <3> DEFINE f == <<partitions, i>>
    <3>1. f \in DOMAIN tokens /\ tokens[f] # Nil
      BY <2>1 DEF Usable
    <3>2. streams'[i] = OpenedAt(i)
      BY <1>1, <1>4
    <3>3. Loaded(f) = tokens[f]
      BY <3>1 DEF Loaded
    <3>4. OpenedAt(i) = tokens[f].at
      BY <3>1, <3>3 DEF OpenedAt
    <3>5. tokens[f].at \in Int
      <4>1. now \in Nat /\ IsToken(tokens[f], now)
        BY <3>1, StartupAssumption DEF ResumeInv, TypeInv, Facts, Named, TokenFiles
      <4>. QED BY <4>1, TokenPositions
    <3>6. tokens'[f] = tokens[f]
      BY <2>3, <3>1
    <3>. HIDE DEF f
    <3>7. tokens'[f].at <= streams'[i]
      BY <3>2, <3>4, <3>5, <3>6
    <3>. QED BY <3>7 DEF f
  <2>. QED BY <2>4, <2>5
<1>5. Ready'
  BY <1>1, <1>2, <1>4 DEF Ready
<1>. QED BY <1>3, <1>5 DEF ResumeInv

(* A lost history promises nothing about the files. *)
LEMMA ExpiredResumes ==
  ASSUME ResumeInv, TypeInv', DeleteToken \/ StartAgain
  PROVE  ResumeInv'
<1>1. CASE DeleteToken
  <2>1. phase = "expired" /\ phase' = "expired" /\ start' = start
    BY <1>1 DEF DeleteToken
  <2>. QED BY <2>1 DEF ResumeInv, Knowing, Planned, Ready, Live
<1>2. CASE StartAgain
  <2>1. /\ phase = "expired" /\ phase' = "resolve" /\ start' = [start EXCEPT !.since = Never]
        /\ state' = status'
    BY <1>2 DEF StartAgain
  <2>2. start \in Invoked
    BY <2>1, RunningProcess DEF ResumeInv
  <2>3. start'.mode = start.mode
    BY <2>1, <2>2, StartupAssumption DEF Invoked
  <2>. QED BY <2>1, <2>3 DEF ResumeInv, Knowing, Planned, Ready, Live
<1>. QED BY <1>1, <1>2

(* A stream only gains on its token. *)
LEMMA ReplicateResumes ==
  ASSUME ResumeInv, TypeInv', NEW i \in 1 .. partitions, Replicate(i)
  PROVE  ResumeInv'
<1> DEFINE ahead == {c \in 1 .. now : c > streams[i] /\ PartitionOf[partitions][c] = i}
           c == Min(ahead)
<1>1. /\ UNCHANGED <<tokens, status, phase, start, global, state>>
      /\ phase = "streaming" /\ ahead # {}
      /\ streams' = [streams EXCEPT ![i] = c]
  BY DEF Replicate, disk
<1>2. now \in Nat /\ partitions' = partitions
  BY <1>1, StartupAssumption DEF ResumeInv, TypeInv, Facts, partitions
<1>3. c > streams[i] /\ c \in Nat
  <2>1. ahead \in SUBSET Nat
    OBVIOUS
  <2>2. c \in ahead
    <3>. HIDE DEF ahead
    <3>. QED BY <1>1, <2>1, MinOfNats
  <2>. HIDE DEF c
  <2>. QED BY <2>2
<1>. HIDE DEF c, ahead
<1>4. streams \in [1 .. partitions -> -1 .. now]
  BY <1>1 DEF ResumeInv, TypeInv, Standing
<1>5. Knowing' /\ Planned'
  BY <1>1 DEF ResumeInv, Knowing, Planned
<1>6. ASSUME start.since = Never
      PROVE  /\ Usable(partitions)'
             /\ \A j \in 1 .. partitions : tokens'[<<partitions, j>>].at <= streams'[j]
  <2>1. /\ Usable(partitions)
        /\ \A j \in 1 .. partitions : tokens[<<partitions, j>>].at <= streams[j]
    BY <1>1, <1>6 DEF ResumeInv, Ready
  <2>2. Usable(partitions)'
    BY <1>1, <1>2, <2>1 DEF Usable
  <2>3. ASSUME NEW j \in 1 .. partitions
        PROVE  tokens'[<<partitions, j>>].at <= streams'[j]
    <3> DEFINE f == <<partitions, j>>
    <3>1. f \in DOMAIN tokens /\ tokens[f].at <= streams[j]
      BY <2>1 DEF Usable
    <3>2. tokens[f].at \in Int
      <4>1. IsToken(tokens[f], now)
        BY <3>1 DEF ResumeInv, TypeInv, Named, TokenFiles
      <4>. QED BY <1>2, <4>1, TokenPositions
    <3>3. streams'[j] = IF j = i THEN c ELSE streams[j]
      BY <1>1, <1>4
    <3>4. streams[j] \in Int /\ streams[i] \in Int
      BY <1>2, <1>4
    <3>. HIDE DEF f
    <3>5. tokens[f].at <= streams'[j]
      BY <1>3, <3>1, <3>2, <3>3, <3>4
    <3>. QED BY <1>1, <3>5 DEF f
  <2>. QED BY <2>2, <2>3
<1>7. Ready'
  BY <1>1, <1>2, <1>6 DEF Ready
<1>. QED BY <1>5, <1>7 DEF ResumeInv

(* A token is saved for the place its stream has reached. *)
LEMMA CheckpointResumes ==
  ASSUME ResumeInv, TypeInv', NEW i \in 1 .. partitions, Checkpoint(i)
  PROVE  ResumeInv'
<1> DEFINE f == <<partitions, i>>
           t == TimedToken(streams[i])
<1>1. /\ UNCHANGED <<status, phase, start, global, state, streams>>
      /\ phase = "streaming"
  BY DEF Checkpoint, process
<1>2. /\ streams[i] \in 1 .. now
      /\ DOMAIN tokens' = DOMAIN tokens \cup {f} /\ tokens'[f] = t
      /\ \A g \in DOMAIN tokens : g # f => tokens'[g] = tokens[g]
  BY CheckpointFile DEF ResumeInv
<1>3. now \in Nat /\ partitions' = partitions
  BY <1>1, StartupAssumption DEF ResumeInv, TypeInv, Facts, partitions
<1>4. t.at = streams[i] /\ t # Nil
  <2>1. t.at = streams[i] /\ Nil.at = -1
    BY DEF TimedToken, Nil
  <2>. QED BY <1>2, <1>3, <2>1
<1>. HIDE DEF t
<1>5. Knowing' /\ Planned'
  BY <1>1 DEF ResumeInv, Knowing, Planned
<1>6. ASSUME start.since = Never
      PROVE  /\ Usable(partitions)'
             /\ \A j \in 1 .. partitions : tokens'[<<partitions, j>>].at <= streams'[j]
  <2>1. /\ Usable(partitions)
        /\ \A j \in 1 .. partitions : tokens[<<partitions, j>>].at <= streams[j]
    BY <1>1, <1>6 DEF ResumeInv, Ready
  <2>2. f \in DOMAIN tokens
    BY <2>1 DEF Usable
  <2>3. DOMAIN tokens' = DOMAIN tokens
    BY <1>2, <2>2
  <2>4. ASSUME NEW j \in 1 .. partitions
        PROVE  /\ tokens'[<<partitions, j>>] # Nil
               /\ tokens'[<<partitions, j>>].at <= streams'[j]
    <3> DEFINE g == <<partitions, j>>
    <3>1. g \in DOMAIN tokens /\ tokens[g] # Nil /\ tokens[g].at <= streams[j]
      BY <2>1 DEF Usable
    <3>2. CASE j = i
      BY <1>1, <1>2, <1>3, <1>4, <3>2
    <3>3. CASE j # i
      <4>1. g # f
        BY <3>3
      <4>2. tokens'[g] = tokens[g]
        BY <1>2, <3>1, <4>1
      <4>. QED BY <1>1, <3>1, <4>2
    <3>. QED BY <3>2, <3>3
  <2>5. Usable(partitions)'
    BY <1>3, <2>1, <2>3, <2>4 DEF Usable
  <2>. QED BY <2>4, <2>5
<1>7. Ready'
  BY <1>1, <1>3, <1>6 DEF Ready
<1>. QED BY <1>5, <1>7 DEF ResumeInv

(* What happens beside a process leaves it and the files alone. *)
LEMMA BesidesResumes ==
  ASSUME ResumeInv, TypeInv',
         SourceChanges \/ HistoryExpires \/ ReprocessDLQ \/ UNCHANGED vars
  PROVE  ResumeInv'
<1>1. /\ UNCHANGED <<tokens, phase, start, global, state, todo, existing, streams>>
      /\ status' = status \/ phase = "down"
  BY DEF SourceChanges, HistoryExpires, ReprocessDLQ, vars, disk, process
<1>2. /\ partitions' = partitions /\ Parts' = Parts /\ (Live' <=> Live)
      /\ (Usable(partitions)' <=> Usable(partitions))
      /\ \A i : Listed(i)' <=> Listed(i)
  BY <1>1 DEF partitions, Parts, Live, Usable, Listed
<1>3. Knowing'
  BY <1>1, <1>2 DEF ResumeInv, Knowing
<1>4. Planned'
  BY <1>1, <1>2 DEF ResumeInv, Planned
<1>5. Ready'
  BY <1>1, <1>2 DEF ResumeInv, Ready
<1>. QED BY <1>3, <1>4, <1>5 DEF ResumeInv

LEMMA NextResumes ==
  ASSUME ~ DeletesCanFail, TwoNumbers, ResumeInv, [Next]_vars
  PROVE  ResumeInv'
<1>1. TypeInv'
  BY NextTyped DEF ResumeInv
<1>2. CASE \E s \in Starts : StartLive(s) \/ StartCapture(s) \/ StartMigrate(s)
  BY <1>1, <1>2, StartResumes
<1>3. CASE ResolveNext
  BY <1>1, <1>3, QuietResumes, ResumeResumes, RescaleResumes, CleanUpResumes, UpgradeResumes
     DEF ResolveNext
<1>4. CASE CheckNext
  BY <1>1, <1>4, QuietResumes, CaptureResumes, SaveTokenResumes DEF CheckNext
<1>5. CASE BackfillNext
  BY <1>1, <1>5, QuietResumes, BesidesResumes DEF BackfillNext
<1>6. CASE StreamNext
  BY <1>1, <1>6, CreatingResumes, ExpiredResumes, ReplicateResumes, CheckpointResumes
     DEF StreamNext
<1>7. CASE Stop
  BY <1>1, <1>7, QuietResumes
<1>8. CASE SourceChanges \/ HistoryExpires \/ UNCHANGED vars
  BY <1>1, <1>8, BesidesResumes
<1>. QED BY <1>2, <1>3, <1>4, <1>5, <1>6, <1>7, <1>8 DEF Next

(* README, Failure recovery: "Replication resumes precisely from the last checkpoint".
   With no more than two numbers of partitions in use, and if old token files can be
   deleted, streams that run from tokens can always be started again from the files on
   disk: none is missing, empty, ahead of its stream or hidden by those of another
   number, however many rescales, captures and upgrades were interrupted before
   (client_stream.go:60-260).  No event time is involved. *)
THEOREM RestartsResume == ~ DeletesCanFail => (Spec => []RestartResumes)
<1>1. CASE ~ TwoNumbers
  <2>1. TypeInv => RestartResumes
    BY <1>1 DEF RestartResumes
  <2>. QED BY <2>1, InitTyped, NextTyped, PTL DEF Spec
<1>2. CASE TwoNumbers
  <2>. SUFFICES ASSUME ~ DeletesCanFail PROVE Spec => []RestartResumes
    OBVIOUS
  <2>1. Init => ResumeInv
    BY InitResumes
  <2>2. ResumeInv /\ [Next]_vars => ResumeInv'
    BY <1>2, NextResumes
  <2>3. ResumeInv => RestartResumes
    BY ResumeInvImplies
  <2>. QED BY <2>1, <2>2, <2>3, PTL DEF Spec
<1>. QED BY <1>1, <1>2
=============================================================================
