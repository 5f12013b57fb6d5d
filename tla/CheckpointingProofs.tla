------------------------ MODULE CheckpointingProofs ------------------------
(***************************************************************************)
(* Proofs about saving, rotating and resuming checkpoints: for any number  *)
(* of ranks, epochs, batches and crashes, any save frequency and any set   *)
(* of configurations of the five trainers.                                 *)
(***************************************************************************)
EXTENDS Checkpointing, FiniteSetTheorems, SequenceTheorems, TLAPS

-----------------------------------------------------------------------------
(* Types, and how far the counters get. *)

AllRoles == {"actor", "critic"}
Positions == [pass : Nat, pos : 0 .. N]
Folder == [made : BOOLEAN, actor : [Ranks -> Shards], critic : [Ranks -> Shards],
           data : Positions \cup {NoData, TornData}]

InSave == pc \in {"capacity", "shards", "data", "truncate", "tracker"}
Busy == pc \in {"prefetch", "step", "post"} \/ InSave
Up == Busy \/ pc = "done"

\* The types of the variables; of the dataloader's position on disk it tells apart
\* a position, no file and a torn file.
TypeInv ==
    /\ config \in Configs
    /\ disk \in [Steps -> Folder]
    /\ tracker \in {Absent, Torn} \cup Steps
    /\ pc \in {"load", "prefetch", "step", "capacity", "shards", "data", "truncate",
               "tracker", "post", "done", "failed"}
    /\ role \in Roles /\ written \subseteq Ranks
    /\ global_steps \in Nat /\ local_step \in 1 .. trigger_parameter_sync_step
    /\ last_ckpt \in Nat
    /\ pass \in Nat /\ pos \in 0 .. N /\ epoch \in Nat
    /\ queue \in Seq(Nat \cup {Absent}) /\ (kind # "one_step" => queue \in Seq(Nat))
    /\ fed \in Nat /\ feeding \in BOOLEAN
    /\ weights \in Shards
    /\ previous_saved_paths \in [actor : Seq(Steps), critic : Seq(Steps)]
    /\ run \in 0 .. MaxCrashes

\* Every start of the job adds at most one step beyond the last one.
Cap == total_steps + run
StepInv ==
    /\ tracker \in Steps => tracker <= Cap /\ (pc = "load" => tracker < Cap)
    /\ pc = "load" /\ run = 0 => tracker = Absent
    /\ Busy => global_steps <= Cap
    /\ global_steps <= Cap + 1 /\ last_ckpt <= Cap

\* one_step has a batch in flight until its last step.
FlightInv ==
    kind = "one_step" =>
        /\ pc = "step" => queue # <<>>
        /\ (pc = "post" \/ InSave) /\ ~is_last_step => queue # <<>>

\* Only one_step has a batch generated before its first step, and fully_async counts
\* versions where the others count steps.
PrefetchInv ==
    /\ pc = "prefetch" => kind = "one_step"
    /\ pc = "post" => kind # "fully_async"

\* fully_async: versions published and samples in flight are covered by the samples
\* fed, and those by the schedule.
FedInv ==
    /\ feeding => kind = "fully_async"
    /\ fed >= 1
    /\ fed <= total_steps \/ (run >= 1 /\ fed <= (Cap - 1) * trigger_parameter_sync_step + 1)
    /\ kind = "fully_async" /\ Up =>
         global_steps * trigger_parameter_sync_step + (local_step - 1) + Len(queue)
             <= (IF feeding THEN fed - 1 ELSE fed)

-----------------------------------------------------------------------------
(* The checkpoint the tracker names. *)

\* Roles of the save in progress whose path is registered already.
Registered ==
    IF pc \in {"data", "truncate", "tracker"} THEN Roles
    ELSE IF pc \in {"capacity", "shards"} /\ role = "critic" THEN {"actor"} ELSE {}

Increasing(paths) == \A i, j \in DOMAIN paths : i < j => paths[i] < paths[j]

\* A path that rotation may remove is older than the checkpoint saved last, and that
\* is the one the tracker names, or will name once it is written.
PathInv ==
    Up =>
        /\ tracker \in Steps => tracker = last_ckpt
        /\ (Busy /\ kind # "fully_async" /\ pc # "post") \/ InSave => last_ckpt < global_steps
        /\ last_ckpt <= global_steps
        /\ tracker = Torn => pc = "tracker"
        /\ \A ro \in AllRoles :
             /\ Increasing(previous_saved_paths[ro])
             /\ \A i \in DOMAIN previous_saved_paths[ro] :
                  previous_saved_paths[ro][i] <= IF ro \in Registered THEN global_steps
                                                 ELSE last_ckpt

\* A whole set of shards of the same weights.
Complete(folder, w) == \A ro \in Roles, r \in Ranks : folder[ro][r] = w

\* What the save in progress has written so far.
WriteInv ==
    /\ weights \notin {NoShard, TornShard}
    /\ pc \notin {"shards", "load", "failed"} => written = {}
    /\ role = "critic" => pc \in {"capacity", "shards", "load", "failed"}
    /\ pc = "shards" => \A r \in written : disk[global_steps][role][r] = weights
    /\ \A ro \in Registered, r \in Ranks : disk[global_steps][ro][r] = weights
    /\ pc \in {"truncate", "tracker"} =>
         disk[global_steps].made /\ disk[global_steps].data \in Positions

TrackedInv ==
    tracker \in Steps =>
        /\ disk[tracker].made /\ disk[tracker].data \in Positions
        /\ \E w \in Shards \ {NoShard, TornShard} : Complete(disk[tracker], w)

\* A run fails only on a torn tracker.
FailInv == pc = "failed" /\ kind # "one_step" => tracker = Torn

-----------------------------------------------------------------------------
(* How many checkpoints are on disk. *)

OnDisk(ro) == {s \in Steps : \E r \in Ranks : disk[s][ro][r] # NoShard}
Paths(ro) == {previous_saved_paths[ro][i] : i \in DOMAIN previous_saved_paths[ro]}
\* Those this start of the job has made and will remove when their time comes.
Mine(ro) ==
    IF Up THEN Paths(ro) \cup (IF pc = "shards" /\ role = ro THEN {global_steps} ELSE {})
    ELSE {}
Listed(ro) ==
    Len(previous_saved_paths[ro]) <=
        (IF pc = "shards" /\ role = ro THEN config.keep[ro] - 1 ELSE config.keep[ro])
\* Every earlier start has left at most keep of them, and a trainer that failed as many
\* again.
RotateInv ==
    \A ro \in AllRoles : config.keep[ro] > 1 =>
        /\ Up => Listed(ro)
        /\ pc # "failed" => Cardinality(OnDisk(ro) \ Mine(ro)) <= config.keep[ro] * run
        /\ pc = "failed" => Cardinality(OnDisk(ro)) <= config.keep[ro] * (run + 1)

-----------------------------------------------------------------------------
(* Constants. *)

LEMMA ConfigFacts ==
  ASSUME config \in Configs
  PROVE  /\ kind \in Kinds /\ save_freq \in Nat \ {0} /\ config.use_critic \in BOOLEAN
         /\ config.keep \in [actor : Nat, critic : Nat]
         /\ Roles \subseteq AllRoles /\ "actor" \in Roles
BY CheckpointAssumption DEF kind, save_freq, Roles, AllRoles

LEMMA StepFacts ==
  /\ total_steps \in Nat /\ total_steps >= 1
  /\ Steps = 0 .. total_steps + MaxCrashes
  /\ MaxCrashes \in Nat /\ N \in Nat /\ N >= 1
<1>1. N \in Nat /\ total_epochs \in Nat /\ N >= 1 /\ total_epochs >= 1 /\ MaxCrashes \in Nat
  BY CheckpointAssumption
<1>2. N * total_epochs \in Nat /\ N * total_epochs >= 1
  BY <1>1
<1> QED
  BY <1>1, <1>2 DEF total_steps, Steps

LEMMA ShardFacts ==
  /\ NoShard \in Shards /\ TornShard \in Shards /\ NoShard # TornShard
  /\ NoShard.run = -1 /\ TornShard.run = -2
BY DEF NoShard, TornShard, Shards, Absent, Torn

LEMMA FolderFacts == NoFolder \in Folder
BY ShardFacts DEF NoFolder, Folder, NoData

LEMMA PositionFacts ==
  /\ NoData \notin Positions /\ TornData \notin Positions
  /\ \A p \in Positions : p.pos \in 0 .. N
BY DEF NoData, TornData, Positions, Absent, Torn

\* A step of the dataloader.
LEMMA DrawFacts ==
  ASSUME pass \in Nat, pos \in 0 .. N, epoch \in Nat
  PROVE  /\ NextBatch \in Nat
         /\ Draw => pass' \in Nat /\ pos' \in 0 .. N /\ epoch' \in Nat
<1>1. N \in Nat /\ N >= 1
  BY StepFacts
<1>2. pass * N \in Nat /\ (pass + 1) * N \in Nat
  BY <1>1
<1>3. NextBatch \in Nat
  BY <1>1, <1>2 DEF NextBatch
<1>4. Draw => pass' \in Nat /\ pos' \in 0 .. N /\ epoch' \in Nat
  BY <1>1 DEF Draw
<1> QED
  BY <1>3, <1>4

LEMMA TrainedType ==
  ASSUME weights \in Shards, NEW b \in Nat, run \in Nat
  PROVE  Trained(b) \in Shards /\ Trained(b).run = run
<1>1. weights.batches \in Seq(Nat)
  BY DEF Shards
<1>2. Append(weights.batches, b) \in Seq(Nat)
  BY <1>1
<1> QED
  BY <1>2 DEF Trained, Shards

-----------------------------------------------------------------------------
(* Types and counters, action by action. *)

Types == TypeInv /\ StepInv /\ FlightInv /\ FedInv /\ PrefetchInv

LEMMA TypesInit == Init => Types
<1> SUFFICES ASSUME Init PROVE Types
  OBVIOUS
<1>1. /\ pc = "load" /\ tracker = -1 /\ global_steps = 0 /\ local_step = 1 /\ last_ckpt = 0
      /\ queue = <<>> /\ fed = 1 /\ feeding = FALSE /\ run = 0
      /\ pass = 0 /\ pos = 0 /\ epoch = 0 /\ config \in Configs /\ role = "actor" /\ written = {}
  BY DEF Init, Absent
<1>2. disk \in [Steps -> Folder]
  BY FolderFacts DEF Init
<1>3. weights \in Shards
  BY DEF Init, Shards
<1>4. previous_saved_paths \in [actor : Seq(Steps), critic : Seq(Steps)]
  BY DEF Init
<1>5. trigger_parameter_sync_step \in Nat /\ trigger_parameter_sync_step >= 1
  BY CheckpointAssumption
<1>6. TypeInv
  <2>1. queue \in Seq(Nat \cup {Absent}) /\ queue \in Seq(Nat)
    BY <1>1
  <2>2. role \in Roles /\ written \subseteq Ranks
    BY <1>1, ConfigFacts
  <2>3. local_step \in 1 .. trigger_parameter_sync_step /\ pos \in 0 .. N
        /\ run \in 0 .. MaxCrashes /\ tracker \in {Absent, Torn} \cup Steps
    BY <1>1, <1>5, StepFacts DEF Absent
  <2>4. /\ fed \in Nat /\ feeding \in BOOLEAN /\ pass \in Nat /\ epoch \in Nat
        /\ global_steps \in Nat /\ last_ckpt \in Nat
    BY <1>1
  <2> QED
    BY <1>1, <1>2, <1>3, <1>4, <2>1, <2>2, <2>3, <2>4 DEF TypeInv
<1>7. StepInv
  BY <1>1, StepFacts DEF StepInv, Cap, Busy, InSave, Absent
<1>8. FlightInv /\ PrefetchInv
  BY <1>1 DEF FlightInv, PrefetchInv, InSave
<1>9. FedInv
  BY <1>1, StepFacts DEF FedInv, Up, Busy, InSave
<1> QED
  BY <1>6, <1>7, <1>8, <1>9 DEF Types

LEMMA Times == \A a, b \in Nat : a * b \in Nat
OBVIOUS

LEMMA TimesMonotone == ASSUME NEW a \in Nat, NEW b \in Nat, NEW c \in Nat, a <= b
                       PROVE  a * c <= b * c
OBVIOUS

LEMMA Predecessor == \A n \in Int : n >= 1 => n - 1 \in Nat
OBVIOUS

LEMMA Trigger == trigger_parameter_sync_step \in Nat /\ trigger_parameter_sync_step >= 1
BY CheckpointAssumption

LEMMA TypesStart ==
  ASSUME Types, pc = "load", NEW s \in Nat, NEW at \in Positions, NEW w \in Shards,
         s = 0 \/ s = tracker, Start(s, at, w)
  PROVE  Types'
<1> DEFINE t == trigger_parameter_sync_step
<1>1. /\ config \in Configs /\ config' = config /\ disk' = disk /\ tracker' = tracker
      /\ run' = run /\ run \in 0 .. MaxCrashes /\ disk \in [Steps -> Folder]
      /\ tracker \in {Absent, Torn} \cup Steps
  BY DEF Types, TypeInv, Start
<1>2. kind' = kind /\ Roles' = Roles /\ Cap' = Cap /\ kind \in Kinds /\ "actor" \in Roles
  BY <1>1, ConfigFacts DEF kind, Roles, Cap
<1>3. /\ weights' = w /\ pass' = at.pass /\ pos' = at.pos
      /\ global_steps' = (IF kind = "fully_async" THEN s ELSE s + 1)
      /\ local_step' = 1 /\ last_ckpt' = s
      /\ queue' = <<>> /\ feeding' = (kind = "fully_async") /\ fed' = s * t + 1
      /\ previous_saved_paths' = [actor |-> <<>>, critic |-> <<>>]
      /\ role' = "actor" /\ written' = {}
      /\ pc' = IF kind = "one_step" THEN "prefetch" ELSE "step"
  BY DEF Start, StartRollouter
<1>4. s < Cap /\ Cap \in Nat /\ (s > 0 => run >= 1)
  <2>1. CASE s = 0
    BY <1>1, <2>1, StepFacts DEF Cap
  <2>2. CASE s # 0
    <3>1. s = tracker /\ tracker \in Steps
      BY <1>1, <2>2 DEF Absent, Torn
    <3> QED
      BY <1>1, <3>1, StepFacts DEF Cap, Types, StepInv, Absent
  <2> QED
    BY <2>1, <2>2
<1>5. epoch' \in Nat
  <2>1. s \div N \in Nat
    BY StepFacts
  <2> QED
    BY <2>1 DEF Start
<1>6. s * t \in Nat /\ t \in Nat /\ t >= 1
  BY Trigger, Times
<1>7. fed' \in Nat /\ fed' >= 1
  BY <1>3, <1>6
<1>8. fed' <= total_steps \/ (run >= 1 /\ fed' <= (Cap - 1) * t + 1)
  <2>1. CASE s = 0
    BY <1>3, <2>1, <1>6, StepFacts
  <2>2. CASE s # 0
    <3>1. run >= 1 /\ s <= Cap - 1 /\ Cap - 1 \in Nat
      BY <1>4, <2>2
    <3>2. s * t <= (Cap - 1) * t
      BY <1>6, <3>1, TimesMonotone
    <3>3. (Cap - 1) * t \in Nat
      BY <1>6, <3>1, Times
    <3> QED
      BY <1>3, <1>6, <3>1, <3>2, <3>3
  <2> QED
    BY <2>1, <2>2
<1>9. TypeInv'
  <2>1. queue' \in Seq(Nat \cup {Absent}) /\ queue' \in Seq(Nat)
    BY <1>3
  <2>2. previous_saved_paths' \in [actor : Seq(Steps), critic : Seq(Steps)]
    BY <1>3
  <2>3. pass' \in Nat /\ pos' \in 0 .. N
    BY <1>3 DEF Positions
  <2>4. global_steps' \in Nat /\ last_ckpt' \in Nat /\ local_step' \in 1 .. t
    BY <1>3, <1>6
  <2>5. role' \in Roles' /\ written' \subseteq Ranks /\ feeding' \in BOOLEAN
    BY <1>2, <1>3
  <2> QED
    BY <1>1, <1>3, <1>5, <1>7, <2>1, <2>2, <2>3, <2>4, <2>5 DEF TypeInv
<1>10. StepInv'
  <2>1. pc' # "load"
    BY <1>3
  <2>2. tracker' \in Steps => tracker' <= Cap'
    BY <1>1, <1>2 DEF Types, StepInv
  <2>3. global_steps' <= Cap' /\ global_steps' <= Cap' + 1 /\ last_ckpt' <= Cap'
    BY <1>2, <1>3, <1>4
  <2> QED
    BY <2>1, <2>2, <2>3 DEF StepInv
<1>11. FlightInv' /\ PrefetchInv'
  BY <1>2, <1>3 DEF FlightInv, PrefetchInv, InSave
<1>12. FedInv'
  <2>1. kind = "fully_async" =>
          global_steps' * t + (local_step' - 1) + Len(queue') <= IF feeding' THEN fed' - 1 ELSE fed'
    <3> SUFFICES ASSUME kind = "fully_async"
                 PROVE  global_steps' * t + (local_step' - 1) + Len(queue') <= fed' - 1 /\ feeding'
      OBVIOUS
    <3>1. global_steps' = s /\ Len(queue') = 0 /\ local_step' = 1 /\ feeding'
      BY <1>3
    <3> QED
      BY <1>3, <1>6, <3>1
  <2> QED
    BY <1>1, <1>2, <1>3, <1>7, <1>8, <2>1 DEF FedInv
<1> QED
  BY <1>9, <1>10, <1>11, <1>12 DEF Types

LEMMA TypesLoad ==
  ASSUME Types, LoadNothing \/ LoadCheckpoint
  PROVE  Types'
<1>1. CASE LoadNothing
  <2>1. [pass |-> 0, pos |-> 0] \in Positions
    BY StepFacts DEF Positions
  <2>2. [run |-> run, batches |-> <<>>] \in Shards
    BY DEF Types, TypeInv, Shards
  <2>3. pc = "load" /\ Start(0, [pass |-> 0, pos |-> 0], [run |-> run, batches |-> <<>>])
    BY <1>1 DEF LoadNothing
  <2> QED
    BY <2>1, <2>2, <2>3, TypesStart
<1>2. CASE LoadCheckpoint
  <2>1. pc = "load" /\ tracker \in Steps /\ disk[tracker].data # TornData
    BY <1>2 DEF LoadCheckpoint, find_latest_ckpt_path
  <2>2. tracker \in Nat
    BY <2>1, StepFacts
  <2>3. disk[tracker] \in Folder
    BY <2>1 DEF Types, TypeInv
  <2>4. Restored(tracker) \in Positions
    <3>1. disk[tracker].data \in Positions \cup {NoData}
      BY <2>1, <2>3 DEF Folder
    <3>2. [pass |-> 0, pos |-> 0] \in Positions
      BY StepFacts DEF Positions
    <3>3. tracker \div N \in Nat
      BY <2>2, StepFacts
    <3>4. [pass |-> tracker \div N, pos |-> 0] \in Positions
      BY <3>3, StepFacts DEF Positions
    <3> QED
      BY <3>1, <3>2, <3>4 DEF Restored
  <2>5. PICK r \in Ranks : Start(tracker, Restored(tracker), disk[tracker].actor[r])
    BY <1>2 DEF LoadCheckpoint
  <2>6. disk[tracker].actor[r] \in Shards
    BY <2>3 DEF Folder
  <2> QED
    BY <2>1, <2>2, <2>4, <2>5, <2>6, TypesStart
<1> QED
  BY <1>1, <1>2

\* A step that leaves the counters, the tracker and what is in flight alone.
LEMMA TypesKeep ==
  ASSUME Types, TypeInv', UNCHANGED <<config, tracker, counters, run, queue, fed, feeding>>,
         pc' \notin {"load", "prefetch"}, Busy' => Busy, Up' => Up,
         pc' = "post" => kind # "fully_async",
         kind = "one_step" /\ (pc' \in {"step", "post"} \/ InSave') =>
             \/ pc' = pc
             \/ InSave /\ pc' # "step"
  PROVE  Types'
<1>1. kind' = kind /\ Cap' = Cap /\ is_last_step' = is_last_step
  BY DEF kind, Cap, is_last_step, counters
<1>2. StepInv'
  BY <1>1 DEF Types, StepInv, counters
<1>3. FedInv'
  BY <1>1 DEF Types, FedInv, counters
<1>4. FlightInv' /\ PrefetchInv'
  BY <1>1 DEF Types, FlightInv, PrefetchInv, InSave
<1> QED
  BY <1>2, <1>3, <1>4 DEF Types

LEMMA TypesControl ==
  ASSUME Types, LoadRaises \/ LoopEnds \/ OneStepRaises \/ StopSamples
  PROVE  Types'
<1>1. /\ UNCHANGED <<config, disk, tracker, saving, counters, loader, rollouter, weights, run>>
      /\ pc' \in {"failed", "done", "capacity"}
      /\ pc' = "capacity" => pc = "step" /\ kind = "fully_async"
      /\ pc' = "done" => pc = "step"
  BY DEF LoadRaises, LoopEnds, OneStepRaises, StopSamples
<1>2. TypeInv'
  BY <1>1 DEF Types, TypeInv, saving, counters, loader, rollouter, kind, Roles
<1>3. kind = "one_step" => pc' # "capacity"
  BY <1>1
<1> QED
  BY <1>1, <1>2, <1>3, TypesKeep DEF Busy, Up, InSave, rollouter, counters

LEMMA TypesFit ==
  ASSUME Types, FitBatch
  PROVE  Types'
<1>1. /\ pc = "step" /\ pc' \in {"capacity", "post"}
      /\ kind # "one_step" /\ kind # "fully_async"
      /\ Draw /\ weights' = Trained(NextBatch)
      /\ UNCHANGED <<config, disk, tracker, saving, counters, rollouter, run>>
  BY DEF FitBatch
<1>2. /\ pass \in Nat /\ pos \in 0 .. N /\ epoch \in Nat /\ weights \in Shards /\ run \in Nat
  BY DEF Types, TypeInv
<1>3. weights' \in Shards /\ pass' \in Nat /\ pos' \in 0 .. N /\ epoch' \in Nat
  BY <1>1, <1>2, DrawFacts, TrainedType
<1>4. TypeInv'
  BY <1>1, <1>3 DEF Types, TypeInv, saving, counters, rollouter, kind, Roles
<1> QED
  BY <1>1, <1>4, TypesKeep DEF Busy, Up, InSave, rollouter, counters

LEMMA GenNextBatchType ==
  ASSUME Types, GenNextBatch
  PROVE  /\ pass' \in Nat /\ pos' \in 0 .. N /\ epoch' \in Nat
         /\ queue' \in Seq(Nat \cup {Absent}) /\ queue' # <<>>
<1>1. pass \in Nat /\ pos \in 0 .. N /\ epoch \in Nat
  BY DEF Types, TypeInv
<1>2. NextBatch \in Nat
  BY <1>1, DrawFacts
<1>3. CASE HasNext
  <2>1. Draw /\ queue' = <<NextBatch>>
    BY <1>3 DEF GenNextBatch
  <2>2. pass' \in Nat /\ pos' \in 0 .. N /\ epoch' \in Nat
    BY <1>1, <2>1, DrawFacts
  <2>3. queue' \in Seq(Nat \cup {Absent}) /\ queue' # <<>>
    BY <1>2, <2>1
  <2> QED
    BY <2>2, <2>3
<1>4. CASE ~HasNext
  <2>1. queue' = <<Absent>> /\ UNCHANGED <<pass, pos, epoch>>
    BY <1>4 DEF GenNextBatch, loader
  <2>2. queue' \in Seq(Nat \cup {Absent}) /\ queue' # <<>>
    BY <2>1
  <2> QED
    BY <1>1, <2>1, <2>2
<1> QED
  BY <1>3, <1>4

\* one_step moves its batch in flight; its counters stay.
LEMMA TypesOneStep ==
  ASSUME Types, FirstBatch \/ FitOneStep
  PROVE  Types'
<1>1. CASE FirstBatch
  <2>1. /\ pc = "prefetch" /\ pc' = "step" /\ GenNextBatch
        /\ UNCHANGED <<config, disk, tracker, saving, counters, fed, feeding, weights, run>>
    BY <1>1 DEF FirstBatch
  <2>2. kind = "one_step"
    BY <2>1 DEF Types, PrefetchInv
  <2>3. /\ pass' \in Nat /\ pos' \in 0 .. N /\ epoch' \in Nat
        /\ queue' \in Seq(Nat \cup {Absent}) /\ queue' # <<>>
    BY <2>1, GenNextBatchType
  <2>4. kind' = kind /\ Roles' = Roles /\ Cap' = Cap
    BY <2>1 DEF kind, Roles, Cap
  <2>5. TypeInv'
    BY <2>1, <2>2, <2>3, <2>4 DEF Types, TypeInv, saving, counters
  <2>6. StepInv'
    BY <2>1, <2>4 DEF Types, StepInv, counters, Busy, InSave
  <2>7. FlightInv' /\ FedInv' /\ PrefetchInv'
    BY <2>1, <2>2, <2>3, <2>4 DEF Types, FlightInv, FedInv, PrefetchInv
  <2> QED
    BY <2>5, <2>6, <2>7 DEF Types
<1>2. CASE FitOneStep
  <2>1. /\ pc = "step" /\ kind = "one_step" /\ Head(queue) # Absent
        /\ pc' \in {"capacity", "post"} /\ weights' = Trained(Head(queue))
        /\ IF is_last_step THEN queue' = <<>> /\ UNCHANGED loader ELSE GenNextBatch
        /\ UNCHANGED <<config, disk, tracker, saving, counters, fed, feeding, run>>
    BY <1>2 DEF FitOneStep
  <2>2. Head(queue) \in Nat
    <3>1. queue \in Seq(Nat \cup {Absent}) /\ queue # <<>>
      BY <2>1 DEF Types, TypeInv, FlightInv
    <3>2. Head(queue) \in Nat \cup {Absent}
      BY <3>1, HeadTailProperties
    <3> QED
      BY <2>1, <3>2
  <2>3. weights' \in Shards
    BY <2>1, <2>2, TrainedType DEF Types, TypeInv
  <2>4. /\ pass' \in Nat /\ pos' \in 0 .. N /\ epoch' \in Nat
        /\ queue' \in Seq(Nat \cup {Absent}) /\ (~is_last_step => queue' # <<>>)
    <3>1. CASE is_last_step
      <4>1. queue' = <<>> /\ UNCHANGED <<pass, pos, epoch>>
        BY <2>1, <3>1 DEF loader
      <4>2. queue' \in Seq(Nat \cup {Absent})
        BY <4>1
      <4> QED
        BY <3>1, <4>1, <4>2 DEF Types, TypeInv
    <3>2. CASE ~is_last_step
      BY <2>1, <3>2, GenNextBatchType
    <3> QED
      BY <3>1, <3>2
  <2>5. kind' = kind /\ Roles' = Roles /\ Cap' = Cap /\ is_last_step' = is_last_step
    BY <2>1 DEF kind, Roles, Cap, is_last_step, counters
  <2>6. TypeInv'
    BY <2>1, <2>3, <2>4, <2>5 DEF Types, TypeInv, saving, counters
  <2>7. StepInv'
    BY <2>1, <2>5 DEF Types, StepInv, counters, Busy, InSave
  <2>8. FlightInv' /\ FedInv' /\ PrefetchInv'
    BY <2>1, <2>4, <2>5 DEF Types, FlightInv, FedInv, PrefetchInv
  <2> QED
    BY <2>6, <2>7, <2>8 DEF Types
<1> QED
  BY <1>1, <1>2

\* The rollouter feeds one sample, or stops.
LEMMA TypesFeed ==
  ASSUME Types, FeedSample
  PROVE  Types'
<1> DEFINE t == trigger_parameter_sync_step
           lhs == global_steps * t + (local_step - 1)
<1>1. /\ feeding /\ kind = "fully_async"
      /\ UNCHANGED <<config, disk, tracker, pc, saving, counters, weights, run>>
  BY DEF FeedSample, Types, FedInv
<1>2. kind' = kind /\ Roles' = Roles /\ Cap' = Cap
  BY <1>1 DEF kind, Roles, Cap
<1>3. /\ queue \in Seq(Nat) /\ Len(queue) \in Nat /\ fed \in Nat
      /\ pass \in Nat /\ pos \in 0 .. N /\ epoch \in Nat
  BY <1>1 DEF Types, TypeInv
<1>4. lhs \in Int
  <2>1. global_steps \in Nat /\ t \in Nat /\ local_step \in Int
    BY Trigger DEF Types, TypeInv
  <2>2. global_steps * t \in Nat
    BY <2>1, Times
  <2> QED
    BY <2>1, <2>2
<1>5. Up => lhs + Len(queue) <= fed - 1
  BY <1>1 DEF Types, FedInv
<1>6. total_steps \in Nat
  BY StepFacts
<1>7. CASE HasNext
  <2>1. /\ Draw /\ queue' = Append(queue, NextBatch) /\ feeding' = (fed < total_steps)
        /\ fed' = IF fed < total_steps THEN fed + 1 ELSE fed
    BY <1>7 DEF FeedSample
  <2>2. NextBatch \in Nat /\ pass' \in Nat /\ pos' \in 0 .. N /\ epoch' \in Nat
    BY <1>3, <2>1, DrawFacts
  <2>3. queue' \in Seq(Nat) /\ Len(queue') = Len(queue) + 1
    BY <1>3, <2>1, <2>2
  <2>4. fed' \in Nat /\ feeding' \in BOOLEAN /\ fed' >= fed
        /\ (fed' <= total_steps \/ fed' = fed)
    BY <1>3, <1>6, <2>1
  <2>5. queue' \in Seq(Nat \cup {Absent})
    BY <2>3
  <2>6. TypeInv'
    BY <1>1, <1>2, <2>2, <2>3, <2>4, <2>5 DEF Types, TypeInv, saving, counters
  <2>7. lhs' = lhs /\ Up' = Up
    BY <1>1 DEF counters, Up, Busy, InSave
  <2>8. Up => lhs + Len(queue') <= IF feeding' THEN fed' - 1 ELSE fed'
    <3> HIDE DEF lhs
    <3>0. feeding' <=> fed < total_steps
      BY <2>1
    <3>1. CASE fed < total_steps
      <4>1. fed' = fed + 1
        BY <2>1, <3>1
      <4>2. Up => lhs + Len(queue') <= fed' - 1
        BY <1>3, <1>4, <1>5, <2>3, <4>1
      <4>3. feeding'
        BY <3>0, <3>1
      <4> QED
        BY <4>2, <4>3
    <3>2. CASE ~(fed < total_steps)
      <4>1. fed' = fed
        BY <2>1, <3>2
      <4>2. Up => lhs + Len(queue') <= fed'
        BY <1>3, <1>4, <1>5, <2>3, <4>1
      <4>3. ~feeding'
        BY <3>0, <3>2
      <4> QED
        BY <4>2, <4>3
    <3> QED
      BY <3>1, <3>2
  <2>9. FedInv'
    <3>1. /\ fed >= 1
          /\ fed <= total_steps \/ (run >= 1 /\ fed <= (Cap - 1) * t + 1)
      BY DEF Types, FedInv
    <3>2. fed' <= total_steps \/ (run' >= 1 /\ fed' <= (Cap' - 1) * t + 1)
      BY <1>1, <1>2, <2>4, <3>1
    <3>3. fed' >= 1
      BY <1>3, <2>4, <3>1
    <3> QED
      BY <1>1, <1>2, <2>7, <2>8, <3>2, <3>3 DEF FedInv
  <2>10. StepInv' /\ FlightInv' /\ PrefetchInv'
    BY <1>1, <1>2 DEF Types, StepInv, FlightInv, PrefetchInv, counters, Busy, InSave
  <2> QED
    BY <2>6, <2>9, <2>10 DEF Types
<1>8. CASE ~HasNext
  <2>1. feeding' = FALSE /\ UNCHANGED <<pass, pos, epoch, queue, fed>>
    BY <1>8 DEF FeedSample, loader
  <2>2. TypeInv'
    BY <1>1, <1>2, <2>1 DEF Types, TypeInv, saving, counters
  <2>3. lhs' = lhs /\ Up' = Up
    BY <1>1 DEF counters, Up, Busy, InSave
  <2>4. Up => lhs + Len(queue') <= fed'
    <3> HIDE DEF lhs
    <3> QED
      BY <1>3, <1>4, <1>5, <2>1
  <2>5. FedInv'
    BY <1>1, <1>2, <2>1, <2>3, <2>4 DEF Types, FedInv
  <2>6. StepInv' /\ FlightInv' /\ PrefetchInv'
    BY <1>1, <1>2 DEF Types, StepInv, FlightInv, PrefetchInv, counters, Busy, InSave
  <2> QED
    BY <2>2, <2>5, <2>6 DEF Types
<1> QED
  BY <1>7, <1>8

LEMMA RemoveOne ==
  ASSUME NEW S, NEW q \in Seq(S), NEW i \in 1 .. Len(q)
  PROVE  /\ SubSeq(q, 1, i - 1) \o SubSeq(q, i + 1, Len(q)) \in Seq(S)
         /\ Len(SubSeq(q, 1, i - 1) \o SubSeq(q, i + 1, Len(q))) = Len(q) - 1
<1>1. SubSeq(q, 1, i - 1) \in Seq(S) /\ Len(SubSeq(q, 1, i - 1)) = i - 1
  BY SubSeqProperties
<1>2. SubSeq(q, i + 1, Len(q)) \in Seq(S) /\ Len(SubSeq(q, i + 1, Len(q))) = Len(q) - i
  BY SubSeqProperties
<1> DEFINE a == SubSeq(q, 1, i - 1)
           b == SubSeq(q, i + 1, Len(q))
<1>3. a \in Seq(S) /\ b \in Seq(S) /\ Len(a) = i - 1 /\ Len(b) = Len(q) - i
  BY <1>1, <1>2
<1> HIDE DEF a, b
<1>4. a \o b \in Seq(S) /\ Len(a \o b) = Len(a) + Len(b)
  BY <1>3, ConcatProperties
<1>5. Len(a \o b) = Len(q) - 1
  <2>1. Len(q) \in Nat
    OBVIOUS
  <2> QED
    BY <1>3, <1>4, <2>1
<1> QED
  BY <1>4, <1>5 DEF a, b

\* However many versions are published, the schedule covers them.
LEMMA VersionBound ==
  ASSUME NEW v \in Nat, NEW f \in Nat, NEW k \in Nat, NEW c \in Nat,
         v * trigger_parameter_sync_step + k <= f,
         c >= total_steps, c >= 1,
         f <= total_steps \/ f <= (c - 1) * trigger_parameter_sync_step + 1
  PROVE  v <= c
<1> DEFINE t == trigger_parameter_sync_step
<1>1. t \in Nat /\ t >= 1 /\ total_steps \in Nat /\ v * t \in Nat
  BY Trigger, StepFacts, Times
<1>2. v <= v * t
  BY <1>1
<1> DEFINE p == v * t
<1>5. p \in Nat /\ p + k <= f /\ v <= p
  BY <1>1, <1>2
<1>6. p <= f
  <2> HIDE DEF p
  <2> QED
    BY <1>5
<1>3. CASE f <= total_steps
  <2> HIDE DEF p
  <2> QED
    BY <1>1, <1>5, <1>6, <1>3
<1>4. CASE f <= (c - 1) * t + 1
  <2> SUFFICES ASSUME v >= c + 1 PROVE FALSE
    OBVIOUS
  <2>1. (c + 1) * t <= v * t
    BY <1>1, TimesMonotone
  <2>2. (c + 1) * t = (c - 1) * t + 2 * t
    BY <1>1
  <2>3. (c - 1) * t \in Nat
    BY <1>1, Times
  <2> DEFINE u == (c - 1) * t
  <2>4. u \in Nat /\ f <= u + 1 /\ u + 2 * t <= p
    BY <1>4, <2>1, <2>2, <2>3
  <2> HIDE DEF u, p
  <2> QED
    BY <1>1, <1>5, <1>6, <2>4
<1> QED
  BY <1>3, <1>4

LEMMA TypesSample ==
  ASSUME Types, FitSample
  PROVE  Types'
<1> DEFINE t == trigger_parameter_sync_step
<1>1. /\ pc = "step" /\ kind = "fully_async" /\ pc' \in {"capacity", "step"}
      /\ IF local_step < t
         THEN local_step' = local_step + 1 /\ UNCHANGED global_steps
         ELSE local_step' = 1 /\ global_steps' = global_steps + 1
      /\ UNCHANGED <<config, disk, tracker, saving, last_ckpt, loader, fed, feeding, run>>
  BY DEF FitSample
<1>2. PICK i \in 1 .. Len(queue) :
        /\ weights' = Trained(queue[i])
        /\ queue' = SubSeq(queue, 1, i - 1) \o SubSeq(queue, i + 1, Len(queue))
  BY DEF FitSample
<1>3. /\ queue \in Seq(Nat) /\ fed \in Nat /\ global_steps \in Nat /\ local_step \in 1 .. t
      /\ weights \in Shards /\ run \in Nat /\ run <= MaxCrashes /\ feeding \in BOOLEAN
  BY <1>1, StepFacts DEF Types, TypeInv
<1>4. queue' \in Seq(Nat) /\ Len(queue') = Len(queue) - 1
  BY <1>2, <1>3, RemoveOne
<1>5. weights' \in Shards
  <2>1. queue[i] \in Nat
    BY <1>2, <1>3
  <2> QED
    BY <1>2, <1>3, <2>1, TrainedType
<1>6. t \in Nat /\ t >= 1 /\ global_steps * t \in Nat /\ Len(queue) \in Nat
  BY <1>3, Trigger, Times
<1>7. kind' = kind /\ Roles' = Roles /\ Cap' = Cap
  BY <1>1 DEF kind, Roles, Cap
<1>8. global_steps' \in Nat /\ local_step' \in 1 .. t
  BY <1>1, <1>3, <1>6
<1>9. queue' \in Seq(Nat \cup {Absent})
  BY <1>4
<1>10. TypeInv'
  BY <1>1, <1>4, <1>5, <1>7, <1>8, <1>9 DEF Types, TypeInv, saving, loader
<1>11. global_steps' * t + (local_step' - 1) + Len(queue')
         = global_steps * t + (local_step - 1) + Len(queue)
  <2>1. CASE local_step < t
    <3>1. global_steps' = global_steps /\ local_step' = local_step + 1
      BY <1>1, <2>1
    <3>2. global_steps' * t = global_steps * t
      BY <3>1
    <3> HIDE DEF t
    <3> QED
      BY <1>3, <1>4, <1>6, <3>1, <3>2
  <2>2. CASE ~(local_step < t)
    <3>1. global_steps' = global_steps + 1 /\ local_step' = 1 /\ local_step = t
      BY <1>1, <1>3, <1>6, <2>2
    <3>2. global_steps' * t = global_steps * t + t
      BY <1>3, <1>6, <3>1
    <3> HIDE DEF t
    <3> QED
      BY <1>3, <1>4, <1>6, <3>1, <3>2
  <2> QED
    BY <2>1, <2>2
<1>12. global_steps * t + (local_step - 1) + Len(queue) <= IF feeding THEN fed - 1 ELSE fed
  BY <1>1 DEF Types, FedInv, Up, Busy, InSave
<1>13. FedInv'
  BY <1>1, <1>7, <1>11, <1>12 DEF Types, FedInv
<1>14. Cap \in Nat /\ Cap >= total_steps /\ Cap >= 1
  BY <1>3, StepFacts DEF Cap
<1>19. global_steps' * t \in Nat
  BY <1>6, <1>8, Times
<1>20. local_step' \in Int /\ local_step' >= 1 /\ Len(queue') \in Nat
  BY <1>4, <1>8, Trigger
<1>15. global_steps' <= Cap
  <2>1. global_steps' * t + (local_step' - 1) + Len(queue') <= fed
    <3>1. CASE feeding
      <4>1. global_steps' * t + (local_step' - 1) + Len(queue') <= fed - 1
        BY <1>11, <1>12, <3>1
      <4>2. global_steps' * t \in Nat /\ local_step' \in Int /\ Len(queue') \in Int
        BY <1>19, <1>20
      <4> HIDE DEF t
      <4> QED
        BY <1>3, <4>1, <4>2
    <3>2. CASE ~feeding
      BY <1>11, <1>12, <3>2
    <3> QED
      BY <3>1, <3>2
  <2>2. (local_step' - 1) + Len(queue') \in Nat
    <3>1. Len(queue') \in Nat
      BY <1>4
    <3>2. local_step' - 1 \in Nat
      BY <1>20, Predecessor
    <3> QED
      BY <3>1, <3>2
  <2>3. global_steps' * t + ((local_step' - 1) + Len(queue')) <= fed
    <3>1. global_steps' * t \in Nat /\ local_step' \in Int /\ Len(queue') \in Int
      BY <1>19, <1>20
    <3> HIDE DEF t
    <3> QED
      BY <2>1, <3>1
  <2>4. fed <= total_steps \/ fed <= (Cap - 1) * t + 1
    BY DEF Types, FedInv
  <2> QED
    BY <1>3, <1>8, <1>14, <2>2, <2>3, <2>4, VersionBound
<1>16. StepInv'
  <2>1. global_steps' <= Cap' + 1
    BY <1>7, <1>8, <1>14, <1>15
  <2> QED
    BY <1>1, <1>7, <1>15, <2>1 DEF Types, StepInv
<1>17. FlightInv' /\ PrefetchInv'
  BY <1>1, <1>7 DEF FlightInv, PrefetchInv
<1> QED
  BY <1>10, <1>13, <1>16, <1>17 DEF Types

LEMMA TypesPost ==
  ASSUME Types, PostStep, kind # "fully_async"
  PROVE  Types'
<1>1. /\ pc = "post" /\ pc' = (IF is_last_step THEN "done" ELSE "step")
      /\ global_steps' = global_steps + 1
      /\ UNCHANGED <<config, disk, tracker, saving, local_step, last_ckpt, loader,
                     rollouter, weights, run>>
  BY DEF PostStep
<1>2. kind' = kind /\ Roles' = Roles /\ Cap' = Cap
  BY <1>1 DEF kind, Roles, Cap
<1>3. global_steps \in Nat /\ run \in Nat /\ Cap \in Nat /\ global_steps <= Cap
  BY <1>1, StepFacts DEF Types, TypeInv, StepInv, Busy, Cap
<1>4. TypeInv'
  BY <1>1, <1>2, <1>3 DEF Types, TypeInv, saving, loader, rollouter
<1>5. StepInv'
  <2>1. global_steps' <= Cap' + 1
    BY <1>1, <1>2, <1>3
  <2>2. pc' = "step" => global_steps' <= Cap'
    BY <1>1, <1>2, <1>3, StepFacts DEF is_last_step, Cap, Types, TypeInv
  <2> QED
    BY <1>1, <1>2, <2>1, <2>2 DEF Types, StepInv, Busy, InSave
<1>6. FlightInv' /\ PrefetchInv'
  BY <1>1, <1>2 DEF Types, FlightInv, PrefetchInv, rollouter, InSave
<1>7. FedInv'
  BY <1>1, <1>2 DEF Types, FedInv, rollouter
<1> QED
  BY <1>4, <1>5, <1>6, <1>7 DEF Types

-----------------------------------------------------------------------------
(* Rotation. *)

\* The first n of a list of paths.
Oldest(paths, n) == {paths[i] : i \in 1 .. n}

LEMMA RemovedFolders ==
  ASSUME NEW d \in [Steps -> Folder], NEW paths \in Seq(Steps), role \in AllRoles,
         NEW k \in 0 .. Len(paths)
  PROVE  LET d2 == remove_previous_save_local_path(d, SubSeq(paths, 1, k))
         IN  /\ d2 \in [Steps -> Folder]
             /\ \A s \in Steps \ Oldest(paths, k) : d2[s] = d[s]
             /\ \A s \in Steps, ro \in AllRoles, r \in Ranks : d2[s][ro][r] \in {d[s][ro][r], NoShard}
             /\ \A s \in Oldest(paths, k), r \in Ranks : d2[s][role][r] = NoShard
<1> DEFINE gone == SubSeq(paths, 1, k)
           cut(s) == [d[s] EXCEPT ![role] = [r \in Ranks |-> NoShard]]
           d2 == remove_previous_save_local_path(d, gone)
<1>1. DOMAIN gone = 1 .. k /\ \A i \in 1 .. k : gone[i] = paths[i]
  BY SubSeqProperties
<1>2. \A s : (\A i \in DOMAIN gone : gone[i] # s) <=> s \notin Oldest(paths, k)
  BY <1>1 DEF Oldest
<1>3. \A s \in Steps : d2[s] = IF s \notin Oldest(paths, k) THEN d[s] ELSE cut(s)
  BY <1>2 DEF remove_previous_save_local_path
<1>4. \A s \in Steps : /\ cut(s) \in Folder
                       /\ \A ro \in AllRoles, r \in Ranks : cut(s)[ro][r] \in {d[s][ro][r], NoShard}
                       /\ \A r \in Ranks : cut(s)[role][r] = NoShard
  <2> TAKE s \in Steps
  <2>1. d[s] \in Folder
    OBVIOUS
  <2>2. CASE role = "actor"
    BY <2>1, <2>2, ShardFacts DEF Folder, AllRoles
  <2>3. CASE role = "critic"
    BY <2>1, <2>3, ShardFacts DEF Folder, AllRoles
  <2> QED
    BY <2>2, <2>3 DEF AllRoles
<1>5. Oldest(paths, k) \subseteq Steps
  BY DEF Oldest
<1>6. d2 = [s \in Steps |-> d2[s]]
  BY DEF remove_previous_save_local_path
<1> HIDE DEF d2, cut
<1>7. d2 \in [Steps -> Folder]
  <2>1. \A s \in Steps : d2[s] \in Folder
    BY <1>3, <1>4
  <2> QED
    BY <1>6, <2>1
<1>8. \A s \in Steps \ Oldest(paths, k) : d2[s] = d[s]
  BY <1>3
<1>9. \A s \in Steps, ro \in AllRoles, r \in Ranks : d2[s][ro][r] \in {d[s][ro][r], NoShard}
  BY <1>3, <1>4
<1>10. \A s \in Oldest(paths, k), r \in Ranks : d2[s][role][r] = NoShard
  BY <1>3, <1>4, <1>5
<1> QED
  BY <1>7, <1>8, <1>9, <1>10 DEF d2

\* What is left of the paths, and of the folders.
LEMMA Kept ==
  ASSUME NEW d \in [Steps -> Folder], NEW paths \in Seq(Steps), role \in AllRoles,
         previous_saved_paths \in [actor : Seq(Steps), critic : Seq(Steps)],
         NEW n \in 0 .. Len(paths), KeepNewest(d, paths, n)
  PROVE  LET k == Len(paths) - n
             left == previous_saved_paths'[role]
         IN  /\ disk' \in [Steps -> Folder]
             /\ \A s \in Steps \ Oldest(paths, k) : disk'[s] = d[s]
             /\ \A s \in Steps, ro \in AllRoles, r \in Ranks : disk'[s][ro][r] \in {d[s][ro][r], NoShard}
             /\ \A s \in Oldest(paths, k), r \in Ranks : disk'[s][role][r] = NoShard
             /\ previous_saved_paths' \in [actor : Seq(Steps), critic : Seq(Steps)]
             /\ Len(left) = n /\ \A i \in 1 .. n : left[i] = paths[k + i]
             /\ \A ro \in AllRoles \ {role} :
                  previous_saved_paths'[ro] = previous_saved_paths[ro]
<1> DEFINE k == Len(paths) - n
           rest == SubSeq(paths, k + 1, Len(paths))
<1>1. /\ disk' = remove_previous_save_local_path(d, SubSeq(paths, 1, k))
      /\ previous_saved_paths' = [previous_saved_paths EXCEPT ![role] = rest]
  BY DEF KeepNewest
<1>2. k \in 0 .. Len(paths) /\ k \in Nat /\ Len(paths) \in Nat /\ n \in Nat
  OBVIOUS
<1>3. rest \in Seq(Steps) /\ Len(rest) = n /\ \A i \in 1 .. n : rest[i] = paths[k + i]
  <2>1. rest \in Seq(Steps) /\ Len(rest) = Len(paths) - (k + 1) + 1
    BY <1>2, SubSeqProperties
  <2>2. \A i \in 1 .. Len(rest) : rest[i] = paths[(k + 1) + i - 1]
    BY <1>2, SubSeqProperties
  <2>3. Len(rest) = n
    BY <1>2, <2>1
  <2>4. \A i \in 1 .. n : (k + 1) + i - 1 = k + i
    BY <1>2
  <2> QED
    BY <2>1, <2>2, <2>3, <2>4
<1> HIDE DEF rest
<1>4. /\ previous_saved_paths' \in [actor : Seq(Steps), critic : Seq(Steps)]
      /\ previous_saved_paths'[role] = rest
      /\ \A ro \in AllRoles \ {role} : previous_saved_paths'[ro] = previous_saved_paths[ro]
  <2>1. CASE role = "actor"
    BY <1>1, <1>3, <2>1 DEF AllRoles
  <2>2. CASE role = "critic"
    BY <1>1, <1>3, <2>2 DEF AllRoles
  <2> QED
    BY <2>1, <2>2 DEF AllRoles
<1> HIDE DEF k
<1>5. /\ disk' \in [Steps -> Folder]
      /\ \A s \in Steps \ Oldest(paths, k) : disk'[s] = d[s]
      /\ \A s \in Steps, ro \in AllRoles, r \in Ranks : disk'[s][ro][r] \in {d[s][ro][r], NoShard}
      /\ \A s \in Oldest(paths, k), r \in Ranks : disk'[s][role][r] = NoShard
  BY <1>1, <1>2, RemovedFolders
<1> QED
  BY <1>3, <1>4, <1>5 DEF k

\* Rotation removes the role's k oldest paths and leaves every other folder as it is,
\* but for a folder it makes.
Rotates(k) ==
    /\ disk' \in [Steps -> Folder]
    /\ previous_saved_paths' \in [actor : Seq(Steps), critic : Seq(Steps)]
    /\ \A s \in Steps, ro \in AllRoles, r \in Ranks : disk'[s][ro][r] \in {disk[s][ro][r], NoShard}
    /\ \A s \in Steps \ Oldest(saved, k) :
         /\ \A ro \in AllRoles : disk'[s][ro] = disk[s][ro]
         /\ disk'[s].data = disk[s].data
         /\ disk[s].made => disk'[s].made
    /\ \A s \in Oldest(saved, k), r \in Ranks : disk'[s][role][r] = NoShard
    /\ \A ro \in AllRoles \ {role} : previous_saved_paths'[ro] = previous_saved_paths[ro]

LEMMA SavedFacts ==
  ASSUME TypeInv
  PROVE  /\ role \in AllRoles /\ saved \in Seq(Steps) /\ Len(saved) \in Nat
         /\ max_ckpt_to_keep \in Nat
<1>1. role \in AllRoles
  BY ConfigFacts DEF TypeInv
<1>2. previous_saved_paths \in [actor : Seq(Steps), critic : Seq(Steps)]
  BY DEF TypeInv
<1>3. saved \in Seq(Steps)
  BY <1>1, <1>2 DEF saved, AllRoles
<1>4. max_ckpt_to_keep \in Nat
  BY <1>1, ConfigFacts DEF TypeInv, max_ckpt_to_keep, AllRoles
<1> QED
  BY <1>1, <1>3, <1>4

LEMMA EnsureRotates ==
  ASSUME TypeInv, global_steps \in Steps, ensure_checkpoint_capacity
  PROVE  \E k \in 0 .. Len(saved) :
           /\ Rotates(k)
           /\ max_ckpt_to_keep <= 1 => k = 0
           /\ k > 0 => k < Len(saved)
           /\ max_ckpt_to_keep > 1 /\ k > 0 => Len(saved) - k = max_ckpt_to_keep - 1
           /\ max_ckpt_to_keep > 1 /\ k = 0 => Len(saved) <= max_ckpt_to_keep - 1
           /\ Len(previous_saved_paths'[role]) = Len(saved) - k
           /\ \A i \in 1 .. Len(saved) - k : previous_saved_paths'[role][i] = saved[k + i]
<1> DEFINE made == [disk EXCEPT ![global_steps].made = TRUE]
           m == max_ckpt_to_keep
<1>1. role \in AllRoles /\ saved \in Seq(Steps) /\ Len(saved) \in Nat /\ m \in Nat
  BY SavedFacts
<1>2. disk \in [Steps -> Folder] /\ previous_saved_paths \in [actor : Seq(Steps), critic : Seq(Steps)]
  BY DEF TypeInv
<1>3. /\ made \in [Steps -> Folder]
      /\ \A s \in Steps : /\ \A ro \in AllRoles : made[s][ro] = disk[s][ro]
                          /\ made[s].data = disk[s].data
                          /\ disk[s].made => made[s].made
  BY <1>2 DEF Folder, AllRoles
<1> HIDE DEF made, m
<1>4. CASE m > 1 /\ Len(saved) >= m
  <2> DEFINE n == m - 1
             k == Len(saved) - n
  <2>1. KeepNewest(made, saved, n)
    BY <1>4 DEF ensure_checkpoint_capacity, made, m
  <2>2. n \in 0 .. Len(saved) /\ k \in 0 .. Len(saved) /\ k > 0 /\ k < Len(saved)
        /\ Len(saved) - k = n
    BY <1>1, <1>4
  <2> HIDE DEF n
  <2>3. /\ disk' \in [Steps -> Folder]
        /\ \A s \in Steps \ Oldest(saved, k) : disk'[s] = made[s]
        /\ \A s \in Steps, ro \in AllRoles, r \in Ranks : disk'[s][ro][r] \in {made[s][ro][r], NoShard}
        /\ \A s \in Oldest(saved, k), r \in Ranks : disk'[s][role][r] = NoShard
        /\ previous_saved_paths' \in [actor : Seq(Steps), critic : Seq(Steps)]
        /\ Len(previous_saved_paths'[role]) = n
        /\ \A i \in 1 .. n : previous_saved_paths'[role][i] = saved[k + i]
        /\ \A ro \in AllRoles \ {role} : previous_saved_paths'[ro] = previous_saved_paths[ro]
    BY <1>1, <1>2, <1>3, <2>1, <2>2, Kept
  <2> HIDE DEF k
  <2>4. Rotates(k)
    BY <1>3, <2>3 DEF Rotates
  <2> QED
    BY <1>1, <1>4, <2>2, <2>3, <2>4 DEF m, n
<1>5. CASE ~(m > 1 /\ Len(saved) >= m)
  <2>1. disk' = made /\ UNCHANGED previous_saved_paths
    BY <1>5 DEF ensure_checkpoint_capacity, made, m
  <2>2. Oldest(saved, 0) = {}
    BY DEF Oldest
  <2>3. Rotates(0)
    BY <1>2, <1>3, <2>1, <2>2 DEF Rotates
  <2>4. Len(previous_saved_paths'[role]) = Len(saved)
        /\ \A i \in 1 .. Len(saved) : previous_saved_paths'[role][i] = saved[i]
    BY <2>1 DEF saved
  <2>5. /\ 0 \in 0 .. Len(saved) /\ Len(saved) - 0 = Len(saved)
        /\ m > 1 => Len(saved) <= m - 1
    BY <1>1, <1>5
  <2>6. \A i \in 1 .. Len(saved) - 0 : previous_saved_paths'[role][i] = saved[0 + i]
    BY <1>1, <2>4
  <2> WITNESS 0 \in 0 .. Len(saved)
  <2> QED
    BY <2>3, <2>4, <2>5, <2>6 DEF m
<1> QED
  BY <1>4, <1>5

LEMMA RegisterRotates ==
  ASSUME TypeInv, global_steps \in Steps, register_checkpoint
  PROVE  \E k \in 0 .. Len(saved) :
           /\ Rotates(k)
           /\ max_ckpt_to_keep = 0 => k = 0
           /\ max_ckpt_to_keep # 1 /\ k > 0 => k < Len(saved)
           /\ max_ckpt_to_keep > 0 => Len(saved) + 1 - k <= max_ckpt_to_keep
           /\ Len(previous_saved_paths'[role]) = Len(saved) + 1 - k
           /\ \A i \in 1 .. Len(saved) - k : previous_saved_paths'[role][i] = saved[k + i]
           /\ previous_saved_paths'[role][Len(saved) + 1 - k] = global_steps
<1> DEFINE m == max_ckpt_to_keep
           paths == Append(saved, global_steps)
           n == IF m = 0 \/ Len(paths) <= m THEN Len(paths) ELSE m
           k == Len(paths) - n
<1>1. role \in AllRoles /\ saved \in Seq(Steps) /\ Len(saved) \in Nat /\ m \in Nat
  BY SavedFacts
<1>2. disk \in [Steps -> Folder] /\ previous_saved_paths \in [actor : Seq(Steps), critic : Seq(Steps)]
  BY DEF TypeInv
<1>3. /\ paths \in Seq(Steps) /\ Len(paths) = Len(saved) + 1
      /\ \A i \in 1 .. Len(saved) : paths[i] = saved[i]
      /\ paths[Len(saved) + 1] = global_steps
  BY <1>1
<1>4. KeepNewest(disk, paths, n)
  BY DEF register_checkpoint
<1> HIDE DEF paths, m
<1>5. /\ n \in 0 .. Len(paths) /\ k \in 0 .. Len(saved) /\ n = Len(saved) + 1 - k
      /\ m = 0 => k = 0
      /\ m # 1 /\ k > 0 => k < Len(saved)
      /\ m > 0 => Len(saved) + 1 - k <= m
  <2>1. CASE m = 0 \/ Len(paths) <= m
    <3>1. n = Len(paths) /\ k = 0
      BY <1>1, <1>3, <2>1
    <3>2. Len(paths) = Len(saved) + 1 /\ Len(saved) \in Nat /\ m \in Nat
      BY <1>1, <1>3
    <3> HIDE DEF n, k
    <3> QED
      BY <2>1, <3>1, <3>2
  <2>2. CASE ~(m = 0 \/ Len(paths) <= m)
    <3>1. n = m /\ k = Len(saved) + 1 - m /\ m >= 1 /\ m <= Len(saved)
      BY <1>1, <1>3, <2>2
    <3>2. Len(paths) = Len(saved) + 1 /\ Len(saved) \in Nat /\ m \in Nat
      BY <1>1, <1>3
    <3> HIDE DEF n, k
    <3> QED
      BY <3>1, <3>2
  <2> QED
    BY <2>1, <2>2
<1> HIDE DEF n
<1>6. /\ disk' \in [Steps -> Folder]
      /\ \A s \in Steps \ Oldest(paths, k) : disk'[s] = disk[s]
      /\ \A s \in Steps, ro \in AllRoles, r \in Ranks : disk'[s][ro][r] \in {disk[s][ro][r], NoShard}
      /\ \A s \in Oldest(paths, k), r \in Ranks : disk'[s][role][r] = NoShard
      /\ previous_saved_paths' \in [actor : Seq(Steps), critic : Seq(Steps)]
      /\ Len(previous_saved_paths'[role]) = n
      /\ \A i \in 1 .. n : previous_saved_paths'[role][i] = paths[k + i]
      /\ \A ro \in AllRoles \ {role} : previous_saved_paths'[ro] = previous_saved_paths[ro]
  <2>1. paths \in Seq(Steps) /\ n \in 0 .. Len(paths) /\ k = Len(paths) - n
    BY <1>3, <1>5
  <2> QED
    BY <1>1, <1>2, <1>4, <2>1, Kept
<1> HIDE DEF k
<1>7. Oldest(paths, k) = Oldest(saved, k)
  <2>1. \A i \in 1 .. k : i \in 1 .. Len(saved)
    BY <1>1, <1>5
  <2>2. \A i \in 1 .. k : paths[i] = saved[i]
    BY <1>3, <2>1
  <2> QED
    BY <2>2, Zenon DEF Oldest
<1>8. Rotates(k)
  BY <1>6, <1>7 DEF Rotates
<1>9. /\ \A i \in 1 .. Len(saved) - k : i \in 1 .. n /\ k + i \in 1 .. Len(saved)
      /\ n \in 1 .. n /\ k + n = Len(saved) + 1
  BY <1>1, <1>5
<1>10. /\ \A i \in 1 .. Len(saved) - k : previous_saved_paths'[role][i] = saved[k + i]
       /\ previous_saved_paths'[role][n] = global_steps
  BY <1>3, <1>6, <1>9
<1> QED
  BY <1>5, <1>6, <1>8, <1>10 DEF m

-----------------------------------------------------------------------------
(* Writes, and what a crash does to them. *)

LEMMA BusyStep == ASSUME Types, Busy PROVE global_steps \in Steps
BY StepFacts DEF Types, TypeInv, StepInv, Cap

LEMMA ShardWritten ==
  ASSUME TypeInv, global_steps \in Steps, NEW r \in Ranks, WriteShard(r)
  PROVE  /\ disk' \in [Steps -> Folder]
         /\ \A s \in Steps : disk'[s].made = disk[s].made /\ disk'[s].data = disk[s].data
         /\ \A s \in Steps, ro \in AllRoles : s # global_steps \/ ro # role => disk'[s][ro] = disk[s][ro]
         /\ \A q \in Ranks : disk'[global_steps][role][q] =
                IF q = r THEN weights ELSE disk[global_steps][role][q]
<1>1. role \in AllRoles /\ disk \in [Steps -> Folder] /\ weights \in Shards
  BY SavedFacts DEF TypeInv
<1>2. disk' = [disk EXCEPT ![global_steps][role][r] = weights]
  BY DEF WriteShard
<1>3. CASE role = "actor"
  BY <1>1, <1>2, <1>3 DEF Folder, AllRoles
<1>4. CASE role = "critic"
  BY <1>1, <1>2, <1>4 DEF Folder, AllRoles
<1> QED
  BY <1>1, <1>3, <1>4 DEF AllRoles

LEMMA DataWritten ==
  ASSUME TypeInv, global_steps \in Steps, SaveData
  PROVE  /\ disk' \in [Steps -> Folder]
         /\ \A s \in Steps, ro \in AllRoles : disk'[s][ro] = disk[s][ro]
         /\ \A s \in Steps : s # global_steps => disk'[s] = disk[s]
         /\ disk'[global_steps].made /\ disk'[global_steps].data \in Positions
<1>1. disk \in [Steps -> Folder] /\ LoaderState \in Positions
  BY DEF TypeInv, LoaderState, Positions
<1>2. disk' = [disk EXCEPT ![global_steps].made = TRUE, ![global_steps].data = LoaderState]
  BY DEF SaveData
<1> QED
  BY <1>1, <1>2 DEF Folder, AllRoles

LEMMA CrashTears ==
  ASSUME TypeInv, global_steps \in Steps, Crash
  PROVE  /\ disk' \in [Steps -> Folder]
         /\ \A s \in Steps : s # global_steps \/ pc \notin {"shards", "data"} => disk'[s] = disk[s]
         /\ \A s \in Steps, ro \in AllRoles : pc # "shards" \/ ro # role => disk'[s][ro] = disk[s][ro]
<1>1. role \in AllRoles /\ disk \in [Steps -> Folder]
  BY SavedFacts DEF TypeInv
<1>2. CASE UNCHANGED disk
  BY <1>1, <1>2
<1>3. CASE pc = "shards" /\ \E torn \in SUBSET (Ranks \ written) :
               disk' = [disk EXCEPT ![global_steps][role] =
                          [r \in Ranks |-> IF r \in torn THEN TornShard ELSE @[r]]]
  <2>1. PICK torn \in SUBSET (Ranks \ written) :
               disk' = [disk EXCEPT ![global_steps][role] =
                          [r \in Ranks |-> IF r \in torn THEN TornShard ELSE @[r]]]
    BY <1>3
  <2> DEFINE shards == [r \in Ranks |-> IF r \in torn THEN TornShard
                                          ELSE disk[global_steps][role][r]]
  <2>4. disk' = [disk EXCEPT ![global_steps][role] = shards]
    BY <2>1
  <2>5. disk[global_steps][role] \in [Ranks -> Shards]
    BY <1>1 DEF Folder, AllRoles
  <2>6. shards \in [Ranks -> Shards]
    BY <2>5, ShardFacts
  <2> HIDE DEF shards
  <2> DEFINE folder == [disk[global_steps] EXCEPT ![role] = shards]
  <2>7. folder \in Folder /\ \A ro \in AllRoles : ro # role => folder[ro] = disk[global_steps][ro]
    <3>1. disk[global_steps] \in Folder
      BY <1>1
    <3>2. CASE role = "actor"
      BY <3>1, <2>6, <3>2 DEF Folder, AllRoles
    <3>3. CASE role = "critic"
      BY <3>1, <2>6, <3>3 DEF Folder, AllRoles
    <3> QED
      BY <1>1, <3>2, <3>3 DEF AllRoles
  <2>8. disk' = [disk EXCEPT ![global_steps] = folder]
    BY <2>4
  <2> HIDE DEF folder
  <2>9. /\ disk' \in [Steps -> Folder] /\ disk'[global_steps] = folder
        /\ \A s \in Steps : s # global_steps => disk'[s] = disk[s]
    BY <1>1, <2>7, <2>8
  <2> QED
    BY <1>3, <2>7, <2>9
<1>4. CASE pc = "data" /\ disk' = [disk EXCEPT ![global_steps].data = TornData]
  BY <1>1, <1>4 DEF Folder, AllRoles
<1> QED
  BY <1>2, <1>3, <1>4 DEF Crash

LEMMA TypesSave ==
  ASSUME Types,
         \/ ensure_checkpoint_capacity \/ (\E r \in Ranks : WriteShard(r)) \/ register_checkpoint
         \/ SaveData
  PROVE  Types'
<1>1. /\ InSave /\ InSave' /\ pc' \in {"capacity", "shards", "data", "truncate", "tracker"}
      /\ UNCHANGED <<config, tracker, counters, loader, rollouter, weights, run>>
  BY DEF ensure_checkpoint_capacity, WriteShard, register_checkpoint, NextRole, SaveData,
         saving, InSave
<1>2. TypeInv /\ global_steps \in Steps
  BY <1>1, BusyStep DEF Types, Busy
<1>3. kind' = kind /\ Roles' = Roles
  BY <1>1 DEF kind, Roles
<1>4. role \in Roles /\ written \subseteq Ranks /\ disk \in [Steps -> Folder]
      /\ previous_saved_paths \in [actor : Seq(Steps), critic : Seq(Steps)]
  BY <1>2 DEF TypeInv
<1>5. /\ role' \in Roles' /\ written' \subseteq Ranks /\ disk' \in [Steps -> Folder]
      /\ previous_saved_paths' \in [actor : Seq(Steps), critic : Seq(Steps)]
  <2>1. CASE ensure_checkpoint_capacity
    <3>1. disk' \in [Steps -> Folder]
          /\ previous_saved_paths' \in [actor : Seq(Steps), critic : Seq(Steps)]
      BY <1>2, <2>1, EnsureRotates DEF Rotates
    <3>2. UNCHANGED <<role, written>>
      BY <2>1 DEF ensure_checkpoint_capacity
    <3> QED
      BY <1>3, <1>4, <3>1, <3>2
  <2>2. CASE \E r \in Ranks : WriteShard(r)
    <3>1. PICK r \in Ranks : WriteShard(r)
      BY <2>2
    <3>2. disk' \in [Steps -> Folder]
      BY <1>2, <3>1, ShardWritten
    <3>3. written' = written \cup {r} /\ UNCHANGED <<role, previous_saved_paths>>
      BY <3>1 DEF WriteShard
    <3> QED
      BY <1>3, <1>4, <3>2, <3>3
  <2>3. CASE register_checkpoint
    <3>1. disk' \in [Steps -> Folder]
          /\ previous_saved_paths' \in [actor : Seq(Steps), critic : Seq(Steps)]
      BY <1>2, <2>3, RegisterRotates DEF Rotates
    <3>2. role' \in Roles /\ written' = {}
      BY <2>3 DEF register_checkpoint, NextRole, Roles
    <3> QED
      BY <1>3, <3>1, <3>2
  <2>4. CASE SaveData
    <3>1. disk' \in [Steps -> Folder]
      BY <1>2, <2>4, DataWritten
    <3>2. UNCHANGED <<role, written, previous_saved_paths>>
      BY <2>4 DEF SaveData, saving
    <3> QED
      BY <1>3, <1>4, <3>1, <3>2
  <2> QED
    BY <2>1, <2>2, <2>3, <2>4
<1>6. TypeInv'
  BY <1>1, <1>2, <1>3, <1>5 DEF TypeInv, counters, loader, rollouter
<1> QED
  BY <1>1, <1>6, TypesKeep DEF Busy, Up, InSave, rollouter

LEMMA TypesTracker ==
  ASSUME Types, TruncateTracker \/ WriteTracker
  PROVE  Types'
<1>1. /\ InSave /\ Busy /\ pc' \in {"tracker", "post", "step"}
      /\ pc' = "tracker" => tracker' = Torn /\ last_ckpt' = last_ckpt
      /\ pc' # "tracker" => tracker' = global_steps /\ last_ckpt' = global_steps
      /\ pc' = "step" => kind = "fully_async"
      /\ pc' = "post" => kind # "fully_async"
      /\ UNCHANGED <<config, disk, saving, global_steps, local_step, loader, rollouter, weights, run>>
  BY DEF TruncateTracker, WriteTracker, InSave, Busy, counters
<1>2. global_steps \in Steps
  BY <1>1, BusyStep
<1>3. kind' = kind /\ Roles' = Roles /\ Cap' = Cap /\ is_last_step' = is_last_step /\ Up /\ Up'
  BY <1>1 DEF kind, Roles, Cap, is_last_step, Up, Busy, InSave
<1>4. last_ckpt' \in Nat /\ tracker' \in {Absent, Torn} \cup Steps
  BY <1>1, <1>2 DEF Types, TypeInv
<1>5. TypeInv'
  BY <1>1, <1>3, <1>4 DEF Types, TypeInv, saving, loader, rollouter
<1>6. global_steps <= Cap /\ last_ckpt <= Cap /\ global_steps <= Cap + 1
  BY <1>1 DEF Types, StepInv
<1>7. StepInv'
  <2>1. tracker' \in Steps => tracker' <= Cap'
    BY <1>1, <1>3, <1>6, StepFacts DEF Torn
  <2>2. last_ckpt' <= Cap'
    BY <1>1, <1>3, <1>6
  <2> QED
    BY <1>1, <1>3, <1>6, <2>1, <2>2 DEF StepInv
<1>8. FedInv'
  BY <1>1, <1>3 DEF Types, FedInv, rollouter
<1>9. FlightInv' /\ PrefetchInv'
  BY <1>1, <1>3 DEF Types, FlightInv, PrefetchInv, InSave, rollouter
<1> QED
  BY <1>5, <1>7, <1>8, <1>9 DEF Types

LEMMA TypesCrash ==
  ASSUME Types, Crash
  PROVE  Types'
<1> DEFINE t == trigger_parameter_sync_step
<1>1. /\ pc' = "load" /\ Busy /\ run < MaxCrashes /\ run' = run + 1 /\ feeding' = FALSE
      /\ UNCHANGED <<config, tracker, saving, counters, loader, queue, fed, weights>>
  BY DEF Crash, Types, TypeInv, Busy, InSave
<1>2. TypeInv /\ global_steps \in Steps
  BY <1>1, BusyStep DEF Types
<1>3. disk' \in [Steps -> Folder]
  BY <1>2, CrashTears
<1>4. run \in Nat /\ run' \in 0 .. MaxCrashes /\ run' >= 1
  BY <1>1, <1>2, StepFacts DEF TypeInv
<1>5. kind' = kind /\ Roles' = Roles /\ Cap' = Cap + 1 /\ Cap \in Nat /\ Cap >= 1
  BY <1>1, <1>4, StepFacts DEF kind, Roles, Cap
<1>6. TypeInv'
  BY <1>1, <1>2, <1>3, <1>4, <1>5 DEF TypeInv, saving, counters, loader
<1>7. StepInv'
  <2>1. /\ tracker \in Steps => tracker <= Cap /\ tracker \in Nat
        /\ global_steps <= Cap /\ last_ckpt <= Cap /\ global_steps \in Nat /\ last_ckpt \in Nat
    BY <1>1, <1>2, StepFacts DEF Types, StepInv, TypeInv
  <2>2. /\ tracker' \in Steps => tracker' <= Cap' /\ tracker' < Cap'
        /\ global_steps' <= Cap' + 1 /\ last_ckpt' <= Cap'
    BY <1>1, <1>5, <2>1 DEF counters
  <2>3. ~(pc' = "load" /\ run' = 0) /\ ~Busy'
    BY <1>1, <1>4 DEF Busy, InSave
  <2> QED
    BY <2>2, <2>3 DEF StepInv
<1>8. FedInv'
  <2>1. fed \in Nat /\ fed >= 1
        /\ (fed <= total_steps \/ (run >= 1 /\ fed <= (Cap - 1) * t + 1))
    BY <1>2 DEF TypeInv, Types, FedInv
  <2>2. (Cap - 1) * t <= (Cap' - 1) * t
    BY <1>5, Trigger, TimesMonotone
  <2>3. (Cap - 1) * t \in Nat /\ (Cap' - 1) * t \in Nat
    BY <1>5, Trigger, Times
  <2>4. fed <= (Cap - 1) * t + 1 => fed <= (Cap' - 1) * t + 1
    <3> DEFINE a == (Cap - 1) * t
               b == (Cap' - 1) * t
    <3>1. a \in Nat /\ b \in Nat /\ a <= b
      BY <2>2, <2>3
    <3> HIDE DEF a, b
    <3>2. fed <= a + 1 => fed <= b + 1
      BY <2>1, <3>1
    <3> QED
      BY <3>2 DEF a, b
  <2>5. fed' <= total_steps \/ (run' >= 1 /\ fed' <= (Cap' - 1) * t + 1)
    BY <1>1, <1>4, <2>1, <2>4
  <2> QED
    BY <1>1, <2>1, <2>5 DEF FedInv, Up, Busy, InSave
<1>9. FlightInv' /\ PrefetchInv'
  BY <1>1 DEF FlightInv, PrefetchInv, InSave
<1> QED
  BY <1>6, <1>7, <1>8, <1>9 DEF Types

LEMMA TypesStep == Types /\ [Next]_vars => Types'
<1> SUFFICES ASSUME Types, [Next]_vars PROVE Types'
  OBVIOUS
<1>1. CASE LoadNothing \/ LoadCheckpoint
  BY <1>1, TypesLoad
<1>2. CASE LoadRaises \/ LoopEnds \/ OneStepRaises \/ StopSamples
  BY <1>2, TypesControl
<1>3. CASE FitBatch
  BY <1>3, TypesFit
<1>4. CASE FirstBatch \/ FitOneStep
  BY <1>4, TypesOneStep
<1>5. CASE FitSample
  BY <1>5, TypesSample
<1>6. CASE PostStep
  BY <1>6, TypesPost DEF PostStep, Types, PrefetchInv
<1>7. CASE \/ ensure_checkpoint_capacity \/ (\E r \in Ranks : WriteShard(r))
           \/ register_checkpoint \/ SaveData
  BY <1>7, TypesSave
<1>8. CASE TruncateTracker \/ WriteTracker
  BY <1>8, TypesTracker
<1>9. CASE FeedSample
  BY <1>9, TypesFeed
<1>10. CASE Crash
  BY <1>10, TypesCrash
<1>11. CASE UNCHANGED vars
  BY <1>11 DEF vars, saving, counters, loader, rollouter, Types, TypeInv, StepInv, FlightInv, FedInv,
               PrefetchInv, kind, Roles, Cap, is_last_step, Busy, Up, InSave
<1> QED
  BY <1>1, <1>2, <1>3, <1>4, <1>5, <1>6, <1>7, <1>8, <1>9, <1>10, <1>11 DEF Next, Trainer, Finished

LEMMA TypesImplyTypeOK == Types => TypeOK
<1> SUFFICES ASSUME Types PROVE TypeOK
  OBVIOUS
<1>1. Positions \cup {NoData, TornData} \subseteq Data
  BY StepFacts DEF Positions, NoData, TornData, Data, Absent, Torn
<1>2. DOMAIN disk = Steps /\ \A s \in Steps :
         /\ disk[s].made \in BOOLEAN /\ disk[s].data \in Data
         /\ \A r \in Ranks : disk[s].actor[r] \in Shards /\ disk[s].critic[r] \in Shards
  BY <1>1 DEF Types, TypeInv, Folder
<1>3. global_steps \in 0 .. total_steps + MaxCrashes + 1 /\ last_ckpt \in Steps
  BY StepFacts DEF Types, TypeInv, StepInv, Cap
<1>4. \A ro \in {"actor", "critic"} : previous_saved_paths[ro] \in Seq(Steps)
  BY DEF Types, TypeInv
<1> QED
  BY <1>2, <1>3, <1>4 DEF TypeOK, Types, TypeInv

\* Every variable keeps its type, and with it the bounds the runs need: no trainer
\* counts more than one step past its last for every crash, the version the fully
\* async trainer publishes included, whatever the rollouter has fed by then.
THEOREM TypesCorrect == Spec => []TypeOK
<1>1. Init => Types
  BY TypesInit
<1>2. Types /\ [Next]_vars => Types'
  BY TypesStep
<1>3. Types => TypeOK
  BY TypesImplyTypeOK
<1> QED
  BY <1>1, <1>2, <1>3, PTL DEF Spec

-----------------------------------------------------------------------------
(* The checkpoint the tracker names is whole. *)

Safe == PathInv /\ WriteInv /\ TrackedInv /\ FailInv

\* No trainer keeps a single checkpoint: register_checkpoint would remove it before
\* the tracker names its successor.
KeepsTwo == \A c \in Configs : c.keep.actor # 1 /\ c.keep.critic # 1

LEMMA SafeInit == Init => Safe
<1> SUFFICES ASSUME Init PROVE Safe
  OBVIOUS
<1>1. /\ pc = "load" /\ tracker = -1 /\ role = "actor" /\ written = {}
      /\ weights.run = 0
  BY DEF Init, Absent
<1>2. tracker \notin Steps
  BY <1>1, StepFacts
<1>3. PathInv /\ FailInv /\ TrackedInv
  BY <1>1, <1>2 DEF PathInv, Up, Busy, InSave, FailInv, TrackedInv
<1>4. WriteInv
  BY <1>1, ShardFacts DEF WriteInv, Registered
<1> QED
  BY <1>3, <1>4 DEF Safe

\* The paths rotation removes are older than the checkpoint saved last.
LEMMA OldPaths ==
  ASSUME TypeInv, PathInv, pc \in {"capacity", "shards"}, NEW k \in 0 .. Len(saved),
         k > 0 => k < Len(saved)
  PROVE  /\ \A s \in Oldest(saved, k) : s < last_ckpt
         /\ \A i \in 1 .. Len(saved) : saved[i] <= last_ckpt
         /\ last_ckpt < global_steps
<1>1. role \in AllRoles /\ saved \in Seq(Steps) /\ Len(saved) \in Nat
  BY SavedFacts
<1>2. role \notin Registered
  BY DEF Registered
<1>3. Up /\ InSave
  BY DEF Up, Busy, InSave
<1>4. Increasing(saved) /\ \A i \in 1 .. Len(saved) : saved[i] <= last_ckpt
  BY <1>1, <1>2, <1>3 DEF PathInv, saved
<1>5. last_ckpt < global_steps /\ last_ckpt \in Nat
  BY <1>3 DEF PathInv, TypeInv
<1>6. \A s \in Oldest(saved, k) : s < last_ckpt
  <2> TAKE s \in Oldest(saved, k)
  <2>1. PICK i \in 1 .. k : s = saved[i]
    BY DEF Oldest
  <2>2. k < Len(saved) /\ i \in 1 .. Len(saved) /\ Len(saved) \in 1 .. Len(saved) /\ i < Len(saved)
    BY <1>1, <2>1
  <2>3. saved[i] < saved[Len(saved)] /\ saved[Len(saved)] <= last_ckpt
    BY <1>1, <1>4, <2>2 DEF Increasing
  <2>4. saved[i] \in Nat /\ saved[Len(saved)] \in Nat
    BY <1>1, <2>2, StepFacts
  <2> QED
    BY <1>5, <2>1, <2>3, <2>4
<1> QED
  BY <1>4, <1>5, <1>6

\* The job starts again.
LEMMA SafeStart ==
  ASSUME Types, Safe, pc = "load", NEW s \in Nat, NEW at, NEW w \in Shards \ {NoShard, TornShard},
         tracker \in Steps => s = tracker, tracker # Torn, Start(s, at, w)
  PROVE  Safe'
<1>1. /\ UNCHANGED <<config, disk, tracker>> /\ weights' = w /\ last_ckpt' = s
      /\ global_steps' = (IF kind = "fully_async" THEN s ELSE s + 1)
      /\ previous_saved_paths' = [actor |-> <<>>, critic |-> <<>>]
      /\ role' = "actor" /\ written' = {} /\ pc' \in {"prefetch", "step"}
  BY DEF Start
<1>2. kind' = kind /\ Roles' = Roles
  BY <1>1 DEF kind, Roles
<1>3. PathInv'
  <2>1. kind # "fully_async" => last_ckpt' < global_steps'
    BY <1>1
  <2>2. last_ckpt' <= global_steps'
    BY <1>1
  <2>3. \A ro \in AllRoles : previous_saved_paths'[ro] = <<>>
    BY <1>1 DEF AllRoles
  <2>4. \A ro \in AllRoles : DOMAIN previous_saved_paths'[ro] = {}
    BY <2>3
  <2> QED
    BY <1>1, <1>2, <2>1, <2>2, <2>4 DEF PathInv, InSave, Increasing
<1>4. WriteInv'
  BY <1>1 DEF WriteInv, Registered
<1>5. TrackedInv'
  BY <1>1, <1>2 DEF Safe, TrackedInv, Complete
<1>6. FailInv'
  BY <1>1 DEF FailInv
<1> QED
  BY <1>3, <1>4, <1>5, <1>6 DEF Safe

LEMMA SafeLoad ==
  ASSUME Types, Safe, LoadNothing \/ LoadCheckpoint
  PROVE  Safe'
<1>1. CASE LoadNothing
  <2>1. /\ pc = "load" /\ tracker # Torn /\ find_latest_ckpt_path = Absent
        /\ Start(0, [pass |-> 0, pos |-> 0], [run |-> run, batches |-> <<>>])
    BY <1>1 DEF LoadNothing
  <2>2. tracker \notin Steps
    <3> SUFFICES ASSUME tracker \in Steps PROVE FALSE
      OBVIOUS
    <3>1. disk[tracker].made
      BY DEF Safe, TrackedInv
    <3> QED
      BY <2>1, <3>1, StepFacts DEF find_latest_ckpt_path, Absent
  <2>3. [run |-> run, batches |-> <<>>] \in Shards /\ run \in Nat
    BY DEF Types, TypeInv, Shards
  <2>4. [run |-> run, batches |-> <<>>] \in Shards \ {NoShard, TornShard}
    BY <2>3, ShardFacts
  <2> QED
    BY <2>1, <2>2, <2>4, SafeStart
<1>2. CASE LoadCheckpoint
  <2>1. /\ pc = "load" /\ tracker # Torn /\ find_latest_ckpt_path # Absent
        /\ \A ro \in Roles : Whole(disk[tracker][ro])
    BY <1>2 DEF LoadCheckpoint
  <2>2. tracker \in Steps /\ tracker \in Nat
    BY <2>1, StepFacts DEF find_latest_ckpt_path
  <2>3. PICK r \in Ranks : Start(tracker, Restored(tracker), disk[tracker].actor[r])
    BY <1>2 DEF LoadCheckpoint
  <2>4. disk[tracker].actor[r] \in Shards
    BY <2>2 DEF Types, TypeInv, Folder
  <2>5. disk[tracker].actor[r] \notin {NoShard, TornShard}
    <3>1. "actor" \in Roles
      BY DEF Roles
    <3>2. Whole(disk[tracker]["actor"])
      BY <2>1, <3>1
    <3> QED
      BY <3>2 DEF Whole
  <2> QED
    BY <2>1, <2>2, <2>3, <2>4, <2>5, SafeStart
<1> QED
  BY <1>1, <1>2

\* Training: nothing is written, and the paths stay.
LEMMA SafeTrain ==
  ASSUME Types, Safe, UNCHANGED <<config, disk, tracker, saving, last_ckpt>>,
         pc' \in {"failed", "done", "capacity", "post", "step"}, pc \in {"step", "prefetch", "post", "load"},
         weights' \notin {NoShard, TornShard},
         pc' # "failed" => pc # "load",
         global_steps' = global_steps \/ (pc \in {"step", "post"} /\ global_steps' = global_steps + 1),
         pc = "post" => global_steps' = global_steps + 1,
         kind = "fully_async" /\ pc' = "capacity" => global_steps' # last_ckpt,
         FailInv'
  PROVE  Safe'
<1>2. role = "critic" => pc' = "failed"
  BY DEF Safe, WriteInv
<1>3. Registered' = {} /\ Registered = {}
  BY <1>2 DEF Registered, saving
<1>4. kind' = kind /\ Roles' = Roles
  BY DEF kind, Roles
<1>5. global_steps \in Nat /\ last_ckpt \in Nat
  BY DEF Types, TypeInv
<1>6. PathInv'
  <2> SUFFICES ASSUME Up' PROVE PathInv'
    BY DEF PathInv
  <2>1. Up /\ pc' # "failed" /\ pc # "load" /\ Busy
    BY DEF Up, Busy, InSave
  <2>2. /\ tracker \in Steps => tracker = last_ckpt
        /\ kind # "fully_async" /\ pc # "post" => last_ckpt < global_steps
        /\ last_ckpt <= global_steps
        /\ tracker # Torn
    BY <2>1 DEF Safe, PathInv
  <2>3. /\ last_ckpt <= global_steps'
        /\ (Busy' /\ kind # "fully_async" /\ pc' # "post") \/ InSave' => last_ckpt < global_steps'
    <3>1. last_ckpt <= global_steps'
      BY <1>5, <2>2
    <3>2. CASE kind # "fully_async"
      BY <1>5, <2>2, <3>2
    <3>3. CASE kind = "fully_async"
      BY <1>5, <2>2, <3>1, <3>3 DEF InSave
    <3> QED
      BY <3>1, <3>2, <3>3
  <2>4. \A ro \in AllRoles :
             /\ Increasing(previous_saved_paths[ro])
             /\ \A i \in DOMAIN previous_saved_paths[ro] : previous_saved_paths[ro][i] <= last_ckpt
    BY <1>3, <2>1 DEF Safe, PathInv
  <2> QED
    BY <1>3, <1>4, <2>2, <2>3, <2>4 DEF PathInv, saving
<1>7. WriteInv'
  BY <1>2, <1>3 DEF Safe, WriteInv, saving
<1>8. TrackedInv'
  BY <1>4 DEF Safe, TrackedInv, Complete
<1> QED
  BY <1>6, <1>7, <1>8 DEF Safe

LEMMA SafeControl ==
  ASSUME Types, Safe, LoadRaises \/ LoopEnds \/ OneStepRaises \/ StopSamples
  PROVE  Safe'
<1>1. /\ UNCHANGED <<config, disk, tracker, saving, counters, weights>>
      /\ pc' \in {"failed", "done", "capacity"} /\ pc \in {"step", "load"}
      /\ pc' # "failed" => pc # "load"
      /\ kind = "fully_async" /\ pc' = "capacity" => global_steps # last_ckpt
  BY DEF LoadRaises, LoopEnds, OneStepRaises, StopSamples
<1>2. kind' = kind
  BY <1>1 DEF kind
<1>3. FailInv'
  <2>1. CASE LoadRaises
    <3>1. CASE tracker = Torn
      BY <1>1, <3>1 DEF FailInv
    <3>2. CASE tracker # Torn
      <4>1. /\ find_latest_ckpt_path # Absent
            /\ (\E ro \in Roles : ~Whole(disk[tracker][ro])) \/ disk[tracker].data = TornData
        BY <2>1, <3>2 DEF LoadRaises
      <4>2. tracker \in Steps
        BY <4>1 DEF find_latest_ckpt_path
      <4>3. disk[tracker].data # TornData
        BY <4>2, PositionFacts DEF Safe, TrackedInv
      <4>4. \A ro \in Roles : Whole(disk[tracker][ro])
        BY <4>2 DEF Safe, TrackedInv, Complete, Whole
      <4> QED
        BY <4>1, <4>3, <4>4
    <3> QED
      BY <3>1, <3>2
  <2>2. CASE LoopEnds \/ StopSamples
    BY <2>2 DEF LoopEnds, StopSamples, FailInv
  <2>3. CASE OneStepRaises
    BY <1>2, <2>3 DEF OneStepRaises, FailInv
  <2> QED
    BY <2>1, <2>2, <2>3
<1>4. weights' \notin {NoShard, TornShard}
  BY <1>1 DEF Safe, WriteInv
<1> QED
  BY <1>1, <1>3, <1>4, SafeTrain DEF counters

LEMMA TrainedShard ==
  ASSUME Types, NEW b \in Nat
  PROVE  Trained(b) \notin {NoShard, TornShard}
<1>1. weights \in Shards /\ run \in Nat
  BY DEF Types, TypeInv
<1>2. Trained(b).run = run
  BY <1>1, TrainedType
<1> QED
  BY <1>1, <1>2, ShardFacts

LEMMA SafeFit ==
  ASSUME Types, Safe, FitBatch \/ FirstBatch \/ FitOneStep \/ FitSample \/ PostStep
  PROVE  Safe'
<1>1. /\ UNCHANGED <<config, disk, tracker, saving, last_ckpt>>
      /\ pc' \in {"done", "capacity", "post", "step"} /\ pc \in {"step", "prefetch", "post"}
  BY DEF FitBatch, FirstBatch, FitOneStep, FitSample, PostStep, counters
<1>2. FailInv'
  BY <1>1 DEF FailInv
<1>3. /\ global_steps' = global_steps \/ (pc \in {"step", "post"} /\ global_steps' = global_steps + 1)
      /\ pc = "post" => global_steps' = global_steps + 1
      /\ kind = "fully_async" /\ pc' = "capacity" => global_steps' # last_ckpt
  <2>1. CASE FitBatch \/ FirstBatch \/ FitOneStep
    BY <2>1 DEF FitBatch, FirstBatch, FitOneStep, counters
  <2>2. CASE FitSample
    BY <2>2 DEF FitSample, SaveVersionDue
  <2>3. CASE PostStep
    BY <2>3 DEF PostStep
  <2> QED
    BY <2>1, <2>2, <2>3
<1>4. weights' \notin {NoShard, TornShard}
  <2>1. CASE FitBatch
    <3>1. NextBatch \in Nat
      BY DrawFacts DEF Types, TypeInv
    <3> QED
      BY <2>1, <3>1, TrainedShard DEF FitBatch
  <2>2. CASE FitOneStep
    <3>1. queue \in Seq(Nat \cup {Absent}) /\ queue # <<>> /\ Head(queue) # Absent
      BY <2>2 DEF Types, TypeInv, FlightInv, FitOneStep
    <3>2. Head(queue) \in Nat
      BY <3>1, HeadTailProperties
    <3> QED
      BY <2>2, <3>2, TrainedShard DEF FitOneStep
  <2>3. CASE FitSample
    <3>1. PICK i \in 1 .. Len(queue) : weights' = Trained(queue[i])
      BY <2>3 DEF FitSample
    <3>2. queue \in Seq(Nat)
      BY <2>3 DEF Types, TypeInv, FitSample
    <3>3. queue[i] \in Nat
      BY <3>2
    <3> QED
      BY <3>1, <3>3, TrainedShard
  <2>4. CASE FirstBatch \/ PostStep
    BY <2>4 DEF FirstBatch, PostStep, Safe, WriteInv
  <2> QED
    BY <2>1, <2>2, <2>3, <2>4
<1> QED
  BY <1>1, <1>2, <1>3, <1>4, SafeTrain

\* The rollouter writes nothing; its samples are not in the checkpoint.
LEMMA SafeQuiet ==
  ASSUME Safe, UNCHANGED <<config, disk, tracker, pc, saving, counters, weights>>
  PROVE  Safe'
BY DEF Safe, PathInv, WriteInv, TrackedInv, FailInv, Complete, kind, Roles, Registered, Up, Busy, InSave,
       saving, counters

\* A rotation leaves the tracked folder and the one being written alone.
LEMMA RotationSafe ==
  ASSUME Types, Safe, pc \in {"capacity", "shards"}, NEW k \in 0 .. Len(saved),
         k > 0 => k < Len(saved), Rotates(k), UNCHANGED <<config, tracker>>
  PROVE  /\ TrackedInv'
         /\ \A ro \in AllRoles : disk'[global_steps][ro] = disk[global_steps][ro]
<1>1. /\ \A s \in Oldest(saved, k) : s < last_ckpt
      /\ last_ckpt < global_steps
  BY OldPaths DEF Types, Safe
<1>2. Busy /\ Up
  BY DEF Busy, Up, InSave
<1>3. global_steps \in Steps /\ global_steps \in Nat /\ last_ckpt \in Nat
  BY <1>2, BusyStep, StepFacts DEF Types, TypeInv
<1>4. Oldest(saved, k) \subseteq Nat
  <2>1. saved \in Seq(Steps) /\ Len(saved) \in Nat
    BY SavedFacts DEF Types
  <2>2. \A i \in 1 .. k : i \in 1 .. Len(saved)
    BY <2>1
  <2> QED
    BY <2>1, <2>2, StepFacts DEF Oldest
<1>5. global_steps \notin Oldest(saved, k) /\ last_ckpt \notin Oldest(saved, k)
  BY <1>1, <1>3, <1>4
<1>6. TrackedInv'
  <2> SUFFICES ASSUME tracker' \in Steps
               PROVE  /\ disk'[tracker'].made /\ disk'[tracker'].data \in Positions
                      /\ \E w \in Shards \ {NoShard, TornShard} :
                           \A ro \in Roles', r \in Ranks : disk'[tracker'][ro][r] = w
    BY DEF TrackedInv, Complete
  <2>1. tracker' = tracker /\ tracker \in Steps /\ tracker = last_ckpt /\ Roles' = Roles
    BY <1>2 DEF Safe, PathInv, Roles
  <2>2. tracker \in Steps \ Oldest(saved, k)
    BY <1>5, <2>1
  <2>3. /\ \A ro \in AllRoles : disk'[tracker][ro] = disk[tracker][ro]
        /\ disk'[tracker].data = disk[tracker].data
        /\ disk[tracker].made => disk'[tracker].made
    BY <2>2 DEF Rotates
  <2>4. PICK w \in Shards \ {NoShard, TornShard} : Complete(disk[tracker], w)
    BY <2>1 DEF Safe, TrackedInv
  <2>5. disk[tracker].made /\ disk[tracker].data \in Positions
    BY <2>1 DEF Safe, TrackedInv
  <2>6. Roles \subseteq AllRoles
    BY ConfigFacts DEF Types, TypeInv
  <2>7. \A ro \in Roles', r \in Ranks : disk'[tracker'][ro][r] = w
    BY <2>1, <2>3, <2>4, <2>6 DEF Complete
  <2> QED
    BY <2>1, <2>3, <2>5, <2>7
<1>7. \A ro \in AllRoles : disk'[global_steps][ro] = disk[global_steps][ro]
  BY <1>3, <1>5 DEF Rotates
<1> QED
  BY <1>6, <1>7

LEMMA SafeEnsure ==
  ASSUME Types, Safe, ensure_checkpoint_capacity
  PROVE  Safe'
<1>1. /\ pc = "capacity" /\ pc' = "shards"
      /\ UNCHANGED <<config, tracker, role, written, counters, weights>>
  BY DEF ensure_checkpoint_capacity
<1>2. TypeInv /\ global_steps \in Steps
  BY <1>1, BusyStep DEF Types, Busy, InSave
<1>3. PICK k \in 0 .. Len(saved) :
           /\ Rotates(k) /\ (k > 0 => k < Len(saved))
           /\ Len(previous_saved_paths'[role]) = Len(saved) - k
           /\ \A i \in 1 .. Len(saved) - k : previous_saved_paths'[role][i] = saved[k + i]
  BY <1>2, EnsureRotates
<1>4. TrackedInv' /\ \A ro \in AllRoles : disk'[global_steps][ro] = disk[global_steps][ro]
  BY <1>1, <1>3, RotationSafe
<1>5. Registered' = Registered /\ Registered \subseteq AllRoles /\ role \notin Registered
      /\ kind' = kind /\ Roles' = Roles /\ Up
  BY <1>1 DEF Registered, kind, Roles, AllRoles, Up, Busy, InSave
<1>6. role \in AllRoles /\ saved \in Seq(Steps) /\ Len(saved) \in Nat
      /\ previous_saved_paths'[role] \in Seq(Steps)
  BY <1>2, <1>3, SavedFacts DEF Rotates, AllRoles
<1>7. Increasing(saved) /\ \A i \in 1 .. Len(saved) : saved[i] <= last_ckpt
  BY <1>5, <1>6 DEF Safe, PathInv, saved
<1>8. /\ Increasing(previous_saved_paths'[role])
      /\ \A i \in DOMAIN previous_saved_paths'[role] : previous_saved_paths'[role][i] <= last_ckpt
  <2> DEFINE q == previous_saved_paths'[role]
  <2>1. DOMAIN q = 1 .. Len(saved) - k
    BY <1>3, <1>6
  <2>2. \A i \in DOMAIN q : q[i] = saved[k + i] /\ k + i \in 1 .. Len(saved)
    BY <1>3, <1>6, <2>1
  <2>3. \A i, j \in DOMAIN q : i < j => k + i < k + j
    BY <1>3, <1>6, <2>1
  <2> HIDE DEF q
  <2>4. Increasing(q)
    BY <1>6, <1>7, <2>2, <2>3 DEF Increasing
  <2>5. \A i \in DOMAIN q : q[i] <= last_ckpt
    BY <1>7, <2>2
  <2> QED
    BY <2>4, <2>5 DEF q
<1>9. PathInv'
  <2>1. \A ro \in AllRoles : ro # role =>
          /\ Increasing(previous_saved_paths'[ro])
          /\ \A i \in DOMAIN previous_saved_paths'[ro] :
               previous_saved_paths'[ro][i] <= IF ro \in Registered THEN global_steps ELSE last_ckpt
    BY <1>3, <1>5 DEF Safe, PathInv, Rotates
  <2>2. \A ro \in AllRoles :
          /\ Increasing(previous_saved_paths'[ro])
          /\ \A i \in DOMAIN previous_saved_paths'[ro] :
               previous_saved_paths'[ro][i] <= IF ro \in Registered THEN global_steps ELSE last_ckpt
    BY <1>5, <1>8, <2>1
  <2>3. /\ tracker \in Steps => tracker = last_ckpt
        /\ last_ckpt < global_steps /\ last_ckpt <= global_steps /\ tracker # Torn
    BY <1>1, <1>5 DEF Safe, PathInv, InSave
  <2> QED
    BY <1>1, <1>5, <2>2, <2>3 DEF PathInv, counters
<1>10. WriteInv'
  <2>1. written = {} /\ \A ro \in Registered, r \in Ranks : disk[global_steps][ro][r] = weights
    BY <1>1 DEF Safe, WriteInv
  <2> QED
    BY <1>1, <1>4, <1>5, <2>1 DEF Safe, WriteInv, counters
<1>11. FailInv'
  BY <1>1 DEF FailInv
<1> QED
  BY <1>4, <1>9, <1>10, <1>11 DEF Safe

LEMMA SafeRegister ==
  ASSUME Types, Safe, register_checkpoint, KeepsTwo
  PROVE  Safe'
<1>1. /\ pc = "shards" /\ written = Ranks /\ written' = {}
      /\ UNCHANGED <<config, tracker, counters, weights>>
      /\ IF role = "actor" /\ config.use_critic
         THEN role' = "critic" /\ pc' = "capacity"
         ELSE role' = "actor" /\ pc' = "data"
  BY DEF register_checkpoint, Barrier, NextRole
<1>2. TypeInv /\ global_steps \in Steps
  BY <1>1, BusyStep DEF Types, Busy, InSave
<1>3. max_ckpt_to_keep # 1
  <2>1. role \in AllRoles /\ config \in Configs
    BY <1>2, SavedFacts DEF TypeInv
  <2> QED
    BY <2>1 DEF KeepsTwo, max_ckpt_to_keep, AllRoles
<1>4. PICK k \in 0 .. Len(saved) :
           /\ Rotates(k) /\ (k > 0 => k < Len(saved))
           /\ Len(previous_saved_paths'[role]) = Len(saved) + 1 - k
           /\ \A i \in 1 .. Len(saved) - k : previous_saved_paths'[role][i] = saved[k + i]
           /\ previous_saved_paths'[role][Len(saved) + 1 - k] = global_steps
  BY <1>2, <1>3, RegisterRotates
<1>5. TrackedInv' /\ \A ro \in AllRoles : disk'[global_steps][ro] = disk[global_steps][ro]
  BY <1>1, <1>4, RotationSafe
<1>6. role \in AllRoles /\ role \in Roles /\ saved \in Seq(Steps) /\ Len(saved) \in Nat
      /\ previous_saved_paths'[role] \in Seq(Steps)
  BY <1>2, <1>4, SavedFacts DEF Rotates, AllRoles, TypeInv
<1>7. Registered' = Registered \cup {role} /\ role \notin Registered /\ Registered \subseteq AllRoles
      /\ kind' = kind /\ Roles' = Roles /\ Up
  <2>1. CASE role = "actor"
    BY <1>1, <2>1 DEF Registered, kind, Roles, AllRoles, Up, Busy, InSave
  <2>2. CASE role = "critic"
    BY <1>1, <1>6, <2>2 DEF Registered, kind, Roles, AllRoles, Up, Busy, InSave
  <2> QED
    BY <1>6, <2>1, <2>2 DEF AllRoles
<1>8. Increasing(saved) /\ \A i \in 1 .. Len(saved) : saved[i] <= last_ckpt
  BY <1>6, <1>7 DEF Safe, PathInv, saved
<1>9. /\ tracker \in Steps => tracker = last_ckpt
      /\ last_ckpt < global_steps /\ last_ckpt <= global_steps /\ tracker # Torn
      /\ last_ckpt \in Nat /\ global_steps \in Nat
  BY <1>1, <1>2, <1>7 DEF Safe, PathInv, InSave, TypeInv
<1>10. /\ Increasing(previous_saved_paths'[role])
       /\ \A i \in DOMAIN previous_saved_paths'[role] : previous_saved_paths'[role][i] <= global_steps
  <2> DEFINE q == previous_saved_paths'[role]
             n == Len(saved) - k
  <2>1. DOMAIN q = 1 .. n + 1 /\ n \in Nat /\ k \in Nat /\ n + 1 = Len(saved) + 1 - k
    BY <1>4, <1>6
  <2>2. /\ \A i \in 1 .. n : q[i] = saved[k + i] /\ k + i \in 1 .. Len(saved)
        /\ q[n + 1] = global_steps
    BY <1>4, <1>6, <2>1
  <2>3. \A i \in 1 .. n + 1 : i \in 1 .. n \/ i = n + 1
    BY <2>1
  <2> HIDE DEF q, n
  <2>9. \A i \in 1 .. Len(saved) : saved[i] \in Nat
    BY <1>6, StepFacts
  <2>4. \A i \in 1 .. n : q[i] \in Nat /\ q[i] <= last_ckpt
    BY <1>8, <2>2, <2>9
  <2>5. \A i \in 1 .. n : q[i] < global_steps
    BY <1>9, <2>4
  <2>6. \A i \in DOMAIN q : q[i] <= global_steps
    BY <1>9, <2>1, <2>2, <2>3, <2>4, <2>5
  <2>7. \A i, j \in 1 .. n : i < j => q[i] < q[j]
    <3> SUFFICES ASSUME NEW i \in 1 .. n, NEW j \in 1 .. n, i < j PROVE q[i] < q[j]
      OBVIOUS
    <3>1. k + i < k + j
      BY <2>1
    <3> QED
      BY <1>6, <1>8, <2>2, <3>1 DEF Increasing
  <2>8. \A i, j \in DOMAIN q : i < j => q[i] < q[j]
    <3> SUFFICES ASSUME NEW i \in 1 .. n + 1, NEW j \in 1 .. n + 1, i < j PROVE q[i] < q[j]
      BY <2>1
    <3>1. i \in 1 .. n
      BY <2>1
    <3>2. CASE j \in 1 .. n
      BY <2>7, <3>1, <3>2
    <3>3. CASE j = n + 1
      BY <2>2, <2>5, <3>1, <3>3
    <3> QED
      BY <2>3, <3>2, <3>3
  <2> QED
    BY <2>6, <2>8 DEF q, Increasing
<1>11. PathInv'
  <2>1. \A ro \in AllRoles : ro # role =>
          /\ Increasing(previous_saved_paths'[ro])
          /\ \A i \in DOMAIN previous_saved_paths'[ro] :
               previous_saved_paths'[ro][i] <= IF ro \in Registered THEN global_steps ELSE last_ckpt
    BY <1>4, <1>7 DEF Safe, PathInv, Rotates
  <2>2. \A ro \in AllRoles :
          /\ Increasing(previous_saved_paths'[ro])
          /\ \A i \in DOMAIN previous_saved_paths'[ro] :
               previous_saved_paths'[ro][i] <= IF ro \in Registered' THEN global_steps ELSE last_ckpt
    BY <1>7, <1>10, <2>1
  <2> QED
    BY <1>1, <1>7, <1>9, <2>2 DEF PathInv, counters
<1>12. WriteInv'
  <2>1. /\ \A r \in Ranks : disk[global_steps][role][r] = weights
        /\ \A ro \in Registered, r \in Ranks : disk[global_steps][ro][r] = weights
        /\ weights \notin {NoShard, TornShard}
    BY <1>1 DEF Safe, WriteInv
  <2>2. \A ro \in Registered', r \in Ranks : disk'[global_steps][ro][r] = weights
    BY <1>5, <1>6, <1>7, <2>1
  <2>3. role' = "critic" => pc' = "capacity"
    BY <1>1
  <2>4. pc' \in {"capacity", "data"}
    BY <1>1
  <2> QED
    BY <1>1, <2>1, <2>2, <2>3, <2>4 DEF WriteInv, counters
<1>13. FailInv'
  BY <1>1 DEF FailInv
<1> QED
  BY <1>5, <1>11, <1>12, <1>13 DEF Safe

LEMMA SafeShard ==
  ASSUME Types, Safe, NEW r \in Ranks, WriteShard(r)
  PROVE  Safe'
<1>1. /\ pc = "shards" /\ written' = written \cup {r}
      /\ UNCHANGED <<config, tracker, pc, role, previous_saved_paths, counters, weights>>
  BY DEF WriteShard
<1>2. TypeInv /\ global_steps \in Steps
  BY <1>1, BusyStep DEF Types, Busy, InSave
<1>3. /\ \A s \in Steps : disk'[s].made = disk[s].made /\ disk'[s].data = disk[s].data
      /\ \A s \in Steps, ro \in AllRoles : s # global_steps \/ ro # role => disk'[s][ro] = disk[s][ro]
      /\ \A q \in Ranks : disk'[global_steps][role][q] =
             IF q = r THEN weights ELSE disk[global_steps][role][q]
  BY <1>2, ShardWritten
<1>4. /\ Registered' = Registered /\ Registered \subseteq AllRoles /\ role \notin Registered
      /\ kind' = kind /\ Roles' = Roles /\ Up /\ Up' /\ Busy' = Busy /\ InSave /\ InSave'
  BY <1>1 DEF Registered, kind, Roles, AllRoles, Up, Busy, InSave
<1>5. Roles \subseteq AllRoles
  BY <1>2, ConfigFacts DEF TypeInv
<1>6. PathInv'
  BY <1>1, <1>4 DEF Safe, PathInv, counters
<1>7. WriteInv'
  <2>1. \A q \in written' : disk'[global_steps][role][q] = weights
    <3>1. written \subseteq Ranks /\ \A q \in written : disk[global_steps][role][q] = weights
      BY <1>1, <1>2 DEF TypeInv, Safe, WriteInv
    <3> QED
      BY <1>1, <1>3, <3>1
  <2>2. \A ro \in Registered, q \in Ranks : disk'[global_steps][ro][q] = weights
    BY <1>2, <1>3, <1>4 DEF Safe, WriteInv
  <2> QED
    BY <1>1, <1>4, <2>1, <2>2 DEF Safe, WriteInv, counters
<1>8. TrackedInv'
  <2> SUFFICES ASSUME tracker \in Steps
               PROVE  /\ disk'[tracker].made /\ disk'[tracker].data \in Positions
                      /\ \E w \in Shards \ {NoShard, TornShard} :
                           \A ro \in Roles, q \in Ranks : disk'[tracker][ro][q] = w
    BY <1>1, <1>4 DEF TrackedInv, Complete
  <2>1. tracker # global_steps
    BY <1>2, <1>4, StepFacts DEF Safe, PathInv, TypeInv
  <2>2. PICK w \in Shards \ {NoShard, TornShard} : Complete(disk[tracker], w)
    BY DEF Safe, TrackedInv
  <2>3. \A ro \in Roles, q \in Ranks : disk'[tracker][ro][q] = w
    BY <1>3, <1>5, <2>1, <2>2 DEF Complete
  <2> QED
    BY <1>3, <2>3 DEF Safe, TrackedInv
<1>9. FailInv'
  BY <1>1 DEF FailInv
<1> QED
  BY <1>6, <1>7, <1>8, <1>9 DEF Safe

LEMMA SafeData ==
  ASSUME Types, Safe, SaveData
  PROVE  Safe'
<1>1. /\ pc = "data" /\ pc' \in {"truncate", "tracker"}
      /\ UNCHANGED <<config, tracker, role, written, previous_saved_paths, counters, weights>>
  BY DEF SaveData, saving
<1>2. TypeInv /\ global_steps \in Steps
  BY <1>1, BusyStep DEF Types, Busy, InSave
<1>3. /\ \A s \in Steps, ro \in AllRoles : disk'[s][ro] = disk[s][ro]
      /\ \A s \in Steps : s # global_steps => disk'[s] = disk[s]
      /\ disk'[global_steps].made /\ disk'[global_steps].data \in Positions
  BY <1>2, DataWritten
<1>4. /\ Registered' = Registered /\ Registered = Roles /\ kind' = kind /\ Roles' = Roles
      /\ Up /\ Up' /\ Busy' = Busy /\ InSave /\ InSave'
  BY <1>1 DEF Registered, kind, Roles, Up, Busy, InSave
<1>5. Roles \subseteq AllRoles
  BY <1>2, ConfigFacts DEF TypeInv
<1>6. PathInv'
  <2>1. tracker # Torn
    BY <1>1, <1>4 DEF Safe, PathInv
  <2> QED
    BY <1>1, <1>4, <2>1 DEF Safe, PathInv, counters
<1>7. WriteInv'
  <2>1. \A ro \in Registered, q \in Ranks : disk'[global_steps][ro][q] = weights
    BY <1>2, <1>3, <1>4, <1>5 DEF Safe, WriteInv
  <2> QED
    BY <1>1, <1>3, <1>4, <2>1 DEF Safe, WriteInv, counters
<1>8. TrackedInv'
  <2> SUFFICES ASSUME tracker \in Steps
               PROVE  /\ disk'[tracker].made /\ disk'[tracker].data \in Positions
                      /\ \E w \in Shards \ {NoShard, TornShard} :
                           \A ro \in Roles, q \in Ranks : disk'[tracker][ro][q] = w
    BY <1>1, <1>4 DEF TrackedInv, Complete
  <2>1. tracker # global_steps
    BY <1>2, <1>4, StepFacts DEF Safe, PathInv, TypeInv
  <2>2. disk'[tracker] = disk[tracker]
    BY <1>3, <2>1
  <2> QED
    BY <2>2 DEF Safe, TrackedInv, Complete
<1>9. FailInv'
  BY <1>1 DEF FailInv
<1> QED
  BY <1>6, <1>7, <1>8, <1>9 DEF Safe

LEMMA SafeTracker ==
  ASSUME Types, Safe, TruncateTracker \/ WriteTracker
  PROVE  Safe'
<1>1. CASE TruncateTracker
  <2>1. /\ pc = "truncate" /\ pc' = "tracker" /\ tracker' = Torn
        /\ UNCHANGED <<config, disk, saving, counters, weights>>
    BY <1>1 DEF TruncateTracker
  <2>2. Registered' = Registered /\ kind' = kind /\ Up /\ InSave /\ InSave'
    BY <2>1 DEF Registered, kind, Roles, Up, Busy, InSave
  <2>3. tracker' \notin Steps
    BY <2>1, StepFacts DEF Torn
  <2>4. PathInv'
    BY <2>1, <2>2, <2>3 DEF Safe, PathInv, saving, counters
  <2>5. WriteInv'
    BY <2>1, <2>2 DEF Safe, WriteInv, saving, counters
  <2>6. TrackedInv' /\ FailInv'
    BY <2>1, <2>3 DEF TrackedInv, FailInv
  <2> QED
    BY <2>4, <2>5, <2>6 DEF Safe
<1>2. CASE WriteTracker
  <2>1. /\ pc = "tracker" /\ pc' = (IF kind = "fully_async" THEN "step" ELSE "post")
        /\ tracker' = global_steps /\ last_ckpt' = global_steps
        /\ UNCHANGED <<config, disk, saving, global_steps, weights>>
    BY <1>2 DEF WriteTracker
  <2>2. /\ Registered = Roles /\ Registered' = {} /\ kind' = kind /\ Roles' = Roles
        /\ Up /\ InSave /\ ~InSave' /\ Busy
    BY <2>1 DEF Registered, kind, Roles, Up, Busy, InSave
  <2>3. global_steps \in Steps /\ global_steps \in Nat /\ last_ckpt \in Nat
    BY <2>2, BusyStep DEF Types, TypeInv
  <2>4. tracker' # Torn
    BY <2>1, <2>3 DEF Torn
  <2>5. \A ro \in AllRoles :
             /\ Increasing(previous_saved_paths[ro])
             /\ \A i \in DOMAIN previous_saved_paths[ro] : previous_saved_paths[ro][i] <= global_steps
    <3> TAKE ro \in AllRoles
    <3>1. previous_saved_paths[ro] \in Seq(Steps)
      BY DEF AllRoles, Types, TypeInv
    <3>2. /\ Increasing(previous_saved_paths[ro])
          /\ \A i \in DOMAIN previous_saved_paths[ro] :
               previous_saved_paths[ro][i] <= global_steps \/ previous_saved_paths[ro][i] <= last_ckpt
      BY <2>2 DEF Safe, PathInv
    <3>3. \A i \in DOMAIN previous_saved_paths[ro] : previous_saved_paths[ro][i] \in Nat
      BY <3>1, StepFacts
    <3>4. last_ckpt <= global_steps
      BY <2>2 DEF Safe, PathInv
    <3> QED
      BY <2>3, <3>2, <3>3, <3>4
  <2>6. PathInv'
    <3>1. ~((Busy' /\ kind' # "fully_async" /\ pc' # "post") \/ InSave')
      BY <2>1, <2>2
    <3>2. last_ckpt' <= global_steps'
      BY <2>1, <2>3
    <3> QED
      BY <2>1, <2>2, <2>4, <2>5, <3>1, <3>2 DEF PathInv, saving
  <2>7. WriteInv'
    BY <2>1, <2>2 DEF Safe, WriteInv, saving
  <2>8. TrackedInv'
    <3>1. /\ disk[global_steps].made /\ disk[global_steps].data \in Positions
          /\ \A ro \in Roles, r \in Ranks : disk[global_steps][ro][r] = weights
          /\ weights \notin {NoShard, TornShard}
      BY <2>1, <2>2 DEF Safe, WriteInv
    <3>2. weights \in Shards
      BY DEF Types, TypeInv
    <3> QED
      BY <2>1, <2>2, <3>1, <3>2 DEF TrackedInv, Complete
  <2>9. FailInv'
    BY <2>1 DEF FailInv
  <2> QED
    BY <2>6, <2>7, <2>8, <2>9 DEF Safe
<1> QED
  BY <1>1, <1>2

LEMMA SafeCrash ==
  ASSUME Types, Safe, Crash
  PROVE  Safe'
<1>1. /\ pc' = "load" /\ Busy /\ Up
      /\ UNCHANGED <<config, tracker, saving, counters, weights>>
  BY DEF Crash, Types, TypeInv, Busy, InSave, Up
<1>2. TypeInv /\ global_steps \in Steps
  BY <1>1, BusyStep DEF Types
<1>3. \A s \in Steps : s # global_steps \/ pc \notin {"shards", "data"} => disk'[s] = disk[s]
  BY <1>2, CrashTears
<1>4. Roles' = Roles
  BY <1>1 DEF Roles
<1>5. PathInv' /\ FailInv'
  BY <1>1 DEF PathInv, FailInv, Up, Busy, InSave
<1>6. WriteInv'
  BY <1>1 DEF Safe, WriteInv, Registered, saving
<1>7. TrackedInv'
  <2> SUFFICES ASSUME tracker \in Steps
               PROVE  /\ disk'[tracker].made /\ disk'[tracker].data \in Positions
                      /\ \E w \in Shards \ {NoShard, TornShard} :
                           \A ro \in Roles, q \in Ranks : disk'[tracker][ro][q] = w
    BY <1>1, <1>4 DEF TrackedInv, Complete
  <2>1. pc \in {"shards", "data"} => tracker # global_steps
    BY <1>1, <1>2, StepFacts DEF Safe, PathInv, TypeInv, InSave
  <2>2. disk'[tracker] = disk[tracker]
    BY <1>3, <2>1
  <2> QED
    BY <2>2 DEF Safe, TrackedInv, Complete
<1> QED
  BY <1>5, <1>6, <1>7 DEF Safe

LEMMA SafeStep ==
  ASSUME KeepsTwo
  PROVE  Types /\ Safe /\ [Next]_vars => Safe'
<1> SUFFICES ASSUME Types, Safe, [Next]_vars PROVE Safe'
  OBVIOUS
<1>1. CASE LoadNothing \/ LoadCheckpoint
  BY <1>1, SafeLoad
<1>2. CASE LoadRaises \/ LoopEnds \/ OneStepRaises \/ StopSamples
  BY <1>2, SafeControl
<1>3. CASE FitBatch \/ FirstBatch \/ FitOneStep \/ FitSample \/ PostStep
  BY <1>3, SafeFit
<1>4. CASE ensure_checkpoint_capacity
  BY <1>4, SafeEnsure
<1>5. CASE \E r \in Ranks : WriteShard(r)
  BY <1>5, SafeShard
<1>6. CASE register_checkpoint
  BY <1>6, SafeRegister
<1>7. CASE SaveData
  BY <1>7, SafeData
<1>8. CASE TruncateTracker \/ WriteTracker
  BY <1>8, SafeTracker
<1>9. CASE FeedSample
  BY <1>9, SafeQuiet DEF FeedSample
<1>10. CASE Crash
  BY <1>10, SafeCrash
<1>11. CASE UNCHANGED vars
  BY <1>11, SafeQuiet DEF vars
<1> QED
  BY <1>1, <1>2, <1>3, <1>4, <1>5, <1>6, <1>7, <1>8, <1>9, <1>10, <1>11 DEF Next, Trainer, Finished

-----------------------------------------------------------------------------
(* Rotation keeps so many checkpoints and no more. *)

LEMMA StepsFinite == IsFiniteSet(Steps)
BY StepFacts, FS_Interval

\* A sequence has no more elements than its length.
LEMMA PathCount ==
  ASSUME NEW S, NEW p \in Seq(S)
  PROVE  /\ IsFiniteSet({p[i] : i \in DOMAIN p})
         /\ Cardinality({p[i] : i \in DOMAIN p}) \in Nat
         /\ Cardinality({p[i] : i \in DOMAIN p}) <= Len(p)
<1> DEFINE E == {p[i] : i \in DOMAIN p}
<1>1. DOMAIN p = 1 .. Len(p) /\ Len(p) \in Nat /\ p \in [DOMAIN p -> E]
  OBVIOUS
<1>2. p \in Surjection(DOMAIN p, E)
  BY <1>1 DEF Surjection
<1>3. IsFiniteSet(DOMAIN p) /\ Cardinality(DOMAIN p) = Len(p)
  <2>1. \A n \in Nat : IsFiniteSet(1 .. n) /\ Cardinality(1 .. n) = n
    BY FS_Interval
  <2> QED
    BY <1>1, <2>1
<1>4. IsFiniteSet(E) /\ Cardinality(E) <= Cardinality(DOMAIN p)
  BY <1>2, <1>3, FS_Surjection
<1>5. Cardinality(E) \in Nat
  BY <1>4, FS_CardinalityType
<1> QED
  BY <1>3, <1>4, <1>5

\* All of a set, from the part outside M and from M.
LEMMA SplitCount ==
  ASSUME NEW A, IsFiniteSet(A), NEW M, IsFiniteSet(M)
  PROVE  /\ Cardinality(A) \in Nat /\ Cardinality(A \ M) \in Nat /\ Cardinality(M) \in Nat
         /\ Cardinality(A) <= Cardinality(A \ M) + Cardinality(M)
<1>1. IsFiniteSet(A \ M) /\ IsFiniteSet(A \cap M)
  BY FS_Difference, FS_Subset
<1>2. Cardinality(A \cap M) <= Cardinality(M)
  BY FS_Subset
<1>3. Cardinality(A \ M) = Cardinality(A) - Cardinality(A \cap M)
  BY FS_Difference
<1>4. /\ Cardinality(A) \in Nat /\ Cardinality(M) \in Nat /\ Cardinality(A \ M) \in Nat
      /\ Cardinality(A \cap M) \in Nat
  BY <1>1, FS_CardinalityType
<1> QED
  BY <1>2, <1>3, <1>4

\* At most keep folders of this start, on top of keep for every start before.
LEMMA MineCount ==
  ASSUME NEW A \in SUBSET Steps, NEW p \in Seq(Steps), NEW E, NEW keep \in Nat, NEW n \in Nat,
         \/ E = {} /\ Len(p) <= keep
         \/ (\E x : E = {x}) /\ Len(p) <= keep - 1,
         Cardinality(A \ ({p[i] : i \in DOMAIN p} \cup E)) <= keep * n
  PROVE  Cardinality(A) <= keep * (n + 1)
<1> DEFINE P == {p[i] : i \in DOMAIN p}
           M == P \cup E
<1>1. IsFiniteSet(P) /\ Cardinality(P) \in Nat /\ Cardinality(P) <= Len(p) /\ Len(p) \in Nat
  BY PathCount
<1>2. IsFiniteSet(A)
  BY StepsFinite, FS_Subset
<1> HIDE DEF P
<1>3. IsFiniteSet(M) /\ Cardinality(M) <= keep
  <2>1. CASE E = {} /\ Len(p) <= keep
    <3>1. M = P
      BY <2>1
    <3> QED
      BY <1>1, <2>1, <3>1
  <2>2. CASE (\E x : E = {x}) /\ Len(p) <= keep - 1
    <3>1. PICK x : E = {x}
      BY <2>2
    <3>2. M = P \cup {x}
      BY <3>1
    <3>3. IsFiniteSet(M) /\ Cardinality(M) = IF x \in P THEN Cardinality(P) ELSE Cardinality(P) + 1
      BY <1>1, <3>2, FS_AddElement
    <3> HIDE DEF M
    <3> QED
      BY <1>1, <2>2, <3>3
  <2> QED
    BY <2>1, <2>2
<1>4. Cardinality(A \ M) <= keep * n
  BY DEF P
<1> HIDE DEF M
<1>5. /\ Cardinality(A) \in Nat /\ Cardinality(A \ M) \in Nat /\ Cardinality(M) \in Nat
      /\ Cardinality(A) <= Cardinality(A \ M) + Cardinality(M)
  BY <1>2, <1>3, SplitCount
<1>6. keep * (n + 1) = keep * n + keep /\ keep * n \in Nat
  BY Times
<1> DEFINE k == keep * n
<1>7. k \in Nat /\ Cardinality(A \ M) <= k
  BY <1>4, <1>6
<1> HIDE DEF k
<1>8. Cardinality(A) <= k + keep
  BY <1>3, <1>5, <1>7
<1> QED
  BY <1>6, <1>8 DEF k

LEMMA OnDiskBound ==
  ASSUME TypeInv, NEW ro \in AllRoles, NEW A \in SUBSET Steps, config.keep[ro] > 1, Up => Listed(ro),
         Cardinality(A \ Mine(ro)) <= config.keep[ro] * run
  PROVE  Cardinality(A) <= config.keep[ro] * (run + 1)
<1>1. /\ config.keep[ro] \in Nat /\ run \in Nat /\ previous_saved_paths[ro] \in Seq(Steps)
  BY ConfigFacts DEF TypeInv, AllRoles
<1>2. CASE Up /\ pc = "shards" /\ role = ro
  <2>1. Mine(ro) = {previous_saved_paths[ro][i] : i \in DOMAIN previous_saved_paths[ro]} \cup {global_steps}
    BY <1>2 DEF Mine, Paths
  <2>2. Len(previous_saved_paths[ro]) <= config.keep[ro] - 1
    BY <1>2 DEF Listed
  <2> QED
    BY <1>1, <2>1, <2>2, MineCount
<1>3. CASE Up /\ ~(pc = "shards" /\ role = ro)
  <2>1. Mine(ro) = {previous_saved_paths[ro][i] : i \in DOMAIN previous_saved_paths[ro]} \cup {}
    BY <1>3 DEF Mine, Paths
  <2>2. Len(previous_saved_paths[ro]) <= config.keep[ro]
    BY <1>3 DEF Listed
  <2> QED
    BY <1>1, <2>1, <2>2, MineCount
<1>4. CASE ~Up
  <2>1. Mine(ro) = {} /\ A \ {} = A
    BY <1>4 DEF Mine
  <2>2. config.keep[ro] * run <= config.keep[ro] * (run + 1)
    BY <1>1
  <2>3. Cardinality(A) \in Nat /\ config.keep[ro] * run \in Nat /\ config.keep[ro] * (run + 1) \in Nat
    <3>1. IsFiniteSet(A)
      BY StepsFinite, FS_Subset
    <3> QED
      BY <1>1, <3>1, FS_CardinalityType, Times
  <2>4. Cardinality(A) <= config.keep[ro] * run
    BY <2>1
  <2> DEFINE a == config.keep[ro] * run
             b == config.keep[ro] * (run + 1)
  <2>5. Cardinality(A) <= a /\ a <= b /\ a \in Nat /\ b \in Nat
    BY <2>2, <2>3, <2>4
  <2> HIDE DEF a, b
  <2>6. Cardinality(A) <= b
    BY <2>3, <2>5
  <2> QED
    BY <2>6 DEF b
<1> QED
  BY <1>2, <1>3, <1>4

LEMMA FewerSteps ==
  ASSUME NEW B \in SUBSET Steps, NEW A \in SUBSET B, NEW n \in Int, Cardinality(B) <= n
  PROVE  Cardinality(A) <= n
<1>1. IsFiniteSet(B)
  BY StepsFinite, FS_Subset
<1>2. IsFiniteSet(A) /\ Cardinality(A) <= Cardinality(B)
  BY <1>1, FS_Subset
<1>3. Cardinality(A) \in Nat /\ Cardinality(B) \in Nat
  BY <1>1, <1>2, FS_CardinalityType
<1> QED
  BY <1>2, <1>3

LEMMA KeepType ==
  ASSUME TypeInv, NEW ro \in AllRoles
  PROVE  /\ config.keep[ro] \in Nat /\ run \in Nat
         /\ config.keep[ro] * run \in Nat /\ config.keep[ro] * (run + 1) \in Nat
         /\ previous_saved_paths[ro] \in Seq(Steps)
<1>1. config.keep[ro] \in Nat /\ run \in Nat /\ previous_saved_paths[ro] \in Seq(Steps)
  BY ConfigFacts DEF TypeInv, AllRoles
<1> QED
  BY <1>1, Times

LEMMA RotateInit == Init => RotateInv
<1> SUFFICES ASSUME Init, NEW ro \in AllRoles
             PROVE  Cardinality(OnDisk(ro) \ Mine(ro)) <= config.keep[ro] * run /\ ~Up /\ pc # "failed"
  BY DEF RotateInv
<1>1. \A s \in Steps : disk[s] = NoFolder
  BY DEF Init
<1>2. \A s \in Steps, r \in Ranks : disk[s][ro][r] = NoShard
  BY <1>1 DEF NoFolder, AllRoles
<1>3. OnDisk(ro) = {}
  BY <1>2 DEF OnDisk
<1>4. Cardinality(OnDisk(ro) \ Mine(ro)) = 0
  BY <1>3, FS_EmptySet
<1>5. run = 0 /\ pc = "load" /\ config \in Configs
  BY DEF Init
<1>6. config.keep[ro] \in Nat
  BY <1>5, ConfigFacts DEF AllRoles
<1> QED
  BY <1>4, <1>5, <1>6 DEF Up, Busy, InSave

\* A step that starts no new run: nothing is on disk that is not listed or was there.
LEMMA RotateKeep ==
  ASSUME TypeInv, RotateInv, config' = config, run' = run, pc # "failed",
         \A ro \in AllRoles : config.keep[ro] > 1 => (Up' => Listed(ro)'),
         pc' # "failed" => \A ro \in AllRoles : OnDisk(ro)' \ Mine(ro)' \subseteq OnDisk(ro) \ Mine(ro),
         pc' = "failed" => disk' = disk
  PROVE  RotateInv'
<1> SUFFICES ASSUME NEW ro \in AllRoles, config.keep[ro] > 1
             PROVE  /\ pc' # "failed" => Cardinality(OnDisk(ro)' \ Mine(ro)') <= config.keep[ro] * run
                    /\ pc' = "failed" => Cardinality(OnDisk(ro)') <= config.keep[ro] * (run + 1)
  BY DEF RotateInv
<1>1. /\ config.keep[ro] * run \in Nat
  BY KeepType
<1>2. Cardinality(OnDisk(ro) \ Mine(ro)) <= config.keep[ro] * run /\ (Up => Listed(ro))
  BY DEF RotateInv
<1>3. OnDisk(ro) \in SUBSET Steps /\ OnDisk(ro) \ Mine(ro) \in SUBSET Steps
  BY DEF OnDisk
<1>4. CASE pc' # "failed"
  BY <1>1, <1>2, <1>3, <1>4, FewerSteps
<1>5. CASE pc' = "failed"
  <2>1. OnDisk(ro)' = OnDisk(ro)
    BY <1>5 DEF OnDisk
  <2>2. Cardinality(OnDisk(ro)) <= config.keep[ro] * (run + 1)
    BY <1>2, <1>3, OnDiskBound
  <2> QED
    BY <1>5, <2>1, <2>2
<1> QED
  BY <1>4, <1>5

\* Steps that write no shard and register no path.
LEMMA RotateQuiet ==
  ASSUME Types, RotateInv, UNCHANGED <<config, previous_saved_paths, run>>, pc # "failed",
         pc' \in {"shards", "load"} => pc' = pc, pc = "shards" => pc' = pc /\ role' = role /\ global_steps' = global_steps,
         Up' => Up, pc' # "failed" => (Up => Up'), pc' = "failed" => disk' = disk,
         \A s \in Steps, ro \in AllRoles : disk'[s][ro] = disk[s][ro]
  PROVE  RotateInv'
<1>1. \A ro \in AllRoles : OnDisk(ro)' = OnDisk(ro)
  BY DEF OnDisk
<1>2. \A ro \in AllRoles : Paths(ro)' = Paths(ro)
  BY DEF Paths
<1>3. pc' # "failed" => \A ro \in AllRoles : Mine(ro)' = Mine(ro)
  BY <1>2 DEF Mine
<1>4. \A ro \in AllRoles : config.keep[ro] > 1 => (Up' => Listed(ro)')
  BY DEF RotateInv, Listed
<1> QED
  BY <1>1, <1>3, <1>4, RotateKeep DEF Types

LEMMA RotateSame ==
  ASSUME RotateInv, UNCHANGED <<config, disk, pc, role, global_steps, previous_saved_paths, run>>
  PROVE  RotateInv'
<1>1. \A ro \in AllRoles : OnDisk(ro)' = OnDisk(ro) /\ Mine(ro)' = Mine(ro)
  BY DEF OnDisk, Mine, Paths, Up, Busy, InSave
<1>2. \A ro \in AllRoles : (Up => Listed(ro)) => (Up' => Listed(ro)')
  BY DEF Listed, Up, Busy, InSave
<1> QED
  BY <1>1, <1>2 DEF RotateInv

LEMMA RotateStart ==
  ASSUME Types, RotateInv, LoadNothing \/ LoadCheckpoint
  PROVE  RotateInv'
<1>1. /\ UNCHANGED <<config, disk, run>> /\ pc = "load" /\ pc' \in {"prefetch", "step"}
      /\ previous_saved_paths' = [actor |-> <<>>, critic |-> <<>>]
  BY DEF LoadNothing, LoadCheckpoint, Start
<1>2. \A ro \in AllRoles : OnDisk(ro)' = OnDisk(ro) /\ Mine(ro) = {}
  BY <1>1 DEF OnDisk, Mine, Up, Busy, InSave
<1>3. \A ro \in AllRoles : Listed(ro)'
  <2> TAKE ro \in AllRoles
  <2>1. previous_saved_paths'[ro] = <<>>
    BY <1>1 DEF AllRoles
  <2>2. Len(previous_saved_paths'[ro]) = 0
    BY <2>1
  <2>3. config'.keep[ro] \in Nat
    BY <1>1, KeepType DEF Types
  <2> QED
    BY <1>1, <2>2, <2>3 DEF Listed
<1> QED
  BY <1>1, <1>2, <1>3, RotateKeep DEF Types

LEMMA RotateRest ==
  ASSUME Types, RotateInv,
         \/ LoadRaises \/ LoopEnds \/ OneStepRaises \/ StopSamples
         \/ FitBatch \/ FirstBatch \/ FitOneStep \/ FitSample \/ PostStep
         \/ SaveData \/ TruncateTracker \/ WriteTracker
  PROVE  RotateInv'
<1>1. CASE \/ LoadRaises \/ LoopEnds \/ OneStepRaises \/ StopSamples
           \/ FitBatch \/ FirstBatch \/ FitOneStep \/ FitSample \/ PostStep
           \/ TruncateTracker \/ WriteTracker
  <2>1. /\ UNCHANGED <<config, disk, saving, run>> /\ pc \notin {"failed", "shards", "done"}
        /\ pc' \in {"failed", "done", "capacity", "post", "step", "tracker"}
        /\ pc = "load" => pc' = "failed"
    BY <1>1 DEF LoadRaises, LoopEnds, OneStepRaises, StopSamples, FitBatch, FirstBatch, FitOneStep, FitSample,
                PostStep, TruncateTracker, WriteTracker
  <2>2. (Up' => Up) /\ (pc' # "failed" => (Up => Up'))
    BY <2>1 DEF Up, Busy, InSave, Types, TypeInv
  <2> QED
    BY <2>1, <2>2, RotateQuiet DEF saving
<1>2. CASE SaveData
  <2>1. /\ pc = "data" /\ pc' \in {"truncate", "tracker"} /\ UNCHANGED <<config, previous_saved_paths, run>>
    BY <1>2 DEF SaveData, saving
  <2>2. global_steps \in Steps
    BY <2>1, BusyStep DEF Busy, InSave
  <2>3. \A s \in Steps, ro \in AllRoles : disk'[s][ro] = disk[s][ro]
    BY <1>2, <2>2, DataWritten DEF Types
  <2>4. Up /\ Up'
    BY <2>1 DEF Up, Busy, InSave
  <2> QED
    BY <2>1, <2>3, <2>4, RotateQuiet
<1> QED
  BY <1>1, <1>2

\* What a rotation leaves on disk of its role is not on the list of what it removed.
LEMMA RotationLeaves ==
  ASSUME TypeInv, NEW k \in 0 .. Len(saved), Rotates(k)
  PROVE  /\ \A ro \in AllRoles : OnDisk(ro)' \subseteq OnDisk(ro)
         /\ \A ro \in AllRoles : ro = role => OnDisk(ro)' \cap Oldest(saved, k) = {}
<1>1. \A s \in Steps, ro \in AllRoles, r \in Ranks : disk'[s][ro][r] \in {disk[s][ro][r], NoShard}
  BY DEF Rotates
<1>2. \A s \in Oldest(saved, k), r \in Ranks : disk'[s][role][r] = NoShard
  BY DEF Rotates
<1> QED
  BY <1>1, <1>2 DEF OnDisk

LEMMA RotateEnsure ==
  ASSUME Types, RotateInv, ensure_checkpoint_capacity
  PROVE  RotateInv'
<1>1. /\ pc = "capacity" /\ pc' = "shards" /\ Up /\ Up'
      /\ UNCHANGED <<config, role, counters, run>>
  BY DEF ensure_checkpoint_capacity, Up, Busy, InSave
<1>2. TypeInv /\ global_steps \in Steps
  BY <1>1, BusyStep DEF Types, Busy, InSave
<1>3. PICK k \in 0 .. Len(saved) :
           /\ Rotates(k)
           /\ max_ckpt_to_keep > 1 /\ k > 0 => Len(saved) - k = max_ckpt_to_keep - 1
           /\ max_ckpt_to_keep > 1 /\ k = 0 => Len(saved) <= max_ckpt_to_keep - 1
           /\ Len(previous_saved_paths'[role]) = Len(saved) - k
           /\ \A i \in 1 .. Len(saved) - k : previous_saved_paths'[role][i] = saved[k + i]
  BY <1>2, EnsureRotates
<1>4. role \in AllRoles /\ saved \in Seq(Steps) /\ Len(saved) \in Nat /\ max_ckpt_to_keep \in Nat
      /\ previous_saved_paths'[role] \in Seq(Steps)
  BY <1>2, <1>3, SavedFacts DEF Rotates, AllRoles
<1>5. \A ro \in AllRoles : OnDisk(ro)' \subseteq OnDisk(ro)
  BY <1>2, <1>3, RotationLeaves
<1>6. \A ro \in AllRoles : ro = role => OnDisk(ro)' \cap Oldest(saved, k) = {}
  BY <1>2, <1>3, RotationLeaves
<1> DEFINE left == previous_saved_paths'[role]
           Left == {left[i] : i \in DOMAIN left}
<1>7. Paths(role) \subseteq Oldest(saved, k) \cup Left
  <2>1. DOMAIN left = 1 .. Len(saved) - k
    BY <1>3, <1>4
  <2>2. \A i \in 1 .. Len(saved) : i > k => saved[i] \in Left
    <3> SUFFICES ASSUME NEW i \in 1 .. Len(saved), i > k PROVE saved[i] \in Left
      OBVIOUS
    <3>1. i - k \in 1 .. Len(saved) - k /\ k + (i - k) = i
      BY <1>3, <1>4
    <3>2. left[i - k] = saved[i]
      BY <1>3, <3>1
    <3> QED
      BY <2>1, <3>1, <3>2
  <2>3. \A i \in 1 .. Len(saved) : i > k \/ i \in 1 .. k
    BY <1>3, <1>4
  <2>4. Paths(role) = {saved[i] : i \in 1 .. Len(saved)}
    BY <1>4 DEF Paths, saved
  <2> HIDE DEF Left
  <2> QED
    BY <2>2, <2>3, <2>4 DEF Oldest
<1>8. \A ro \in AllRoles : OnDisk(ro)' \ Mine(ro)' \subseteq OnDisk(ro) \ Mine(ro)
  <2> TAKE ro \in AllRoles
  <2>1. CASE ro = role
    <3>1. Mine(ro)' = Left \cup {global_steps}
      BY <1>1, <2>1 DEF Mine, Paths, counters
    <3>2. Mine(ro) = Paths(role)
      BY <1>1, <2>1 DEF Mine
    <3>3. OnDisk(ro)' \subseteq OnDisk(ro) /\ OnDisk(ro)' \cap Oldest(saved, k) = {}
      BY <1>5, <1>6, <2>1
    <3> HIDE DEF Left
    <3> QED
      BY <1>7, <3>1, <3>2, <3>3
  <2>2. CASE ro # role
    <3>1. Paths(ro)' = Paths(ro)
      BY <1>3, <2>2 DEF Rotates, Paths
    <3>2. Mine(ro)' = Paths(ro) /\ Mine(ro) = Paths(ro)
      BY <1>1, <2>2, <3>1 DEF Mine
    <3> QED
      BY <1>5, <3>2
  <2> QED
    BY <2>1, <2>2
<1>9. \A ro \in AllRoles : config.keep[ro] > 1 => Listed(ro)'
  <2> SUFFICES ASSUME NEW ro \in AllRoles, config.keep[ro] > 1 PROVE Listed(ro)'
    OBVIOUS
  <2>1. CASE ro = role
    <3>1. Len(previous_saved_paths'[role]) <= config.keep[role] - 1
      BY <1>3, <1>4, <2>1 DEF max_ckpt_to_keep
    <3> QED
      BY <1>1, <2>1, <3>1 DEF Listed
  <2>2. CASE ro # role
    <3>1. Listed(ro) /\ previous_saved_paths'[ro] = previous_saved_paths[ro]
      BY <1>1, <1>3, <2>2 DEF RotateInv, Rotates
    <3> QED
      BY <1>1, <2>2, <3>1 DEF Listed
  <2> QED
    BY <2>1, <2>2
<1> QED
  BY <1>1, <1>2, <1>8, <1>9, RotateKeep

LEMMA RotateRegister ==
  ASSUME Types, RotateInv, register_checkpoint
  PROVE  RotateInv'
<1>1. /\ pc = "shards" /\ pc' \in {"capacity", "data"} /\ Up /\ Up'
      /\ UNCHANGED <<config, counters, run>>
  BY DEF register_checkpoint, NextRole, Up, Busy, InSave
<1>2. TypeInv /\ global_steps \in Steps
  BY <1>1, BusyStep DEF Types, Busy, InSave
<1>3. PICK k \in 0 .. Len(saved) :
           /\ Rotates(k)
           /\ max_ckpt_to_keep > 0 => Len(saved) + 1 - k <= max_ckpt_to_keep
           /\ Len(previous_saved_paths'[role]) = Len(saved) + 1 - k
           /\ \A i \in 1 .. Len(saved) - k : previous_saved_paths'[role][i] = saved[k + i]
           /\ previous_saved_paths'[role][Len(saved) + 1 - k] = global_steps
  BY <1>2, RegisterRotates
<1>4. role \in AllRoles /\ saved \in Seq(Steps) /\ Len(saved) \in Nat /\ max_ckpt_to_keep \in Nat
      /\ previous_saved_paths'[role] \in Seq(Steps)
  BY <1>2, <1>3, SavedFacts DEF Rotates, AllRoles
<1>5. \A ro \in AllRoles : OnDisk(ro)' \subseteq OnDisk(ro)
  BY <1>2, <1>3, RotationLeaves
<1>6. \A ro \in AllRoles : ro = role => OnDisk(ro)' \cap Oldest(saved, k) = {}
  BY <1>2, <1>3, RotationLeaves
<1> DEFINE left == previous_saved_paths'[role]
           Left == {left[i] : i \in DOMAIN left}
<1>7. Paths(role) \cup {global_steps} \subseteq Oldest(saved, k) \cup Left
  <2>1. DOMAIN left = 1 .. Len(saved) + 1 - k
    BY <1>3, <1>4
  <2>2. global_steps \in Left
    <3>1. Len(saved) + 1 - k \in DOMAIN left
      BY <1>3, <1>4, <2>1
    <3> QED
      BY <1>3, <3>1
  <2>3. \A i \in 1 .. Len(saved) : i > k => saved[i] \in Left
    <3> SUFFICES ASSUME NEW i \in 1 .. Len(saved), i > k PROVE saved[i] \in Left
      OBVIOUS
    <3>1. i - k \in 1 .. Len(saved) - k /\ k + (i - k) = i /\ i - k \in 1 .. Len(saved) + 1 - k
      BY <1>3, <1>4
    <3>2. left[i - k] = saved[i]
      BY <1>3, <3>1
    <3> QED
      BY <2>1, <3>1, <3>2
  <2>4. \A i \in 1 .. Len(saved) : i > k \/ i \in 1 .. k
    BY <1>3, <1>4
  <2>5. Paths(role) = {saved[i] : i \in 1 .. Len(saved)}
    BY <1>4 DEF Paths, saved
  <2> HIDE DEF Left
  <2> QED
    BY <2>2, <2>3, <2>4, <2>5 DEF Oldest
<1>8. \A ro \in AllRoles : OnDisk(ro)' \ Mine(ro)' \subseteq OnDisk(ro) \ Mine(ro)
  <2> TAKE ro \in AllRoles
  <2>1. Mine(ro)' = {previous_saved_paths'[ro][i] : i \in DOMAIN previous_saved_paths'[ro]}
    BY <1>1 DEF Mine, Paths
  <2>2. CASE ro = role
    <3>1. Mine(ro)' = Left
      BY <2>1, <2>2
    <3>2. Mine(ro) = Paths(role) \cup {global_steps}
      BY <1>1, <2>2 DEF Mine
    <3>3. OnDisk(ro)' \subseteq OnDisk(ro) /\ OnDisk(ro)' \cap Oldest(saved, k) = {}
      BY <1>5, <1>6, <2>2
    <3> HIDE DEF Left
    <3> QED
      BY <1>7, <3>1, <3>2, <3>3
  <2>3. CASE ro # role
    <3>1. Mine(ro)' = Paths(ro)
      BY <1>3, <2>1, <2>3 DEF Rotates, Paths
    <3>2. Mine(ro) = Paths(ro)
      BY <1>1, <2>3 DEF Mine
    <3> QED
      BY <1>5, <3>1, <3>2
  <2> QED
    BY <2>2, <2>3
<1>9. \A ro \in AllRoles : config.keep[ro] > 1 => Listed(ro)'
  <2> SUFFICES ASSUME NEW ro \in AllRoles, config.keep[ro] > 1 PROVE Listed(ro)'
    OBVIOUS
  <2>1. CASE ro = role
    <3>1. Len(previous_saved_paths'[role]) <= config.keep[role]
      BY <1>3, <1>4, <2>1 DEF max_ckpt_to_keep
    <3> QED
      BY <1>1, <2>1, <3>1 DEF Listed
  <2>2. CASE ro # role
    <3>1. Listed(ro) /\ previous_saved_paths'[ro] = previous_saved_paths[ro]
      BY <1>1, <1>3, <2>2 DEF RotateInv, Rotates
    <3> QED
      BY <1>1, <2>2, <3>1 DEF Listed
  <2> QED
    BY <2>1, <2>2
<1> QED
  BY <1>1, <1>2, <1>8, <1>9, RotateKeep

LEMMA RotateShard ==
  ASSUME Types, RotateInv, NEW r \in Ranks, WriteShard(r)
  PROVE  RotateInv'
<1>1. /\ pc = "shards" /\ Up /\ Up'
      /\ UNCHANGED <<config, pc, role, previous_saved_paths, global_steps, run>>
  BY DEF WriteShard, Up, Busy, InSave, counters
<1>2. TypeInv /\ global_steps \in Steps
  BY <1>1, BusyStep DEF Types, Busy, InSave
<1>3. \A s \in Steps, ro \in AllRoles : s # global_steps \/ ro # role => disk'[s][ro] = disk[s][ro]
  BY <1>2, ShardWritten
<1>4. \A ro \in AllRoles : Mine(ro)' = Mine(ro)
  BY <1>1 DEF Mine, Paths
<1>5. global_steps \in Mine(role)
  BY <1>1 DEF Mine
<1>6. \A ro \in AllRoles : OnDisk(ro)' \ Mine(ro)' \subseteq OnDisk(ro) \ Mine(ro)
  BY <1>3, <1>4, <1>5 DEF OnDisk
<1>7. \A ro \in AllRoles : config.keep[ro] > 1 => (Up' => Listed(ro)')
  BY <1>1 DEF RotateInv, Listed
<1> QED
  BY <1>1, <1>2, <1>6, <1>7, RotateKeep

\* A restart forgets the paths, and counts what it finds as left by the others.
LEMMA RotateCrash ==
  ASSUME Types, RotateInv, Crash
  PROVE  RotateInv'
<1>1. /\ pc' = "load" /\ Busy /\ Up /\ run' = run + 1 /\ config' = config /\ pc # "failed"
  BY DEF Crash, Types, TypeInv, Busy, InSave, Up
<1>2. TypeInv /\ global_steps \in Steps
  BY <1>1, BusyStep DEF Types
<1>3. /\ \A s \in Steps : s # global_steps => disk'[s] = disk[s]
      /\ \A s \in Steps, ro \in AllRoles : pc # "shards" \/ ro # role => disk'[s][ro] = disk[s][ro]
  BY <1>2, CrashTears
<1>4. ~Up' /\ \A ro \in AllRoles : Mine(ro)' = {}
  BY <1>1 DEF Mine, Up, Busy, InSave
<1> SUFFICES ASSUME NEW ro \in AllRoles, config.keep[ro] > 1
             PROVE  Cardinality(OnDisk(ro)' \ Mine(ro)') <= config.keep[ro] * (run + 1)
  BY <1>1, <1>4 DEF RotateInv
<1>5. OnDisk(ro)' \ Mine(ro) \subseteq OnDisk(ro) \ Mine(ro)
  <2>1. pc = "shards" /\ ro = role => global_steps \in Mine(ro)
    BY <1>1 DEF Mine
  <2> QED
    BY <1>3, <2>1 DEF OnDisk
<1>6. OnDisk(ro)' \in SUBSET Steps /\ OnDisk(ro) \ Mine(ro) \in SUBSET Steps
  BY DEF OnDisk
<1>7. Cardinality(OnDisk(ro) \ Mine(ro)) <= config.keep[ro] * run /\ Listed(ro)
  BY <1>1 DEF RotateInv
<1>8. Cardinality(OnDisk(ro)' \ Mine(ro)) <= config.keep[ro] * run
  BY <1>2, <1>5, <1>6, <1>7, KeepType, FewerSteps
<1>9. Cardinality(OnDisk(ro)') <= config.keep[ro] * (run + 1)
  BY <1>2, <1>6, <1>7, <1>8, OnDiskBound
<1>10. OnDisk(ro)' \ Mine(ro)' = OnDisk(ro)'
  BY <1>4
<1> QED
  BY <1>9, <1>10

LEMMA RotateStep == Types /\ RotateInv /\ [Next]_vars => RotateInv'
<1> SUFFICES ASSUME Types, RotateInv, [Next]_vars PROVE RotateInv'
  OBVIOUS
<1>1. CASE LoadNothing \/ LoadCheckpoint
  BY <1>1, RotateStart
<1>2. CASE \/ LoadRaises \/ LoopEnds \/ OneStepRaises \/ StopSamples
           \/ FitBatch \/ FirstBatch \/ FitOneStep \/ FitSample \/ PostStep
           \/ SaveData \/ TruncateTracker \/ WriteTracker
  BY <1>2, RotateRest
<1>3. CASE ensure_checkpoint_capacity
  BY <1>3, RotateEnsure
<1>4. CASE \E r \in Ranks : WriteShard(r)
  BY <1>4, RotateShard
<1>5. CASE register_checkpoint
  BY <1>5, RotateRegister
<1>6. CASE FeedSample
  BY <1>6, RotateSame DEF FeedSample, saving, counters
<1>7. CASE Crash
  BY <1>7, RotateCrash
<1>8. CASE UNCHANGED vars
  BY <1>8, RotateSame DEF vars, saving, counters
<1> QED
  BY <1>1, <1>2, <1>3, <1>4, <1>5, <1>6, <1>7, <1>8 DEF Next, Trainer, Finished

LEMMA InvariantsImplyResumable == Types /\ Safe /\ RotateInv => Resumable
<1> SUFFICES ASSUME Types, Safe, RotateInv PROVE Resumable
  OBVIOUS
<1>1. TrackedComplete
  <2> SUFFICES ASSUME tracker \in Steps
               PROVE  /\ disk[tracker].data.pos \in 0 .. N
                      /\ \E w \in {disk[tracker].actor[r] : r \in Ranks} \ {NoShard, TornShard} :
                           \A ro \in Roles, r \in Ranks : disk[tracker][ro][r] = w
    BY DEF TrackedComplete
  <2>1. disk[tracker].data.pos \in 0 .. N
    BY PositionFacts DEF Safe, TrackedInv
  <2>2. PICK w \in Shards \ {NoShard, TornShard} : Complete(disk[tracker], w)
    BY DEF Safe, TrackedInv
  <2>3. PICK r \in Ranks : TRUE
    BY CheckpointAssumption
  <2>4. disk[tracker].actor[r] = w
    BY <2>2 DEF Complete, Roles
  <2> QED
    BY <2>1, <2>2, <2>4 DEF Complete
<1>2. ResumesUnlessTorn
  BY DEF Safe, FailInv, ResumesUnlessTorn
<1>3. RotationBound
  <2> SUFFICES ASSUME NEW ro \in Roles, config.keep[ro] > 1
               PROVE  Cardinality(OnDisk(ro)) <= config.keep[ro] * (run + 1)
    BY DEF RotationBound, OnDisk
  <2>1. ro \in AllRoles /\ OnDisk(ro) \in SUBSET Steps /\ TypeInv
    BY ConfigFacts DEF OnDisk, Types, TypeInv
  <2>2. CASE pc = "failed"
    BY <2>1, <2>2 DEF RotateInv
  <2>3. CASE pc # "failed"
    BY <2>1, <2>3, OnDiskBound DEF RotateInv
  <2> QED
    BY <2>2, <2>3
<1> QED
  BY <1>1, <1>2, <1>3 DEF Resumable

\* After any number of crashes, between any two writes, what the tracker file names can
\* be resumed from, only an empty tracker file stops a restart, and at most
\* max_ckpt_to_keep checkpoints remain for each start of the job: for every number of
\* ranks, every schedule and any limits on actor and critic but a limit of one.
THEOREM AlwaysResumable ==
  ASSUME KeepsTwo
  PROVE  Spec => []Resumable
<1>1. Init => Types /\ Safe /\ RotateInv
  BY TypesInit, SafeInit, RotateInit
<1>2. Types /\ Safe /\ RotateInv /\ [Next]_vars => Types' /\ Safe' /\ RotateInv'
  BY TypesStep, SafeStep, RotateStep
<1>3. Types /\ Safe /\ RotateInv => Resumable
  BY InvariantsImplyResumable
<1> QED
  BY <1>1, <1>2, <1>3, PTL DEF Spec

-----------------------------------------------------------------------------
(* Batches: what the weights were trained on, and what is in flight.        *)

SelfFed == {"ppo", "ppo_sync"}
InFlight(k) == IF k = "one_step" THEN 1 ELSE Ahead

Elems(s) == {s[i] : i \in DOMAIN s}
Straight(s) == s = [i \in 1 .. Len(s) |-> i - 1]
Apart(s) == \A i, j \in DOMAIN s : s[i] = s[j] => i = j
\* Of the first n batches, those that are not in B.
Missed(B, n) == (0 .. n - 1) \ B

\* In memory, for a trainer of kind k: batches b trained on, q in flight, n drawn, c
\* crashes. The trainers that feed themselves have trained on all that was drawn; with
\* a rollouter the batches trained on and those in flight are all different.
Keeps(k, up, b, q, n, c) ==
    /\ k \in SelfFed => Straight(b) /\ (up => n = Len(b))
    /\ k \notin SelfFed =>
         /\ Cardinality(Missed(Elems(b) \cup Elems(q), n)) <= c * InFlight(k)
         /\ up => Len(q) <= InFlight(k)
    /\ k = "fully_async" =>
         /\ Apart(b)
         /\ up => /\ Apart(q) /\ Elems(b) \cup Elems(q) \subseteq 0 .. n - 1
                  /\ Elems(b) \cap Elems(q) = {}
MemoryInv == Keeps(kind, Up, weights.batches, queue, Drawn, run)

\* Steps, batches trained on and batches drawn.
Reached == IF pc \in {"prefetch", "step", "done"} THEN global_steps - 1 ELSE global_steps
PaceInv ==
    Up /\ kind # "fully_async" =>
        /\ Len(weights.batches) = Reached
        /\ kind = "one_step" =>
             /\ pc = "prefetch" => queue = <<>>
             /\ Drawn >= Len(weights.batches)
             /\ queue # <<>> /\ queue[1] # Absent => Drawn >= Len(weights.batches) + 1

\* What weights trained on b and n batches drawn must be like for a run to go on from
\* step s; c is the number of crashes that cost what was in flight.
Resumes(k, b, n, s, c) ==
    /\ k \in SelfFed => Straight(b) /\ n = s
    /\ k # "fully_async" => Len(b) = s
    /\ k \notin SelfFed => Cardinality(Missed(Elems(b), n)) <= c * InFlight(k)
    /\ k = "one_step" => n >= s
    /\ k = "fully_async" => Apart(b) /\ Elems(b) \subseteq 0 .. n - 1

\* On disk: the checkpoint the tracker names, and the one it is about to.
At(data) == data.pass * N + data.pos
Losses == IF pc = "load" THEN run ELSE run + 1
TrackerInv ==
    tracker \in Steps => \A r \in Ranks :
        Resumes(kind, disk[tracker].actor[r].batches, At(disk[tracker].data), tracker, Losses)
DataInv ==
    pc \in {"truncate", "tracker"} =>
        Resumes(kind, weights.batches, At(disk[global_steps].data), global_steps, run + 1)

\* The rollouter feeds only while the trainer is up.
FeedInv == feeding => Up

OrderInv == MemoryInv /\ PaceInv /\ TrackerInv /\ DataInv /\ FeedInv

-----------------------------------------------------------------------------
(* Sequences of batches. *)

LEMMA ElemsAppend ==
  ASSUME NEW S, NEW s \in Seq(S), NEW b \in S
  PROVE  /\ Append(s, b) \in Seq(S) /\ Len(Append(s, b)) = Len(s) + 1
         /\ Elems(Append(s, b)) = Elems(s) \cup {b}
         /\ Apart(s) /\ b \notin Elems(s) => Apart(Append(s, b))
         /\ Straight(s) /\ b = Len(s) => Straight(Append(s, b))
<1> DEFINE t == Append(s, b)
<1>1. /\ t \in Seq(S) /\ Len(t) = Len(s) + 1 /\ Len(s) \in Nat /\ DOMAIN t = 1 .. Len(s) + 1
      /\ DOMAIN s = 1 .. Len(s)
      /\ \A i \in 1 .. Len(s) : t[i] = s[i]
      /\ t[Len(s) + 1] = b
  OBVIOUS
<1>2. DOMAIN t = DOMAIN s \cup {Len(s) + 1} /\ Len(s) + 1 \notin DOMAIN s
  BY <1>1
<1> HIDE DEF t
<1>3. Elems(t) = Elems(s) \cup {b}
  BY <1>1, <1>2 DEF Elems
<1>4. Apart(s) /\ b \notin Elems(s) => Apart(t)
  BY <1>1, <1>2 DEF Apart, Elems
<1>5. Straight(s) /\ b = Len(s) => Straight(t)
  <2> SUFFICES ASSUME Straight(s), b = Len(s) PROVE Straight(t)
    OBVIOUS
  <2>1. \A i \in 1 .. Len(s) : s[i] = i - 1
    BY DEF Straight
  <2>2. \A i \in 1 .. Len(t) : t[i] = i - 1
    BY <1>1, <2>1
  <2>3. t = [i \in 1 .. Len(t) |-> t[i]]
    BY <1>1
  <2> QED
    BY <2>2, <2>3 DEF Straight
<1> QED
  BY <1>1, <1>3, <1>4, <1>5 DEF t

\* Taking one out.
LEMMA ElemsRemove ==
  ASSUME NEW S, NEW s \in Seq(S), NEW i \in 1 .. Len(s), Apart(s)
  PROVE  LET t == SubSeq(s, 1, i - 1) \o SubSeq(s, i + 1, Len(s))
         IN  Apart(t) /\ Elems(t) = Elems(s) \ {s[i]}
<1> DEFINE a == SubSeq(s, 1, i - 1)
           c == SubSeq(s, i + 1, Len(s))
           t == a \o c
           old(j) == IF j < i THEN j ELSE j + 1
<1>1. Len(s) \in Nat /\ i \in Nat /\ DOMAIN s = 1 .. Len(s)
  OBVIOUS
<1>2. a \in Seq(S) /\ Len(a) = i - 1 /\ \A j \in 1 .. i - 1 : a[j] = s[j]
  BY SubSeqProperties
<1>3. c \in Seq(S) /\ Len(c) = Len(s) - i /\ \A j \in 1 .. Len(s) - i : c[j] = s[i + j]
  <2>1. c \in Seq(S) /\ Len(c) = Len(s) - i
    BY SubSeqProperties
  <2>2. \A j \in 1 .. Len(c) : c[j] = s[(i + 1) + j - 1]
    BY SubSeqProperties
  <2>3. \A j \in 1 .. Len(s) - i : (i + 1) + j - 1 = i + j
    BY <1>1
  <2> HIDE DEF c
  <2> QED
    BY <2>1, <2>2, <2>3
<1> HIDE DEF a, c
<1>4. t \in Seq(S) /\ Len(t) = Len(s) - 1 /\ DOMAIN t = 1 .. Len(s) - 1
  <2>1. t \in Seq(S) /\ Len(t) = Len(a) + Len(c)
    BY <1>2, <1>3, ConcatProperties
  <2>2. Len(t) = Len(s) - 1
    BY <1>1, <1>2, <1>3, <2>1
  <2> QED
    BY <2>1, <2>2
<1>5. \A j \in 1 .. Len(s) - 1 : t[j] = s[old(j)] /\ old(j) \in 1 .. Len(s) /\ old(j) # i
  <2> TAKE j \in 1 .. Len(s) - 1
  <2>1. CASE j < i
    BY <1>1, <1>2, <1>3, <2>1
  <2>2. CASE ~(j < i)
    <3>1. j \in Len(a) + 1 .. Len(a) + Len(c) /\ j - Len(a) \in 1 .. Len(s) - i /\ i + (j - Len(a)) = j + 1
      BY <1>1, <1>2, <1>3, <2>2
    <3>2. t[j] = c[j - Len(a)]
      BY <1>2, <1>3, <3>1
    <3> QED
      BY <1>1, <1>3, <2>2, <3>1, <3>2
  <2> QED
    BY <2>1, <2>2
<1> HIDE DEF t
<1>6. \A j, k \in 1 .. Len(s) - 1 : old(j) = old(k) => j = k
  BY <1>1
<1>7. \A m \in 1 .. Len(s) : m # i => \E j \in 1 .. Len(s) - 1 : old(j) = m
  <2> SUFFICES ASSUME NEW m \in 1 .. Len(s), m # i PROVE \E j \in 1 .. Len(s) - 1 : old(j) = m
    OBVIOUS
  <2>1. CASE m < i
    <3> WITNESS m \in 1 .. Len(s) - 1
    <3> QED
      BY <2>1
  <2>2. CASE m > i
    <3>1. m - 1 \in 1 .. Len(s) - 1 /\ old(m - 1) = m
      BY <1>1, <2>2
    <3> QED
      BY <3>1
  <2> QED
    BY <1>1, <2>1, <2>2
<1> HIDE DEF old
<1>8. Apart(t)
  BY <1>1, <1>4, <1>5, <1>6 DEF Apart
<1>9. Elems(t) = Elems(s) \ {s[i]}
  <2>1. \A x \in Elems(t) : x \in Elems(s) /\ x # s[i]
    BY <1>1, <1>4, <1>5 DEF Elems, Apart
  <2>2. ASSUME NEW x \in Elems(s), x # s[i] PROVE x \in Elems(t)
    <3>1. PICK m \in 1 .. Len(s) : x = s[m]
      BY <1>1 DEF Elems
    <3>2. PICK j \in 1 .. Len(s) - 1 : old(j) = m
      BY <1>7, <2>2, <3>1
    <3>3. t[j] = x /\ j \in DOMAIN t
      BY <1>4, <1>5, <3>1, <3>2
    <3> QED
      BY <3>3 DEF Elems
  <2> QED
    BY <2>1, <2>2
<1> QED
  BY <1>8, <1>9 DEF t, a, c

LEMMA ElemsCount ==
  ASSUME NEW S, NEW p \in Seq(S)
  PROVE  /\ IsFiniteSet(Elems(p)) /\ Cardinality(Elems(p)) \in Nat
         /\ Cardinality(Elems(p)) <= Len(p)
<1>1. Elems(p) = {p[i] : i \in DOMAIN p}
  BY DEF Elems
<1> QED
  BY <1>1, PathCount

LEMMA MissedCount ==
  ASSUME NEW B, NEW n \in Nat
  PROVE  IsFiniteSet(Missed(B, n)) /\ Cardinality(Missed(B, n)) \in Nat
<1>1. IsFiniteSet(0 .. n - 1)
  BY FS_Interval
<1>2. Missed(B, n) \in SUBSET (0 .. n - 1)
  BY DEF Missed
<1> QED
  BY <1>1, <1>2, FS_Subset, FS_CardinalityType

\* Fewer drawn, more trained on: fewer missed.
LEMMA MissedLess ==
  ASSUME NEW B, NEW C, NEW n \in Nat, NEW m \in Nat, m <= n, B \subseteq C
  PROVE  Cardinality(Missed(C, m)) <= Cardinality(Missed(B, n))
<1>1. Missed(C, m) \in SUBSET Missed(B, n)
  BY DEF Missed
<1> QED
  BY <1>1, MissedCount, FS_Subset

\* What was in flight may be missed as well.
LEMMA MissedMore ==
  ASSUME NEW B, NEW Q, IsFiniteSet(Q), NEW n \in Nat
  PROVE  Cardinality(Missed(B, n)) <= Cardinality(Missed(B \cup Q, n)) + Cardinality(Q)
<1> DEFINE M == Missed(B \cup Q, n)
<1>1. IsFiniteSet(M) /\ Cardinality(M) \in Nat /\ Cardinality(Missed(B, n)) \in Nat
      /\ IsFiniteSet(Missed(B, n)) /\ Cardinality(Q) \in Nat
  BY MissedCount, FS_CardinalityType
<1>2. Missed(B, n) \ Q \in SUBSET M
  BY DEF Missed
<1>3. Cardinality(Missed(B, n) \ Q) <= Cardinality(M)
  BY <1>1, <1>2, FS_Subset
<1>4. /\ Cardinality(Missed(B, n) \ Q) \in Nat
      /\ Cardinality(Missed(B, n)) <= Cardinality(Missed(B, n) \ Q) + Cardinality(Q)
  BY <1>1, SplitCount
<1> HIDE DEF M
<1> QED
  BY <1>1, <1>3, <1>4 DEF M

\* Drawing a batch that goes to B adds none.
LEMMA MissedDraw ==
  ASSUME NEW B, NEW n \in Nat
  PROVE  Missed(B \cup {n}, n + 1) = Missed(B, n)
BY DEF Missed

LEMMA DrawCounts ==
  ASSUME TypeInv
  PROVE  Drawn \in Nat /\ NextBatch = Drawn /\ (Draw => Drawn' = Drawn + 1)
<1>1. pass \in Nat /\ pos \in 0 .. N /\ N \in Nat /\ N >= 1
  BY StepFacts DEF TypeInv
<1>2. pass * N \in Nat /\ (pass + 1) * N = pass * N + N
  BY <1>1
<1> DEFINE m == pass * N
<1>3. CASE pos < N
  <2>1. NextBatch = m + pos /\ Drawn = m + pos
    BY <1>3 DEF NextBatch, Drawn
  <2>2. Draw => pos' = pos + 1 /\ pass' = pass
    BY <1>3 DEF Draw
  <2>3. Draw => Drawn' = m + (pos + 1)
    BY <2>2 DEF Drawn
  <2> HIDE DEF m
  <2> QED
    BY <1>1, <1>2, <2>1, <2>3 DEF m
<1>4. CASE ~(pos < N)
  <2>0. pos = N
    BY <1>1, <1>4
  <2>1. NextBatch = m + N /\ Drawn = m + N
    BY <1>1, <1>2, <1>4, <2>0 DEF NextBatch, Drawn
  <2>2. Draw => pos' = 1 /\ pass' = pass + 1
    BY <1>4 DEF Draw
  <2>3. Draw => Drawn' = m + N + 1
    BY <1>2, <2>2 DEF Drawn
  <2> HIDE DEF m
  <2> QED
    BY <1>1, <1>2, <2>1, <2>3 DEF m
<1> QED
  BY <1>3, <1>4

LEMMA FlightFacts == \A k : InFlight(k) \in Nat /\ InFlight(k) >= 1
BY CheckpointAssumption DEF InFlight

LEMMA QueueType ==
  ASSUME TypeInv
  PROVE  /\ queue \in Seq(Nat \cup {Absent}) /\ Len(queue) \in Nat
         /\ weights.batches \in Seq(Nat) /\ Len(weights.batches) \in Nat
         /\ kind \in Kinds /\ run \in Nat
<1>1. queue \in Seq(Nat \cup {Absent}) /\ weights.batches \in Seq(Nat)
  BY DEF TypeInv, Shards
<1> QED
  BY <1>1, ConfigFacts DEF TypeInv

(* What is kept in memory, whatever the step. *)

LEMMA KeepsCrash ==
  ASSUME NEW k, NEW up, NEW b \in Seq(Nat), NEW q \in Seq(Nat \cup {Absent}), NEW n \in Nat,
         NEW c \in Nat, Keeps(k, up, b, q, n, c)
  PROVE  Keeps(k, FALSE, b, q, n, c) /\ Keeps(k, FALSE, b, q, n, c + 1)
<1>1. InFlight(k) \in Nat /\ Cardinality(Missed(Elems(b) \cup Elems(q), n)) \in Nat
  BY FlightFacts, MissedCount
<1>2. c * InFlight(k) \in Nat /\ c * InFlight(k) <= (c + 1) * InFlight(k)
      /\ (c + 1) * InFlight(k) \in Nat
  BY <1>1
<1>3. k \notin SelfFed =>
        /\ Cardinality(Missed(Elems(b) \cup Elems(q), n)) <= c * InFlight(k)
        /\ Cardinality(Missed(Elems(b) \cup Elems(q), n)) <= (c + 1) * InFlight(k)
  BY <1>1, <1>2 DEF Keeps
<1> QED
  BY <1>3 DEF Keeps

\* A trainer that feeds itself draws a batch and trains on it.
LEMMA KeepsFit ==
  ASSUME NEW k \in SelfFed, NEW b \in Seq(Nat), NEW q, NEW q2, NEW n \in Nat, NEW c,
         Keeps(k, TRUE, b, q, n, c)
  PROVE  Keeps(k, TRUE, Append(b, n), q2, n + 1, c)
<1>1. Straight(b) /\ n = Len(b) /\ k # "fully_async"
  BY DEF Keeps, SelfFed
<1>2. Straight(Append(b, n)) /\ Len(Append(b, n)) = Len(b) + 1
  BY <1>1, ElemsAppend
<1> QED
  BY <1>1, <1>2 DEF Keeps

\* A batch is drawn and is in flight.
LEMMA KeepsFeed ==
  ASSUME NEW b \in Seq(Nat), NEW q \in Seq(Nat \cup {Absent}), NEW n \in Nat, NEW c,
         Keeps("fully_async", TRUE, b, q, n, c), Len(q) < Ahead
  PROVE  Keeps("fully_async", TRUE, b, Append(q, n), n + 1, c)
<1>0. "fully_async" \notin SelfFed /\ InFlight("fully_async") = Ahead /\ Ahead \in Nat
  BY CheckpointAssumption DEF SelfFed, InFlight
<1>1. /\ Apart(b) /\ Apart(q) /\ Elems(b) \cup Elems(q) \subseteq 0 .. n - 1
      /\ Elems(b) \cap Elems(q) = {}
      /\ Cardinality(Missed(Elems(b) \cup Elems(q), n)) <= c * Ahead
  BY <1>0 DEF Keeps
<1>2. n \notin Elems(b) /\ n \notin Elems(q) /\ \A x \in 0 .. n - 1 : x \in 0 .. n /\ n \in 0 .. n
  BY <1>1
<1>3. /\ Elems(Append(q, n)) = Elems(q) \cup {n} /\ Apart(Append(q, n))
      /\ Len(Append(q, n)) = Len(q) + 1
  BY <1>1, <1>2, ElemsAppend
<1>4. Elems(b) \cup Elems(Append(q, n)) = (Elems(b) \cup Elems(q)) \cup {n}
  BY <1>3
<1>5. Missed(Elems(b) \cup Elems(Append(q, n)), n + 1) = Missed(Elems(b) \cup Elems(q), n)
  BY <1>4, MissedDraw
<1>6. Len(q) + 1 <= Ahead
  BY <1>0
<1>7. n + 1 - 1 = n /\ Elems(b) \cup Elems(Append(q, n)) \subseteq 0 .. n
  BY <1>1, <1>2, <1>4
<1>8. Elems(b) \cap Elems(Append(q, n)) = {}
  BY <1>1, <1>2, <1>3
<1> QED
  BY <1>0, <1>1, <1>3, <1>5, <1>6, <1>7, <1>8 DEF Keeps

\* A batch in flight is trained on.
LEMMA KeepsSample ==
  ASSUME NEW b \in Seq(Nat), NEW q \in Seq(Nat \cup {Absent}), NEW n \in Nat, NEW c,
         Keeps("fully_async", TRUE, b, q, n, c), NEW i \in 1 .. Len(q), q[i] \in Nat
  PROVE  Keeps("fully_async", TRUE, Append(b, q[i]),
               SubSeq(q, 1, i - 1) \o SubSeq(q, i + 1, Len(q)), n, c)
<1> DEFINE t == SubSeq(q, 1, i - 1) \o SubSeq(q, i + 1, Len(q))
<1>0. "fully_async" \notin SelfFed /\ InFlight("fully_async") = Ahead /\ Ahead \in Nat
  BY CheckpointAssumption DEF SelfFed, InFlight
<1>1. /\ Apart(b) /\ Apart(q) /\ Elems(b) \cup Elems(q) \subseteq 0 .. n - 1
      /\ Elems(b) \cap Elems(q) = {} /\ Len(q) <= Ahead
      /\ Cardinality(Missed(Elems(b) \cup Elems(q), n)) <= c * Ahead
  BY <1>0 DEF Keeps
<1>2. Apart(t) /\ Elems(t) = Elems(q) \ {q[i]}
  BY <1>1, ElemsRemove
<1>3. Len(t) = Len(q) - 1
  BY RemoveOne
<1> HIDE DEF t
<1>4. q[i] \in Elems(q)
  BY DEF Elems
<1>5. Elems(Append(b, q[i])) = Elems(b) \cup {q[i]} /\ Apart(Append(b, q[i]))
  BY <1>1, <1>4, ElemsAppend
<1>6. Elems(Append(b, q[i])) \cup Elems(t) = Elems(b) \cup Elems(q)
  BY <1>2, <1>4, <1>5
<1>7. Elems(Append(b, q[i])) \cap Elems(t) = {}
  BY <1>1, <1>2, <1>4, <1>5
<1>8. Len(t) <= Ahead
  BY <1>0, <1>1, <1>3
<1>9. Keeps("fully_async", TRUE, Append(b, q[i]), t, n, c)
  BY <1>0, <1>1, <1>2, <1>5, <1>6, <1>7, <1>8 DEF Keeps
<1> QED
  BY <1>9 DEF t

\* one_step has nothing in flight and draws a batch, or finds none.
LEMMA KeepsFirst ==
  ASSUME NEW b \in Seq(Nat), NEW n \in Nat, NEW c, Keeps("one_step", TRUE, b, <<>>, n, c)
  PROVE  /\ Keeps("one_step", TRUE, b, <<n>>, n + 1, c)
         /\ Keeps("one_step", TRUE, b, <<Absent>>, n, c)
<1>0. "one_step" \notin SelfFed /\ InFlight("one_step") = 1
  BY DEF SelfFed, InFlight
<1>1. /\ Elems(<<n>>) = {n} /\ Elems(<<Absent>>) = {Absent} /\ Elems(<<>>) = {}
      /\ Len(<<n>>) = 1 /\ Len(<<Absent>>) = 1
  BY DEF Elems
<1>2. Cardinality(Missed(Elems(b) \cup {}, n)) <= c * 1
  BY <1>0, <1>1 DEF Keeps
<1>3. Missed(Elems(b) \cup {n}, n + 1) = Missed(Elems(b), n)
  BY MissedDraw
<1>4. Missed(Elems(b) \cup {Absent}, n) = Missed(Elems(b), n) /\ Elems(b) \cup {} = Elems(b)
  BY DEF Missed, Absent
<1>5. ASSUME NEW q, NEW m, Len(q) = 1, Missed(Elems(b) \cup Elems(q), m) = Missed(Elems(b), n)
      PROVE  Keeps("one_step", TRUE, b, q, m, c)
  BY <1>0, <1>2, <1>4, <1>5 DEF Keeps
<1> QED
  BY <1>1, <1>3, <1>4, <1>5

\* one_step trains on the batch in flight; nothing is in flight then.
LEMMA KeepsHead ==
  ASSUME NEW b \in Seq(Nat), NEW q \in Seq(Nat \cup {Absent}), NEW n \in Nat, NEW c \in Nat,
         Keeps("one_step", TRUE, b, q, n, c), q # <<>>, Head(q) \in Nat
  PROVE  Keeps("one_step", TRUE, Append(b, Head(q)), <<>>, n, c)
<1>0. "one_step" \notin SelfFed /\ InFlight("one_step") = 1
  BY DEF SelfFed, InFlight
<1>1. Cardinality(Missed(Elems(b) \cup Elems(q), n)) <= c * 1 /\ Len(q) <= 1
  <2>1. Cardinality(Missed(Elems(b) \cup Elems(q), n)) <= c * InFlight("one_step")
    BY <1>0 DEF Keeps
  <2>2. Len(q) <= InFlight("one_step")
    BY <1>0 DEF Keeps
  <2> QED
    BY <1>0, <2>1, <2>2
<1>2. Elems(q) = {Head(q)}
  <2>1. Head(q) = q[1]
    OBVIOUS
  <2>2. DOMAIN q = {1}
    <3>1. DOMAIN q = 1 .. Len(q) /\ Len(q) \in Nat /\ Len(q) # 0
      OBVIOUS
    <3>2. Len(q) = 1
      BY <1>1, <3>1
    <3> QED
      BY <3>1, <3>2
  <2> QED
    BY <2>1, <2>2 DEF Elems
<1> DEFINE e == <<>>
<1>3. Len(e) = 0 /\ Elems(e) = {}
  BY DEF Elems
<1> HIDE DEF e
<1>4. Len(e) <= 1 /\ Elems(Append(b, Head(q))) \cup Elems(e) = Elems(b) \cup Elems(q)
  <2>1. Elems(Append(b, Head(q))) = Elems(b) \cup {Head(q)}
    BY ElemsAppend
  <2> QED
    BY <1>2, <1>3, <2>1
<1>5. Keeps("one_step", TRUE, Append(b, Head(q)), e, n, c)
  BY <1>0, <1>1, <1>4 DEF Keeps
<1> QED
  BY <1>5 DEF e

(* From memory to disk and back. *)

LEMMA KeepsSaved ==
  ASSUME NEW k \in Kinds, NEW b \in Seq(Nat), NEW q \in Seq(Nat \cup {Absent}), NEW n \in Nat,
         NEW s \in Nat, NEW c \in Nat, Keeps(k, TRUE, b, q, n, c),
         k # "fully_async" => Len(b) = s, k = "one_step" => n >= s
  PROVE  Resumes(k, b, n, s, c + 1)
<1> DEFINE F == InFlight(k)
           A == Cardinality(Missed(Elems(b), n))
           M == Cardinality(Missed(Elems(b) \cup Elems(q), n))
           E == Cardinality(Elems(q))
<1>1. F \in Nat /\ A \in Nat /\ M \in Nat /\ E \in Nat /\ E <= Len(q) /\ Len(q) \in Nat
      /\ IsFiniteSet(Elems(q))
  BY FlightFacts, MissedCount, ElemsCount
<1>2. A <= M + E
  BY <1>1, MissedMore
<1>3. c * F \in Nat /\ (c + 1) * F = c * F + F
  BY <1>1
<1>4. k \notin SelfFed => M <= c * F /\ Len(q) <= F
  BY DEF Keeps
<1> DEFINE P == c * F
<1>5. k \notin SelfFed => A <= P + F
  <2> SUFFICES ASSUME k \notin SelfFed PROVE A <= P + F
    OBVIOUS
  <2>1. M <= P /\ E <= F /\ P \in Nat
    BY <1>1, <1>3, <1>4
  <2> HIDE DEF P, A, M, E, F
  <2> QED
    BY <1>1, <1>2, <2>1
<1>6. k \notin SelfFed => A <= (c + 1) * F
  BY <1>3, <1>5
<1>7. k \in SelfFed => Straight(b) /\ n = s
  BY DEF Keeps, SelfFed
<1>8. k = "fully_async" => Apart(b) /\ Elems(b) \subseteq 0 .. n - 1
  BY DEF Keeps
<1> QED
  BY <1>6, <1>7, <1>8 DEF Resumes

LEMMA ResumesMore ==
  ASSUME NEW k, NEW b \in Seq(Nat), NEW n \in Nat, NEW s, NEW c \in Nat, NEW c2 \in Nat, c <= c2,
         Resumes(k, b, n, s, c)
  PROVE  Resumes(k, b, n, s, c2)
<1> DEFINE F == InFlight(k)
<1>1. F \in Nat /\ Cardinality(Missed(Elems(b), n)) \in Nat
  BY FlightFacts, MissedCount
<1>2. c * F \in Nat /\ c2 * F \in Nat /\ c * F <= c2 * F
  BY <1>1, TimesMonotone, Times
<1>3. k \notin SelfFed => Cardinality(Missed(Elems(b), n)) <= c2 * F
  BY <1>1, <1>2 DEF Resumes
<1> QED
  BY <1>3 DEF Resumes

LEMMA ResumesKeep ==
  ASSUME NEW k \in Kinds, NEW b \in Seq(Nat), NEW n \in Nat, NEW m \in Nat, NEW s \in Nat,
         NEW c \in Nat, Resumes(k, b, n, s, c), m = n \/ (m = s /\ k \in {"ppo", "one_step"})
  PROVE  /\ Keeps(k, TRUE, b, <<>>, m, c) /\ (k # "fully_async" => Len(b) = s)
         /\ k = "one_step" => m >= s
<1> DEFINE e == <<>>
<1>1. Elems(e) = {} /\ Apart(e) /\ Len(e) = 0
  BY DEF Elems, Apart
<1>2. k = "one_step" => m >= s /\ m <= n
  BY DEF Resumes
<1>3. k \in SelfFed => m = s /\ Len(b) = s /\ Straight(b)
  BY DEF Resumes, SelfFed
<1>4. k = "fully_async" => m = n
  OBVIOUS
<1>5. k \notin SelfFed => k = "one_step" \/ k = "fully_async"
  BY DEF Kinds, SelfFed
<1>6. InFlight(k) \in Nat
  BY FlightFacts
<1>7. k \notin SelfFed => Cardinality(Missed(Elems(b) \cup Elems(e), m)) <= c * InFlight(k)
  <2> SUFFICES ASSUME k \notin SelfFed
               PROVE  Cardinality(Missed(Elems(b) \cup Elems(e), m)) <= c * InFlight(k)
    OBVIOUS
  <2>1. Elems(b) \cup Elems(e) = Elems(b) /\ m <= n
    BY <1>1, <1>2, <1>4, <1>5
  <2>2. Cardinality(Missed(Elems(b), m)) <= Cardinality(Missed(Elems(b), n))
    BY <2>1, MissedLess
  <2>3. Cardinality(Missed(Elems(b), n)) <= c * InFlight(k) /\ c * InFlight(k) \in Nat
    BY <1>6, Times DEF Resumes
  <2>4. Cardinality(Missed(Elems(b), m)) \in Nat /\ Cardinality(Missed(Elems(b), n)) \in Nat
    BY MissedCount
  <2> DEFINE P == c * InFlight(k)
  <2>5. P \in Nat /\ Cardinality(Missed(Elems(b), n)) <= P
    BY <2>3
  <2> HIDE DEF e, P
  <2>6. Cardinality(Missed(Elems(b), m)) <= P
    BY <2>2, <2>4, <2>5
  <2> QED
    BY <2>1, <2>6 DEF P
<1>8. k = "fully_async" => /\ Apart(b) /\ Elems(b) \cup Elems(e) \subseteq 0 .. m - 1
                           /\ Elems(b) \cap Elems(e) = {}
  BY <1>1, <1>4 DEF Resumes
<1> HIDE DEF e
<1>9. Keeps(k, TRUE, b, e, m, c)
  BY <1>1, <1>3, <1>6, <1>7, <1>8 DEF Keeps
<1> QED
  BY <1>2, <1>9 DEF e, Resumes

\* Nothing trained on, nothing drawn.
LEMMA KeepsScratch ==
  ASSUME NEW k, NEW up \in BOOLEAN, NEW c \in Nat
  PROVE  Keeps(k, up, <<>>, <<>>, 0, c)
<1> DEFINE e == <<>>
<1>1. /\ Elems(e) = {} /\ Apart(e) /\ Len(e) = 0 /\ Elems(e) \cup Elems(e) = {}
      /\ Elems(e) \cap Elems(e) = {}
  BY DEF Elems, Apart
<1>2. Straight(e)
  BY DEF Straight
<1>3. Missed({}, 0) = {}
  BY DEF Missed
<1>4. Cardinality(Missed({}, 0)) = 0
  BY <1>3, FS_EmptySet
<1>5. c * InFlight(k) \in Nat /\ InFlight(k) \in Nat
  BY FlightFacts, Times
<1> HIDE DEF e
<1>6. Keeps(k, up, e, e, 0, c)
  BY <1>1, <1>2, <1>4, <1>5 DEF Keeps
<1> QED
  BY <1>6 DEF e

LEMMA Divides ==
  ASSUME NEW s \in Nat, s % N = 0
  PROVE  (s \div N) * N = s
<1>1. N \in Nat /\ N > 0
  BY StepFacts
<1>2. \A a, d \in Nat : d > 0 => a = d * (a \div d) + (a % d) /\ a \div d \in Nat
  OBVIOUS
<1>3. \A a, d \in Nat : a * d = d * a
  OBVIOUS
<1> QED
  BY <1>1, <1>2, <1>3

\* The dataloader starts where it was saved, or at the epoch boundary of the step.
LEMMA RestoredAt ==
  ASSUME Types, tracker \in Steps, disk[tracker].data \in Positions
  PROVE  /\ Restored(tracker) \in Positions
         /\ \/ Restored(tracker) = disk[tracker].data
            \/ At(Restored(tracker)) = tracker /\ kind \in {"ppo", "one_step"}
<1>1. disk[tracker].data # NoData /\ tracker \in Nat
  BY PositionFacts, StepFacts
<1>2. CASE kind \in {"ppo", "one_step"} /\ tracker % N = 0
  <2>1. Restored(tracker) = [pass |-> tracker \div N, pos |-> 0]
    BY <1>1, <1>2 DEF Restored
  <2>2. tracker \div N \in Nat /\ (tracker \div N) * N = tracker
    BY <1>1, <1>2, StepFacts, Divides
  <2>3. At(Restored(tracker)) = tracker
    BY <1>1, <2>1, <2>2 DEF At
  <2> QED
    BY <1>2, <2>1, <2>2, <2>3, StepFacts DEF Positions
<1>3. CASE ~(kind \in {"ppo", "one_step"} /\ tracker % N = 0)
  BY <1>1, <1>3 DEF Restored
<1> QED
  BY <1>2, <1>3

(* Steps that train on nothing. *)

LEMMA MemoryStill ==
  ASSUME Types, MemoryInv, UNCHANGED <<config, weights, pass, pos, queue, run>>, Up' => Up
  PROVE  MemoryInv'
<1>1. kind' = kind /\ Drawn' = Drawn
  BY DEF kind, Drawn
<1>2. CASE Up' = Up
  BY <1>1, <1>2 DEF MemoryInv
<1>3. CASE Up /\ ~Up'
  <2>1. Keeps(kind, Up, weights.batches, queue, Drawn, run)
    BY DEF MemoryInv
  <2>2. Keeps(kind, FALSE, weights.batches, queue, Drawn, run)
    BY <2>1, KeepsCrash, QueueType, DrawCounts DEF Types
  <2>3. Up' = FALSE
    BY <1>3 DEF Up, Busy, InSave
  <2> QED
    BY <1>1, <2>2, <2>3 DEF MemoryInv
<1> QED
  BY <1>2, <1>3 DEF Up, Busy, InSave

LEMMA PaceStill ==
  ASSUME PaceInv, UNCHANGED <<config, weights, pass, pos, queue>>, Up' => Up,
         kind # "fully_async" /\ Up' => Reached' = Reached /\ pc' # "prefetch"
  PROVE  PaceInv'
<1>1. kind' = kind /\ Drawn' = Drawn
  BY DEF kind, Drawn
<1> QED
  BY <1>1 DEF PaceInv

\* The checkpoint the tracker names stays as good as it was.
LEMMA TrackerStill ==
  ASSUME Types, Safe, TrackerInv, UNCHANGED <<config, tracker>>,
         tracker \in Steps => /\ disk'[tracker].actor = disk[tracker].actor
                              /\ disk'[tracker].data = disk[tracker].data,
         Losses' \in Nat, Losses <= Losses'
  PROVE  TrackerInv'
<1> SUFFICES ASSUME tracker \in Steps, NEW r \in Ranks
             PROVE  Resumes(kind, disk[tracker].actor[r].batches, At(disk[tracker].data), tracker, Losses')
  <2>1. kind' = kind
    BY DEF kind
  <2> QED
    BY <2>1 DEF TrackerInv
<1>1. disk[tracker].actor[r].batches \in Seq(Nat) /\ disk[tracker].data \in Positions
  BY DEF Types, TypeInv, Folder, Shards, Safe, TrackedInv
<1>2. At(disk[tracker].data) \in Nat
  <2>1. disk[tracker].data.pass \in Nat /\ disk[tracker].data.pos \in Nat
    BY <1>1 DEF Positions
  <2>2. disk[tracker].data.pass * N \in Nat
    BY <2>1, StepFacts, Times
  <2> QED
    BY <2>1, <2>2 DEF At
<1>3. Losses \in Nat
  BY QueueType DEF Types, Losses
<1>4. Resumes(kind, disk[tracker].actor[r].batches, At(disk[tracker].data), tracker, Losses)
  BY DEF TrackerInv
<1> QED
  BY <1>1, <1>2, <1>3, <1>4, ResumesMore

\* No step of a save, and no crash, touches it.
LEMMA FolderKept ==
  ASSUME Types, Safe, KeepsTwo, tracker \in Steps,
         \/ ensure_checkpoint_capacity \/ (\E r \in Ranks : WriteShard(r)) \/ register_checkpoint
         \/ SaveData \/ Crash
  PROVE  disk'[tracker].actor = disk[tracker].actor /\ disk'[tracker].data = disk[tracker].data
<1>1. TypeInv /\ Busy /\ Up
  BY DEF Types, TypeInv, ensure_checkpoint_capacity, WriteShard, register_checkpoint, SaveData, Crash,
         Up, Busy, InSave
<1>2. global_steps \in Steps /\ tracker = last_ckpt /\ last_ckpt \in Nat /\ global_steps \in Nat
  BY <1>1, BusyStep, StepFacts DEF Safe, PathInv, TypeInv
<1>3. InSave => tracker # global_steps
  BY <1>1, <1>2 DEF Safe, PathInv
<1>4. "actor" \in AllRoles /\ saved \in Seq(Steps) /\ Len(saved) \in Nat
  BY <1>1, SavedFacts DEF AllRoles
<1>5. ASSUME pc \in {"capacity", "shards"}, NEW k \in 0 .. Len(saved), k > 0 => k < Len(saved), Rotates(k)
      PROVE  disk'[tracker].actor = disk[tracker].actor /\ disk'[tracker].data = disk[tracker].data
  <2>1. \A s \in Oldest(saved, k) : s < last_ckpt
    BY <1>1, <1>5, OldPaths DEF Safe
  <2>2. tracker \notin Oldest(saved, k)
    BY <1>2, <2>1
  <2>3. \A ro \in AllRoles : disk'[tracker][ro] = disk[tracker][ro]
    BY <1>5, <2>2 DEF Rotates
  <2>4. disk'[tracker]["actor"] = disk[tracker]["actor"]
    BY <1>4, <2>3
  <2> QED
    BY <1>5, <2>2, <2>4 DEF Rotates
<1>6. CASE ensure_checkpoint_capacity
  <2>1. pc = "capacity"
    BY <1>6 DEF ensure_checkpoint_capacity
  <2>2. PICK k \in 0 .. Len(saved) : Rotates(k) /\ (k > 0 => k < Len(saved))
    BY <1>1, <1>2, <1>6, EnsureRotates
  <2> QED
    BY <1>5, <2>1, <2>2
<1>7. CASE register_checkpoint
  <2>1. pc = "shards"
    BY <1>7 DEF register_checkpoint
  <2>2. max_ckpt_to_keep # 1
    BY <1>1, SavedFacts DEF TypeInv, KeepsTwo, max_ckpt_to_keep, AllRoles
  <2>3. PICK k \in 0 .. Len(saved) : Rotates(k) /\ (k > 0 => k < Len(saved))
    BY <1>1, <1>2, <1>7, <2>2, RegisterRotates
  <2> QED
    BY <1>5, <2>1, <2>3
<1>8. CASE \E r \in Ranks : WriteShard(r)
  <2>1. PICK r \in Ranks : WriteShard(r)
    BY <1>8
  <2>2. InSave
    BY <2>1 DEF WriteShard, InSave
  <2>3. disk'[tracker]["actor"] = disk[tracker]["actor"] /\ disk'[tracker].data = disk[tracker].data
    BY <1>1, <1>2, <1>3, <1>4, <2>1, <2>2, ShardWritten
  <2> QED
    BY <2>3
<1>9. CASE SaveData
  <2>1. InSave
    BY <1>9 DEF SaveData, InSave
  <2>2. disk'[tracker] = disk[tracker]
    BY <1>1, <1>2, <1>3, <1>9, <2>1, DataWritten
  <2> QED
    BY <2>2
<1>10. CASE Crash
  <2>1. pc \in {"shards", "data"} => InSave
    BY DEF InSave
  <2>2. disk'[tracker] = disk[tracker]
    BY <1>1, <1>2, <1>3, <1>10, <2>1, CrashTears
  <2> QED
    BY <2>2
<1> QED
  BY <1>6, <1>7, <1>8, <1>9, <1>10

-----------------------------------------------------------------------------
(* The order of batches, action by action. *)

LEMMA OrderInit == Init => OrderInv
<1> SUFFICES ASSUME Init PROVE OrderInv
  OBVIOUS
<1>1. /\ pc = "load" /\ tracker = -1 /\ queue = <<>> /\ weights.batches = <<>> /\ run = 0
      /\ pass = 0 /\ pos = 0 /\ ~feeding
  BY DEF Init, Absent
<1>2. Up = FALSE /\ tracker \notin Steps
  BY <1>1, StepFacts DEF Up, Busy, InSave
<1>3. Drawn = 0
  BY <1>1, StepFacts DEF Drawn
<1>4. MemoryInv
  BY <1>1, <1>2, <1>3, KeepsScratch DEF MemoryInv
<1> QED
  BY <1>1, <1>2, <1>4 DEF OrderInv, PaceInv, TrackerInv, DataInv, FeedInv

\* A start of the job from step s.
LEMMA OrderStart ==
  ASSUME Types, Safe, OrderInv, pc = "load", NEW s \in Nat, NEW at \in Positions, NEW w \in Shards,
         Start(s, at, w), Keeps(kind, TRUE, w.batches, <<>>, At(at), run),
         kind # "fully_async" => Len(w.batches) = s, kind = "one_step" => At(at) >= s
  PROVE  OrderInv'
<1>1. /\ UNCHANGED <<config, disk, tracker, run>> /\ weights' = w /\ queue' = <<>>
      /\ pass' = at.pass /\ pos' = at.pos
      /\ global_steps' = (IF kind = "fully_async" THEN s ELSE s + 1)
      /\ pc' \in {"prefetch", "step"}
  BY DEF Start, StartRollouter
<1>2. kind' = kind /\ Up' = TRUE /\ Drawn' = At(at)
  BY <1>1 DEF kind, Up, Busy, Drawn, At
<1>3. MemoryInv'
  BY <1>1, <1>2 DEF MemoryInv
<1>4. PaceInv'
  <2>1. kind # "fully_async" => Reached' = s
    BY <1>1 DEF Reached
  <2> QED
    BY <1>1, <1>2, <2>1 DEF PaceInv
<1>5. TrackerInv'
  <2>1. Losses = run /\ Losses' = run + 1 /\ run \in Nat
    BY <1>1, QueueType DEF Losses, Types
  <2> QED
    BY <1>1, <2>1, TrackerStill DEF OrderInv
<1> QED
  BY <1>1, <1>2, <1>3, <1>4, <1>5 DEF OrderInv, DataInv, FeedInv

LEMMA OrderLoad ==
  ASSUME Types, Safe, OrderInv, LoadNothing \/ LoadCheckpoint
  PROVE  OrderInv'
<1>0. run \in Nat /\ kind \in Kinds
  BY QueueType DEF Types
<1>1. CASE LoadNothing
  <2> DEFINE at == [pass |-> 0, pos |-> 0]
             w == [run |-> run, batches |-> <<>>]
  <2>1. pc = "load" /\ Start(0, at, w)
    BY <1>1 DEF LoadNothing
  <2>2. at \in Positions /\ At(at) = 0
    BY StepFacts DEF Positions, At
  <2>3. w \in Shards /\ w.batches = <<>> /\ Len(w.batches) = 0
    BY <1>0 DEF Shards
  <2>4. Keeps(kind, TRUE, w.batches, <<>>, At(at), run)
    BY <1>0, <2>2, <2>3, KeepsScratch
  <2> HIDE DEF at, w
  <2>5. /\ kind # "fully_async" => Len(w.batches) = 0
        /\ kind = "one_step" => At(at) >= 0
        /\ 0 \in Nat
    BY <2>2, <2>3
  <2> QED
    BY <2>1, <2>2, <2>3, <2>4, <2>5, OrderStart
<1>2. CASE LoadCheckpoint
  <2>1. pc = "load" /\ tracker \in Steps /\ tracker \in Nat
    BY <1>2, StepFacts DEF LoadCheckpoint, find_latest_ckpt_path
  <2>2. PICK r \in Ranks : Start(tracker, Restored(tracker), disk[tracker].actor[r])
    BY <1>2 DEF LoadCheckpoint
  <2> DEFINE w == disk[tracker].actor[r]
             data == disk[tracker].data
  <2>3. w \in Shards /\ w.batches \in Seq(Nat) /\ data \in Positions
    BY <2>1 DEF Types, TypeInv, Folder, Shards, Safe, TrackedInv
  <2>4. /\ Restored(tracker) \in Positions
        /\ \/ At(Restored(tracker)) = At(data)
           \/ At(Restored(tracker)) = tracker /\ kind \in {"ppo", "one_step"}
    BY <2>1, <2>3, RestoredAt
  <2>5. Resumes(kind, w.batches, At(data), tracker, run)
    <3>1. Losses = run
      BY <2>1 DEF Losses
    <3> QED
      BY <2>1, <3>1 DEF OrderInv, TrackerInv
  <2>6. At(data) \in Nat /\ At(Restored(tracker)) \in Nat
    <3>1. \A p \in Positions : p.pass \in Nat /\ p.pos \in Nat
      BY DEF Positions
    <3>2. \A p \in Positions : p.pass * N \in Nat
      BY <3>1, StepFacts, Times
    <3>3. \A p \in Positions : At(p) \in Nat
      BY <3>1, <3>2 DEF At
    <3> QED
      BY <2>3, <2>4, <3>3
  <2> HIDE DEF w, data
  <2>7. /\ Keeps(kind, TRUE, w.batches, <<>>, At(Restored(tracker)), run)
        /\ kind # "fully_async" => Len(w.batches) = tracker
        /\ kind = "one_step" => At(Restored(tracker)) >= tracker
    BY <1>0, <2>1, <2>3, <2>4, <2>5, <2>6, ResumesKeep
  <2>8. Start(tracker, Restored(tracker), w)
    BY <2>2 DEF w
  <2> QED
    BY <2>1, <2>3, <2>4, <2>7, <2>8, OrderStart
<1> QED
  BY <1>1, <1>2

\* A step that draws nothing and trains on nothing, outside the end of a save.
LEMMA OrderStill ==
  ASSUME Types, Safe, OrderInv, UNCHANGED <<config, weights, pass, pos, queue, run, tracker, feeding>>,
         tracker \in Steps => /\ disk'[tracker].actor = disk[tracker].actor
                              /\ disk'[tracker].data = disk[tracker].data,
         Up' => Up, feeding => Up', pc' # "load" \/ pc = "load", pc' # "prefetch",
         kind # "fully_async" /\ Up' => Reached' = Reached
  PROVE  MemoryInv' /\ PaceInv' /\ TrackerInv' /\ FeedInv'
<1>1. MemoryInv' /\ PaceInv' /\ FeedInv'
  BY MemoryStill, PaceStill DEF OrderInv, FeedInv
<1>2. run \in Nat
  BY QueueType DEF Types
<1>3. Losses' \in Nat /\ Losses <= Losses'
  BY <1>2 DEF Losses
<1> QED
  BY <1>1, <1>3, TrackerStill DEF OrderInv

LEMMA OrderControl ==
  ASSUME Types, Safe, OrderInv, LoadRaises \/ LoopEnds \/ OneStepRaises \/ StopSamples \/ PostStep
  PROVE  OrderInv'
<1>1. /\ UNCHANGED <<config, disk, weights, pass, pos, queue, run, tracker, feeding>>
      /\ pc' \notin {"load", "prefetch", "truncate", "tracker"}
  BY DEF LoadRaises, LoopEnds, OneStepRaises, StopSamples, PostStep, loader, rollouter
<1>2. feeding => kind = "fully_async" /\ Up
  BY DEF Types, FedInv, OrderInv, FeedInv
<1>3. (Up' => Up) /\ (feeding => Up')
  BY <1>2 DEF LoadRaises, LoopEnds, OneStepRaises, StopSamples, PostStep, Up, Busy, InSave
<1>4. kind # "fully_async" /\ Up' => Reached' = Reached
  <2>1. CASE LoadRaises \/ OneStepRaises
    BY <2>1 DEF LoadRaises, OneStepRaises, Up, Busy, InSave
  <2>2. CASE LoopEnds
    BY <2>2 DEF LoopEnds, Reached, counters
  <2>3. CASE StopSamples
    BY <2>3 DEF StopSamples
  <2>4. CASE PostStep
    <3>1. global_steps \in Nat
      BY DEF Types, TypeInv
    <3> QED
      BY <2>4, <3>1 DEF PostStep, Reached
  <2> QED
    BY <2>1, <2>2, <2>3, <2>4
<1>5. MemoryInv' /\ PaceInv' /\ TrackerInv' /\ FeedInv'
  BY <1>1, <1>3, <1>4, OrderStill
<1>6. DataInv'
  BY <1>1 DEF DataInv
<1> QED
  BY <1>5, <1>6 DEF OrderInv

LEMMA OrderQuiet ==
  ASSUME OrderInv, UNCHANGED vars
  PROVE  OrderInv'
BY DEF OrderInv, MemoryInv, PaceInv, TrackerInv, DataInv, FeedInv, vars, kind, Up, Busy, InSave,
       Drawn, Reached, Losses, loader, rollouter, counters

\* Training steps leave disk and tracker alone.
LEMMA OrderTrain ==
  ASSUME Types, Safe, OrderInv, UNCHANGED <<config, disk, tracker, run>>, pc # "load", pc' # "load"
  PROVE  TrackerInv'
<1>1. run \in Nat /\ Losses' = Losses /\ Losses \in Nat
  BY QueueType DEF Types, Losses
<1> QED
  BY <1>1, TrackerStill DEF OrderInv

LEMMA TrainedBatches ==
  ASSUME NEW b
  PROVE  Trained(b).batches = Append(weights.batches, b)
BY DEF Trained

LEMMA OrderFit ==
  ASSUME Types, Safe, OrderInv, FitBatch
  PROVE  OrderInv'
<1>1. /\ pc = "step" /\ kind \in SelfFed /\ Draw /\ weights' = Trained(NextBatch)
      /\ pc' \in {"capacity", "post"} /\ UNCHANGED <<config, disk, tracker, run, feeding, global_steps>>
  BY DEF FitBatch, SelfFed, rollouter, counters
<1>2. Drawn \in Nat /\ NextBatch = Drawn /\ Drawn' = Drawn + 1
  BY <1>1, DrawCounts DEF Types
<1>3. weights'.batches = Append(weights.batches, Drawn)
  BY <1>1, <1>2, TrainedBatches
<1>4. kind' = kind /\ Up = TRUE /\ Up' = TRUE
  BY <1>1 DEF kind, Up, Busy, InSave
<1>5. weights.batches \in Seq(Nat) /\ Len(weights.batches) \in Nat /\ global_steps \in Nat
  BY QueueType DEF Types, TypeInv
<1>6. MemoryInv'
  <2>1. Keeps(kind, TRUE, weights.batches, queue, Drawn, run)
    BY <1>4 DEF OrderInv, MemoryInv
  <2>2. Keeps(kind, TRUE, Append(weights.batches, Drawn), queue', Drawn + 1, run)
    BY <1>1, <1>2, <1>5, <2>1, KeepsFit
  <2> QED
    BY <1>1, <1>2, <1>3, <1>4, <2>2 DEF MemoryInv
<1>7. PaceInv'
  <2>1. kind # "fully_async" /\ kind # "one_step"
    BY <1>1 DEF SelfFed
  <2>2. Len(weights.batches) = Reached /\ Reached = global_steps - 1
    BY <1>1, <1>4, <2>1 DEF OrderInv, PaceInv, Reached
  <2>3. Reached' = global_steps
    BY <1>1 DEF Reached
  <2>4. Len(weights'.batches) = Len(weights.batches) + 1
    BY <1>2, <1>3, <1>5, ElemsAppend
  <2>5. Len(weights'.batches) = Reached'
    BY <1>5, <2>2, <2>3, <2>4
  <2> QED
    BY <1>4, <2>1, <2>5 DEF PaceInv
<1>8. TrackerInv'
  BY <1>1, OrderTrain
<1> QED
  BY <1>1, <1>4, <1>6, <1>7, <1>8 DEF OrderInv, DataInv, FeedInv

\* Drawing for one_step, with nothing else in flight: weights trained on b.
LEMMA OneStepDraws ==
  ASSUME TypeInv, GenNextBatch, NEW b \in Seq(Nat), NEW c, Keeps("one_step", TRUE, b, <<>>, Drawn, c),
         Drawn >= Len(b)
  PROVE  /\ Keeps("one_step", TRUE, b, queue', Drawn', c) /\ Drawn' >= Len(b)
         /\ queue'[1] # Absent => Drawn' >= Len(b) + 1
<1>1. Drawn \in Nat /\ NextBatch = Drawn /\ (Draw => Drawn' = Drawn + 1) /\ Len(b) \in Nat
  BY DrawCounts
<1>2. CASE HasNext
  <2>1. Draw /\ queue' = <<Drawn>> /\ Drawn' = Drawn + 1
    BY <1>1, <1>2 DEF GenNextBatch
  <2>2. Keeps("one_step", TRUE, b, <<Drawn>>, Drawn + 1, c)
    BY <1>1, KeepsFirst
  <2>3. Keeps("one_step", TRUE, b, queue', Drawn', c)
    BY <2>1, <2>2
  <2>4. Drawn' >= Len(b) /\ Drawn' >= Len(b) + 1
    BY <1>1, <2>1
  <2> QED
    BY <2>3, <2>4
<1>3. CASE ~HasNext
  <2>1. queue' = <<Absent>> /\ UNCHANGED <<pass, pos>>
    BY <1>3 DEF GenNextBatch, loader
  <2>2. Drawn' = Drawn /\ queue'[1] = Absent
    BY <2>1 DEF Drawn
  <2>3. Keeps("one_step", TRUE, b, <<Absent>>, Drawn, c)
    BY <1>1, KeepsFirst
  <2> QED
    BY <1>1, <2>1, <2>2, <2>3
<1> QED
  BY <1>2, <1>3

LEMMA OrderFirst ==
  ASSUME Types, Safe, OrderInv, FirstBatch
  PROVE  OrderInv'
<1>1. /\ pc = "prefetch" /\ pc' = "step" /\ GenNextBatch
      /\ UNCHANGED <<config, disk, tracker, weights, run, feeding, global_steps>>
  BY DEF FirstBatch, counters
<1>2. kind = "one_step" /\ kind' = kind /\ Up = TRUE /\ Up' = TRUE
  BY <1>1 DEF Types, PrefetchInv, kind, Up, Busy, InSave
<1>3. queue = <<>> /\ Drawn >= Len(weights.batches) /\ Len(weights.batches) = Reached /\ Reached' = Reached
  BY <1>1, <1>2 DEF OrderInv, PaceInv, Reached
<1>4. weights.batches \in Seq(Nat)
  BY QueueType DEF Types
<1>5. Keeps("one_step", TRUE, weights.batches, <<>>, Drawn, run)
  BY <1>2, <1>3 DEF OrderInv, MemoryInv
<1>6. /\ Keeps("one_step", TRUE, weights.batches, queue', Drawn', run)
      /\ Drawn' >= Len(weights.batches)
      /\ queue'[1] # Absent => Drawn' >= Len(weights.batches) + 1
  BY <1>1, <1>3, <1>4, <1>5, OneStepDraws DEF Types
<1>7. MemoryInv'
  BY <1>1, <1>2, <1>6 DEF MemoryInv
<1>8. PaceInv'
  BY <1>1, <1>2, <1>3, <1>6 DEF PaceInv
<1>9. TrackerInv'
  BY <1>1, OrderTrain
<1> QED
  BY <1>1, <1>2, <1>7, <1>8, <1>9 DEF OrderInv, DataInv, FeedInv

LEMMA OrderOneStep ==
  ASSUME Types, Safe, OrderInv, FitOneStep
  PROVE  OrderInv'
<1>1. /\ pc = "step" /\ kind = "one_step" /\ Head(queue) # Absent
      /\ weights' = Trained(Head(queue)) /\ pc' \in {"capacity", "post"}
      /\ UNCHANGED <<config, disk, tracker, run, feeding, global_steps>>
  BY DEF FitOneStep, counters
<1>2. kind' = kind /\ Up = TRUE /\ Up' = TRUE
  BY <1>1 DEF kind, Up, Busy, InSave
<1>3. /\ queue # <<>> /\ queue \in Seq(Nat \cup {Absent}) /\ weights.batches \in Seq(Nat)
      /\ Len(weights.batches) \in Nat /\ run \in Nat /\ global_steps \in Nat /\ Drawn \in Nat
  BY <1>1, QueueType, DrawCounts DEF Types, FlightInv, TypeInv
<1>4. Head(queue) = queue[1] /\ Head(queue) \in Nat
  BY <1>1, <1>3
<1> DEFINE b == Append(weights.batches, Head(queue))
<1>5. weights'.batches = b
  BY <1>1, TrainedBatches
<1>6. b \in Seq(Nat) /\ Len(b) = Len(weights.batches) + 1
  BY <1>3, <1>4, ElemsAppend
<1> HIDE DEF b
<1>7. Len(weights.batches) = global_steps - 1 /\ Drawn >= Len(weights.batches) + 1
  BY <1>1, <1>2, <1>3, <1>4 DEF OrderInv, PaceInv, Reached
<1>8. Drawn >= Len(b) /\ Len(b) = global_steps
  BY <1>3, <1>6, <1>7
<1>9. Keeps("one_step", TRUE, b, <<>>, Drawn, run)
  <2>1. Keeps("one_step", TRUE, weights.batches, queue, Drawn, run)
    BY <1>1, <1>2 DEF OrderInv, MemoryInv
  <2> QED
    BY <1>3, <1>4, <2>1, KeepsHead DEF b
<1>10. /\ Keeps("one_step", TRUE, b, queue', Drawn', run) /\ Drawn' >= Len(b)
       /\ queue' # <<>> /\ queue'[1] # Absent => Drawn' >= Len(b) + 1
  <2>1. CASE is_last_step
    <3>1. queue' = <<>> /\ UNCHANGED <<pass, pos>>
      BY <2>1 DEF FitOneStep, loader
    <3>2. Drawn' = Drawn
      BY <3>1 DEF Drawn
    <3> QED
      BY <1>8, <1>9, <3>1, <3>2
  <2>2. CASE ~is_last_step
    <3>1. GenNextBatch
      BY <2>2 DEF FitOneStep
    <3> QED
      BY <1>6, <1>8, <1>9, <3>1, OneStepDraws DEF Types
  <2> QED
    BY <2>1, <2>2
<1>11. MemoryInv'
  BY <1>1, <1>2, <1>5, <1>10 DEF MemoryInv
<1>12. PaceInv'
  <2>1. Reached' = global_steps
    BY <1>1 DEF Reached
  <2> QED
    BY <1>1, <1>2, <1>5, <1>8, <1>10, <2>1 DEF PaceInv
<1>13. TrackerInv'
  BY <1>1, OrderTrain
<1> QED
  BY <1>1, <1>2, <1>11, <1>12, <1>13 DEF OrderInv, DataInv, FeedInv

LEMMA OrderFeed ==
  ASSUME Types, Safe, OrderInv, FeedSample
  PROVE  OrderInv'
<1>1. /\ feeding /\ Len(queue) < Ahead
      /\ UNCHANGED <<config, disk, tracker, pc, weights, run, global_steps>>
  BY DEF FeedSample, counters
<1>2. kind = "fully_async" /\ kind' = kind /\ Up = TRUE /\ Up' = TRUE /\ Losses' = Losses
  BY <1>1 DEF Types, FedInv, OrderInv, FeedInv, kind, Up, Busy, InSave, Losses
<1>3. /\ queue \in Seq(Nat \cup {Absent}) /\ weights.batches \in Seq(Nat)
      /\ Drawn \in Nat /\ NextBatch = Drawn /\ (Draw => Drawn' = Drawn + 1)
  BY QueueType, DrawCounts DEF Types
<1>4. Keeps("fully_async", TRUE, weights.batches, queue, Drawn, run)
  BY <1>2 DEF OrderInv, MemoryInv
<1>5. MemoryInv'
  <2>1. CASE HasNext
    <3>1. queue' = Append(queue, Drawn) /\ Drawn' = Drawn + 1
      BY <1>3, <2>1 DEF FeedSample
    <3>2. Keeps("fully_async", TRUE, weights.batches, Append(queue, Drawn), Drawn + 1, run)
      BY <1>1, <1>3, <1>4, KeepsFeed
    <3> QED
      BY <1>1, <1>2, <3>1, <3>2 DEF MemoryInv
  <2>2. CASE ~HasNext
    <3>1. queue' = queue /\ UNCHANGED <<pass, pos>>
      BY <2>2 DEF FeedSample, loader
    <3> QED
      BY <1>1, <1>2, <1>4, <3>1 DEF MemoryInv, Drawn
  <2> QED
    BY <2>1, <2>2
<1>6. PaceInv' /\ FeedInv'
  BY <1>2 DEF PaceInv, FeedInv
<1>7. TrackerInv' /\ DataInv'
  BY <1>1, <1>2 DEF OrderInv, TrackerInv, DataInv
<1> QED
  BY <1>5, <1>6, <1>7 DEF OrderInv

LEMMA OrderSample ==
  ASSUME Types, Safe, OrderInv, FitSample
  PROVE  OrderInv'
<1>1. /\ pc = "step" /\ kind = "fully_async" /\ pc' \in {"capacity", "step"}
      /\ UNCHANGED <<config, disk, tracker, run, feeding, pass, pos>>
  BY DEF FitSample, loader
<1>2. kind' = kind /\ Up = TRUE /\ Up' = TRUE /\ Drawn' = Drawn
  BY <1>1 DEF kind, Up, Busy, InSave, Drawn
<1>3. PICK i \in 1 .. Len(queue) :
        /\ weights' = Trained(queue[i])
        /\ queue' = SubSeq(queue, 1, i - 1) \o SubSeq(queue, i + 1, Len(queue))
  BY DEF FitSample
<1>4. queue \in Seq(Nat \cup {Absent}) /\ weights.batches \in Seq(Nat) /\ Drawn \in Nat
  BY QueueType, DrawCounts DEF Types
<1>5. Keeps("fully_async", TRUE, weights.batches, queue, Drawn, run)
  BY <1>1, <1>2 DEF OrderInv, MemoryInv
<1>6. queue[i] \in Nat
  <2>1. queue[i] \in Elems(queue)
    BY <1>4 DEF Elems
  <2>2. Elems(queue) \subseteq 0 .. Drawn - 1
    BY <1>5 DEF Keeps
  <2> QED
    BY <1>4, <2>1, <2>2
<1>7. weights'.batches = Append(weights.batches, queue[i])
  BY <1>3, TrainedBatches
<1>8. Keeps("fully_async", TRUE, weights'.batches, queue', Drawn, run)
  BY <1>3, <1>4, <1>5, <1>6, <1>7, KeepsSample
<1>9. MemoryInv'
  BY <1>1, <1>2, <1>8 DEF MemoryInv
<1>10. TrackerInv'
  BY <1>1, OrderTrain
<1> QED
  BY <1>1, <1>2, <1>9, <1>10 DEF OrderInv, PaceInv, DataInv, FeedInv

LEMMA OrderSave ==
  ASSUME Types, Safe, KeepsTwo, OrderInv,
         ensure_checkpoint_capacity \/ (\E r \in Ranks : WriteShard(r)) \/ register_checkpoint
  PROVE  OrderInv'
<1>1. /\ UNCHANGED <<config, weights, pass, pos, queue, run, tracker, feeding, global_steps>>
      /\ pc \in {"capacity", "shards"} /\ pc' \in {"capacity", "shards", "data"}
  BY DEF ensure_checkpoint_capacity, WriteShard, register_checkpoint, NextRole, loader, rollouter, counters
<1>2. tracker \in Steps => /\ disk'[tracker].actor = disk[tracker].actor
                           /\ disk'[tracker].data = disk[tracker].data
  BY FolderKept
<1>3. Up /\ Up' /\ Reached' = Reached
  BY <1>1 DEF Up, Busy, InSave, Reached
<1>4. MemoryInv' /\ PaceInv' /\ TrackerInv' /\ FeedInv'
  BY <1>1, <1>2, <1>3, OrderStill
<1>5. DataInv'
  BY <1>1 DEF DataInv
<1> QED
  BY <1>4, <1>5 DEF OrderInv

\* The position saved belongs to the weights saved before it.
LEMMA OrderData ==
  ASSUME Types, Safe, KeepsTwo, OrderInv, SaveData
  PROVE  OrderInv'
<1>1. /\ UNCHANGED <<config, weights, pass, pos, queue, run, tracker, feeding, global_steps>>
      /\ pc = "data" /\ pc' \in {"truncate", "tracker"}
  BY DEF SaveData, loader, rollouter, counters
<1>2. tracker \in Steps => /\ disk'[tracker].actor = disk[tracker].actor
                           /\ disk'[tracker].data = disk[tracker].data
  BY FolderKept
<1>3. Up = TRUE /\ Up' = TRUE /\ Reached = global_steps /\ Reached' = Reached
  BY <1>1 DEF Up, Busy, InSave, Reached
<1>4. MemoryInv' /\ PaceInv' /\ TrackerInv' /\ FeedInv'
  BY <1>1, <1>2, <1>3, OrderStill
<1>5. disk'[global_steps].data = LoaderState
  <2>1. global_steps \in Steps
    BY <1>1, BusyStep DEF Busy, InSave
  <2> QED
    BY <2>1 DEF SaveData, Types, TypeInv, Folder
<1>6. At(LoaderState) = Drawn
  BY DEF At, LoaderState, Drawn
<1>7. /\ weights.batches \in Seq(Nat) /\ queue \in Seq(Nat \cup {Absent}) /\ Drawn \in Nat
      /\ run \in Nat /\ kind \in Kinds /\ global_steps \in Nat
  BY QueueType, DrawCounts DEF Types, TypeInv
<1>8. Keeps(kind, TRUE, weights.batches, queue, Drawn, run)
  BY <1>3 DEF OrderInv, MemoryInv
<1>9. /\ kind # "fully_async" => Len(weights.batches) = global_steps
      /\ kind = "one_step" => Drawn >= global_steps
  BY <1>3 DEF OrderInv, PaceInv
<1>10. Resumes(kind, weights.batches, Drawn, global_steps, run + 1)
  BY <1>7, <1>8, <1>9, KeepsSaved
<1>11. DataInv'
  BY <1>1, <1>5, <1>6, <1>10 DEF DataInv, kind
<1> QED
  BY <1>4, <1>11 DEF OrderInv

LEMMA OrderTracker ==
  ASSUME Types, Safe, OrderInv, TruncateTracker \/ WriteTracker
  PROVE  OrderInv'
<1>1. /\ UNCHANGED <<config, disk, weights, pass, pos, queue, run, feeding, global_steps>>
      /\ pc \in {"truncate", "tracker"} /\ pc' \in {"tracker", "post", "step"}
      /\ kind # "fully_async" => pc' # "step"
      /\ (pc' = "tracker" /\ tracker' = Torn) \/ (tracker' = global_steps /\ pc' # "tracker")
  <2>1. CASE TruncateTracker
    BY <2>1 DEF TruncateTracker, loader, rollouter, counters
  <2>2. CASE WriteTracker
    BY <2>2 DEF WriteTracker, loader, rollouter
  <2> QED
    BY <2>1, <2>2
<1>2. Up /\ Up' /\ kind' = kind /\ (kind # "fully_async" => Reached' = Reached)
  BY <1>1 DEF Up, Busy, InSave, Reached, kind
<1>3. MemoryInv' /\ PaceInv'
  BY <1>1, <1>2, MemoryStill, PaceStill DEF OrderInv
<1>4. TrackerInv'
  <2>1. CASE tracker' = Torn
    BY <2>1, StepFacts DEF TrackerInv, Torn
  <2>2. CASE tracker' = global_steps
    <3>1. Resumes(kind, weights.batches, At(disk[global_steps].data), global_steps, run + 1)
      BY <1>1 DEF OrderInv, DataInv
    <3>2. \A r \in Ranks : disk[global_steps].actor[r] = weights
      <4>1. "actor" \in Registered
        BY <1>1 DEF Registered, Roles
      <4> QED
        BY <4>1 DEF Safe, WriteInv
    <3>3. Losses' = run + 1
      BY <1>1 DEF Losses
    <3> QED
      BY <1>1, <1>2, <2>2, <3>1, <3>2, <3>3 DEF TrackerInv
  <2> QED
    BY <1>1, <2>1, <2>2
<1>5. DataInv'
  BY <1>1, <1>2 DEF OrderInv, DataInv
<1> QED
  BY <1>1, <1>2, <1>3, <1>4, <1>5 DEF OrderInv, FeedInv

LEMMA OrderCrash ==
  ASSUME Types, Safe, KeepsTwo, OrderInv, Crash
  PROVE  OrderInv'
<1>1. /\ UNCHANGED <<config, tracker, pass, pos, queue, weights>> /\ feeding' = FALSE
      /\ run' = run + 1 /\ pc' = "load" /\ pc \notin {"load", "done", "failed"}
  BY DEF Crash, loader
<1>2. kind' = kind /\ Drawn' = Drawn /\ Up' = FALSE
  BY <1>1 DEF kind, Drawn, Up, Busy, InSave
<1>3. /\ weights.batches \in Seq(Nat) /\ queue \in Seq(Nat \cup {Absent}) /\ Drawn \in Nat
      /\ run \in Nat
  BY QueueType, DrawCounts DEF Types
<1>4. MemoryInv'
  <2>1. Keeps(kind, Up, weights.batches, queue, Drawn, run)
    BY DEF OrderInv, MemoryInv
  <2>2. Keeps(kind, FALSE, weights.batches, queue, Drawn, run + 1)
    BY <1>3, <2>1, KeepsCrash
  <2> QED
    BY <1>1, <1>2, <2>2 DEF MemoryInv
<1>5. TrackerInv'
  <2>1. tracker \in Steps => /\ disk'[tracker].actor = disk[tracker].actor
                             /\ disk'[tracker].data = disk[tracker].data
    BY FolderKept
  <2>2. Losses = run + 1 /\ Losses' = run + 1 /\ Losses' \in Nat /\ Losses <= Losses'
    BY <1>1, <1>3 DEF Losses
  <2> QED
    BY <1>1, <2>1, <2>2, TrackerStill DEF OrderInv
<1> QED
  BY <1>1, <1>2, <1>4, <1>5 DEF OrderInv, PaceInv, DataInv, FeedInv

LEMMA OrderStep ==
  ASSUME KeepsTwo
  PROVE  Types /\ Safe /\ OrderInv /\ [Next]_vars => OrderInv'
<1> SUFFICES ASSUME Types, Safe, OrderInv, [Next]_vars PROVE OrderInv'
  OBVIOUS
<1>1. CASE LoadNothing \/ LoadCheckpoint
  BY <1>1, OrderLoad
<1>2. CASE LoadRaises \/ LoopEnds \/ OneStepRaises \/ StopSamples \/ PostStep
  BY <1>2, OrderControl
<1>3. CASE FitBatch
  BY <1>3, OrderFit
<1>4. CASE FirstBatch
  BY <1>4, OrderFirst
<1>5. CASE FitOneStep
  BY <1>5, OrderOneStep
<1>6. CASE FitSample
  BY <1>6, OrderSample
<1>7. CASE FeedSample
  BY <1>7, OrderFeed
<1>8. CASE ensure_checkpoint_capacity \/ (\E r \in Ranks : WriteShard(r)) \/ register_checkpoint
  BY <1>8, OrderSave
<1>9. CASE SaveData
  BY <1>9, OrderData
<1>10. CASE TruncateTracker \/ WriteTracker
  BY <1>10, OrderTracker
<1>11. CASE Crash
  BY <1>11, OrderCrash
<1>12. CASE UNCHANGED vars
  BY <1>12, OrderQuiet
<1> QED
  BY <1>1, <1>2, <1>3, <1>4, <1>5, <1>6, <1>7, <1>8, <1>9, <1>10, <1>11, <1>12
  DEF Next, Trainer, Finished

LEMMA OrderImpliesTrained == Types /\ OrderInv => TrainedInOrder
<1> SUFFICES ASSUME Types, OrderInv PROVE TrainedInOrder
  OBVIOUS
<1>1. Keeps(kind, Up, weights.batches, queue, Drawn, run)
  BY DEF OrderInv, MemoryInv
<1>2. kind \in Kinds
  BY QueueType DEF Types
<1>3. ScheduleKept
  BY <1>1 DEF ScheduleKept, Keeps, SelfFed, Straight
<1>4. NeverTwice
  <2>1. CASE kind \in SelfFed
    <3>1. Straight(weights.batches) /\ weights.batches \in Seq(Nat) /\ Len(weights.batches) \in Nat
      BY <1>1, <2>1, QueueType DEF Keeps, Types
    <3>2. \A i \in DOMAIN weights.batches : i \in Int /\ weights.batches[i] = i - 1
      BY <3>1 DEF Straight
    <3> QED
      BY <3>2 DEF NeverTwice
  <2>2. CASE kind = "fully_async"
    BY <1>1, <2>2 DEF NeverTwice, Keeps, Apart
  <2> QED
    BY <1>2, <2>1, <2>2 DEF NeverTwice, Kinds, SelfFed
<1>5. LostInFlight
  <2> SUFFICES ASSUME kind \in {"one_step", "fully_async"}
               PROVE  Cardinality((0 .. Drawn - 1) \ (TrainedOn \cup Queued)) <= run * InFlight(kind)
    BY DEF LostInFlight, InFlight
  <2>1. Cardinality(Missed(Elems(weights.batches) \cup Elems(queue), Drawn)) <= run * InFlight(kind)
    BY <1>1 DEF Keeps, SelfFed
  <2>2. TrainedOn = Elems(weights.batches) /\ Queued = Elems(queue)
    BY DEF TrainedOn, Queued, Elems
  <2> QED
    BY <2>1, <2>2 DEF Missed
<1> QED
  BY <1>3, <1>4, <1>5 DEF TrainedInOrder

\* With more than one checkpoint kept, and however many crashes there are and wherever
\* they fall, the trainers that feed themselves train on the dataloader's batches in
\* its order, none is trained on twice unless one_step repeats one, and the batches
\* lost with a rollouter are those that were in flight when a checkpoint was taken.
THEOREM BatchesInOrder ==
  ASSUME KeepsTwo
  PROVE  Spec => []TrainedInOrder
<1>1. Init => Types /\ Safe /\ OrderInv
  BY TypesInit, SafeInit, OrderInit
<1>2. Types /\ Safe /\ OrderInv /\ [Next]_vars => (Types /\ Safe /\ OrderInv)'
  BY TypesStep, SafeStep, OrderStep
<1>3. Types /\ OrderInv => TrainedInOrder
  BY OrderImpliesTrained
<1> QED
  BY <1>1, <1>2, <1>3, PTL DEF Spec

-----------------------------------------------------------------------------
(* How a run ends. *)

\* A schedule with a last step to save: past the critic's warm-up, and with at least
\* one version of the fully async trainer.
SavesOnce == critic_warmup <= total_steps /\ trigger_parameter_sync_step <= total_steps

\* Epochs of the trainers that feed themselves: restored at an epoch boundary, the
\* loop may be one ahead of the dataloader.
EpochInv ==
    Up /\ kind \in SelfFed =>
        /\ epoch \in {pass, pass + 1}
        /\ kind = "ppo" \/ run = 0 => epoch = pass
        /\ epoch # pass => tracker # Absent

\* The last step is saved.
LastInv ==
    /\ tracker \in Steps => tracker >= 1
    /\ Up /\ tracker = Absent => last_ckpt = 0
    /\ kind \in SelfFed /\ pc = "step" /\ Len(weights.batches) >= total_steps =>
         tracker \in Steps /\ last_ckpt = Len(weights.batches)
    /\ kind # "fully_async" /\ pc = "post" /\ is_last_step =>
         tracker \in Steps /\ last_ckpt = global_steps

\* ppo_sync saves every save_freq-th step, and the last.
Regular(s) == s % save_freq = 0 \/ s >= total_steps
SpacingInv ==
    kind = "ppo_sync" =>
        /\ InSave => Regular(global_steps)
        /\ Up => Regular(last_ckpt)
        /\ tracker \in Steps => Regular(tracker)
        /\ pc \in {"step", "post"} /\ last_ckpt < total_steps =>
             Len(weights.batches) - last_ckpt < save_freq

\* fully_async: the steps its counters stand for, which it has trained, and what the
\* rollouter has fed, which is trained on or in flight, both up to what crashes lost.
Stepped == global_steps * trigger_parameter_sync_step + (local_step - 1)
FlowInv ==
    kind = "fully_async" /\ Up =>
        /\ pass >= epoch
        /\ Len(weights.batches) >= Stepped
        /\ feeding => Len(weights.batches) + Len(queue) >= fed - 1
        /\ ~feeding => Len(weights.batches) + Len(queue) >= total_steps \/ ~HasNext
        /\ last_ckpt = 0 =>
             Len(weights.batches) = Stepped /\ Drawn = Len(weights.batches) + Len(queue)

\* Its checkpoints hold all steps of their version, and of the next one only
\* local_step are not saved.
SavedInv ==
    kind = "fully_async" /\ tracker \in Steps => \A r \in Ranks :
        LET steps == Len(disk[tracker].actor[r].batches)
        IN  /\ steps >= tracker * trigger_parameter_sync_step
            /\ Up /\ global_steps = last_ckpt => Len(weights.batches) - steps <= local_step - 1

EndInv == EpochInv /\ LastInv /\ SpacingInv /\ FlowInv /\ SavedInv /\ EndsComplete

\* Which epoch a position is in: at the end of a pass the step count says the next.
LEMMA EpochOf ==
  ASSUME NEW s \in Nat, NEW a \in Nat, NEW p \in 0 .. N, a * N + p = s
  PROVE  s \div N = (IF p < N THEN a ELSE a + 1) /\ (p = N => s % N = 0)
<1> DEFINE q == s \div N
           m == s % N
           e == IF p < N THEN a ELSE a + 1
           x == IF p < N THEN p ELSE 0
<1>1. N \in Nat /\ N >= 1
  BY StepFacts
<1>2. q \in Nat /\ m \in 0 .. N - 1 /\ s = q * N + m
  BY <1>1
<1>3. e \in Nat /\ x \in 0 .. N - 1 /\ s = e * N + x
  <2>1. (a + 1) * N = a * N + N /\ a * N \in Nat
    BY <1>1
  <2> QED
    BY <1>1, <2>1
<1>4. e * N \in Nat /\ q * N \in Nat /\ (e + 1) * N = e * N + N /\ (q + 1) * N = q * N + N
  BY <1>1, <1>2, <1>3
<1> HIDE DEF q, m, e, x
<1>5. ~(q + 1 <= e)
  <2> SUFFICES ASSUME q + 1 <= e PROVE FALSE
    OBVIOUS
  <2>1. (q + 1) * N <= e * N
    BY <1>1, <1>2, <1>3, TimesMonotone
  <2> QED
    BY <1>1, <1>2, <1>3, <1>4, <2>1
<1>6. ~(e + 1 <= q)
  <2> SUFFICES ASSUME e + 1 <= q PROVE FALSE
    OBVIOUS
  <2>1. (e + 1) * N <= q * N
    BY <1>1, <1>2, <1>3, TimesMonotone
  <2> QED
    BY <1>1, <1>2, <1>3, <1>4, <2>1
<1>7. q = e
  BY <1>2, <1>3, <1>5, <1>6
<1>8. m = x
  BY <1>2, <1>3, <1>4, <1>7
<1>9. p = N => x = 0
  BY <1>1 DEF x
<1> QED
  BY <1>7, <1>8, <1>9 DEF q, m, e

LEMMA EpochLoad ==
  ASSUME Types, Safe, OrderInv, LoadNothing \/ LoadCheckpoint
  PROVE  EpochInv'
<1> SUFFICES ASSUME kind' \in SelfFed
             PROVE  /\ epoch' \in {pass', pass' + 1} /\ (kind' = "ppo" \/ run' = 0 => epoch' = pass')
                    /\ epoch' # pass' => tracker' # Absent
  BY DEF EpochInv
<1>1. N \in Nat /\ N >= 1
  BY StepFacts
<1>2. CASE LoadNothing
  <2>1. Start(0, [pass |-> 0, pos |-> 0], [run |-> run, batches |-> <<>>])
    BY <1>2 DEF LoadNothing
  <2>2. kind' = kind
    BY <2>1 DEF Start, kind
  <2>3. epoch' = 0 \div N /\ pass' = 0
    BY <2>1, <2>2 DEF Start, SelfFed
  <2>4. 0 \div N = 0
    BY <1>1
  <2> QED
    BY <2>3, <2>4
<1>3. CASE LoadCheckpoint
  <2>1. pc = "load" /\ tracker \in Steps /\ tracker \in Nat
    BY <1>3, StepFacts DEF LoadCheckpoint, find_latest_ckpt_path
  <2>2. PICK r \in Ranks : Start(tracker, Restored(tracker), disk[tracker].actor[r])
    BY <1>3 DEF LoadCheckpoint
  <2>3. kind' = kind /\ kind \in SelfFed /\ tracker' = tracker /\ run' = run
    BY <2>2 DEF Start, kind
  <2>4. epoch' = tracker \div N /\ pass' = Restored(tracker).pass
    BY <2>2, <2>3 DEF Start, SelfFed
  <2>5. disk[tracker].data \in Positions
    BY <2>1 DEF Safe, TrackedInv
  <2>6. Resumes(kind, disk[tracker].actor[r].batches, At(disk[tracker].data), tracker, Losses)
    BY <2>1 DEF OrderInv, TrackerInv
  <2>7. At(disk[tracker].data) = tracker
    BY <2>3, <2>6 DEF Resumes
  <2>8. Restored(tracker) \in Positions /\ At(Restored(tracker)) = tracker
    BY <2>1, <2>5, <2>7, RestoredAt
  <2> DEFINE a == Restored(tracker).pass
             p == Restored(tracker).pos
  <2>9. a \in Nat /\ p \in 0 .. N /\ a * N + p = tracker
    BY <2>8 DEF Positions, At
  <2>10. kind = "ppo" => p # N
    <3> SUFFICES ASSUME kind = "ppo", p = N PROVE FALSE
      OBVIOUS
    <3>1. tracker % N = 0
      BY <2>1, <2>9, EpochOf
    <3>2. disk[tracker].data # NoData
      BY <2>5, PositionFacts
    <3>3. Restored(tracker) = [pass |-> tracker \div N, pos |-> 0]
      BY <3>1, <3>2 DEF Restored
    <3> QED
      BY <1>1, <3>3
  <2>11. run # 0 /\ tracker # Absent
    BY <2>1 DEF Types, StepInv, Absent
  <2> HIDE DEF a, p
  <2>12. epoch' = (IF p < N THEN a ELSE a + 1)
    BY <2>1, <2>4, <2>9, EpochOf
  <2>13. pass' = a
    BY <2>4 DEF a
  <2>14. kind = "ppo" => epoch' = a
    BY <1>1, <2>9, <2>10, <2>12
  <2> QED
    BY <2>3, <2>11, <2>12, <2>13, <2>14
<1> QED
  BY <1>2, <1>3

LEMMA EpochStep ==
  ASSUME Types, Safe, OrderInv, EpochInv, [Next]_vars
  PROVE  EpochInv'
<1>1. CASE LoadNothing \/ LoadCheckpoint
  BY <1>1, EpochLoad
<1>2. CASE FitBatch
  <2>1. /\ pc = "step" /\ Draw /\ UNCHANGED <<config, tracker, run>>
    BY <1>2 DEF FitBatch
  <2>2. kind' = kind /\ Up
    BY <2>1 DEF kind, Up, Busy
  <2>3. pass \in Nat /\ epoch \in Nat
    BY DEF Types, TypeInv
  <2>4. (pass' = pass /\ epoch' = epoch) \/ (pass' = pass + 1 /\ epoch' = epoch + 1)
    BY <2>1 DEF Draw
  <2> QED
    BY <2>1, <2>2, <2>3, <2>4 DEF EpochInv
<1>3. CASE FirstBatch \/ FitOneStep \/ FitSample \/ FeedSample
  <2>1. kind \in {"one_step", "fully_async"} /\ config' = config
    BY <1>3 DEF FirstBatch, FitOneStep, FitSample, FeedSample, Types, PrefetchInv, FedInv
  <2> QED
    BY <2>1 DEF EpochInv, SelfFed, kind
<1>4. CASE Crash
  BY <1>4 DEF Crash, EpochInv, Up, Busy, InSave
<1>5. CASE LoadRaises \/ LoopEnds \/ OneStepRaises \/ StopSamples \/ PostStep
  <2>1. UNCHANGED <<config, tracker, run, pass, epoch>>
    BY <1>5 DEF LoadRaises, LoopEnds, OneStepRaises, StopSamples, PostStep, loader
  <2>2. Up' => Up
    BY <1>5 DEF LoadRaises, LoopEnds, OneStepRaises, StopSamples, PostStep, Up, Busy, InSave
  <2> QED
    BY <2>1, <2>2 DEF EpochInv, kind
<1>6. CASE \/ ensure_checkpoint_capacity \/ (\E r \in Ranks : WriteShard(r)) \/ register_checkpoint
           \/ SaveData
  <2>1. UNCHANGED <<config, tracker, run, pass, epoch>> /\ Up
    BY <1>6 DEF ensure_checkpoint_capacity, WriteShard, register_checkpoint, SaveData, loader,
                Up, Busy, InSave
  <2> QED
    BY <2>1 DEF EpochInv, kind
<1>7. CASE TruncateTracker \/ WriteTracker
  <2>1. UNCHANGED <<config, run, pass, epoch>> /\ Up
    BY <1>7 DEF TruncateTracker, WriteTracker, loader, Up, Busy, InSave
  <2>2. tracker' # Absent
    BY <1>7 DEF TruncateTracker, WriteTracker, Types, TypeInv, Torn, Absent
  <2> QED
    BY <2>1, <2>2 DEF EpochInv, kind
<1>8. CASE UNCHANGED vars
  BY <1>8 DEF EpochInv, vars, loader, kind, Up, Busy, InSave
<1> QED
  BY <1>1, <1>2, <1>3, <1>4, <1>5, <1>6, <1>7, <1>8 DEF Next, Trainer, Finished

\* A start from step s, of weights that have trained s steps unless versions are counted.
LEMMA LastStart ==
  ASSUME Types, LastInv, SpacingInv, NEW s \in Nat, NEW at, NEW w \in Shards, Start(s, at, w),
         kind # "fully_async" => Len(w.batches) = s,
         (s = tracker /\ tracker \in Steps) \/ s = 0
  PROVE  LastInv' /\ SpacingInv'
<1>1. /\ UNCHANGED <<config, disk, tracker, run>> /\ weights' = w /\ last_ckpt' = s
      /\ pc' \in {"prefetch", "step"}
  BY DEF Start
<1>2. kind' = kind /\ save_freq' = save_freq /\ ~InSave' /\ pc' # "post"
  BY <1>1 DEF kind, save_freq, InSave
<1>3. kind \in SelfFed => kind # "fully_async"
  BY DEF SelfFed
<1>4. save_freq \in Nat /\ save_freq >= 1
  BY ConfigFacts DEF Types, TypeInv
<1>5. LastInv'
  <2>1. tracker' = Absent => last_ckpt' = 0
    BY <1>1, StepFacts DEF Absent
  <2>2. kind' \in SelfFed /\ Len(weights'.batches) >= total_steps =>
          tracker' \in Steps /\ last_ckpt' = Len(weights'.batches)
    BY <1>1, <1>2, <1>3, StepFacts
  <2> QED
    BY <1>1, <1>2, <2>1, <2>2 DEF LastInv
<1>6. SpacingInv'
  <2> SUFFICES ASSUME kind = "ppo_sync"
               PROVE  /\ Regular(last_ckpt)' /\ (tracker' \in Steps => Regular(tracker)')
                      /\ Len(weights'.batches) - last_ckpt' < save_freq'
    BY <1>2 DEF SpacingInv
  <2>1. tracker' \in Steps => Regular(tracker)'
    BY <1>1, <1>2 DEF SpacingInv, Regular
  <2>2. Regular(0)
    BY <1>4 DEF Regular
  <2>3. Regular(last_ckpt)'
    BY <1>1, <1>2, <2>1, <2>2 DEF Regular
  <2>4. Len(weights'.batches) - last_ckpt' = 0
    BY <1>1
  <2> QED
    BY <1>2, <1>4, <2>1, <2>3, <2>4
<1> QED
  BY <1>5, <1>6

LEMMA LastLoad ==
  ASSUME Types, Safe, OrderInv, LastInv, SpacingInv, LoadNothing \/ LoadCheckpoint
  PROVE  LastInv' /\ SpacingInv'
<1>1. CASE LoadNothing
  <2> DEFINE w == [run |-> run, batches |-> <<>>]
             at == [pass |-> 0, pos |-> 0]
  <2>1. Start(0, at, w)
    BY <1>1 DEF LoadNothing
  <2>2. w \in Shards /\ Len(w.batches) = 0
    BY QueueType DEF Types, Shards
  <2> HIDE DEF w, at
  <2> QED
    BY <2>1, <2>2, LastStart
<1>2. CASE LoadCheckpoint
  <2>1. tracker \in Steps /\ tracker \in Nat
    BY <1>2, StepFacts DEF LoadCheckpoint, find_latest_ckpt_path
  <2>2. PICK r \in Ranks : Start(tracker, Restored(tracker), disk[tracker].actor[r])
    BY <1>2 DEF LoadCheckpoint
  <2>3. disk[tracker].actor[r] \in Shards
    BY <2>1 DEF Types, TypeInv, Folder
  <2>4. kind # "fully_async" => Len(disk[tracker].actor[r].batches) = tracker
    BY <2>1 DEF OrderInv, TrackerInv, Resumes
  <2> QED
    BY <2>1, <2>2, <2>3, <2>4, LastStart
<1> QED
  BY <1>1, <1>2

LEMMA NextMultiple ==
  ASSUME NEW f \in Nat, f >= 1, NEW s \in Nat, s % f = 0
  PROVE  (s + f) % f = 0
<1> DEFINE q == s \div f
<1>1. \A a, d \in Nat : d > 0 => a = d * (a \div d) + (a % d) /\ a \div d \in Nat
  OBVIOUS
<1>2. q \in Nat /\ s = f * q
  BY <1>1
<1> HIDE DEF q
<1>3. s + f = f * (q + 1)
  BY <1>2
<1>4. \A k \in Nat : (f * k) % f = 0
  OBVIOUS
<1> QED
  BY <1>2, <1>3, <1>4

\* After save_freq steps without a save, one is due.
LEMMA NextSave ==
  ASSUME NEW f \in Nat, f >= 1, NEW s \in Nat, s % f = 0, NEW n \in Nat, n - s < f, s <= n,
         (n + 1) % f # 0
  PROVE  n + 1 - s < f
<1> SUFFICES ASSUME n + 1 = s + f PROVE FALSE
  OBVIOUS
<1>1. (s + f) % f = 0
  BY NextMultiple
<1> QED
  BY <1>1

\* A training step of one of the trainers that count them.
LEMMA LastFit ==
  ASSUME Types, Safe, OrderInv, LastInv, SpacingInv, SavesOnce, FitBatch \/ FitOneStep
  PROVE  LastInv' /\ SpacingInv'
<1>1. /\ UNCHANGED <<config, tracker, global_steps, last_ckpt>> /\ pc = "step" /\ kind # "fully_async"
      /\ \E esi \in BOOLEAN : pc' = IF SaveDue(esi) THEN "capacity" ELSE "post"
      /\ \E b : weights' = Trained(b)
  BY DEF FitBatch, FitOneStep, counters
<1>2. kind' = kind /\ save_freq' = save_freq /\ is_last_step' = is_last_step /\ Up
  BY <1>1 DEF kind, save_freq, is_last_step, Up, Busy
<1>3. /\ global_steps \in Nat /\ critic_warmup \in Nat /\ total_steps \in Nat /\ last_ckpt \in Nat
      /\ save_freq \in Nat /\ save_freq >= 1
  BY StepFacts, CheckpointAssumption, ConfigFacts DEF Types, TypeInv
<1>4. pc' \in {"capacity", "post"} /\ (pc' = "post" => ~is_last_step)
  BY <1>1, <1>3 DEF SaveDue, SavesOnce, is_last_step
<1>5. LastInv'
  BY <1>1, <1>2, <1>4 DEF LastInv
<1>6. SpacingInv'
  <2> SUFFICES ASSUME kind = "ppo_sync" PROVE SpacingInv'
    BY <1>2 DEF SpacingInv
  <2>1. pc' = "capacity" => Regular(global_steps)
    BY <1>1 DEF SaveDue, Regular, is_last_step
  <2>2. ASSUME pc' = "post", last_ckpt < total_steps
        PROVE  Len(weights'.batches) - last_ckpt < save_freq
    <3> DEFINE n == Len(weights.batches)
    <3>1. n \in Nat /\ n = global_steps - 1 /\ n - last_ckpt < save_freq
      BY <1>1, <1>2, <2>2, QueueType DEF Types, OrderInv, PaceInv, Reached, SpacingInv
    <3>2. last_ckpt <= n
      BY <1>1, <1>2, <1>3, <3>1 DEF Safe, PathInv, Busy
    <3>3. last_ckpt % save_freq = 0
      BY <1>2, <1>3, <2>2 DEF SpacingInv, Regular
    <3>4. (n + 1) % save_freq # 0
      <4>1. global_steps % save_freq # 0
        BY <1>1, <2>2 DEF SaveDue
      <4> QED
        BY <1>3, <3>1, <4>1
    <3>5. Len(weights'.batches) = n + 1
      <4>1. PICK b : weights' = Trained(b)
        BY <1>1
      <4>2. weights'.batches = Append(weights.batches, b) /\ weights.batches \in Seq(Nat)
        BY <4>1, TrainedBatches, QueueType DEF Types
      <4> QED
        BY <4>2
    <3> HIDE DEF n
    <3>6. n + 1 - last_ckpt < save_freq
      BY <1>3, <3>1, <3>2, <3>3, <3>4, NextSave
    <3> QED
      BY <1>3, <3>1, <3>5, <3>6
  <2>3. Regular(last_ckpt)' /\ (tracker' \in Steps => Regular(tracker)')
    BY <1>1, <1>2 DEF SpacingInv, Regular
  <2>4. Regular(global_steps)' = Regular(global_steps)
    BY <1>1, <1>2 DEF Regular
  <2> QED
    BY <1>1, <1>2, <1>4, <2>1, <2>2, <2>3, <2>4 DEF SpacingInv, InSave
<1> QED
  BY <1>5, <1>6

LEMMA LastControl ==
  ASSUME Types, Safe, OrderInv, LastInv, SpacingInv,
         LoadRaises \/ LoopEnds \/ OneStepRaises \/ StopSamples \/ PostStep \/ FirstBatch
  PROVE  LastInv' /\ SpacingInv'
<1>1. /\ UNCHANGED <<config, tracker, last_ckpt, weights>>
      /\ pc' \in {"failed", "done", "capacity", "step"} /\ (pc' = "capacity" => kind = "fully_async")
      /\ pc' = "step" => pc \in {"post", "prefetch"}
      /\ Up' => Up
  BY DEF LoadRaises, LoopEnds, OneStepRaises, StopSamples, PostStep, FirstBatch, counters, Up, Busy, InSave
<1>2. kind' = kind /\ save_freq' = save_freq
  BY <1>1 DEF kind, save_freq
<1>3. kind \in SelfFed /\ pc' = "step" => Len(weights.batches) < total_steps
  <2> SUFFICES ASSUME kind \in SelfFed, pc' = "step"
               PROVE  Len(weights.batches) < total_steps
    OBVIOUS
  <2>1. pc = "post" /\ PostStep
    BY <1>1 DEF SelfFed, Types, PrefetchInv, LoadRaises, LoopEnds, OneStepRaises, StopSamples, FirstBatch
  <2>2. global_steps < total_steps
    BY <2>1, StepFacts DEF PostStep, is_last_step, Types, TypeInv
  <2>3. Len(weights.batches) = global_steps
    BY <2>1 DEF OrderInv, PaceInv, Reached, Up, Busy, SelfFed
  <2> QED
    BY <2>2, <2>3
<1>4. LastInv'
  <2>1. Len(weights.batches) \in Nat /\ total_steps \in Nat
    BY QueueType, StepFacts DEF Types
  <2>2. kind' \in SelfFed /\ pc' = "step" /\ Len(weights'.batches) >= total_steps => FALSE
    BY <1>1, <1>2, <1>3, <2>1
  <2> QED
    BY <1>1, <2>2 DEF LastInv
<1>5. SpacingInv'
  <2> SUFFICES ASSUME kind = "ppo_sync" PROVE SpacingInv'
    BY <1>2 DEF SpacingInv
  <2>1. pc' = "step" => pc = "post"
    BY <1>1 DEF Types, PrefetchInv
  <2>2. Regular(last_ckpt)' = Regular(last_ckpt) /\ Regular(tracker)' = Regular(tracker)
    BY <1>1, <1>2 DEF Regular
  <2> QED
    BY <1>1, <1>2, <2>1, <2>2 DEF SpacingInv, InSave
<1> QED
  BY <1>4, <1>5

LEMMA LastSave ==
  ASSUME Types, Safe, OrderInv, LastInv, SpacingInv,
         \/ ensure_checkpoint_capacity \/ (\E r \in Ranks : WriteShard(r)) \/ register_checkpoint
         \/ SaveData
  PROVE  LastInv' /\ SpacingInv'
<1>1. /\ UNCHANGED <<config, tracker, global_steps, last_ckpt, weights>>
      /\ InSave /\ Up /\ pc' \in {"capacity", "shards", "data", "truncate", "tracker"}
  BY DEF ensure_checkpoint_capacity, WriteShard, register_checkpoint, SaveData, NextRole,
         counters, InSave, Up, Busy
<1>2. kind' = kind /\ save_freq' = save_freq
  BY <1>1 DEF kind, save_freq
<1> QED
  BY <1>1, <1>2 DEF LastInv, SpacingInv, Regular

LEMMA LastTracker ==
  ASSUME Types, Safe, OrderInv, LastInv, SpacingInv, TruncateTracker \/ WriteTracker
  PROVE  LastInv' /\ SpacingInv'
<1>1. UNCHANGED <<config, global_steps, weights>> /\ InSave /\ Up
  BY DEF TruncateTracker, WriteTracker, counters, InSave, Up, Busy
<1>2. kind' = kind /\ save_freq' = save_freq
  BY <1>1 DEF kind, save_freq
<1>3. CASE TruncateTracker
  <2>1. pc' = "tracker" /\ tracker' = -2 /\ last_ckpt' = last_ckpt
    BY <1>3 DEF TruncateTracker, Torn, counters
  <2>2. tracker' \notin Steps /\ tracker' # Absent
    BY <2>1, StepFacts DEF Absent
  <2> QED
    BY <1>1, <1>2, <2>1, <2>2 DEF LastInv, SpacingInv, Regular
<1>4. CASE WriteTracker
  <2>1. /\ tracker' = global_steps /\ last_ckpt' = global_steps /\ pc' \in {"step", "post"} /\ pc = "tracker"
        /\ pc' = "step" => kind = "fully_async"
    BY <1>4 DEF WriteTracker
  <2>2. /\ global_steps \in Nat /\ global_steps >= 1 /\ global_steps \in Steps
        /\ save_freq \in Nat /\ save_freq >= 1
    BY <1>1, BusyStep, ConfigFacts DEF Types, TypeInv, Safe, PathInv, Busy
  <2>3. LastInv'
    BY <1>1, <1>2, <2>1, <2>2 DEF LastInv, Absent, SelfFed
  <2>4. SpacingInv'
    <3> SUFFICES ASSUME kind = "ppo_sync" PROVE SpacingInv'
      BY <1>2 DEF SpacingInv
    <3>1. Regular(last_ckpt)' /\ Regular(tracker)'
      BY <1>1, <1>2, <2>1 DEF SpacingInv, Regular
    <3>2. Len(weights'.batches) = global_steps
      BY <1>1, <2>1 DEF OrderInv, PaceInv, Reached
    <3>3. Len(weights'.batches) - last_ckpt' < save_freq'
      BY <1>2, <2>1, <2>2, <3>2
    <3> QED
      BY <2>1, <3>1, <3>3 DEF SpacingInv, InSave
  <2> QED
    BY <2>3, <2>4
<1> QED
  BY <1>3, <1>4

LEMMA LastStep ==
  ASSUME Types, Safe, OrderInv, LastInv, SpacingInv, SavesOnce, [Next]_vars
  PROVE  LastInv' /\ SpacingInv'
<1>1. CASE LoadNothing \/ LoadCheckpoint
  BY <1>1, LastLoad
<1>2. CASE FitBatch \/ FitOneStep
  BY <1>2, LastFit
<1>3. CASE FitSample \/ FeedSample
  <2>1. kind = "fully_async" /\ UNCHANGED <<config, tracker, last_ckpt>> /\ pc' \in {pc, "capacity", "step"}
    BY <1>3 DEF FitSample, FeedSample, Types, FedInv, counters
  <2>2. Up
    BY <1>3 DEF FitSample, FeedSample, OrderInv, FeedInv, Up, Busy
  <2> QED
    BY <2>1, <2>2 DEF LastInv, SpacingInv, SelfFed, kind
<1>4. CASE LoadRaises \/ LoopEnds \/ OneStepRaises \/ StopSamples \/ PostStep \/ FirstBatch
  BY <1>4, LastControl
<1>5. CASE \/ ensure_checkpoint_capacity \/ (\E r \in Ranks : WriteShard(r)) \/ register_checkpoint
           \/ SaveData
  BY <1>5, LastSave
<1>6. CASE TruncateTracker \/ WriteTracker
  BY <1>6, LastTracker
<1>7. CASE Crash
  <2>1. pc' = "load" /\ UNCHANGED <<config, tracker, last_ckpt, weights>>
    BY <1>7 DEF Crash, counters
  <2> QED
    BY <2>1 DEF LastInv, SpacingInv, Regular, kind, save_freq, Up, Busy, InSave
<1>8. CASE UNCHANGED vars
  BY <1>8 DEF LastInv, SpacingInv, Regular, kind, save_freq, Up, Busy, InSave, vars, counters, is_last_step
<1> QED
  BY <1>1, <1>2, <1>3, <1>4, <1>5, <1>6, <1>7, <1>8 DEF Next, Trainer, Finished

LEMMA SteppedType == ASSUME TypeInv PROVE Stepped \in Nat /\ local_step - 1 \in Nat
<1>1. global_steps \in Nat /\ local_step \in Nat /\ local_step >= 1
  BY Trigger DEF TypeInv
<1>2. global_steps * trigger_parameter_sync_step \in Nat
  BY <1>1, Trigger, Times
<1> QED
  BY <1>1, <1>2 DEF Stepped

LEMMA FlowLoad ==
  ASSUME Types, Safe, OrderInv, LastInv, FlowInv, SavedInv, LoadNothing \/ LoadCheckpoint
  PROVE  FlowInv' /\ SavedInv'
<1> DEFINE t == trigger_parameter_sync_step
<1>1. CASE LoadNothing
  <2> DEFINE w == [run |-> run, batches |-> <<>>]
             at == [pass |-> 0, pos |-> 0]
  <2>1. Start(0, at, w) /\ find_latest_ckpt_path = Absent /\ pc = "load"
    BY <1>1 DEF LoadNothing
  <2>2. tracker \notin Steps
    BY <2>1, StepFacts DEF find_latest_ckpt_path, Safe, TrackedInv, Absent
  <2>3. /\ weights'.batches = <<>> /\ pass' = 0 /\ pos' = 0 /\ last_ckpt' = 0 /\ tracker' = tracker
        /\ queue' = <<>> /\ local_step' = 1 /\ config' = config
        /\ kind = "fully_async" => epoch' = 0 /\ global_steps' = 0 /\ feeding' = TRUE
        /\ fed' = 0 * t + 1
    BY <2>1 DEF Start, StartRollouter
  <2>4. Len(weights'.batches) = 0 /\ Len(queue') = 0 /\ 0 * t = 0 /\ 0 * N = 0
    BY <2>3, Trigger, StepFacts
  <2>5. kind = "fully_async" => Stepped' = 0 /\ Drawn' = 0
    BY <2>3, <2>4 DEF Stepped, Drawn
  <2>6. FlowInv'
    BY <2>3, <2>4, <2>5 DEF FlowInv, kind
  <2>7. SavedInv'
    BY <2>2, <2>3 DEF SavedInv
  <2> QED
    BY <2>6, <2>7
<1>2. CASE LoadCheckpoint
  <2> SUFFICES ASSUME kind = "fully_async" PROVE FlowInv' /\ SavedInv'
    <3>1. config' = config
      BY <1>2 DEF LoadCheckpoint, Start
    <3> QED
      BY <3>1 DEF FlowInv, SavedInv, kind
  <2>1. tracker \in Steps /\ tracker \in Nat /\ tracker >= 1
    BY <1>2, StepFacts DEF LoadCheckpoint, find_latest_ckpt_path, LastInv
  <2>2. PICK r \in Ranks : Start(tracker, Restored(tracker), disk[tracker].actor[r])
    BY <1>2 DEF LoadCheckpoint
  <2>3. /\ weights' = disk[tracker].actor[r] /\ last_ckpt' = tracker /\ UNCHANGED <<config, disk, tracker>>
        /\ queue' = <<>> /\ local_step' = 1 /\ epoch' = 0 /\ global_steps' = tracker /\ feeding' = TRUE
        /\ fed' = tracker * t + 1 /\ pass' = Restored(tracker).pass
    BY <2>2 DEF Start, StartRollouter
  <2>4. Restored(tracker).pass \in Nat
    BY <2>1, RestoredAt DEF Positions, Safe, TrackedInv
  <2> DEFINE n == Len(weights'.batches)
             k == tracker * t
  <2>5. n \in Nat /\ k \in Nat /\ n >= k
    <3>1. disk[tracker].actor[r].batches \in Seq(Nat)
      BY <2>1 DEF Types, TypeInv, Folder, Shards
    <3>2. Len(disk[tracker].actor[r].batches) >= k
      BY <2>1 DEF SavedInv
    <3>3. k \in Nat
      BY <2>1, Trigger, Times
    <3> QED
      BY <2>3, <3>1, <3>2, <3>3
  <2>6. Stepped' = k
    <3>1. Stepped' = k + (1 - 1)
      BY <2>3 DEF Stepped
    <3> QED
      BY <2>5, <3>1
  <2>7. Len(queue') = 0 /\ fed' - 1 = k /\ last_ckpt' # 0
    BY <2>1, <2>3, <2>5
  <2>8. FlowInv'
    <3>1. n + Len(queue') >= fed' - 1
      BY <2>5, <2>7
    <3> QED
      BY <2>3, <2>4, <2>5, <2>6, <2>7, <3>1 DEF FlowInv
  <2>9. SavedInv'
    <3>1. \A i \in Ranks : disk[tracker].actor[i] = weights'
      <4>1. "actor" \in Roles
        BY ConfigFacts DEF Types, TypeInv
      <4> QED
        BY <2>1, <2>3, <4>1 DEF Safe, TrackedInv, Complete
    <3>2. n >= k /\ n - n <= local_step' - 1
      BY <2>3, <2>5
    <3> QED
      BY <2>3, <3>1, <3>2 DEF SavedInv
  <2> QED
    BY <2>8, <2>9
<1> QED
  BY <1>1, <1>2

LEMMA FlowSample ==
  ASSUME Types, Safe, OrderInv, LastInv, FlowInv, SavedInv, FitSample
  PROVE  FlowInv' /\ SavedInv'
<1> DEFINE t == trigger_parameter_sync_step
           n == Len(weights.batches)
           q == Len(queue)
<1>1. /\ pc = "step" /\ kind = "fully_async" /\ pc' \in {"capacity", "step"}
      /\ UNCHANGED <<config, disk, tracker, last_ckpt, pass, pos, epoch, fed, feeding>>
  BY DEF FitSample, loader
<1>2. kind' = kind /\ Up /\ HasNext' = HasNext /\ Drawn' = Drawn
  BY <1>1 DEF kind, Up, Busy, HasNext, Drawn
<1>3. Len(weights'.batches) = n + 1 /\ Len(queue') = q - 1 /\ n \in Nat /\ q \in Nat
  <2>1. PICK i \in 1 .. Len(queue) :
          /\ weights' = Trained(queue[i])
          /\ queue' = SubSeq(queue, 1, i - 1) \o SubSeq(queue, i + 1, Len(queue))
    BY DEF FitSample
  <2>2. weights'.batches = Append(weights.batches, queue[i])
    BY <2>1, TrainedBatches
  <2>3. Len(queue') = q - 1
    BY <2>1, RemoveOne, QueueType DEF Types
  <2> QED
    BY <2>2, <2>3, QueueType DEF Types
<1>4. Stepped' = Stepped + 1 /\ Stepped \in Nat
  <2>1. /\ global_steps \in Nat /\ local_step \in 1 .. t /\ t \in Nat /\ t >= 1
        /\ global_steps * t \in Nat /\ (global_steps + 1) * t = global_steps * t + t
    BY Trigger DEF Types, TypeInv
  <2>2. CASE local_step < t
    <3>1. local_step' = local_step + 1 /\ global_steps' = global_steps
      BY <2>2 DEF FitSample
    <3> QED
      BY <2>1, <3>1, SteppedType DEF Stepped, Types
  <2>3. CASE ~(local_step < t)
    <3>1. local_step' = 1 /\ global_steps' = global_steps + 1 /\ local_step = t
      BY <2>1, <2>3 DEF FitSample
    <3>2. Stepped' = global_steps * t + t + (1 - 1)
      BY <2>1, <3>1 DEF Stepped
    <3>3. Stepped = global_steps * t + (t - 1)
      BY <3>1 DEF Stepped
    <3> QED
      BY <2>1, <3>2, <3>3, SteppedType DEF Types
  <2> QED
    BY <2>2, <2>3
<1>5. /\ n >= Stepped /\ pass >= epoch
      /\ feeding => n + q >= fed - 1
      /\ ~feeding => n + q >= total_steps \/ ~HasNext
      /\ last_ckpt = 0 => n = Stepped /\ Drawn = n + q
  BY <1>1, <1>2 DEF FlowInv
<1> HIDE DEF n, q
<1>6. (n + 1) + (q - 1) = n + q
  BY <1>3
<1>7. FlowInv'
  <2>1. n + 1 >= Stepped + 1 /\ (n = Stepped => n + 1 = Stepped + 1)
    BY <1>3, <1>4, <1>5
  <2> QED
    BY <1>1, <1>2, <1>3, <1>4, <1>5, <1>6, <2>1 DEF FlowInv
<1>8. SavedInv'
  <2> SUFFICES ASSUME tracker \in Steps, NEW r \in Ranks
               PROVE  LET steps == Len(disk[tracker].actor[r].batches)
                      IN  /\ steps >= tracker * t
                          /\ global_steps' = last_ckpt => Len(weights'.batches) - steps <= local_step' - 1
    BY <1>1 DEF SavedInv
  <2> DEFINE s == Len(disk[tracker].actor[r].batches)
  <2>1. s >= tracker * t /\ (global_steps = last_ckpt => n - s <= local_step - 1)
    BY <1>1, <1>2 DEF SavedInv, n
  <2>2. s \in Nat
    BY DEF Types, TypeInv, Folder, Shards
  <2>3. last_ckpt \in Nat /\ global_steps \in Nat /\ last_ckpt <= global_steps /\ local_step \in Nat
    BY <1>2, Trigger DEF Types, TypeInv, Safe, PathInv
  <2> HIDE DEF s
  <2>4. ASSUME global_steps' = last_ckpt PROVE n + 1 - s <= local_step' - 1
    <3>1. local_step' = local_step + 1 /\ global_steps' = global_steps
      BY <2>3, <2>4 DEF FitSample
    <3>2. n - s <= local_step - 1
      BY <2>1, <2>4, <3>1
    <3> QED
      BY <1>3, <2>2, <2>3, <3>1, <3>2
  <2>5. global_steps' = last_ckpt => Len(weights'.batches) - s <= local_step' - 1
    BY <1>3, <2>2, <2>4
  <2> QED
    BY <2>1, <2>5 DEF s
<1> QED
  BY <1>7, <1>8

LEMMA FlowFeed ==
  ASSUME Types, Safe, OrderInv, LastInv, FlowInv, SavedInv, FeedSample
  PROVE  FlowInv' /\ SavedInv'
<1> DEFINE n == Len(weights.batches)
           q == Len(queue)
<1>1. /\ feeding /\ UNCHANGED <<config, disk, tracker, pc, weights, global_steps, local_step, last_ckpt>>
  BY DEF FeedSample, counters
<1>2. kind = "fully_async" /\ kind' = kind /\ Up /\ Up' /\ Stepped' = Stepped
  BY <1>1 DEF Types, FedInv, OrderInv, FeedInv, kind, Up, Busy, InSave, Stepped
<1>3. n \in Nat /\ q \in Nat /\ fed \in Nat /\ total_steps \in Nat /\ pass \in Nat /\ epoch \in Nat
  BY QueueType, StepFacts DEF Types, TypeInv
<1>4. /\ n >= Stepped /\ pass >= epoch /\ n + q >= fed - 1
      /\ last_ckpt = 0 => n = Stepped /\ Drawn = n + q
  BY <1>1, <1>2 DEF FlowInv
<1>5. SavedInv'
  BY <1>1, <1>2 DEF SavedInv
<1>6. CASE HasNext
  <2>1. /\ Draw /\ queue' = Append(queue, NextBatch) /\ feeding' = (fed < total_steps)
        /\ fed' = IF fed < total_steps THEN fed + 1 ELSE fed
    BY <1>6 DEF FeedSample
  <2>2. Drawn \in Nat /\ Drawn' = Drawn + 1
    BY <2>1, DrawCounts DEF Types
  <2>3. Len(queue') = q + 1
    BY <2>1, QueueType DEF Types
  <2>4. pass' >= epoch'
    BY <1>3, <1>4, <2>1 DEF Draw
  <2> HIDE DEF n, q
  <2>5. /\ feeding' => n + (q + 1) >= fed' - 1
        /\ ~feeding' => n + (q + 1) >= total_steps
    <3>1. CASE fed < total_steps
      <4>1. fed' = fed + 1 /\ feeding'
        BY <2>1, <3>1
      <4>2. n + (q + 1) >= fed
        BY <1>3, <1>4
      <4> QED
        BY <1>3, <4>1, <4>2
    <3>2. CASE ~(fed < total_steps)
      <4>1. ~feeding'
        BY <2>1, <3>2
      <4>2. n + (q + 1) >= total_steps
        BY <1>3, <1>4, <3>2
      <4> QED
        BY <4>1, <4>2
    <3> QED
      BY <3>1, <3>2
  <2>6. Drawn = n + q => Drawn' = n + (q + 1)
    BY <1>3, <2>2
  <2>7. FlowInv'
    BY <1>1, <1>2, <1>4, <2>3, <2>4, <2>5, <2>6 DEF FlowInv, n
  <2> QED
    BY <1>5, <2>7
<1>7. CASE ~HasNext
  <2>1. feeding' = FALSE /\ UNCHANGED <<pass, pos, epoch, queue, fed>>
    BY <1>7 DEF FeedSample, loader
  <2>2. ~HasNext' /\ Drawn' = Drawn
    BY <1>7, <2>1 DEF HasNext, Drawn
  <2> HIDE DEF n, q
  <2>3. FlowInv'
    BY <1>1, <1>2, <1>4, <2>1, <2>2 DEF FlowInv, n, q
  <2> QED
    BY <1>5, <2>3
<1> QED
  BY <1>6, <1>7

LEMMA FlowSave ==
  ASSUME Types, Safe, KeepsTwo, OrderInv, LastInv, FlowInv, SavedInv,
         \/ ensure_checkpoint_capacity \/ (\E r \in Ranks : WriteShard(r)) \/ register_checkpoint
         \/ SaveData
  PROVE  FlowInv' /\ SavedInv'
<1>1. /\ UNCHANGED <<config, tracker, weights, pass, pos, epoch, queue, fed, feeding>> /\ Up
      /\ UNCHANGED <<global_steps, local_step, last_ckpt>>
  BY DEF ensure_checkpoint_capacity, WriteShard, register_checkpoint, SaveData, counters, loader,
         rollouter, Up, Busy, InSave
<1>2. FlowInv'
  BY <1>1 DEF FlowInv, kind, Stepped, HasNext, Drawn
<1>3. tracker \in Steps => disk'[tracker].actor = disk[tracker].actor
  BY FolderKept
<1> QED
  BY <1>1, <1>2, <1>3 DEF SavedInv, kind

LEMMA FlowTracker ==
  ASSUME Types, Safe, OrderInv, LastInv, FlowInv, SavedInv, TruncateTracker \/ WriteTracker
  PROVE  FlowInv' /\ SavedInv'
<1>1. /\ UNCHANGED <<config, disk, weights, pass, pos, epoch, queue, fed, feeding>> /\ Up /\ InSave
      /\ UNCHANGED <<global_steps, local_step>>
  BY DEF TruncateTracker, WriteTracker, counters, loader, rollouter, Up, Busy, InSave
<1>2. kind' = kind /\ Stepped' = Stepped /\ HasNext' = HasNext /\ Drawn' = Drawn
  BY <1>1 DEF kind, Stepped, HasNext, Drawn
<1>3. CASE TruncateTracker
  <2>1. tracker' = -2 /\ last_ckpt' = last_ckpt
    BY <1>3 DEF TruncateTracker, Torn, counters
  <2>2. tracker' \notin Steps
    BY <2>1, StepFacts
  <2> QED
    BY <1>1, <1>2, <2>1, <2>2 DEF FlowInv, SavedInv
<1>4. CASE WriteTracker
  <2>1. tracker' = global_steps /\ last_ckpt' = global_steps /\ pc = "tracker"
    BY <1>4 DEF WriteTracker
  <2>2. global_steps # 0 /\ global_steps \in Nat
    BY <1>1 DEF Types, TypeInv, Safe, PathInv
  <2>3. FlowInv'
    BY <1>1, <1>2, <2>1, <2>2 DEF FlowInv
  <2>4. \A r \in Ranks : disk[global_steps].actor[r] = weights
    <3>1. "actor" \in Registered
      BY <2>1 DEF Registered, Roles
    <3> QED
      BY <3>1 DEF Safe, WriteInv
  <2>5. SavedInv'
    <3> SUFFICES ASSUME kind = "fully_async"
                 PROVE  LET n == Len(weights.batches)
                        IN  n >= global_steps * trigger_parameter_sync_step /\ n - n <= local_step - 1
      BY <1>1, <1>2, <2>1, <2>4 DEF SavedInv
    <3> DEFINE n == Len(weights.batches)
               k == global_steps * trigger_parameter_sync_step
    <3>1. n \in Nat /\ local_step - 1 \in Nat /\ k \in Nat /\ local_step \in Nat
      <4>1. n \in Nat
        BY QueueType DEF Types
      <4>2. local_step - 1 \in Nat /\ local_step \in Nat
        BY SteppedType, Trigger DEF Types, TypeInv
      <4>3. k \in Nat
        BY <2>2, Trigger, Times
      <4> QED
        BY <4>1, <4>2, <4>3
    <3>2. n >= k + (local_step - 1)
      BY <1>1 DEF FlowInv, Stepped
    <3> HIDE DEF n, k
    <3>3. n >= k /\ n - n <= local_step - 1
      BY <3>1, <3>2
    <3> QED
      BY <3>3 DEF n, k
  <2> QED
    BY <2>3, <2>5
<1> QED
  BY <1>3, <1>4

LEMMA FlowStep ==
  ASSUME KeepsTwo, Types, Safe, OrderInv, LastInv, FlowInv, SavedInv, [Next]_vars
  PROVE  FlowInv' /\ SavedInv'
<1>1. CASE LoadNothing \/ LoadCheckpoint
  BY <1>1, FlowLoad
<1>2. CASE FitSample
  BY <1>2, FlowSample
<1>3. CASE FeedSample
  BY <1>3, FlowFeed
<1>4. CASE FitBatch \/ FitOneStep \/ FirstBatch \/ LoopEnds \/ OneStepRaises \/ PostStep
  <2>1. kind # "fully_async" /\ config' = config
    BY <1>4 DEF FitBatch, FitOneStep, FirstBatch, LoopEnds, OneStepRaises, PostStep, Types, PrefetchInv
  <2> QED
    BY <2>1 DEF FlowInv, SavedInv, kind
<1>5. CASE LoadRaises \/ StopSamples
  <2>1. /\ UNCHANGED <<config, disk, tracker, weights, pass, pos, epoch, queue, fed, feeding>>
        /\ UNCHANGED <<global_steps, local_step, last_ckpt>> /\ (Up' => Up)
    BY <1>5 DEF LoadRaises, StopSamples, counters, loader, rollouter, Up, Busy, InSave
  <2> QED
    BY <2>1 DEF FlowInv, SavedInv, kind, Stepped, HasNext, Drawn
<1>6. CASE \/ ensure_checkpoint_capacity \/ (\E r \in Ranks : WriteShard(r)) \/ register_checkpoint
           \/ SaveData
  BY <1>6, FlowSave
<1>7. CASE TruncateTracker \/ WriteTracker
  BY <1>7, FlowTracker
<1>8. CASE Crash
  <2>1. ~Up' /\ UNCHANGED <<config, tracker>>
    BY <1>8 DEF Crash, Up, Busy, InSave
  <2>2. tracker \in Steps => disk'[tracker].actor = disk[tracker].actor
    BY <1>8, FolderKept
  <2> QED
    BY <2>1, <2>2 DEF FlowInv, SavedInv, kind
<1>9. CASE UNCHANGED vars
  BY <1>9 DEF FlowInv, SavedInv, kind, Stepped, HasNext, Drawn, vars, counters, loader, rollouter,
              Up, Busy, InSave
<1> QED
  BY <1>1, <1>2, <1>3, <1>4, <1>5, <1>6, <1>7, <1>8, <1>9 DEF Next, Trainer, Finished

\* The dataloader is exhausted with the loop at most d epochs ahead of it.
LEMMA ExhaustedBy ==
  ASSUME TypeInv, ~HasNext, NEW d \in Nat, epoch <= pass + d
  PROVE  Drawn + d * N >= total_steps
<1> DEFINE p == pass + d
<1>1. /\ pass \in Nat /\ epoch \in Nat /\ pos \in Nat /\ N \in Nat /\ total_epochs \in Nat
      /\ p \in Nat
  BY StepFacts, CheckpointAssumption DEF TypeInv
<1>2. /\ p * N = pass * N + d * N /\ (p + 1) * N = p * N + N /\ total_steps = total_epochs * N
      /\ pass * N \in Nat /\ d * N \in Nat /\ p * N \in Nat /\ total_steps \in Nat
  <2>1. p * N = pass * N + d * N /\ (p + 1) * N = p * N + N
    BY <1>1
  <2>2. total_steps = total_epochs * N
    BY <1>1 DEF total_steps
  <2> QED
    BY <1>1, <2>1, <2>2, Times, StepFacts
<1>3. Drawn = pass * N + pos
  BY DEF Drawn
<1>4. total_epochs <= p \/ (pos >= N /\ total_epochs <= p + 1)
  BY <1>1 DEF HasNext
<1>5. CASE total_epochs <= p
  <2>1. total_epochs * N <= p * N
    BY <1>1, <1>5, TimesMonotone
  <2> HIDE DEF p
  <2> QED
    BY <1>1, <1>2, <1>3, <2>1
<1>6. CASE pos >= N /\ total_epochs <= p + 1
  <2>1. total_epochs * N <= (p + 1) * N
    BY <1>1, <1>6, TimesMonotone
  <2> HIDE DEF p
  <2> QED
    BY <1>1, <1>2, <1>3, <1>6, <2>1
<1> QED
  BY <1>4, <1>5, <1>6

LEMMA Exhausted ==
  ASSUME TypeInv, ~HasNext
  PROVE  /\ epoch <= pass => Drawn >= total_steps
         /\ epoch <= pass + 1 => Drawn >= total_steps - N
<1>1. pass \in Nat /\ epoch \in Nat /\ N \in Nat /\ total_steps \in Nat /\ Drawn \in Nat
  BY StepFacts, DrawCounts DEF TypeInv
<1>2. 0 * N = 0 /\ 1 * N = N /\ pass + 0 = pass
  BY <1>1
<1>3. epoch <= pass + 0 => Drawn + 0 * N >= total_steps
  BY ExhaustedBy
<1>4. epoch <= pass + 1 => Drawn + 1 * N >= total_steps
  BY ExhaustedBy
<1> QED
  BY <1>1, <1>2, <1>3, <1>4

\* What was drawn is trained on or missed.
LEMMA TrainedOrMissed ==
  ASSUME NEW b \in Seq(Nat), NEW n \in Nat
  PROVE  n <= Cardinality(Missed(Elems(b), n)) + Len(b)
<1> DEFINE A == 0 .. n - 1
           M == Elems(b)
<1>1. IsFiniteSet(A) /\ Cardinality(A) = n
  <2>1. IsFiniteSet(0 .. n - 1) /\ Cardinality(0 .. n - 1) = IF 0 > n - 1 THEN 0 ELSE (n - 1) - 0 + 1
    BY FS_Interval
  <2>2. (IF 0 > n - 1 THEN 0 ELSE (n - 1) - 0 + 1) = n
    OBVIOUS
  <2> QED
    BY <2>1, <2>2
<1>2. IsFiniteSet(M) /\ Cardinality(M) \in Nat /\ Cardinality(M) <= Len(b) /\ Len(b) \in Nat
  BY ElemsCount
<1>3. A \ M = Missed(Elems(b), n)
  BY DEF Missed
<1> HIDE DEF A, M
<1>4. Cardinality(A \ M) \in Nat /\ Cardinality(A) <= Cardinality(A \ M) + Cardinality(M)
  BY <1>1, <1>2, SplitCount
<1> DEFINE a == Cardinality(A \ M)
           c == Cardinality(M)
<1>5. n <= a + c /\ a \in Nat /\ c \in Nat /\ c <= Len(b) /\ Len(b) \in Nat
  BY <1>1, <1>2, <1>4
<1> HIDE DEF a, c
<1>6. n <= a + Len(b)
  BY <1>5
<1> QED
  BY <1>3, <1>6 DEF a

LEMMA EndLoop ==
  ASSUME Types, Safe, OrderInv, EpochInv, LastInv, SpacingInv, LoopEnds
  PROVE  EndsComplete'
<1> DEFINE n == Len(weights.batches)
<1>1. /\ pc = "step" /\ kind \in SelfFed /\ ~HasNext /\ pc' = "done"
      /\ UNCHANGED <<config, disk, tracker, weights, run>>
  BY DEF LoopEnds, SelfFed
<1>2. kind' = kind /\ save_freq' = save_freq /\ Up /\ kind # "fully_async" /\ kind # "one_step"
  BY <1>1 DEF kind, save_freq, Up, Busy, SelfFed
<1>3. /\ n \in Nat /\ Drawn = n /\ total_steps \in Nat /\ N \in Nat /\ run \in Nat /\ last_ckpt \in Nat
      /\ pass \in Nat /\ epoch \in Nat /\ save_freq \in Nat /\ save_freq >= 1
  <2>1. Drawn = n
    BY <1>1, <1>2 DEF OrderInv, MemoryInv, Keeps
  <2> QED
    BY <2>1, QueueType, StepFacts, ConfigFacts DEF Types, TypeInv
<1>4. epoch = pass \/ (epoch = pass + 1 /\ kind = "ppo_sync" /\ run > 0)
  BY <1>1, <1>2, <1>3 DEF EpochInv, SelfFed
<1>5. epoch = pass => n >= total_steps
  <2> SUFFICES ASSUME epoch = pass PROVE n >= total_steps
    OBVIOUS
  <2>1. epoch <= pass
    BY <1>3
  <2>2. Drawn >= total_steps
    BY <1>1, <2>1, Exhausted DEF Types
  <2> QED
    BY <1>3, <2>2
<1>6. epoch = pass + 1 => n >= total_steps - N
  <2> SUFFICES ASSUME epoch = pass + 1 PROVE n >= total_steps - N
    OBVIOUS
  <2>1. epoch <= pass + 1
    BY <1>3
  <2>2. Drawn >= total_steps - N
    BY <1>1, <2>1, Exhausted DEF Types
  <2> QED
    BY <1>3, <2>2
<1> HIDE DEF n
<1>7. RunsToTheEnd'
  <2>1. n >= total_steps - (IF kind = "ppo_sync" /\ run > 0 THEN N ELSE 0)
    BY <1>3, <1>4, <1>5, <1>6
  <2> QED
    BY <1>1, <1>2, <2>1 DEF RunsToTheEnd, n
<1>8. tracker \in Steps
  <2>1. tracker # Torn
    BY <1>1, <1>2 DEF Safe, PathInv
  <2>2. n >= total_steps => tracker \in Steps
    BY <1>1 DEF LastInv, n
  <2>3. epoch # pass => tracker # Absent
    BY <1>1, <1>2 DEF EpochInv
  <2> QED
    BY <1>4, <1>5, <2>1, <2>2, <2>3 DEF Types, TypeInv
<1>9. n - last_ckpt < (IF n < total_steps THEN save_freq ELSE 1)
  <2>1. CASE n >= total_steps
    <3>1. last_ckpt = n
      BY <1>1, <2>1 DEF LastInv, n
    <3> QED
      BY <1>3, <2>1, <3>1
  <2>2. CASE n < total_steps
    <3>1. kind = "ppo_sync"
      BY <1>3, <1>4, <1>5, <2>2
    <3>2. last_ckpt <= n
      <4>1. n = global_steps - 1 /\ last_ckpt < global_steps /\ global_steps \in Nat
        BY <1>1, <1>2 DEF OrderInv, PaceInv, Reached, Safe, PathInv, Busy, Types, TypeInv, n
      <4> QED
        BY <1>3, <4>1
    <3>3. n - last_ckpt < save_freq
      BY <1>1, <1>3, <2>2, <3>1, <3>2 DEF SpacingInv, n
    <3> QED
      BY <2>2, <3>3
  <2> QED
    BY <1>3, <2>1, <2>2
<1>10. \A r \in Ranks : Len(disk[tracker].actor[r].batches) = last_ckpt
  BY <1>2, <1>8 DEF OrderInv, TrackerInv, Resumes, Safe, PathInv
<1>11. FinalSaved'
  BY <1>1, <1>2, <1>8, <1>9, <1>10 DEF FinalSaved, n
<1> QED
  BY <1>7, <1>11 DEF EndsComplete

LEMMA EndPost ==
  ASSUME Types, Safe, OrderInv, LastInv, PostStep, pc' = "done"
  PROVE  EndsComplete'
<1> DEFINE n == Len(weights.batches)
<1>1. /\ pc = "post" /\ is_last_step /\ kind # "fully_async"
      /\ UNCHANGED <<config, disk, tracker, weights, run>>
  BY DEF PostStep, Types, PrefetchInv
<1>2. kind' = kind /\ save_freq' = save_freq /\ Up
  BY <1>1 DEF kind, save_freq, Up, Busy
<1>3. n = global_steps /\ n \in Nat /\ total_steps \in Nat /\ N \in Nat /\ save_freq \in Nat /\ save_freq >= 1
  <2>1. n = global_steps
    BY <1>1, <1>2 DEF OrderInv, PaceInv, Reached
  <2> QED
    BY <2>1, QueueType, StepFacts, ConfigFacts DEF Types, TypeInv
<1>4. n >= total_steps
  BY <1>1, <1>3 DEF is_last_step
<1>5. tracker \in Steps /\ last_ckpt = n
  BY <1>1, <1>3 DEF LastInv
<1>6. \A r \in Ranks : Len(disk[tracker].actor[r].batches) = n
  BY <1>1, <1>2, <1>5 DEF OrderInv, TrackerInv, Resumes, Safe, PathInv
<1> HIDE DEF n
<1>7. RunsToTheEnd'
  <2>1. n >= total_steps - (IF kind = "ppo_sync" /\ run > 0 THEN N ELSE 0)
    BY <1>3, <1>4
  <2> QED
    BY <1>1, <1>2, <2>1 DEF RunsToTheEnd, n
<1>8. FinalSaved'
  <2>1. n - n < (IF n < total_steps THEN save_freq ELSE 1)
    BY <1>3
  <2> QED
    BY <1>1, <1>2, <1>5, <1>6, <2>1 DEF FinalSaved, n
<1> QED
  BY <1>7, <1>8 DEF EndsComplete

LEMMA EndSamples ==
  ASSUME Types, Safe, OrderInv, LastInv, FlowInv, SavedInv, SavesOnce, StopSamples, pc' = "done"
  PROVE  EndsComplete'
<1> DEFINE n == Len(weights.batches)
<1>1. /\ pc = "step" /\ kind = "fully_async" /\ queue = <<>> /\ ~feeding /\ global_steps = last_ckpt
      /\ UNCHANGED <<config, disk, tracker, weights, run>>
  BY DEF StopSamples
<1>2. kind' = kind /\ Up = TRUE /\ Len(queue) = 0
  BY <1>1 DEF kind, Up, Busy
<1>3. /\ n \in Nat /\ Drawn \in Nat /\ total_steps \in Nat /\ run \in Nat /\ weights.batches \in Seq(Nat)
      /\ pass \in Nat /\ epoch \in Nat /\ N \in Nat
  BY QueueType, StepFacts, DrawCounts DEF Types, TypeInv
<1>4. n >= total_steps \/ Drawn >= total_steps
  <2>1. n + 0 >= total_steps \/ ~HasNext
    BY <1>1, <1>2 DEF FlowInv
  <2>2. ~HasNext => Drawn >= total_steps
    <3>1. epoch <= pass
      BY <1>1, <1>2, <1>3 DEF FlowInv
    <3> QED
      BY <3>1, Exhausted DEF Types
  <2> QED
    BY <1>3, <2>1, <2>2
<1>5. Drawn - n <= run * Ahead /\ run * Ahead \in Nat
  <2>1. Keeps("fully_async", TRUE, weights.batches, queue, Drawn, run)
    BY <1>1, <1>2 DEF OrderInv, MemoryInv
  <2>2. InFlight("fully_async") = Ahead /\ "fully_async" \notin SelfFed
    BY DEF InFlight, SelfFed
  <2>3. Cardinality(Missed(Elems(weights.batches) \cup Elems(queue), Drawn)) <= run * Ahead
    BY <2>1, <2>2 DEF Keeps
  <2>4. Elems(weights.batches) \cup Elems(queue) = Elems(weights.batches)
    BY <1>1 DEF Elems
  <2> DEFINE m == Cardinality(Missed(Elems(weights.batches), Drawn))
  <2>5. m <= run * Ahead /\ Drawn <= m + n /\ m \in Nat
    BY <1>3, <2>3, <2>4, TrainedOrMissed, MissedCount
  <2>6. run * Ahead \in Nat
    BY <1>3, Times, CheckpointAssumption
  <2> HIDE DEF m, n
  <2> QED
    BY <1>3, <2>5, <2>6
<1>6. RunsToTheEnd'
  <2> HIDE DEF n
  <2>1. n >= total_steps - run * Ahead
    BY <1>3, <1>4, <1>5
  <2> QED
    BY <1>1, <1>2, <2>1 DEF RunsToTheEnd, n
<1>7. trigger_parameter_sync_step \in Nat /\ local_step \in Nat /\ local_step <= trigger_parameter_sync_step
  BY Trigger DEF Types, TypeInv
<1>8. tracker \in Steps
  <2>1. tracker # Torn
    BY <1>1, <1>2 DEF Safe, PathInv
  <2>2. tracker # Absent
    <3> SUFFICES ASSUME tracker = Absent PROVE FALSE
      OBVIOUS
    <3>1. last_ckpt = 0 /\ global_steps = 0
      BY <1>1, <1>2 DEF LastInv
    <3>2. n = Stepped /\ Drawn = n + 0
      BY <1>1, <1>2, <3>1 DEF FlowInv
    <3>3. Stepped = local_step - 1
      <4>1. 0 * trigger_parameter_sync_step = 0
        BY <1>7
      <4> QED
        BY <1>7, <3>1, <4>1 DEF Stepped
    <3> HIDE DEF n
    <3> QED
      BY <1>3, <1>4, <1>7, <3>2, <3>3 DEF SavesOnce
  <2> QED
    BY <2>1, <2>2 DEF Types, TypeInv
<1>9. FinalSaved'
  <2>1. \A r \in Ranks : n - Len(disk[tracker].actor[r].batches) <= local_step - 1
    BY <1>1, <1>2, <1>8 DEF SavedInv
  <2>2. \A r \in Ranks : Len(disk[tracker].actor[r].batches) \in Nat
    BY <1>8 DEF Types, TypeInv, Folder, Shards
  <2> HIDE DEF n
  <2>3. ASSUME NEW r \in Ranks
        PROVE  n - Len(disk[tracker].actor[r].batches) < trigger_parameter_sync_step
    <3> DEFINE s == Len(disk[tracker].actor[r].batches)
    <3>1. s \in Nat /\ n - s <= local_step - 1
      BY <2>1, <2>2
    <3> HIDE DEF s
    <3>2. n - s < trigger_parameter_sync_step
      BY <1>3, <1>7, <3>1
    <3> QED
      BY <3>2 DEF s
  <2> QED
    BY <1>1, <1>2, <1>8, <2>3 DEF FinalSaved, n
<1> QED
  BY <1>6, <1>9 DEF EndsComplete

LEMMA EndStep ==
  ASSUME KeepsTwo, SavesOnce
  PROVE  Types /\ Safe /\ OrderInv /\ EndInv /\ [Next]_vars => EndInv'
<1> SUFFICES ASSUME Types, Safe, OrderInv, EndInv, [Next]_vars PROVE EndInv'
  OBVIOUS
<1>0. EpochInv /\ LastInv /\ SpacingInv /\ FlowInv /\ SavedInv /\ EndsComplete
  BY DEF EndInv
<1>1. EpochInv'
  BY <1>0, EpochStep
<1>2. LastInv' /\ SpacingInv'
  BY <1>0, LastStep
<1>3. FlowInv' /\ SavedInv'
  BY <1>0, FlowStep
<1>4. EndsComplete'
  <2>1. CASE pc' # "done"
    BY <2>1 DEF EndsComplete, RunsToTheEnd, FinalSaved
  <2>2. CASE pc' = "done" /\ LoopEnds
    BY <1>0, <2>2, EndLoop
  <2>3. CASE pc' = "done" /\ PostStep
    BY <1>0, <2>3, EndPost
  <2>4. CASE pc' = "done" /\ StopSamples
    BY <1>0, <2>4, EndSamples
  <2>5. CASE UNCHANGED vars
    BY <1>0, <2>5 DEF EndsComplete, RunsToTheEnd, FinalSaved, vars, kind, save_freq
  <2>6. CASE FeedSample /\ pc' = "done"
    <3>1. UNCHANGED <<config, disk, tracker, pc, weights, run>>
      BY <2>6 DEF FeedSample
    <3> QED
      BY <1>0, <3>1 DEF EndsComplete, RunsToTheEnd, FinalSaved, kind, save_freq
  <2>7. ASSUME pc' = "done" PROVE LoopEnds \/ PostStep \/ StopSamples \/ FeedSample \/ UNCHANGED vars
    BY <2>7 DEF Next, Trainer, Finished, LoadNothing, LoadCheckpoint, Start, LoadRaises, FitBatch,
                FirstBatch, FitOneStep, OneStepRaises, FitSample, ensure_checkpoint_capacity, WriteShard,
                register_checkpoint, NextRole, SaveData, TruncateTracker, WriteTracker, Crash
  <2> QED
    BY <2>1, <2>2, <2>3, <2>4, <2>5, <2>6, <2>7
<1> QED
  BY <1>1, <1>2, <1>3, <1>4 DEF EndInv

LEMMA EndInit == Init => EndInv
<1> SUFFICES ASSUME Init PROVE EndInv
  OBVIOUS
<1>1. pc = "load" /\ tracker = -1
  BY DEF Init, Absent
<1>2. tracker \notin Steps /\ ~Up /\ ~InSave
  BY <1>1, StepFacts DEF Up, Busy, InSave
<1> QED
  BY <1>1, <1>2 DEF EndInv, EpochInv, LastInv, SpacingInv, FlowInv, SavedInv, EndsComplete,
                    RunsToTheEnd, FinalSaved

\* A run that ends, after any crashes and restarts, has trained all its steps but what
\* a rollouter lost or an epoch that an exhausted dataloader skipped, and has saved the
\* weights it ends with, up to the steps the code leaves out of its last save.
THEOREM EndsCompletely ==
  ASSUME KeepsTwo, SavesOnce
  PROVE  Spec => []EndsComplete
<1>1. Init => Types /\ Safe /\ OrderInv /\ EndInv
  BY TypesInit, SafeInit, OrderInit, EndInit
<1>2. Types /\ Safe /\ OrderInv /\ EndInv /\ [Next]_vars => (Types /\ Safe /\ OrderInv /\ EndInv)'
  BY TypesStep, SafeStep, OrderStep, EndStep
<1>3. EndInv => EndsComplete
  BY DEF EndInv
<1> QED
  BY <1>1, <1>2, <1>3, PTL DEF Spec
=============================================================================
