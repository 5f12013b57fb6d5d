---------------------------- MODULE Checkpointing ----------------------------
(***************************************************************************)
(* Saving, rotating and resuming checkpoints, with a crash between any two *)
(* writes. Four trainers share the code and differ in what they draw ahead *)
(* of training and how they restore the dataloader:                        *)
(*   ppo          RayPPOTrainer.fit                                        *)
(*   ppo_sync     main_ppo_sync.PPOTrainer.fit                             *)
(*   one_step     OneStepOffRayTrainer.fit: one batch is generated ahead   *)
(*   fully_async  FullyAsyncTrainer.fit, fed by the rollouter              *)
(*                                                                         *)
(* A batch is its place in the stream of batches the dataloader yields     *)
(* pass after pass. Weights are the batches they were trained on, in       *)
(* order: two runs that train on the same batches may be told apart by     *)
(* `run`, as generation is not deterministic. rmtree is one step. The      *)
(* resume mode is "auto". One process writes data.pt; the trainer whose    *)
(* ranks each write their own is in SFTCheckpointing.                      *)
(***************************************************************************)
EXTENDS Integers, Sequences, FiniteSets

CONSTANTS
    Ranks,           \* workers of the actor, and of the critic
    N,               \* len(train_dataloader)
    total_epochs,
    critic_warmup,
    trigger_parameter_sync_step,
    Ahead,           \* bound: samples in flight between rollouter and trainer
    MaxCrashes,      \* bound: crashes of the job
    Configs          \* the configurations a run starts from

Kinds == {"ppo", "ppo_sync", "one_step", "fully_async"}

\* keep: max_actor_ckpt_to_keep and max_critic_ckpt_to_keep, 0 for None.
ASSUME CheckpointAssumption ==
    /\ IsFiniteSet(Ranks) /\ Ranks # {}
    /\ N \in Nat \ {0} /\ total_epochs \in Nat \ {0}
    /\ critic_warmup \in Nat
    /\ trigger_parameter_sync_step \in Nat \ {0}
    /\ Ahead \in Nat \ {0} /\ MaxCrashes \in Nat
    /\ Configs \subseteq [kind : Kinds, use_critic : BOOLEAN, save_freq : Nat \ {0},
                          keep : [actor : Nat, critic : Nat]]

VARIABLES
    config,
    disk,           \* the global_step_<s> folders
    tracker,        \* latest_checkpointed_iteration.txt
    pc,             \* where the trainer is
    role,           \* whose save_checkpoint is running
    written,        \* ranks that have written their shard
    global_steps,   \* of the trainer; current_param_version of the fully async one
    local_step,     \* local_trigger_step
    last_ckpt,      \* last_ckpt_version
    pass, pos,      \* batches yielded in this pass over the dataloader
    epoch,          \* of the loop over epochs
    queue,          \* batches drawn and not yet trained on
    fed, feeding,   \* global_steps of the rollouter, and is it still feeding
    weights,        \* what the actor and the critic in memory were trained on
    previous_saved_paths,
    run             \* crashes so far

loader == <<pass, pos, epoch>>
rollouter == <<queue, fed, feeding>>
counters == <<global_steps, local_step, last_ckpt>>
saving == <<role, written, previous_saved_paths>>
vars == <<config, disk, tracker, pc, saving, counters, loader, rollouter, weights, run>>

kind == config.kind
save_freq == config.save_freq
total_steps == N * total_epochs
\* A one_step run resumed after its last step trains one more.
Steps == 0 .. total_steps + MaxCrashes

Absent == -1       \* no tracker file, no data.pt
Torn == -2         \* a file truncated by a crash
NoShard == [run |-> Absent, batches |-> <<>>]
TornShard == [run |-> Torn, batches |-> <<>>]
NoData == [pass |-> 0, pos |-> Absent]
TornData == [pass |-> 0, pos |-> Torn]
NoFolder == [made |-> FALSE, actor |-> [r \in Ranks |-> NoShard],
             critic |-> [r \in Ranks |-> NoShard], data |-> NoData]

Roles == IF config.use_critic THEN {"actor", "critic"} ELSE {"actor"}

Init ==
    /\ config \in Configs
    /\ disk = [s \in Steps |-> NoFolder]
    /\ tracker = Absent
    /\ pc = "load" /\ role = "actor" /\ written = {}
    /\ global_steps = 0 /\ local_step = 1 /\ last_ckpt = 0
    /\ pass = 0 /\ pos = 0 /\ epoch = 0
    /\ queue = <<>> /\ fed = 1 /\ feeding = FALSE
    /\ weights = [run |-> 0, batches |-> <<>>]
    /\ previous_saved_paths = [actor |-> <<>>, critic |-> <<>>]
    /\ run = 0

-----------------------------------------------------------------------------
(* The dataloader, and the loops over epochs that iterate it.              *)

\* StatefulDataLoader yields the next batch, or is iterated again from its
\* start by the next epoch of the loop. An iterator restored at the end of a
\* pass yields nothing in the epoch it is restored in.
HasNext == epoch < total_epochs /\ (pos < N \/ epoch + 1 < total_epochs)
NextBatch == IF pos < N THEN pass * N + pos ELSE (pass + 1) * N
\* Mutant: the iterator runs past its end.
Draw_NoWrap == pos' = pos + 1 /\ UNCHANGED <<pass, epoch>>
Draw ==
    /\ pos' = IF pos < N THEN pos + 1 ELSE 1
    /\ pass' = IF pos < N THEN pass ELSE pass + 1
    /\ epoch' = IF pos < N THEN epoch ELSE epoch + 1

Trained(b) == [run |-> run, batches |-> Append(weights.batches, b)]

-----------------------------------------------------------------------------
(* Start-up: the latest checkpoint is looked up and loaded.                *)

find_latest_ckpt_path ==
    IF tracker \in Steps /\ disk[tracker].made THEN tracker ELSE Absent

Whole(shards) == \A r \in Ranks : shards[r] \notin {NoShard, TornShard}

\* Mutants: the position is not loaded, is loaded at an epoch boundary too,
\* the rest of the epoch is skipped.
Restored_Scratch(s) == [pass |-> 0, pos |-> 0]
Restored_NoBoundary(s) ==
    IF disk[s].data = NoData THEN [pass |-> 0, pos |-> 0] ELSE disk[s].data
Restored_NextEpoch(s) == [pass |-> disk[s].data.pass + 1, pos |-> 0]

\* The position the dataloader starts from. _load_checkpoint of ppo (and of
\* one_step, which inherits it) does not restore it at an epoch boundary.
Restored(s) ==
    LET data == disk[s].data
    IN  IF data = NoData THEN [pass |-> 0, pos |-> 0]
        ELSE IF kind \in {"ppo", "one_step"} /\ s % N = 0
             THEN [pass |-> s \div N, pos |-> 0]
             ELSE data

\* load_checkpoint of the rollouter: it goes on with the samples after those
\* of the versions trained; what was in flight is gone.
StartRollouter(s) ==
    /\ queue' = <<>> /\ feeding' = (kind = "fully_async")
    /\ fed' = s * trigger_parameter_sync_step + 1

\* Everything in memory is new, the list of saved paths included.
Start(s, at, w) ==
    /\ weights' = w
    /\ pass' = at.pass /\ pos' = at.pos
    /\ epoch' = IF kind \in {"one_step", "fully_async"} THEN 0 ELSE s \div N
    /\ global_steps' = IF kind = "fully_async" THEN s ELSE s + 1
    /\ local_step' = 1 /\ last_ckpt' = s
    /\ StartRollouter(s)
    /\ previous_saved_paths' = [actor |-> <<>>, critic |-> <<>>]
    /\ role' = "actor" /\ written' = {}
    /\ pc' = IF kind = "one_step" THEN "prefetch" ELSE "step"
    /\ UNCHANGED <<config, disk, tracker, run>>

\* No tracker file, or none of its folder: training starts from scratch.
LoadNothing ==
    /\ pc = "load" /\ tracker # Torn /\ find_latest_ckpt_path = Absent
    /\ Start(0, [pass |-> 0, pos |-> 0], [run |-> run, batches |-> <<>>])

LoadCheckpoint ==
    /\ pc = "load" /\ tracker # Torn /\ find_latest_ckpt_path # Absent
    /\ \A ro \in Roles : Whole(disk[tracker][ro])
    /\ disk[tracker].data # TornData
    /\ \E r \in Ranks : Start(tracker, Restored(tracker), disk[tracker].actor[r])

\* int("") of a truncated tracker, a shard that is not there, a file cut short.
LoadRaises ==
    /\ pc = "load"
    /\ \/ tracker = Torn
       \/ /\ find_latest_ckpt_path # Absent
          /\ \/ \E ro \in Roles : ~Whole(disk[tracker][ro])
             \/ disk[tracker].data = TornData
    /\ pc' = "failed"
    /\ UNCHANGED <<config, disk, tracker, saving, counters, loader, rollouter, weights, run>>

-----------------------------------------------------------------------------
(* One training step.                                                      *)

is_last_step == global_steps >= total_steps

\* Mutant: the last step is not saved.
SaveDue_NotLast(esi) == global_steps % save_freq = 0

\* esi: the instance is about to expire (should_save_ckpt_esi).
SaveDue(esi) ==
    /\ kind = "ppo" => critic_warmup <= global_steps
    /\ \/ is_last_step
       \/ global_steps % save_freq = 0
       \/ esi /\ kind \in {"ppo", "one_step"}

\* The loops of ppo and ppo_sync draw a batch and train on it.
FitBatch ==
    /\ pc = "step" /\ kind \in {"ppo", "ppo_sync"} /\ HasNext
    /\ Draw
    /\ weights' = Trained(NextBatch)
    /\ \E esi \in BOOLEAN : pc' = IF SaveDue(esi) THEN "capacity" ELSE "post"
    /\ UNCHANGED <<config, disk, tracker, saving, counters, rollouter, run>>

LoopEnds ==
    /\ pc = "step" /\ kind \in {"ppo", "ppo_sync"} /\ ~HasNext
    /\ pc' = "done"
    /\ UNCHANGED <<config, disk, tracker, saving, counters, loader, rollouter, weights, run>>

\* _async_gen_next_batch: the next batch, or None at the end of the iterator.
GenNextBatch ==
    IF HasNext THEN Draw /\ queue' = <<NextBatch>>
               ELSE queue' = <<Absent>> /\ UNCHANGED loader

FirstBatch ==
    /\ pc = "prefetch"
    /\ GenNextBatch
    /\ pc' = "step"
    /\ UNCHANGED <<config, disk, tracker, saving, counters, fed, feeding, weights, run>>

\* fit_step of one_step awaits its batch and starts the next one before it
\* trains, so that a checkpoint is taken with one batch in flight.
FitOneStep ==
    /\ pc = "step" /\ kind = "one_step" /\ Head(queue) # Absent
    /\ IF is_last_step THEN queue' = <<>> /\ UNCHANGED loader ELSE GenNextBatch
    /\ weights' = Trained(Head(queue))
    /\ \E esi \in BOOLEAN : pc' = IF SaveDue(esi) THEN "capacity" ELSE "post"
    /\ UNCHANGED <<config, disk, tracker, saving, counters, fed, feeding, run>>

\* The result None cannot be unpacked.
OneStepRaises ==
    /\ pc = "step" /\ kind = "one_step" /\ Head(queue) = Absent
    /\ pc' = "failed"
    /\ UNCHANGED <<config, disk, tracker, saving, counters, loader, rollouter, weights, run>>

\* The rollouter feeds samples while the trainer trains and saves.
FeedSample ==
    /\ feeding /\ Len(queue) < Ahead
    /\ IF HasNext
       THEN /\ Draw
            /\ queue' = Append(queue, NextBatch)
            /\ feeding' = (fed < total_steps)
            /\ fed' = IF fed < total_steps THEN fed + 1 ELSE fed
       ELSE feeding' = FALSE /\ UNCHANGED <<loader, queue, fed>>
    /\ UNCHANGED <<config, disk, tracker, pc, saving, counters, weights, run>>

\* _fit_save_checkpoint of the fully async trainer, which names a checkpoint
\* after the parameter version and saves no version twice.
SaveVersionDue(version, esi) ==
    version # last_ckpt /\ (version % save_freq = 0 \/ esi)

\* fit_step of the fully async trainer: samples arrive in the order their
\* generations finish.
FitSample ==
    /\ pc = "step" /\ kind = "fully_async" /\ queue # <<>>
    /\ \E i \in 1 .. Len(queue) :
         /\ weights' = Trained(queue[i])
         /\ queue' = SubSeq(queue, 1, i - 1) \o SubSeq(queue, i + 1, Len(queue))
    /\ IF local_step < trigger_parameter_sync_step
       THEN local_step' = local_step + 1 /\ UNCHANGED global_steps
       ELSE local_step' = 1 /\ global_steps' = global_steps + 1
    /\ \E esi \in BOOLEAN :
         pc' = IF SaveVersionDue(global_steps', esi) THEN "capacity" ELSE "step"
    /\ UNCHANGED <<config, disk, tracker, saving, last_ckpt, loader, fed, feeding, run>>

\* The queue ended: _fit_save_checkpoint(force=True), which saves nothing
\* when this version was saved already.
StopSamples ==
    /\ pc = "step" /\ kind = "fully_async" /\ queue = <<>> /\ ~feeding
    /\ pc' = IF global_steps = last_ckpt THEN "done" ELSE "capacity"
    /\ UNCHANGED <<config, disk, tracker, saving, counters, loader, rollouter, weights, run>>

PostStep ==
    /\ pc = "post"
    /\ pc' = IF is_last_step THEN "done" ELSE "step"
    /\ global_steps' = global_steps + 1
    /\ UNCHANGED <<config, disk, tracker, saving, local_step, last_ckpt, loader,
                   rollouter, weights, run>>

-----------------------------------------------------------------------------
(* Saving: actor, critic, dataloader, then the tracker.                    *)

max_ckpt_to_keep == config.keep[role]
saved == previous_saved_paths[role]

\* A saved path is the role's part of the folder.
remove_previous_save_local_path(d, paths) ==
    [s \in Steps |-> IF \A i \in DOMAIN paths : paths[i] # s THEN d[s]
                     ELSE [d[s] EXCEPT ![role] = [r \in Ranks |-> NoShard]]]

\* Mutants: one checkpoint too many is kept; the oldest are kept.
KeepNewest_OneMore(d, paths, n) ==
    LET keep_start == IF Len(paths) > n THEN Len(paths) - n - 1 ELSE 0
    IN  /\ disk' = remove_previous_save_local_path(d, SubSeq(paths, 1, keep_start))
        /\ previous_saved_paths' = [previous_saved_paths EXCEPT
                ![role] = SubSeq(paths, keep_start + 1, Len(paths))]
KeepNewest_Oldest(d, paths, n) ==
    /\ disk' = remove_previous_save_local_path(d, SubSeq(paths, n + 1, Len(paths)))
    /\ previous_saved_paths' = [previous_saved_paths EXCEPT ![role] = SubSeq(paths, 1, n)]

\* Remove all but the newest n of the saved paths.
KeepNewest(d, paths, n) ==
    LET keep_start == Len(paths) - n
    IN  /\ disk' = remove_previous_save_local_path(d, SubSeq(paths, 1, keep_start))
        /\ previous_saved_paths' = [previous_saved_paths EXCEPT
                ![role] = SubSeq(paths, keep_start + 1, Len(paths))]

\* With the folder made, which every rank does before the barrier.
ensure_checkpoint_capacity ==
    /\ pc = "capacity"
    /\ LET made == [disk EXCEPT ![global_steps].made = TRUE]
       IN  IF max_ckpt_to_keep > 1 /\ Len(saved) >= max_ckpt_to_keep
           THEN KeepNewest(made, saved, max_ckpt_to_keep - 1)
           ELSE disk' = made /\ UNCHANGED previous_saved_paths
    /\ pc' = "shards"
    /\ UNCHANGED <<config, tracker, role, written, counters, loader, rollouter, weights, run>>

\* Mutant: no barrier, the first rank's shard is enough.
Barrier_None == written # {}
Barrier == written = Ranks

WriteShard(r) ==
    /\ pc = "shards" /\ r \notin written
    /\ disk' = [disk EXCEPT ![global_steps][role][r] = weights]
    /\ written' = written \cup {r}
    /\ UNCHANGED <<config, tracker, pc, role, previous_saved_paths, counters, loader,
                   rollouter, weights, run>>

\* _save_checkpoint saves the actor, then the critic, then the rest.
NextRole ==
    IF role = "actor" /\ config.use_critic
    THEN role' = "critic" /\ pc' = "capacity"
    ELSE role' = "actor" /\ pc' = "data"

\* The barrier, and rank 0 registers the path.
register_checkpoint ==
    /\ pc = "shards" /\ Barrier
    /\ LET paths == Append(saved, global_steps)
       IN  KeepNewest(disk, paths, IF max_ckpt_to_keep = 0 \/ Len(paths) <= max_ckpt_to_keep
                                   THEN Len(paths) ELSE max_ckpt_to_keep)
    /\ written' = {}
    /\ NextRole
    /\ UNCHANGED <<config, tracker, counters, loader, rollouter, weights, run>>

\* Mutant: the position is taken from the number of samples trained on.
LoaderState_Consumed ==
    [pass |-> Len(weights.batches) \div N, pos |-> Len(weights.batches) % N]
LoaderState == [pass |-> pass, pos |-> pos]

\* state_dict of the dataloader where it is now, which for the fully async
\* trainer is wherever the rollouter has got to.
SaveData ==
    /\ pc = "data"
    /\ disk' = [disk EXCEPT ![global_steps].made = TRUE,
                            ![global_steps].data = LoaderState]
    /\ pc' = "truncate"
    /\ UNCHANGED <<config, tracker, saving, counters, loader, rollouter, weights, run>>

\* open(..., "w") empties the tracker before it is written.
TruncateTracker ==
    /\ pc = "truncate"
    /\ tracker' = Torn
    /\ pc' = "tracker"
    /\ UNCHANGED <<config, disk, saving, counters, loader, rollouter, weights, run>>

WriteTracker ==
    /\ pc = "tracker"
    /\ tracker' = global_steps
    /\ last_ckpt' = global_steps
    /\ pc' = IF kind = "fully_async" THEN "step" ELSE "post"
    /\ UNCHANGED <<config, disk, saving, global_steps, local_step, loader, rollouter,
                   weights, run>>

-----------------------------------------------------------------------------
\* The job dies and is started again. A file that was being written is left
\* as it was or cut short.
Crash ==
    /\ run < MaxCrashes /\ pc \notin {"load", "done", "failed"}
    /\ run' = run + 1
    /\ pc' = "load"
    /\ \/ UNCHANGED disk
       \/ /\ pc = "shards"
          /\ \E torn \in SUBSET (Ranks \ written) :
               disk' = [disk EXCEPT ![global_steps][role] =
                          [r \in Ranks |-> IF r \in torn THEN TornShard ELSE @[r]]]
       \/ /\ pc = "data"
          /\ disk' = [disk EXCEPT ![global_steps].data = TornData]
    /\ feeding' = FALSE
    /\ UNCHANGED <<config, tracker, saving, counters, loader, queue, fed, weights>>

Finished == pc \in {"done", "failed"} /\ UNCHANGED vars

Trainer ==
    \/ LoadNothing \/ LoadCheckpoint \/ LoadRaises
    \/ FitBatch \/ LoopEnds
    \/ FirstBatch \/ FitOneStep \/ OneStepRaises
    \/ FitSample \/ StopSamples
    \/ PostStep
    \/ ensure_checkpoint_capacity \/ (\E r \in Ranks : WriteShard(r)) \/ register_checkpoint
    \/ SaveData \/ TruncateTracker \/ WriteTracker

Next == Trainer \/ FeedSample \/ Crash \/ Finished

Spec == Init /\ [][Next]_vars

-----------------------------------------------------------------------------
(* Properties.                                                             *)

Shards == [run : Int, batches : Seq(Nat)]
Data == [pass : Nat, pos : -2 .. N]
TypeOK ==
    /\ config \in Configs
    /\ DOMAIN disk = Steps
    /\ \A s \in Steps :
         /\ disk[s].made \in BOOLEAN /\ disk[s].data \in Data
         /\ \A r \in Ranks : disk[s].actor[r] \in Shards /\ disk[s].critic[r] \in Shards
    /\ tracker \in {Absent, Torn} \cup Steps
    /\ pc \in {"load", "prefetch", "step", "capacity", "shards", "data", "truncate",
               "tracker", "post", "done", "failed"}
    /\ role \in Roles /\ written \subseteq Ranks
    /\ global_steps \in 0 .. total_steps + MaxCrashes + 1
    /\ local_step \in 1 .. trigger_parameter_sync_step /\ last_ckpt \in Steps
    /\ pass \in Nat /\ pos \in 0 .. N /\ epoch \in Nat
    /\ queue \in Seq(Nat \cup {Absent}) /\ fed \in Nat /\ feeding \in BOOLEAN
    /\ weights \in Shards
    /\ \A ro \in {"actor", "critic"} : previous_saved_paths[ro] \in Seq(Steps)
    /\ run \in 0 .. MaxCrashes

\* Drawn from the stream so far, and trained on by the weights in memory.
Drawn == pass * N + pos
TrainedOn == {weights.batches[i] : i \in DOMAIN weights.batches}
Queued == {queue[i] : i \in DOMAIN queue}

\* At every moment the checkpoint the tracker file names can be resumed from:
\* every shard of the actor and of the critic is there, all of them are of
\* the same weights, and so is the dataloader's position. Rotation
\* (ensure_checkpoint_capacity, register_checkpoint), a save into a folder a
\* crash left half written, and the order of _save_checkpoint are what could
\* break it.
TrackedComplete ==
    tracker \in Steps =>
        LET folder == disk[tracker]
        IN  /\ folder.data.pos \in 0 .. N
            /\ \E w \in {folder.actor[r] : r \in Ranks} \ {NoShard, TornShard} :
                 \A ro \in Roles, r \in Ranks : folder[ro][r] = w

\* A restart fails only on a tracker file that a crash left empty, and a run
\* only in a restart. (one_step also fails at the end of a resumed run: it draws
\* from range(total_epochs) passes however far the run it resumes had got.)
ResumesUnlessTorn == pc = "failed" /\ kind # "one_step" => tracker = Torn

\* Crash or not, the weights of ppo and ppo_sync were trained on every
\* batch once and in the dataloader's order: the position in data.pt and the
\* weights next to it belong together, at an epoch boundary too.
ScheduleKept ==
    kind \in {"ppo", "ppo_sync"} =>
        weights.batches = [i \in 1 .. Len(weights.batches) |-> i - 1]

\* No batch of the stream is trained on twice, although the rollouter draws
\* while the trainer saves: the position saved is beyond every batch in the
\* weights saved before it. one_step does repeat one: after it has lost a
\* batch, the epoch boundary of global_steps is not the dataloader's.
NeverTwice ==
    kind # "one_step" =>
        \A i, j \in DOMAIN weights.batches :
            weights.batches[i] = weights.batches[j] => i = j

\* What a crash costs: of the batches drawn, only those in flight when the
\* checkpoint was taken are never trained on.
LostInFlight ==
    kind \in {"one_step", "fully_async"} =>
        Cardinality((0 .. Drawn - 1) \ (TrainedOn \cup Queued))
            <= run * (IF kind = "one_step" THEN 1 ELSE Ahead)

\* Over all crashes and restarts batches are trained on in order, none twice, and only
\* what was in flight is lost.
TrainedInOrder == ScheduleKept /\ NeverTwice /\ LostInFlight

\* Checkpoints on disk: max_ckpt_to_keep for every start of the job, as
\* previous_saved_paths begins empty each time.
RotationBound ==
    \A ro \in Roles : config.keep[ro] > 1 =>
        Cardinality({s \in Steps : \E r \in Ranks : disk[s][ro][r] # NoShard})
            <= config.keep[ro] * (run + 1)

\* After a crash between any two writes there is something to resume from: what the
\* tracker names is complete, only an empty tracker file stops a restart, and
\* rotation keeps that much and no more.
Resumable == TrackedComplete /\ ResumesUnlessTorn /\ RotationBound

\* A run that ends has trained all its steps, however often it was resumed. The
\* fully async one is short of the samples its crashes lost; ppo_sync, which restores
\* an exhausted dataloader at an epoch boundary, of one epoch.
RunsToTheEnd ==
    pc = "done" =>
        Len(weights.batches)
            >= total_steps - (IF kind = "fully_async" THEN run * Ahead
                              ELSE IF kind = "ppo_sync" /\ run > 0 THEN N ELSE 0)

\* A run that ends has saved its last weights; the fully async trainer may
\* leave out the steps since the version it saved last, and a run that ends an epoch
\* short, which has no last step, those since it last saved.
FinalSaved ==
    pc = "done" =>
        /\ tracker \in Steps
        /\ \A r \in Ranks :
             Len(weights.batches) - Len(disk[tracker].actor[r].batches)
               < (IF kind = "fully_async" THEN trigger_parameter_sync_step
                  ELSE IF Len(weights.batches) < total_steps THEN save_freq ELSE 1)

\* A run that ends, resumed or not, has trained all its steps and saved the last.
EndsComplete == RunsToTheEnd /\ FinalSaved
=============================================================================
