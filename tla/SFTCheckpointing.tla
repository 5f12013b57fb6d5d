-------------------------- MODULE SFTCheckpointing --------------------------
(***************************************************************************)
(* Saving and resuming the SFT trainers with CheckpointHandler, with a     *)
(* crash between any two writes. In mode "SPMD" (sft_trainer.py under      *)
(* torchrun) every data parallel rank has a dataloader of its own and      *)
(* writes its own data_<rank>.pt, while rank 0 renames the tracker file;   *)
(* no barrier is between the two. In mode "RAY" (sft_trainer_ray.py) one   *)
(* driver has the only dataloader. Both shard the model over the ranks.    *)
(*                                                                         *)
(* A batch of a loader is <<epoch, index>>: the sampler shuffles by the    *)
(* epoch of the loop. Weights are the batches of the loaders they were     *)
(* trained on, in order; `run' tells runs apart that train on the same. A  *)
(* rank has no tensor or sequence parallel peers, validation is left out,  *)
(* the resume mode is "auto", and nothing is copied to HDFS.               *)
(***************************************************************************)
EXTENDS Integers, SequencesExt, FiniteSets

CONSTANTS
    Ranks,           \* data parallel ranks
    N,               \* steps_per_epoch: len(train_dataloader)
    total_epochs,
    MaxCrashes,      \* bound: crashes of the job
    Configs          \* the configurations a run starts from

\* keep: max_ckpt_to_keep, 0 for None.
SFTAssumption ==
    /\ IsFiniteSet(Ranks) /\ Ranks \subseteq Nat /\ 0 \in Ranks
    /\ N \in Nat \ {0} /\ total_epochs \in Nat \ {0} /\ MaxCrashes \in Nat
    /\ Configs \subseteq [mode : {"SPMD", "RAY"}, save_freq : Nat \ {0}, keep : Nat]

VARIABLES
    config,
    disk,           \* the global_step_<s> folders
    tracker,        \* latest_checkpointed_iteration.txt
    pc,             \* where the trainer is; its ranks meet at barriers and collectives
    written,        \* ranks, or loaders, that have written their file of this save
    global_step,
    pos,            \* of each loader: batches yielded in this epoch
    epoch,          \* of each loader's loop over epochs
    weights,        \* what the model in memory was trained on
    previous_saved_paths,
    run             \* crashes so far

loaders == <<pos, epoch>>
vars == <<config, disk, tracker, pc, written, global_step, loaders, weights,
          previous_saved_paths, run>>

save_freq == config.save_freq
max_ckpt_to_keep == config.keep
total_training_steps == N * total_epochs
Steps == 0 .. total_training_steps

\* Who has a dataloader: the ranks, or the driver alone.
Loaders == IF config.mode = "SPMD" THEN Ranks ELSE {0}

Absent == -1       \* no such file
Torn == -2         \* a file truncated by a crash
NoShard == [run |-> Absent, batches |-> <<>>]
TornShard == [run |-> Torn, batches |-> <<>>]
NoFolder == [made |-> FALSE, model |-> [r \in Ranks |-> NoShard],
             data |-> [r \in Ranks |-> Absent]]

Init ==
    /\ config \in Configs
    /\ disk = [s \in Steps |-> NoFolder]
    /\ tracker = Absent
    /\ pc = "load" /\ written = {}
    /\ global_step = 0
    /\ pos = [l \in Loaders |-> 0] /\ epoch = [l \in Loaders |-> 0]
    /\ weights = [run |-> 0, batches |-> <<>>]
    /\ previous_saved_paths = <<>>
    /\ run = 0

-----------------------------------------------------------------------------
(* Start-up: every rank looks up the latest checkpoint and loads its part. *)

_find_latest_checkpoint ==
    IF tracker \in Steps /\ disk[tracker].made THEN tracker ELSE Absent

Whole(s) == \A r \in Ranks : disk[s].model[r] \notin {NoShard, TornShard}
AnyTorn(s) == \E l \in Loaders : disk[s].data[l] = Torn

\* Mutant: the state is not restored.
_load_dataloader_state_Scratch(s, l) == 0

\* Without a file of its own a loader starts from scratch.
_load_dataloader_state(s, l) ==
    IF disk[s].data[l] = Absent THEN 0 ELSE disk[s].data[l]

Start(s, w, at) ==
    /\ weights' = w
    /\ global_step' = s
    /\ pos' = at
    /\ epoch' = [l \in Loaders |-> s \div N]
    /\ previous_saved_paths' = <<>> /\ written' = {}
    /\ pc' = "step"
    /\ UNCHANGED <<config, disk, tracker, run>>

LoadNothing ==
    /\ pc = "load" /\ _find_latest_checkpoint = Absent
    /\ Start(0, [run |-> run, batches |-> <<>>], [l \in Loaders |-> 0])

LoadCheckpoint ==
    /\ pc = "load" /\ _find_latest_checkpoint # Absent
    /\ Whole(tracker) /\ ~AnyTorn(tracker)
    /\ \E r \in Ranks :
         Start(tracker, disk[tracker].model[r],
               [l \in Loaders |-> _load_dataloader_state(tracker, l)])

\* A shard that is not there, a file cut short.
LoadRaises ==
    /\ pc = "load" /\ _find_latest_checkpoint # Absent
    /\ ~Whole(tracker) \/ AnyTorn(tracker)
    /\ pc' = "failed"
    /\ UNCHANGED <<config, disk, tracker, written, global_step, loaders, weights,
                   previous_saved_paths, run>>

-----------------------------------------------------------------------------
(* fit: a loop over epochs around the dataloader, in step on all ranks.    *)

\* Mutant: one epoch too many.
HasNext_OneMore(l) == epoch[l] < total_epochs

\* An iterator restored at the end of its epoch yields nothing in it.
HasNext(l) == epoch[l] < total_epochs /\ (pos[l] < N \/ epoch[l] + 1 < total_epochs)

is_last_step(s) == s >= total_training_steps

\* Mutant: the last step is not saved.
SaveDue_NotLast(s) == s % save_freq = 0
SaveDue(s) == is_last_step(s) \/ s % save_freq = 0

\* train_batch reduces gradients over the ranks: every loader must have a batch.
TrainBatch ==
    /\ pc = "step" /\ \A l \in Loaders : HasNext(l)
    /\ epoch' = [l \in Loaders |-> IF pos[l] < N THEN epoch[l] ELSE epoch[l] + 1]
    /\ pos' = [l \in Loaders |-> IF pos[l] < N THEN pos[l] + 1 ELSE 1]
    /\ weights' = [run |-> run,
                   batches |-> Append(weights.batches,
                                      [l \in Loaders |-> <<epoch'[l], pos'[l] - 1>>])]
    /\ global_step' = global_step + 1
    /\ pc' = IF SaveDue(global_step') THEN "capacity" ELSE "step"
    /\ UNCHANGED <<config, disk, tracker, written, previous_saved_paths, run>>

\* The loop over epochs ends everywhere, or the ranks that go on wait in a
\* collective for those that have left.
EpochsEnd ==
    /\ pc = "step" /\ \E l \in Loaders : ~HasNext(l)
    /\ pc' = IF \E l \in Loaders : HasNext(l) THEN "hung" ELSE "done"
    /\ UNCHANGED <<config, disk, tracker, written, global_step, loaders, weights,
                   previous_saved_paths, run>>

-----------------------------------------------------------------------------
(* save_checkpoint: the model, the dataloaders, the tracker.               *)

\* Mutant: the oldest are kept.
KeepNewest_Oldest(d, paths, n) ==
    /\ disk' = [s \in Steps |-> IF s \in Range(SubSeq(paths, n + 1, Len(paths))) THEN NoFolder
                                ELSE d[s]]
    /\ previous_saved_paths' = SubSeq(paths, 1, n)

\* Remove all but the newest n of the saved paths; a path is the whole folder.
KeepNewest(d, paths, n) ==
    LET keep_start == Len(paths) - n
    IN  /\ disk' = [s \in Steps |-> IF s \in Range(SubSeq(paths, 1, keep_start)) THEN NoFolder
                                    ELSE d[s]]
        /\ previous_saved_paths' = SubSeq(paths, keep_start + 1, Len(paths))

\* Rank 0 makes room, every rank makes the folder, and they meet at a barrier.
ensure_checkpoint_capacity ==
    /\ pc = "capacity"
    /\ LET made == [disk EXCEPT ![global_step].made = TRUE]
       IN  IF max_ckpt_to_keep > 1 /\ Len(previous_saved_paths) >= max_ckpt_to_keep
           THEN KeepNewest(made, previous_saved_paths, max_ckpt_to_keep - 1)
           ELSE disk' = made /\ UNCHANGED previous_saved_paths
    /\ pc' = "shards"
    /\ UNCHANGED <<config, tracker, written, global_step, loaders, weights, run>>

WriteShard(r) ==
    /\ pc = "shards" /\ r \in Ranks \ written
    /\ disk' = [disk EXCEPT ![global_step].model[r] = weights]
    /\ written' = written \cup {r}
    /\ UNCHANGED <<config, tracker, pc, global_step, loaders, weights,
                   previous_saved_paths, run>>

\* Mutant: no barrier, the first rank's shard is enough.
Barrier_None == written # {}
Barrier == written = Ranks

\* Past the barrier rank 0 registers the folder, and all ranks meet once more.
register_checkpoint ==
    /\ pc = "shards" /\ Barrier
    /\ LET paths == Append(previous_saved_paths, global_step)
       IN  KeepNewest(disk, paths, IF max_ckpt_to_keep = 0 \/ Len(paths) <= max_ckpt_to_keep
                                   THEN Len(paths) ELSE max_ckpt_to_keep)
    /\ written' = {}
    /\ pc' = "data"
    /\ UNCHANGED <<config, tracker, global_step, loaders, weights, run>>

\* Every loader's state goes into a file of its own, at its own time.
SaveData(l) ==
    /\ pc = "data" /\ l \in Loaders \ written
    /\ disk' = [disk EXCEPT ![global_step].data[l] = pos[l]]
    /\ written' = written \cup {l}
    /\ UNCHANGED <<config, tracker, pc, global_step, loaders, weights,
                   previous_saved_paths, run>>

\* Mutant: the tracker goes first.
DataSaved_First == TRUE

\* What rank 0 waits for before it renames the tracker: its own file.
DataSaved == 0 \in written

\* A finished temporary file is renamed: the tracker is never seen half written.
RenameTracker ==
    /\ pc = "data" /\ DataSaved /\ tracker # global_step
    /\ tracker' = global_step
    /\ UNCHANGED <<config, disk, pc, written, global_step, loaders, weights,
                   previous_saved_paths, run>>

\* The barrier at the end; after the last step fit returns.
Saved ==
    /\ pc = "data" /\ written = Loaders /\ tracker = global_step
    /\ written' = {}
    /\ pc' = IF is_last_step(global_step) THEN "done" ELSE "step"
    /\ UNCHANGED <<config, disk, tracker, global_step, loaders, weights,
                   previous_saved_paths, run>>

-----------------------------------------------------------------------------
\* The job dies, or is killed when it hangs, and is started again. A file that was
\* being written is left as it was or cut short.
Crash ==
    /\ run < MaxCrashes /\ pc \notin {"load", "done", "failed"}
    /\ run' = run + 1
    /\ pc' = "load"
    /\ \/ UNCHANGED disk
       \/ /\ pc = "shards"
          /\ \E torn \in SUBSET (Ranks \ written) :
               disk' = [disk EXCEPT ![global_step].model =
                          [r \in Ranks |-> IF r \in torn THEN TornShard ELSE @[r]]]
       \/ /\ pc = "data"
          /\ \E torn \in SUBSET (Loaders \ written) :
               disk' = [disk EXCEPT ![global_step].data =
                          [r \in Ranks |-> IF r \in torn THEN Torn ELSE @[r]]]
    /\ UNCHANGED <<config, tracker, written, global_step, loaders, weights,
                   previous_saved_paths>>

Finished == pc \in {"done", "failed", "hung"} /\ UNCHANGED vars

Next ==
    \/ LoadNothing \/ LoadCheckpoint \/ LoadRaises
    \/ TrainBatch \/ EpochsEnd
    \/ ensure_checkpoint_capacity \/ (\E r \in Ranks : WriteShard(r)) \/ register_checkpoint
    \/ (\E l \in Loaders : SaveData(l)) \/ RenameTracker \/ Saved
    \/ Crash \/ Finished

Spec == Init /\ [][Next]_vars

-----------------------------------------------------------------------------
(* Properties.                                                             *)

Model == [run : Int, batches : Seq([Loaders -> (0 .. total_epochs - 1) \X (0 .. N - 1)])]
TypeOK ==
    /\ config \in Configs
    /\ DOMAIN disk = Steps
    /\ \A s \in Steps :
         /\ disk[s].made \in BOOLEAN
         /\ \A r \in Ranks : disk[s].model[r] \in Model /\ disk[s].data[r] \in -2 .. N
    /\ tracker \in {Absent} \cup Steps
    /\ pc \in {"load", "step", "capacity", "shards", "data", "done", "failed", "hung"}
    /\ written \subseteq Ranks
    /\ global_step \in Steps
    /\ pos \in [Loaders -> 0 .. N] /\ epoch \in [Loaders -> 0 .. total_epochs]
    /\ weights \in Model
    /\ previous_saved_paths \in Seq(Steps)
    /\ run \in 0 .. MaxCrashes

\* The checkpoint the tracker names holds the model, whole and of as many steps as its
\* name says, and the state of rank 0's dataloader.
TrackedLoads ==
    tracker \in Steps =>
        /\ disk[tracker].made /\ Whole(tracker)
        /\ Len(disk[tracker].model[0].batches) = tracker
        /\ \A r \in Ranks : disk[tracker].model[r] = disk[tracker].model[0]
        /\ disk[tracker].data[0] \in 0 .. N

\* A restart fails only for the torn file of another rank, which rank 0 does not wait
\* for; a driver with one dataloader always resumes.
ResumesUnlessTorn ==
    pc = "failed" =>
        config.mode = "SPMD" /\ \E l \in Loaders \ {0} : disk[tracker].data[l] = Torn

RotationBound ==
    max_ckpt_to_keep > 1 =>
        Cardinality({s \in Steps : disk[s].made}) <= max_ckpt_to_keep * (run + 1)

\* After a crash between any two writes, also of a save into a folder that an earlier
\* crash left half written, there is a checkpoint to resume from; unless only one is
\* kept, which register_checkpoint removes before the tracker names the next.
Resumable ==
    /\ TypeOK
    /\ max_ckpt_to_keep # 1 => TrackedLoads /\ ResumesUnlessTorn /\ RotationBound

Index(l, i) == weights.batches[i][l][2]

\* The place in the pass over the data is kept over crashes and restarts: a rank goes on
\* with the batch after the last one in the weights, and only one other than rank 0 may
\* start over, its file being written after the tracker. So a pass of the driver, or of
\* rank 0, has every batch once. (A limit of one as above.)
PlaceKept ==
    max_ckpt_to_keep # 1 => \A i \in DOMAIN weights.batches, l \in Loaders :
        \/ Index(l, i) = (IF i = 1 THEN 0 ELSE (Index(l, i - 1) + 1) % N)
        \/ l # 0 /\ run > 0 /\ Index(l, i) = 0

\* A run that ends has trained all its steps and saved the last, or, after a restart at
\* an epoch boundary, which restores an exhausted dataloader, trained one epoch less and
\* saved all but fewer than save_freq. Ranks leave the loop over epochs together, so
\* that none waits in a collective for one that left, with one dataloader always and
\* with several unless there was a crash.
EndsComplete ==
    /\ pc = "done" =>
         /\ Len(weights.batches) >= total_training_steps - (IF run > 0 THEN N ELSE 0)
         /\ Len(weights.batches) - tracker <
              (IF Len(weights.batches) < total_training_steps THEN save_freq ELSE 1)
    /\ pc = "hung" => config.mode = "SPMD" /\ run > 0

\* However often the job was killed, its ranks keep their places in the data and leave it
\* together, and a run that ends has trained and saved what it should.
DataKept == PlaceKept /\ EndsComplete
=============================================================================
