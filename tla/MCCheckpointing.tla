--------------------------- MODULE MCCheckpointing ---------------------------
(***************************************************************************)
(* Instances of Checkpointing and SFTCheckpointing: which trainers and     *)
(* retention limits a run starts from. A behaviour is one job, of a PPO or *)
(* of an SFT trainer; the state of the other kind stays as it began.       *)
(***************************************************************************)
EXTENDS Checkpointing, TLC

VARIABLES
    job,            \* "ppo" or "sft"
    sft_config, sft_disk, sft_tracker, sft_pc, sft_written, sft_step, sft_pos, sft_epoch,
    sft_weights, sft_paths, sft_run

sft_vars == <<sft_config, sft_disk, sft_tracker, sft_pc, sft_written, sft_step, sft_pos,
              sft_epoch, sft_weights, sft_paths, sft_run>>

Saving(k, freq, critic, a, c) ==
    [kind |-> k, save_freq |-> freq, use_critic |-> critic,
     keep |-> [actor |-> a, critic |-> c]]

\* Limits of two or more and no limit, different for actor and critic. Every
\* third step is within an epoch, every second one at its end.
MCConfigs ==
    {Saving(k, 3, TRUE, 2, 0) : k \in {"ppo", "ppo_sync"}}
    \cup {Saving("ppo", 3, TRUE, 0, 2)}
    \cup {Saving("ppo_sync", 2, FALSE, 2, 0)}
    \cup {Saving(k, 3, FALSE, 2, 0) : k \in {"one_step", "fully_async"}}

\* Every third step is within an epoch, the second and fourth are at the end of one, and
\* four does not divide the six steps. One or two checkpoints are kept, or all.
SFTConfigs == [mode : {"SPMD", "RAY"}, save_freq : 2 .. 4, keep : 0 .. 2]

SFT == INSTANCE SFTCheckpointing
       WITH Ranks <- 0 .. 2, total_epochs <- 3, Configs <- SFTConfigs,
            config <- sft_config, disk <- sft_disk, tracker <- sft_tracker, pc <- sft_pc,
            written <- sft_written, global_step <- sft_step, pos <- sft_pos,
            epoch <- sft_epoch, weights <- sft_weights,
            previous_saved_paths <- sft_paths, run <- sft_run
ASSUME SFTConstants == SFT!SFTAssumption

MCInit ==
    \/ job = "ppo" /\ Init /\ sft_config = (CHOOSE c \in SFTConfigs : TRUE) /\ SFT!Init
    \/ job = "sft" /\ config = (CHOOSE c \in MCConfigs : TRUE) /\ Init /\ SFT!Init
MCNext ==
    \/ job = "ppo" /\ Next /\ UNCHANGED <<job, sft_vars>>
    \/ job = "sft" /\ SFT!Next /\ UNCHANGED <<job, vars>>
MCSpec == MCInit /\ [][MCNext]_<<job, vars, sft_vars>>

\* What SFTCheckpointing promises: a restart finds a checkpoint it can load, but for
\* another rank's torn file.
SFTResumable == SFT!Resumable

\* And batches in order, ranks that leave together, and a complete run.
SFTDataKept == SFT!DataKept

RankSymmetry == Permutations(Ranks)
=============================================================================
