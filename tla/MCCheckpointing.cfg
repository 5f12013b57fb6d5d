SPECIFICATION MCSpec
CONSTANTS
    Ranks = {r1, r2}
    N = 2
    total_epochs = 2
    critic_warmup = 0
    trigger_parameter_sync_step = 2
    Ahead = 2
    MaxCrashes = 2
    Configs <- MCConfigs
INVARIANTS
    TypeOK
    Resumable
    TrainedInOrder
    EndsComplete
    SFTResumable
    SFTDataKept
SYMMETRY RankSymmetry
