SPECIFICATION Spec
CONSTANTS
    Setups <- MCTwoBatches
    test_freq = 2
    dp_size = 2
    ppo_mini_batch_size = 1
    critic_warmup = 2
    MaxRaises = 1
INVARIANTS
    ValRowsInQueue
CHECK_DEADLOCK FALSE
