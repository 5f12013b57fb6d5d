SPECIFICATION Spec
CONSTANTS
    required_samples = 2
    trigger_parameter_sync_step = 1
    StaleNum = 0
    StaleDen = 1
    server_slots = 2
    total_rollout_steps = 7
    pending_maxsize = 1
    test_freq = 2
    MaxFailures = 1
INVARIANTS
    Synchronous
CHECK_DEADLOCK FALSE
