SPECIFICATION Spec
CONSTANTS
    required_samples = 1
    trigger_parameter_sync_step = 2
    StaleNum = 1
    StaleDen = 2
    server_slots = 2
    total_rollout_steps = 7
    pending_maxsize = 1
    test_freq = 2
    MaxFailures = 1
INVARIANTS
    TypeOK
    ResumeSignal
    LockDiscipline
    SampleInOnePlace
    QueueLag
PROPERTIES
    ImplementsPipeline
CHECK_DEADLOCK FALSE
