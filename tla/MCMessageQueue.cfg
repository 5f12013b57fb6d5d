SPECIFICATION Spec
CONSTANTS
    Consumer = {c1, c2}
    max_queue_size = 2
    MaxPuts = 5
    MaxValidate = 1
INVARIANTS
    QueueTrue
    NoSleepOnWork
PROPERTIES
    HandedOutInOrder
    ShutdownReleases
CHECK_DEADLOCK FALSE
