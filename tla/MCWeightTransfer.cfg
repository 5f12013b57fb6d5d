SPECIFICATION Spec
CONSTANTS
    R = 3
    bucket_size = 2
    MaxRounds = 2
    Setups <- MCSetups
INVARIANTS
    WeightsDelivered
PROPERTIES
    EveryRoundEnds
CHECK_DEADLOCK FALSE
