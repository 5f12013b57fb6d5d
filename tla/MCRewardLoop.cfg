SPECIFICATION Spec
CONSTANTS
  Setups <- MCSetups
  Second = 2
  PoolSize = 2
  max_retries = 2
  max_attempts = 2
  MaxNow = 16
INVARIANTS
    LimiterExact
    WithinCapacity
    ScoresTrue
PROPERTIES
    EveryRowEnds
