SPECIFICATION Spec
CONSTANTS
    prompt_length = 2
    response_length = 5
    max_assistant_turns = 0
    max_user_turns = 0
    max_parallel_calls = 2
    calculate_log_probs = TRUE
    image_processor = TRUE
    may_be_cut = FALSE
    Truncations <- MCTruncations
    TextLengths = {1, 4}
    MaxToolTokens = 2
    MaxImages = 1
    MaxVersion = 2
INVARIANTS
    UsableTrajectory
    ToolTextBounded
PROPERTIES
    LoopEnds
CHECK_DEADLOCK FALSE
