---------------------------- MODULE MCTrainStep ----------------------------
EXTENDS TrainStep

\* Four rows on two ranks, one update; the setups below differ from it.
Base ==
    [prompts |-> 2, n |-> 2, num_workers |-> 2, dp_size |-> 2, mp_size |-> 1,
     max_token_len |-> 3, num_batches_divided_by |-> 1, mini_batch_size |-> 4, epochs |-> 1,
     remax |-> FALSE, validate |-> FALSE, balance_batch |-> TRUE,
     use_prefix_grouper |-> FALSE, pipeline |-> FALSE, shuffle |-> FALSE]
With(changes) == changes @@ Base

MCSetups == {
    \* three rows a rank in two to three micro-batches, and one too long
    With([prompts |-> 3, num_workers |-> 3, mini_batch_size |-> 6, max_token_len |-> 4]),
    With([max_token_len |-> 2, balance_batch |-> FALSE]),
    \* replicas of two ranks, as neighbours and as stages of a pipeline
    With([mp_size |-> 2, mini_batch_size |-> 2]),
    With([mp_size |-> 2, pipeline |-> TRUE, num_batches_divided_by |-> 2]),
    With([prompts |-> 3, num_workers |-> 3, mini_batch_size |-> 6, num_batches_divided_by |-> 2]),
    \* two epochs, each in an order of its own
    With([mini_batch_size |-> 2, shuffle |-> TRUE, epochs |-> 2]),
    \* greedy baselines
    With([remax |-> TRUE, n |-> 1, prompts |-> 4, mini_batch_size |-> 2]),
    With([remax |-> TRUE, num_workers |-> 3]),
    \* validation with padding, also by more rows than there are
    With([validate |-> TRUE, prompts |-> 3, n |-> 1]),
    With([validate |-> TRUE, prompts |-> 1, n |-> 2, num_workers |-> 5]),
    \* prompts kept together; and sizes that do not divide
    With([use_prefix_grouper |-> TRUE, prompts |-> 4, num_workers |-> 4, mini_batch_size |-> 4]),
    With([use_prefix_grouper |-> TRUE, prompts |-> 3, num_workers |-> 3]),
    With([num_workers |-> 3]),
    With([prompts |-> 3, n |-> 1, num_workers |-> 3]),
    With([prompts |-> 3, n |-> 1, num_workers |-> 3, balance_batch |-> FALSE]),
    With([mini_batch_size |-> 3])}
=============================================================================
