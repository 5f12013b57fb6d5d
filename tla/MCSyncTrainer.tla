--------------------------- MODULE MCSyncTrainer ---------------------------
EXTENDS SyncTrainer

MCSetup(prompts, sessions, outputs, steps, batches, before) ==
    [train_batch_size |-> prompts, val_batch_size |-> 1, val_batches |-> batches,
     total_training_steps |-> steps, n |-> sessions, val_n |-> 1, MaxOutputs |-> outputs,
     val_before_train |-> before]

\* Two steps with three sessions of a prompt (one raises, one ends, one is late)
\* or with two prompts, one step with both and several outputs, one whose session
\* has up to three outputs, two steps after a validation, and a validation of two
\* batches.
MCSetups == {MCSetup(1, 3, 1, 2, 1, FALSE), MCSetup(2, 1, 1, 2, 1, FALSE),
             MCSetup(2, 2, 2, 1, 1, FALSE), MCSetup(1, 1, 3, 1, 1, FALSE),
             MCSetup(1, 1, 2, 2, 1, TRUE),
             MCSetup(1, 1, 1, 1, 2, TRUE)}

\* A validation set of two batches.
MCTwoBatches == {MCSetup(1, 1, 1, 1, 2, TRUE)}
=============================================================================
