-------------------------- MODULE FullyAsyncTrainer --------------------------
(***************************************************************************)
(* The FullyAsyncTrainer actor: fit_step collects required_samples from    *)
(* the queue, updates the model, and every trigger_parameter_sync_step     *)
(* updates sends the weights to the rollout replicas and reopens the       *)
(* rollouter's budget with reset_staleness. reset_staleness runs on the    *)
(* rollouter's event loop, under its lock.                                 *)
(***************************************************************************)
EXTENDS FullyAsyncBase

rolloutVars == <<feedVars, pending_queue, procVars, active_tasks, task, mainVars,
                 monVars>>

\* Faulty variant: the sample is read but stays in the queue.
TrainCollect_Peek ==
    /\ trainer = "collect"
    /\ queue # <<>>
    /\ UNCHANGED queue
    /\ IF Head(queue) = None
       THEN trainer' = "final" /\ stopping' = TRUE /\ UNCHANGED batch
       ELSE /\ batch' = Append(batch, Head(queue))
            /\ trainer' = IF Len(batch') = required_samples THEN "train" ELSE "collect"
            /\ UNCHANGED stopping
    /\ UNCHANGED <<rolloutVars, stampVars, ctlVars, lock, dropped, trained, local_trigger_step,
                   current_param_version, rollout_version, active_seen>>

\* One turn of _get_samples_from_queue's loop. None ends the training: what
\* was collected for the unfinished batch is never trained on.
TrainCollect ==
    /\ trainer = "collect"
    /\ queue # <<>>
    /\ queue' = Tail(queue)
    /\ IF Head(queue) = None
       THEN trainer' = "final" /\ stopping' = TRUE /\ UNCHANGED batch
       ELSE /\ batch' = Append(batch, Head(queue))
            /\ trainer' = IF Len(batch') = required_samples THEN "train" ELSE "collect"
            /\ UNCHANGED stopping
    /\ UNCHANGED <<rolloutVars, stampVars, ctlVars, lock, dropped, trained, local_trigger_step,
                   current_param_version, rollout_version, active_seen>>

InBatch == {batch[i] : i \in 1 .. Len(batch)}

\* The stamps are history: no longer needed once the sample was used.
Forget(stamp) == [s \in Sample |-> IF s \in InBatch THEN -1 ELSE stamp[s]]

\* Faulty variant: the version is raised, and the weights sent, at every step.
TrainStep_EveryStep ==
    /\ trainer = "train"
    /\ trained' = trained \cup InBatch
    /\ batch' = <<>>
    /\ current_param_version' = current_param_version + 1
    /\ trainer' = "sync"
    /\ born' = Forget(born) /\ put_version' = Forget(put_version)
    /\ UNCHANGED <<rolloutVars, ctlVars, lock, queueVars, rollout_version, stopping,
                   active_seen, local_trigger_step>>

\* The optimizer step and _fit_update_local_step.
TrainStep ==
    /\ trainer = "train"
    /\ trained' = trained \cup InBatch
    /\ batch' = <<>>
    /\ IF local_trigger_step < trigger_parameter_sync_step
       THEN /\ local_trigger_step' = local_trigger_step + 1
            /\ trainer' = "collect"
            /\ UNCHANGED current_param_version
       ELSE /\ local_trigger_step' = 1
            /\ current_param_version' = current_param_version + 1
            /\ trainer' = "sync"
    /\ born' = Forget(born) /\ put_version' = Forget(put_version)
    /\ UNCHANGED <<rolloutVars, ctlVars, lock, queueVars, rollout_version, stopping,
                   active_seen>>

\* Faulty variant: the budget is reopened, the weights are not sent.
TrainSync_NoWeights ==
    /\ trainer = "sync"
    /\ trainer' = "reset"
    /\ UNCHANGED <<rolloutVars, stampVars, ctlVars, lock, queueVars, batch, trained,
                   local_trigger_step, current_param_version, rollout_version, stopping,
                   active_seen>>

\* checkpoint_manager.update_weights(global_steps = current_param_version)
TrainSync ==
    /\ trainer = "sync"
    /\ rollout_version' = current_param_version
    /\ trainer' = "reset"
    /\ UNCHANGED <<rolloutVars, stampVars, ctlVars, lock, queueVars, batch, trained,
                   local_trigger_step, current_param_version, stopping, active_seen>>

\* First part of reset_staleness: len(active_tasks) is read before the await
\* of get_queue_size.
ResetBegin ==
    /\ paused' = FALSE
    /\ SetEvent
    /\ active_seen' = Cardinality(active_tasks)
    /\ trainer' = "resetting"
    /\ UNCHANGED staleness_samples

ResetEnter ==
    /\ trainer = "reset"
    /\ \/ Free /\ lock' = <<"reset">> /\ ResetBegin
       \/ Arrive("reset") /\ trainer' = "resetWait" /\ UNCHANGED <<ctlVars, active_seen>>
    /\ UNCHANGED <<rolloutVars, stampVars, queueVars, batch, trained, local_trigger_step,
                   current_param_version, rollout_version, stopping>>

ResetLocked ==
    /\ trainer = "resetWait"
    /\ Holds("reset")
    /\ ResetBegin
    /\ UNCHANGED <<rolloutVars, stampVars, lock, queueVars, batch, trained, local_trigger_step,
                   current_param_version, rollout_version, stopping>>

\* Faulty variant: += for =.
ResetEnd_Accumulate ==
    /\ trainer = "resetting"
    /\ staleness_samples' = staleness_samples + active_seen + Len(queue)
    /\ active_seen' = 0
    /\ lock' = Tail(lock)
    /\ trainer' = IF stopping THEN "done" ELSE "collect"
    /\ UNCHANGED <<rolloutVars, stampVars, paused, resume_event, resume_future, queueVars,
                   batch, trained, local_trigger_step, current_param_version,
                   rollout_version, stopping>>

\* The queue size arrives, the counter is set and the lock released.
ResetEnd ==
    /\ trainer = "resetting"
    /\ staleness_samples' = active_seen + Len(queue)
    /\ active_seen' = 0
    /\ lock' = Tail(lock)
    /\ trainer' = IF stopping THEN "done" ELSE "collect"
    /\ UNCHANGED <<rolloutVars, stampVars, paused, resume_event, resume_future, queueVars, batch,
                   trained, local_trigger_step, current_param_version, rollout_version,
                   stopping>>

\* The tail of fit: a last sync unless the version was just validated;
\* _fit_update_weights returns at once in the middle of a version.
TrainFinal ==
    /\ trainer = "final"
    /\ trainer' = IF current_param_version % test_freq # 0 /\ local_trigger_step = 1
                  THEN "sync" ELSE "done"
    /\ UNCHANGED <<rolloutVars, stampVars, ctlVars, lock, queueVars, batch, trained,
                   local_trigger_step, current_param_version, rollout_version, stopping,
                   active_seen>>

TrainerNext ==
    \/ TrainCollect \/ TrainStep \/ TrainSync \/ ResetEnter \/ ResetLocked
    \/ ResetEnd \/ TrainFinal
=============================================================================
