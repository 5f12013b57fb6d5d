--------------------------- MODULE FullyAsyncBase ---------------------------
(***************************************************************************)
(* State shared by the actors of the fully asynchronous trainer            *)
(* (verl/experimental/fully_async_policy): the rollouter actor with its    *)
(* coroutines, the MessageQueue actor and the trainer actor.               *)
(*                                                                         *)
(* The rollouter is one asyncio event loop: its coroutines interleave only *)
(* where they await, so one action is the code between two awaits that can *)
(* really suspend.                                                         *)
(***************************************************************************)
EXTENDS Integers, Sequences, FiniteSets

CONSTANTS
    required_samples,             \* ppo_mini_batch_size * require_batches
    trigger_parameter_sync_step,  \* local updates between two weight syncs
    StaleNum, StaleDen,           \* staleness_threshold = StaleNum / StaleDen
    server_slots,                 \* 16 * number of replicas
    total_rollout_steps,          \* samples to generate
    pending_maxsize,              \* maxsize of pending_queue (128 in the code)
    test_freq,                    \* trainer.test_freq
    MaxFailures                   \* bound: generations that raise

ASSUME FullyAsyncAssumption ==
    /\ required_samples \in Nat \ {0}
    /\ trigger_parameter_sync_step \in Nat \ {0}
    /\ StaleNum \in Nat
    /\ StaleDen \in Nat \ {0}
    /\ server_slots \in Nat \ {0}
    /\ total_rollout_steps \in Nat \ {0}
    /\ pending_maxsize \in Nat \ {0}
    /\ test_freq \in Nat \ {0}
    /\ MaxFailures \in Nat

-----------------------------------------------------------------------------
Sample == 1 .. total_rollout_steps

\* The None that ends pending_queue and the message queue.
None == 0

\* Samples the trainer consumes between two weight syncs.
SamplesPerVersion == required_samples * trigger_parameter_sync_step

\* set_max_required_samples; int() truncates.
max_required_samples ==
    (SamplesPerVersion * (StaleNum + StaleDen)) \div StaleDen

max_concurrent_samples ==
    IF server_slots < max_required_samples THEN server_slots ELSE max_required_samples

max_queue_size == max_required_samples

-----------------------------------------------------------------------------
VARIABLES
    feeder,                 \* _feed_samples: "feed", "end", "done"
    global_steps,           \* number of the next sample to feed
    pending_queue,          \* samples fed and not yet taken by the processor
    processor,              \* where _processor_worker is
    hand,                   \* rollout_sample of the processor, None if it has none
    queue_size,             \* the queue_size its _should_pause_generation read
    finished,               \* tasks its last asyncio.wait reported
    active_tasks,           \* samples whose task is in self.active_tasks
    task,                   \* "new", "running", "done" or "failed" per sample
    staleness_samples,
    paused,
    resume_event,           \* _resume_event.is_set()
    resume_future,          \* the processor's wait on it: "none", "waiting", "done"
    lock,                   \* self.lock: holder, then the waiters in arrival order
    main,                   \* _streaming_generation_main: "stream", "closing", "stopped"
    running,
    monitor,                \* where _async_monitor_loop is
    monitor_queue_size,     \* the queue_size its _should_pause_generation read
    queue,                  \* the MessageQueue deque
    dropped,                \* samples the deque evicted
    trainer,                \* where fit / fit_step of the trainer is
    batch,                  \* queue_samples collected for the current step
    trained,                \* samples used by an optimizer step
    local_trigger_step,
    current_param_version,
    rollout_version,        \* version of the weights in the LLM servers
    stopping,               \* fit left its loop on the end signal
    active_seen,            \* len(active_tasks) as reset_staleness read it
    born,                   \* history: rollout_version when a sample's task was created
    put_version             \* history: current_param_version when it entered the queue

feedVars    == <<feeder, global_steps>>
procVars    == <<processor, hand, queue_size, finished>>
ctlVars     == <<staleness_samples, paused, resume_event, resume_future>>
mainVars    == <<main, running>>
monVars     == <<monitor, monitor_queue_size>>
queueVars   == <<queue, dropped>>
trainVars   == <<trainer, batch, trained, local_trigger_step,
                 current_param_version, rollout_version, stopping, active_seen>>
stampVars   == <<born, put_version>>
vars == <<feedVars, pending_queue, procVars, active_tasks, task, ctlVars, lock,
          mainVars, monVars, queueVars, trainVars, stampVars>>

-----------------------------------------------------------------------------
(* asyncio.Lock: first come, first served. acquire() on a free lock does    *)
(* not suspend, so a section without an await is one action when the lock   *)
(* is free (Enter ... Leave), and an arrival in the waiters followed by a   *)
(* later action when it is not.                                             *)

Free == lock = <<>>
Holds(who) == lock # <<>> /\ Head(lock) = who
Arrive(who) == lock # <<>> /\ lock' = Append(lock, who)

\* Faulty variant: resuming clears the flag but does not set the event.
SetEvent_Forgotten ==
    UNCHANGED <<resume_event, resume_future>>

\* _resume_event.set() also completes the future that waits on it.
SetEvent ==
    /\ resume_event' = TRUE
    /\ resume_future' = IF resume_future = "waiting" THEN "done" ELSE resume_future

MQ == INSTANCE MessageQueue WITH
        Consumer <- {"trainer"}, MaxPuts <- total_rollout_steps + 1,
        MaxValidate <- 0, val_queue <- 0, total_produced <- 0,
        total_consumed <- 0, dropped_samples <- 0, cleared <- 0,
        call <- <<>>, got <- <<>>

\* put_sample: the oldest entry goes when the deque is full.
Put(sample) ==
    /\ queue' = MQ!AfterPut(queue, sample)
    /\ dropped' = dropped \cup (IF MQ!IsFull(queue) THEN {Head(queue)} ELSE {})
=============================================================================
