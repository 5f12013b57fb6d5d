----------------------------- MODULE FullyAsync -----------------------------
(***************************************************************************)
(* Rollouter, message queue and trainer together.                          *)
(***************************************************************************)
EXTENDS FullyAsyncRollouter, FullyAsyncTrainer

\* After load_checkpoint found nothing and the parameter sync before fit.
Init ==
    /\ feeder = "feed" /\ global_steps = 1 /\ pending_queue = <<>>
    /\ processor = "check" /\ hand = None /\ queue_size = 0 /\ finished = {}
    /\ active_tasks = {} /\ task = [s \in Sample |-> "new"]
    /\ staleness_samples = 0 /\ paused = FALSE
    /\ resume_event = TRUE /\ resume_future = "none" /\ lock = <<>>
    /\ main = "stream" /\ running = TRUE
    /\ monitor = "head" /\ monitor_queue_size = 0
    /\ queue = <<>> /\ dropped = {}
    /\ trainer = "collect" /\ batch = <<>> /\ trained = {}
    /\ local_trigger_step = 1 /\ current_param_version = 0 /\ rollout_version = 0
    /\ stopping = FALSE /\ active_seen = 0
    /\ born = [s \in Sample |-> -1] /\ put_version = [s \in Sample |-> -1]

Next == RollouterNext \/ TrainerNext

\* Every coroutine that is ready is run by its event loop, the actors answer
\* their calls, and generation of a sample returns (TaskFail is never owed).
Fairness ==
    /\ WF_vars(Feeder) /\ WF_vars(Processor) /\ WF_vars(Monitor) /\ WF_vars(Main)
    /\ \A s \in Sample : WF_vars(TaskPut(s))
    /\ WF_vars(TrainerNext)

Spec == Init /\ [][Next]_vars /\ Fairness

-----------------------------------------------------------------------------
ProcessorState == {"check", "decide", "pausing", "drain", "draining", "get", "wait",
                   "submitting", "done", "dead"}
TrainerState == {"collect", "train", "sync", "reset", "resetWait", "resetting", "final",
                 "done"}
Actor == {"processor", "monitor", "reset"}

FeedType ==
    /\ feeder \in {"feed", "end", "done"}
    /\ global_steps \in Sample
    /\ pending_queue \in Seq(Sample \cup {None})

TaskType ==
    /\ processor \in ProcessorState
    /\ hand \in Sample \cup {None}
    /\ processor = "submitting" => hand # None
    /\ queue_size \in Nat
    /\ finished \in SUBSET Sample
    /\ active_tasks \in SUBSET Sample
    /\ task \in [Sample -> {"new", "running", "done", "failed"}]
    /\ born \in [Sample -> Int]

ControlType ==
    /\ staleness_samples \in Nat
    /\ paused \in BOOLEAN
    /\ resume_event \in BOOLEAN
    /\ resume_future \in {"none", "waiting", "done"}
    /\ lock \in Seq(Actor)

MonitorType ==
    /\ main \in {"stream", "closing", "stopped"}
    /\ running \in BOOLEAN
    /\ monitor \in {"head", "sleep", "decide", "resuming", "exit"}
    /\ monitor_queue_size \in Nat

QueueType ==
    /\ queue \in Seq(Sample \cup {None})
    /\ dropped \in SUBSET (Sample \cup {None})
    /\ put_version \in [Sample -> Int]

TrainType ==
    /\ trainer \in TrainerState
    /\ batch \in Seq(Sample)
    /\ trained \in SUBSET Sample
    /\ local_trigger_step \in 1 .. trigger_parameter_sync_step
    /\ current_param_version \in Nat
    /\ rollout_version \in Nat
    /\ stopping \in BOOLEAN
    /\ active_seen \in Nat

\* Type invariant of the three actors.
TypeOK ==
    FeedType /\ TaskType /\ ControlType /\ MonitorType /\ QueueType /\ TrainType

\* The pause handshake loses no wake-up: the processor is paused exactly while
\* it waits for the resume event, the event is clear exactly then, and a
\* processor outside the drain never runs with the flag set. (paused,
\* _resume_event and resume_future are written by the processor, the monitor
\* and reset_staleness.)
ResumeSignal ==
    /\ paused <=> ~resume_event
    /\ processor \in {"drain", "draining"} =>
         resume_future = (IF paused THEN "waiting" ELSE "done")
    /\ processor \notin {"drain", "draining", "dead"} => ~paused /\ resume_future = "none"

Elements(seq) == {seq[i] : i \in 1 .. Len(seq)}
Distinct(seq) == \A i, j \in 1 .. Len(seq) : seq[i] = seq[j] => i = j

\* Where the processor holds the lock or waits for it.
InLock == {"pausing", "draining", "wait", "submitting"}

\* The lock has one holder, nobody queues for it twice or leaves the queue
\* without being served, and reset_staleness keeps it across its RPC.
LockDiscipline ==
    /\ Distinct(lock)
    /\ "processor" \in Elements(lock) <=> processor \in InLock
    /\ "monitor" \in Elements(lock) <=> monitor = "resuming"
    /\ "reset" \in Elements(lock) <=> trainer \in {"resetWait", "resetting"}
    /\ trainer = "resetting" => Holds("reset")

Places == {"pending", "hand", "generating", "failed", "queue", "batch", "trained", "evicted"}
At(s, p) ==
    CASE p = "pending" -> s \in Elements(pending_queue)
      [] p = "hand" -> s = hand
      [] p = "generating" -> task[s] = "running"
      [] p = "failed" -> task[s] = "failed"
      [] p = "queue" -> s \in Elements(queue)
      [] p = "batch" -> s \in Elements(batch)
      [] p = "trained" -> s \in trained
      [] p = "evicted" -> s \in dropped
PlacesOf(s) == {p \in Places : At(s, p)}
Fed(s) == s < global_steps \/ (feeder # "feed" /\ processor # "dead")

\* No sample is trained on twice and none vanishes: what was fed is in exactly
\* one place (pending, in the processor's hand, being generated, queued, in the
\* batch, trained on, evicted from the full queue, or failed), also after a
\* failed generation has killed the processor.
SampleInOnePlace ==
    /\ Distinct(pending_queue) /\ Distinct(queue) /\ Distinct(batch)
    /\ \A s \in Sample :
         /\ \A p, q \in PlacesOf(s) : p = q
         /\ Fed(s) => PlacesOf(s) # {}

\* Bounded staleness in the queue: a batch is used at most this many versions
\* after its samples entered the queue.
MaxLag == 1 + (max_required_samples - 1) \div SamplesPerVersion
QueueLag ==
    \A i \in 1 .. Len(batch) :
        trainer = "train" => current_param_version - put_version[batch[i]] <= MaxLag

\* README: staleness_threshold=0 is synchronous training: every sample of a
\* batch was generated with the weights of the version that trains on it.
Synchronous ==
    trainer = "train" => \A i \in 1 .. Len(batch) : born[batch[i]] = current_param_version

\* Training ends: the trainer leaves fit, the rollouter's main and monitor end.
Terminates == <>(trainer = "done" /\ main = "stopped" /\ monitor = "exit")
-----------------------------------------------------------------------------
\* Where a sample is, as the abstract pipeline tells it.
PlaceOf(s) ==
    CASE s \in trained -> "trained"
      [] s \in InBatch -> "batch"
      [] s \in Elements(queue) -> "line"
      [] s \in dropped \/ task[s] = "failed" -> "lost"
      [] task[s] = "running" -> "generating"
      [] OTHER -> "new"

Pipeline == INSTANCE SamplePipeline WITH
    batch_size <- required_samples, batches <- trigger_parameter_sync_step,
    budget <- max_required_samples,
    place <- [s \in Sample |-> PlaceOf(s)], line <- queue, taken <- batch,
    steps <- local_trigger_step - 1, version <- current_param_version,
    published <- rollout_version, ended <- stopping, evicted <- dropped

\* The rollouter, the queue actor and the trainer together implement the
\* pipeline of SamplePipeline: whatever the coroutines do, samples are generated
\* within the budget of a version, leave the queue in order, and are trained on
\* once, in full batches, with a new version after every
\* trigger_parameter_sync_step of them; at most one sample per version is evicted
\* from the full queue, and never the end signal.
ImplementsPipeline == Pipeline!Spec
=============================================================================
