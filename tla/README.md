# TLA+ models of verl's asynchronous training

This directory holds a verification development for the repository: TLA+
modules translated from the code, TLC configurations that check them on small
instances, and TLAPS proofs of the properties that matter most for every value
of the constants. Source paths below are relative to `src/`.

## 1. The system

verl trains language models by reinforcement learning. A *trainer* updates the
policy, *rollout servers* generate responses with a copy of its weights, a
*reward* part scores them. The repository's top-level README advertises
`verl/utils/dynamic_spec/`, `experiments/` and `run_experiment_v4.sh`; none of
them is in the tree, so the system is verl itself. Its own control logic, as
opposed to tensor code, is in the parts below.

| component | state it keeps | operations | how it interacts |
|---|---|---|---|
| `MessageQueue` actor (`fully_async_policy/message_queue.py`) | a bounded deque, a validation deque, counters, `running` | `put_sample`, `get_sample`, `clear_queue`, `shutdown`, `put_validate`, `get_validate` | called by the rollouter's tasks and by the trainer; consumers sleep on a condition |
| `FullyAsyncRollouter` actor | `pending_queue`, `active_tasks`, `staleness_samples`, `paused`, `_resume_event`, `lock`, `running`, `global_steps` | `_feed_samples`, `_processor_worker`, one task per sample, `_async_monitor_loop`, `_streaming_generation_main`, `reset_staleness`, checkpoint save/load | one event loop; RPCs to the queue; called by the trainer |
| `FullyAsyncTrainer` actor | `local_trigger_step`, `current_param_version`, `global_steps`, `last_ckpt_version`, the model | `fit`, `fit_step`, `_fit_update_weights`, `_fit_validate`, `_trainer_side_validate`, `_save_checkpoint`, `load_checkpoint` | takes samples from the queue, sends weights to the servers, calls `reset_staleness` |
| `FullyAsyncLLMServerClient`, `LLMServerClient` | one request's tokens so far, its token budget, the versions seen | `generate` with resume after an abort | acquires a server from the load balancer, calls it, releases it without waiting |
| `GlobalRequestLoadBalancer` actor | in-flight count per server, sticky sessions (LRU) | `acquire_server`, `release_server`, `add_servers`, `remove_servers` | clients, `FullyAsyncLLMServerManager` |
| `FullyAsyncLLMServerManager` | standalone, hybrid and alive replicas, address lists | `add_replicas`, `remove_replicas` | the load balancer; called around trainer-side validation |
| `CheckpointEngineManager` (`checkpoint_engine/base.py`) | the replicas | `update_weights`: abort, release, build group, transfer, finalize, resume | trainer workers and servers |
| weight transfer engines (`nccl_`, `hccl_`, `nixl_`, `mooncake_`, `kimi_checkpoint_engine.py`) | double buffers, process groups | send/receive buckets | between trainer and rollout workers |
| vLLM / SGLang / TRT-LLM servers (`workers/rollout/*`) | engine, `global_steps`, paused flag | `generate`, `abort_all_requests`, `resume_generation`, `sleep`, `wake_up` | clients and the checkpoint engine |
| agent loops (`experimental/agent_loop`) | one conversation: token ids, mask, log-probs, turn counters | `SingleTurnAgentLoop.run`, `ToolAgentLoop` state machine, `_call_tool` | client `generate`, tools |
| reward loop (`experimental/reward_loop`) | token buckets, router state | rate-limited scoring, routing | agent loop workers |
| one-step-off-policy trainer | one generation future in flight | fetch, train, sync | rollout servers |
| synchronous trainers (`trainer/ppo/ray_trainer.py`, `main_ppo_sync.py`) | `global_steps`, replay buffer, dataloader | fit loop, checkpointing | worker groups |
| checkpoint manager (`utils/checkpoint`) | list of kept checkpoints, latest tracker | save, rotate, load | trainers |
| SFT trainers (`trainer/sft_trainer.py`, `sft_trainer_ray.py`) with `CheckpointHandler` | `global_step`, a dataloader on every data parallel rank or on the driver | loop over epochs, save, resume | checkpoint manager; their ranks meet in collectives |
| `DataProto` (`protocol.py`), sequence balancing (`utils/seqlen_balancing.py`) | none (pure data) | chunk, pad, concat; Karmarkar-Karp partition | everywhere |
| single controller (`single_controller`) | worker handles | dispatch, execute, collect | trainers and workers |
| engines, models, losses, mergers, profilers, tracking | tensors | numerical code | out of TLC's reach |

### What is hard here

*Concurrency.* The rollouter interleaves five kinds of coroutines on one event
loop, with a lock that one of them holds across waits, an event that three of
them write and a staleness counter that is rebuilt from other state across an
RPC. The synchronous trainer of `main_ppo_sync.py` reads a key-value service
through a thread that polls it without a lock, while background tasks of the
workers write to it. Weight transfer refills buffers while copies from them are
pending on a device stream. Reward scoring mixes coroutines, token buckets, a
semaphore, executor threads and timeouts that abandon them.

*Failure.* One failing generation takes the processor of the rollouter down; one
failing session fails its prompt while its siblings run on; a job may be killed
between any two writes of a checkpoint; a reward call may time out, and both its
client and the router retry.

*Order and arithmetic.* Samples cross versions of the weights; a generation is
aborted and resumed by every weight sync, perhaps on another server. Rows of a
batch are matched by position alone through padding, balancing, dispatch,
micro-batches and back, and all ranks must issue the same collectives.

None of this is reached by the repository's tests, which run whole training jobs
or single functions.

What makes each part correct, in one line each. Queue: no sample lost without
being counted, order kept, no consumer left asleep. Rollouter and trainer: the
budget per version, no sample lost or used twice, the pause handshake,
termination. Servers: a response is never cut, its version stamps are true, load
counts are exact. Agent loop: ids, mask and log probs line up, tool instances are
released, the loop ends. Checkpoints: after a crash at any point there is a
complete checkpoint to resume from, and batches are trained on once and in
order. Weight transfer: every byte arrives, every update ends. Replay buffer: a
step's batch is complete, on-policy and cleaned up. Rewards: the rate is kept and
every score is its session's own. Train step: results return to their rows, and
no rank waits for ever.

## 2. Modules

| module | models | proofs |
|---|---|---|
| `MessageQueue` | the queue actor with any number of consumers | `MessageQueueProofs` |
| `FullyAsyncBase` | state, constants, the lock and the event of the rollouter, the queue as the composed modules use it (`AfterPut` and `IsFull` come from `MessageQueue` through `INSTANCE`) | |
| `FullyAsyncRollouter` | feeder, processor, per-sample tasks, monitor, main coroutine | |
| `FullyAsyncTrainer` | `fit`, `fit_step`, weight sync, and `reset_staleness`, which the trainer calls on the rollouter | |
| `FullyAsync` | the composition, its fairness and its properties | `FullyAsyncProofs` |
| `SamplePipeline` | abstract specification of what the three actors promise of samples; `FullyAsync` implements it | `FullyAsyncProofs` |
| `RolloutServers` | load balancer, resuming client, servers, weight sync and trainer-side validation | `RolloutServersProofs` |
| `ToolAgentLoop` | one multi-turn trajectory with its tool calls | `ToolAgentLoopProofs` |
| `Checkpointing` | save, rotation, tracker file and resume of four PPO trainers, with crashes | `CheckpointingProofs` |
| `SFTCheckpointing` | the SFT trainers' loops with `CheckpointHandler`: a dataloader file of every rank, a renamed tracker, with crashes | |
| `WeightTransfer` | the NCCL, HCCL, NIXL and Mooncake engines and the transfer to the vLLM workers | `WeightTransferProofs` |
| `SyncTrainer` | `main_ppo_sync.py`: trainer, polling thread, workers, TransferQueue | `SyncTrainerProofs` |
| `RewardLoop` | reward workers, limiters, router and reward model, assembly of scores | `RewardLoopProofs` |
| `SeqlenBalancing` | the functions of `utils/seqlen_balancing.py` | |
| `TrainStep` | one batch through `RayPPOTrainer`, the single controller and the engines' batching | |
| `MC...` | the modules TLC runs | |

`NAME_Variant` definitions are deliberately faulty versions of the definition
that follows them; `PROJECT.json` says which property each one breaks.

### MessageQueue

One action per method. `get_sample` is split where the coroutine can suspend,
at `condition.wait()`: a consumer is idle, waiting or woken, and a woken one
looks at the deque again. `put_sample` evicts the oldest entry of a full deque
(`AfterPut`). `total_produced`, `total_consumed`, `dropped_samples` are the
code's counters; what `clear_queue` throws away is counted in the model only.

### FullyAsync

An action is the code between two awaits that really suspend. The rollouter's
`asyncio.Lock` is a sequence, its holder first; acquiring a free lock does not
suspend, so such a section is one action, and an arrival at a taken lock is an
action of its own. `_resume_event` is the flag plus the future of the one
coroutine that waits on it. A queue RPC is two actions: the answer is read, and
used later (`queue_size`, `monitor_queue_size`, `active_seen`). A finished task
stays in `active_tasks` until the processor retires it. A task that raises
(`TaskFail`) kills the processor when it is retired, as `await task` does in the
code, and `fit`'s `gather(return_exceptions=True)` then lets the main coroutine
send the end signal.

Facts about the code found on the way, and kept in the model: `paused` is never
true at the second check in `_processor_worker` (line 914), so that branch never
runs; `get_sample` returns a bare `None` when the queue is shut down while the
trainer unpacks a pair, but nobody calls `shutdown` during training;
`do_validate` is a synchronous method of an async actor and stalls the
rollouter's event loop while it runs.

### RolloutServers

`place`, `inflight` and `sticky` are the dictionaries of
`GlobalRequestLoadBalancer` (`place` is a server's place in the insertion order,
which decides ties, and 0 for a server that is not in the pool). A request is in one of four phases: it wants a server, was sent to one,
runs, is done; `releasing` is its fire-and-forget release under way. Tokens are
counted, together with the version of the weights that computed the first and
the last one. The trainer's calls are a table (`Plan`): `update_weights`
aborts, loads and resumes the standalone replicas; `_trainer_side_validate`
brings the hybrid ones up, adds them to the pool, validates, removes them and
puts them to sleep. Each step is a `gather` over a group of servers, which are
handled in any order (`todo`). The engine's behaviour on pause (new calls
wait, running ones are aborted) is taken from the comments in
`abort_all_requests`; this is vLLM 0.12 or later with `free_cache_engine`. An
engine that sleeps computes no token and answers nobody until it is woken.

### ToolAgentLoop

One action per handler of the state machine; `_handle_generating_state` is
split at the await of `generate`. Every `_call_tool` coroutine moves by itself
through create, execute and release. A token is where it comes from ("prompt",
"model", "tool"), so alignment of ids, mask and log probs can be stated. Python
slices are translated with their edge cases (`LastOf`: the last zero elements
are all of them).

Tool text is its length; `Truncated` is the cut of `_call_tool` on each side.

### SamplePipeline

The samples of the fully asynchronous trainer without its coroutines: a place for
each sample, the line between generation and training, the batch being
collected, the versions. Its actions say what the actors promise together: at
most one sample more than the budget is ever started per version; samples leave
the line first come, first served; a batch has exactly `required_samples`; a
version follows `trigger_parameter_sync_step` batches and is published before
the next batch is trained on; at most one sample for each published version is
pushed out of a full line, and never the end signal. Samples pushed out no longer
count against the budget: the code counts what is queued and what is active. `ImplementsPipeline` (in `FullyAsync`) instantiates it
with the places read off the concrete state (`PlaceOf`).

### Checkpointing

The disk is a function from steps to folders (shards of every rank of actor and
critic, `data.pt`) and the tracker file; memory is the rest and is lost in a
crash. A save is the sequence the code has: capacity, folder, one write per rank,
barrier, registration and removal, dataloader, tracker (opened, then written).
A batch is its place in the stream the dataloader yields, and weights are the
sequence of batches they were trained on, so "in order, none twice" can be
stated across crashes. The four trainers (`RayPPOTrainer`, the one of
`main_ppo_sync.py`, one-step and fully asynchronous) differ in what is drawn ahead of
training and in how the dataloader is restored (`Restored`, `LoaderState`).

### SFTCheckpointing

The same disk for the SFT trainers, which are kept apart because their save has
several writers. Under torchrun ("SPMD") every rank has a dataloader and a
`data_<rank>.pt` of its own, and rank 0 renames the tracker as soon as its own file
is written: `SaveData(l)` and `RenameTracker` are steps of different ranks, in any
order that `DataSaved` allows. With Ray there is one dataloader, the driver's. A
loader is its epoch and its place in it, and a training step a batch of each loader;
a rank without a file starts over, one whose loop over epochs has ended waits for
nobody (`EpochsEnd`: "hung" when another one goes on).

### WeightTransfer

A byte is the update, tensor and place it belongs to. Rank 0 packs chunks into
buckets, each rank has two buffers used in turn, tensors are views of a buffer,
and the copy into the IPC buffer reads its source when the stream executes it
(`pending`), not when it is issued. NIXL's notification and Mooncake's magic word
tell the previous rank that its buffer was read.

### SyncTrainer

`tq` is the TransferQueue, `partitions` the replay buffer's view of it, `snapshot`
what the polling thread read and has not added yet. The trainer's thread is a
program counter over `fit`, `step` and `_validate`; each prompt has a task and
each session of it another one. A row is its key and an advantage the key it was
computed from. The balancing leaves the rows of a batch in any order (`Orders`).

### RewardLoop

Time is counted in ticks, a bucket's balance in the ticks it takes to refill it,
so both limiters have the same capacity. A session goes through decoding,
limiters, semaphore and scorer (`limited`), straight to the scorer (`plain`: naive,
dapo, remote), or through `_post_request` and the router to the reward model
(`disrm`). A score is the session and the number of tokens the scorer was given.
A timed-out call of a synchronous scorer leaves its executor thread behind. Scorers
return a number or a dictionary, by row (`scalar`), so a batch may mix data sources. A
reward model in a pool that the trainer passes is asleep after its construction, one
with servers of its own (`Standalone`) never sleeps, and a server that sleeps does not
answer.

### SeqlenBalancing and TrainStep

`SeqlenBalancing` is written as operators (Karmarkar-Karp with its heap order,
greedy and group partitions, number and content of micro-batches, reverse
index); the assertions of the code are operators of their own. `TrainStep` runs a
batch through generation, balancing, dispatch, inference, collection and update.
Ranks move independently; the `all_reduce` of the number of micro-batches and each
micro-batch's collectives are the points where they wait for one another.

## 3. Runs

Properties that are conjunctions name their parts in the module; every part has a
comment of its own, and nearly every part a faulty variant that breaks it.

| run | instance | shows |
|---|---|---|
| `message_queue` | 2 consumers, deque of 2, 5 puts, clear and shutdown at any time | `QueueTrue`, `NoSleepOnWork`, `HandedOutInOrder`, `ShutdownReleases` |
| `fully_async` | batch 1, 2 updates per sync, threshold 1/2 (budget 3), 2 slots, 7 samples, one failing generation | `TypeOK`, `ResumeSignal`, `LockDiscipline`, `SampleInOnePlace`, `QueueLag`, `ImplementsPipeline` |
| `fully_async_live` | the same with threshold 1 (budget 4) and 6 samples | `Terminates` |
| `fully_async_sync` | threshold 0, batch 2, 7 samples, one failing generation | `Synchronous` |
| `servers` | 2 requests, 2 syncs; two servers with a session cache of 1; one server and clients without a limit; one standalone and one hybrid server | `TypeOK`, `VersionsBracket`, `WholeResponse`, `TrueLoad`, `EveryRequestEnds` |
| `tool_agent` | response of 5 tokens, 2 calls a turn, no turn limits, 2 syncs, four truncations | `UsableTrajectory`, `ToolTextBounded`, `LoopEnds` |
| `checkpoint` | PPO: six configurations of four trainers, 2 ranks, 2 epochs of 2 batches, saves within an epoch (save_freq 3) and at its end (2); SFT: both modes, 3 ranks, 3 epochs of 2 batches, a save every 2, 3 or 4 steps, one or two checkpoints kept, or all; 2 crashes each | `TypeOK`, `Resumable`, `TrainedInOrder`, `EndsComplete`, `SFTResumable`, `SFTDataKept` |
| `weights` | seven setups of four engines, 3 ranks, buckets of 2 bytes, tensors of 1 to 3, 2 updates | `WeightsDelivered`, `EveryRoundEnds` |
| `sync_trainer` | six setups of up to 2 prompts, 3 sessions, 3 outputs (in any order), 2 steps, 2 validation batches; one raising session | `TypeOK`, `BatchOfStep`, `CleanSteps`, `AdvantageOfFinal`, `EveryStepEnds` |
| `rewards` | nine setups of up to 4 sessions, 2 workers, 2 threads, 2 retries, clock to 16; in one a row of another data source | `LimiterExact`, `WithinCapacity`, `ScoresTrue`, `EveryRowEnds` |
| `train_step` | sixteen setups, up to 6 rows, 4 ranks, all combinations of lengths 1 to 3 | `RowsKept`, `UpdateDone`, `CollectivesMatch` |
| `val_batches` | 2 validation batches of 1 prompt | violated: section 6 |

Why the bounds are enough. The queue's interesting cases need it to overrun
(puts > capacity) and two consumers to compete for one sample. The rollouter's
need the budget to be used up, a pause, a reset and a resume, twice: seven samples
with a budget of three and two samples per version do that, and the one sample
beyond the budget and the evicted sample both occur; two slots make the
processor wait with a sample in its hand and let a second task run when the
first one fails. Two syncs and two requests let a generation be interrupted twice
and let two requests compete for a server or a cache of one; two hybrid stays are
needed for a release of the first stay to arrive in the second. Five response
tokens allow three turns of the model. Checkpoints: with a save every second or
third step and at the end, two crashes and two epochs, a run can crash in the save it
was resumed for, resume at and beside an epoch boundary, and rotate; ranks are
interchangeable (`RankSymmetry`, and no liveness is checked there). The SFT trainers
need two ranks beside rank 0, so that one file can be missing and another be there, and
a third epoch to go on with after one that was skipped. Weights: with
two bytes a bucket, tensors share one, fill one and span two; three ranks have a
first, a middle and a last one; two updates let leftovers of the first
reach the second. Replay buffer: three sessions are one that raises, one that
ends and one that is late. Rewards: three sessions at one limiter are one that is
let through, one that sleeps and one that arrives in between; the clock reaches
the time at which the slowest setup is done. Train step: the setups are the
smallest in which sizes divide, do not divide, and need padding beyond the batch.

`Terminates` is checked with slack in the budget (`max_required_samples` exceeds
a version's samples by at least the number of slots); without slack it fails, see
section 6. `checkpoint` keeps at least two checkpoints, or all of them; keeping
one, which the SFT trainers may do but `SFTResumable` and `SFTDataKept` leave out too, is
discussed in section 6. A behaviour of `checkpoint` is one job (`job`), of a PPO or of an SFT
trainer; the state of the other module stays as it began.

CHECK_DEADLOCK is off in the configurations whose system ends (training is
over, all requests are done, the loop returned). Where it is on, an ended system
stutters by an explicit action (`Done` in `RewardLoop`, `Finished` in
`Checkpointing` and `SFTCheckpointing`, `Stopped` in `TrainStep`).

## 4. Fairness

`FullyAsync`: an event loop runs every coroutine that is ready, Ray delivers calls and
answers, and the generation of a sample returns; a failure is never owed.
`RolloutServers`: calls are answered, a running request at an engine that is awake
makes progress and ends (a stop token or the limit), and the trainer carries an
operation it has begun through; it need not begin another. `ToolAgentLoop`: servers
and tools answer; a tool that hangs would hang its trajectory, which the code does not
guard against. `MessageQueue`: a consumer that was woken runs. `SyncTrainer`: the
trainer's thread, the polling thread and each worker's tasks run; agent loops end or
raise. `WeightTransfer`: some step is taken while one is possible; collectives, reads
and messages complete. `RewardLoop`: the clock advances, whoever is ready runs, and a
scorer that was called returns or raises in the end, whether its caller still waits or
has given up at the timeout. All are weak fairness; nowhere is strong fairness needed.
`Checkpointing`, `SFTCheckpointing` and `TrainStep` state none: their properties are
safety, and `CollectivesMatch` says instead that some rank can always go on.

## 5. Proofs

Checked by TLAPS for all values of the constants that meet the assumption named
in the module that declares them (`QueueAssumption`, `FullyAsyncAssumption`,
`ServersAssumption`, `AgentAssumption`, `CheckpointAssumption`, `RewardConstants`,
`SyncTrainerAssumption`, `TransferAssumption`). Each safety
invariant has its own inductive strengthening, proved action by action.

*MessageQueue* (`MessageQueueProofs`). The inductive invariant is the type
invariant with `Accounting` and `OldestFirst` (together `QueueTrue`) and `HandedOutBelow`: samples are
numbered in the order of their puts, so "the deque holds the youngest ones, in
order" and "what was handed out is older than what is in the deque" together give
`HandedOutInOrder` as an action property. `NoSleepOnWork` is inductive over the
type invariant: whoever makes work available notifies all waiters.

*FullyAsync* (`FullyAsyncProofs`). `TypeOK` is not inductive by itself: the end of
`reset_staleness` releases the lock with `Tail(lock)`, which is a sequence only
because the resetting trainer holds the lock. The invariant proved is `TypeOK` and
`LockDiscipline` together. `ResumeSignal` follows: of the writers of `paused` only
the lock's holder writes, and every write of the flag goes with the matching write
of the event.

*Samples* (`FullyAsyncProofs`).
* `SampleInOnePlace`. `PlaceInv` says where a sample can be before it has a task
  (`BeforeTask`) and after (`AfterTask`), and that no queue holds anything
  twice (`LineInv`); numbers that were not drawn yet are nowhere.
* `QueueLag`, the bound on how many versions pass between the put of a sample and its
  training. `BudgetInv` bounds all that is under way (trained on, collected, queued,
  in a task or in the hand) by the budget of the version `reset_staleness` last
  counted for, plus the one sample in the processor's hand that it does not count:
  `Allows(x)`, x = 0 or 1; an eviction uses that one up. `LagInv` turns this into a
  bound on how many samples are trained on before a queued one (`Latest(v)`).
  `TaskInv`, `CountInv` and `SignalInv` supply the counting of tasks, of what was
  trained on, and that the end signal is never the oldest entry of a full queue.
* `Synchronous`, for a staleness threshold of 0 (`StaleNum = 0`): the same budget
  leaves nothing under way across a weight sync (`BornInv`).

*Refinement* (`FullyAsyncProofs`). `PipelineImplemented` is the whole of
`ImplementsPipeline`, which has no fairness. The step simulation: submitting a task
is `Start`, a failing one `Fail`, `put_sample` is `Finish`, the end signal `Close`,
`get_sample` is `Take`, an optimizer step is `Train`, the weight sync is `Publish`;
every other step leaves the places as they are. The bound in `Start`, and that an
evicted entry is a sample and not the end signal, come from `BudgetInv` and `SignalInv`.

*RolloutServers* (`RolloutServersProofs`).
* `TypeOK` needs that a request is at a server exactly in the phases that have
  one (`Placed`).
* `WholeResponse` is inductive over the types: a response ends by its stop token
  or its limit, or by an abort that the client resumes.
* `TrueLoad`: the count of a standalone server is the number of requests it holds or
  whose release is under way (`Held`, `CountInv`), that of a hybrid one at most
  that; a server outside the pool has none (`PoolInv`).
* `VersionsBracket`: `SyncInv` says which version a server has at each step of
  the trainer's plan, `StampInv` what that makes of the stamps of a request in each
  phase. As in the property itself, this is about standalone replicas and
  `partial_rollout`.

*ToolAgentLoop* (`ToolAgentLoopProofs`). `NoOpenInstance` rests on `InstanceInv`:
the open instances are those of calls between create and release, and only a turn
of tools, or a raised one, has calls.
`ToolTextBounded` is arithmetic over the cuts of `Truncated`.
`UsableTrajectory` rests on `TokenInv`: mask and log probs are the tail of the ids
and line up with them (`Lines`) in every state of the machine, and `SpanInv`: the
versions stamped on a trajectory are those of its turns. It is proved under two hypotheses, `~may_be_cut`
and `MaxImages <= 1`; without them the code breaks it (section 6).

*Checkpointing* (`CheckpointingProofs`).
* `TypeOK`: the step counters are bounded by the total plus one for each restart
  (`StepInv`); what one-step and fully asynchronous trainers hold in flight and
  the versions they reach are bounded by what was fed (`FlightInv`, `PrefetchInv`,
  `FedInv`).
* `Resumable`. The tracker names a complete folder or is torn (`TrackedInv`). A save
  cannot damage it, because the folder being written is younger than the one the
  tracker names (`WriteInv`); a rotation cannot, because the list of saved
  paths increases, ends at the newest registered one and only its front is removed
  (`PathInv`). `RotateInv` bounds what is on disk: the run's own list and what each
  earlier start left. The hypothesis `KeepsTwo` says that no configuration keeps
  exactly one checkpoint; with one, the code removes the tracked folder (section 6).
* `TrainedInOrder`, under `KeepsTwo`, since it needs the tracked folder untouched.
  `OrderInv` says the same thing in three places. In memory (`MemoryInv`): a trainer
  that feeds itself has trained on the stream of batches up to where its dataloader
  is; of what the others have drawn, all but `InFlight` batches for each crash is
  trained on or in flight. On disk (`TrackerInv`, and `DataInv` between the write of
  `data.pt` and that of the tracker): weights and position of the checkpoint belong
  together (`Resumes`), with the loss a crash would add already counted (`Losses`).
  `PaceInv` ties batches to steps, which is what the name of a folder says.
* `EndsComplete`, under `KeepsTwo` and `SavesOnce`. `EpochInv` says how far the loop's
  epoch may be ahead of a restored dataloader, `LastInv` and `SpacingInv` which
  steps were saved, `FlowInv` and `SavedInv` the same for versions, and what the
  rollouter still has to feed. `SavesOnce` excludes schedules that end before
  `critic_warmup` or before the first version: those save nothing (section 6).

*RewardLoop* (`RewardLoopProofs`).
* `Rates` (`LimiterExact`). What a bucket has let through costs at most its capacity and
  the time since it was first used. The invariant (`LimitKept`) has two cases. While a
  request costs at most the capacity (`SmallLimit`), the balance is never negative and
  what was spent plus the balance is at most the capacity plus the time up to the last
  update; a sleeper has been told to wait no longer than its own missing share. A
  request that costs more (`LargeLimit`) drives the balance below zero: the debt is
  then what all later ones wait for, and it is the sleepers (`Sleepers`, `Beyond`) that
  account for it.
* `Capacity` (`WithinCapacity`). Balances, sleeps, threads of the executor, running
  scorers and attempts stay within their bounds. A thread belongs to a call under way
  or to one that timed out; the router's counts cover the requests in flight. Who is asked
  by `compute_rm_score` was woken by it, and put back to sleep only after its last answer;
  about a streaming reward model in a pool nothing is claimed (section 6).
* `Scores` (`ScoresTrue`). A score is that of the session's own response; the answers of
  the workers, flattened in order, put every score into its row. That `FlattenSeq` of
  the chunks is the batch again is shown for all numbers and sizes of chunks.

*SyncTrainer* (`SyncTrainerProofs`). One invariant (`IInv`) carries `Typed`,
`CleanBetweenSteps`, `BatchIsOfStep` and `FinalAdvantages`. Its parts:
* what a prompt has come to (`Prompted`), as seen in the queue (`Status`) and in the
  polled view (`View`): a prompt is seen running from `Dispatch` until its end has been
  polled, so `sample` cannot pass it by;
* `SeesAll`: who sees that a prompt has finished sees every output of it that is still in
  the queue. It holds of the polled snapshot, and of the view the snapshot is added to
  partition by partition, since a worker puts the status after the outputs;
* `Listed`: a row has the same tag wherever it is listed, and none is of a step to come.
  `Accounted`: a row in the queue is in a batch in hand, is still to be sampled, or
  is of a prompt that failed. Together they make a sample complete and a clean-up total;
* `InQueue`: until its batch is cleared, every row that a view, however old, lists for
  the step is in the queue. Afterwards that is false (a late snapshot brings the
  cleared rows back), and harmless, because `global_steps` has moved on; in `_validate` it
  has not, hence `val_batches = 1` in `OneValBatch` and section 6;
* `Whole`: with an output of a session, all earlier ones are there, so a session's rows
  in a batch are those that `SessionRows` lists, in whatever order `Orders` gives them;
* `Born`: outputs of the step were generated with the weights of the step before.

`Divisible` needs that padding fills up to the least common multiple of the ranks and
the mini-batch, that this multiple exists below their product, and that a multiple of
it is one of each. `AdvantageOfFinal` holds for every permutation of a session's rows
(`Arranged`). It needs that the fold of `FinalRow` keeps the first of the rows with
the largest index: the fold is a `CHOOSE` of a function on sets of positions, and that
function exists and is unique on the prefixes.

*WeightTransfer* (`WeightTransferProofs`). `Delivered` is about one inductive invariant
for all four engines (`IInv`), with these parts:
* `Ledger`: what rank 0 has sent is a beginning of the chunks, bucket after bucket. Each
  piece is followed by the next one of its tensor or the first of the next tensor
  (`Follow`), and pieces in a bucket do not overlap (`Packed`). That the chunks of all
  tensors, flattened, follow one another is shown for all sizes;
* `Marks`: only the last bucket is marked, and only the first can be empty (there are no
  tensors, or the first one does not fit);
* `Pace`: how far the ranks can be apart. A rank's two buffers suffice because the one
  before it is never more than one bucket ahead of what it has read, in Mooncake of the
  magic words it has written;
* `Buffers`: hence the buckets that somebody still has to read are where they belong, in a
  Mooncake rank with a successor up to the first byte of the bucket;
* `Hands`, what a rank has taken out of its buckets. The place it has come to (`Pos`) says
  which tensor is being put together and how far. A byte of that tensor, or a tensor in
  the IPC buffer, is right, or a copy still on the stream brings it, and the source of
  every such copy is a piece of the bucket that is being yielded (`CopyOK`): it cannot be
  refilled before the stream is synchronized. What was yielded is loaded, in the IPC
  buffer or at hand (`LoadedOK`).

`WeightsDelivered` is not inductive: it speaks neither of the buffers nor of the copies
that are still to be executed.

On induction. The library's induction theorems take a predicate as a parameter and
cannot be instantiated here. Where data need induction (a maximum of a finite set, a
fold, a flattened sequence), the proof takes the smallest counterexample instead
(`LeastElement`, from the well-foundedness of the natural numbers). This works for folds and
functions over numbers; it does not help with operators declared RECURSIVE.

Found by proving. The bound on `wake` in `TypeOK` of `RewardLoop` did not hold for every
clock: a sleeper may be told to wait as long as the debt of all sessions before it
(`Debt`). Threads left behind by timed-out calls also end after their session has ended.
For `SyncTrainer`, that a step which reaches the weight update has a batch (a step without
one raises) is part of the invariant, since `RemoveBatch` tells validation before training
from validation in a step by the batch in hand.

Model-checked only, and why:
* everything under fairness (`ShutdownReleases`, `Terminates`, `EveryRequestEnds`,
  `LoopEnds`, `EveryRoundEnds`, `EveryStepEnds`, `EveryRowEnds`): liveness is out
  of the prover's reach;
* `SFTCheckpointing` (`SFTResumable`, `SFTDataKept`): its shards, barrier and
  rotation are those of `Checkpointing`, about which `Resumable` is proved; what is new, the
  files of several ranks, is small enough for TLC;
* `TrainStep` and `SeqlenBalancing` (`RowsKept`, `UpdateDone`,
  `CollectivesMatch`): the heap of Karmarkar-Karp is a RECURSIVE operator (`MergeAll`), and
  the prover has no definition of `SortSeq`, on which every partition and so the number
  of micro-batches of a rank depends.

## 6. Where code and documentation disagree

`val_batches` is a run that TLC ends with a counterexample. `_validate` clears
a batch from the TransferQueue and then from the replay buffer; the polling
thread listed the queue before and adds what it read afterwards. The keys of all
validation batches carry the same `global_steps`, so the sample of the next batch
returns the cleared keys too, and reads rows that are gone. With a single batch
(`OneValBatch`) nothing follows that would read them.

The following were met while modelling and have no run of their own. The models
show each of them when the named constant or conjunct is changed; the properties
state what does hold.

Fully asynchronous training
* The README of the package bounds the samples generated between two updates.
  One more is generated: `reset_staleness` does not count the sample in the
  processor's hand. `Start` in `SamplePipeline` has the bound that holds; its other
  consequence is that a full queue evicts a sample, at most one for each version
  (the runs reach the first; that there may be more came out of the proof).
* With `staleness_threshold=0`, or little slack, tasks that are done but not
  retired when `reset_staleness` counts them can use up the whole budget of the
  next version, and `Terminates` fails. It takes a trainer step that is faster than
  one turn of the rollouter's loop.
* Without `partial_rollout` a sync cuts responses off (`NeverCut` fails); the README
  of the package says it waits for them.
* A request that reached a hybrid engine after its abort, before the replica left
  the load balancer, waits in the engine while it sleeps, until the next validation wakes
  it (`LeftAsleep`, the exception in `EveryRequestEnds`). It may then start before the new
  version is stamped, which is why `VersionsBracket` is about standalone replicas.
* With `has_limit = FALSE` and a prompt shorter than `prompt_length`, an
  interrupted response may become longer than `response_length`: without
  `max_tokens` the server computes the budget of a resumed call anew (the agent
  loop cuts it afterwards).
* `FullyAsyncLLMServerManager.get_active_server_count` counts an active hybrid
  replica twice.
* The last steps of a run, since its last weight sync, may be saved nowhere
  (`FinalSaved` allows for them).

Tool agent loop
* A trajectory without a single generated token returns its prompt as its response
  (`may_be_cut = TRUE`, `Aligned` fails). `text[-0:]` is the whole text: with
  `max_tool_response_length` 1 and truncation in the middle nothing is cut
  (the exceptions in `ToolTextBounded`).
* With `MaxImages = 2`, `ImagesMatch` fails: a tool response with several images
  gets one placeholder.

Checkpoints
* With `max_ckpt_to_keep=1` the checkpoint the tracker names is removed when the
  new one is registered, before the tracker is written; with actor and critic, even
  before the critic has saved. The docstring of `ensure_checkpoint_capacity`
  promises to keep the existing checkpoint until the new save completes.
* The tracker is emptied before it is written, and an empty one stops a restart
  (`CheckpointHandler` of the SFT trainer renames a finished file instead).
* `previous_saved_paths` starts empty, so each restart leaves its predecessors'
  checkpoints on disk for ever (`RotationBound`).
* `OneStepOffRayTrainer` raises at the end of a resumed run, because its iterator
  counts epochs from zero, and may repeat a batch after it has lost one.
* Under torchrun every rank of an SFT trainer writes its own `data_<rank>.pt`, and rank 0
  renames the tracker after writing its own, before the barrier
  (`checkpoint_handler.py:116-141`). A crash in between leaves a tracker that names a
  folder without another rank's file. That rank starts its data over (`:187-194`) while the
  others go on, although the loaders are said to be "identical in each dp rank"
  (`:107-108`); it repeats batches, comes to the end of its epochs later than the others,
  and then waits for them in a collective. A file that was cut short stops the restart.
  `SFTResumable` and `SFTDataKept` say what remains true: a restart stops only at such a
  file, rank 0 keeps its place (`PlaceKept`), and ranks that never crashed leave together.
* Resumed from a checkpoint of the end of an epoch, the SFT trainers skip an
  epoch, since the restored dataloader is exhausted, although it is said to
  "automatically resume from where it left off" (`sft_trainer.py:330-331`).
  `ray_trainer.py:1008` leaves the state out at an epoch boundary, because "The saved state
  marks the dataloader as exhausted".
* `main_ppo_sync.py:763`, too, restores the dataloader at an epoch boundary: the epoch begun
  after the restart yields nothing and the run ends one epoch short (`RunsToTheEnd` allows for one epoch, however many restarts; with one
  batch less allowed TLC shows the short run). Such a run has no last step either, so
  the steps since its last regular save are saved nowhere: `FinalSaved` allows for
  fewer than `save_freq`. That came out of the proof; it takes epochs that are shorter
  than `save_freq`, as with `N = 1`, `total_epochs = 4` and a `save_freq` of 2.
* `RayPPOTrainer` saves only after `critic_warmup`, its last step included, and
  the fully asynchronous trainer only when there is a new version: with
  `critic_warmup`, or `trigger_parameter_sync_step`, above the number of steps a
  run ends without a checkpoint.

Weight transfer
* Mooncake's acknowledgement is written over the first bytes of the previous
  rank's buffer before that rank has passed its tensors on; the first tensor of a
  bucket can be damaged there (the exception in `WeightsArriveButMagic`).

Synchronous trainer
* When a session of a prompt raises, its siblings run on, and their outputs are
  never removed from the TransferQueue; the status of a uid never is
  (`StepLeavesNothing` says what is left).
* With `bypass_mode` `_compute_old_log_prob` returns nothing, where its caller expects
  a batch.

Rewards
* A session of several outputs: `_compute_score` pads prompts, responses and masks
  on the right, each to its own longest, and `run_single` counts the mask's ones in
  the last columns. The last response loses tokens, or prompt tokens are counted as
  its own, although `limited.py:399` says "we only compute reward based on the last
  sequence". `ScoresOwnResponse` is about sessions of one output.
* A reward model in a resource pool of its own (`enable_resource_pool`) is put to sleep
  at the end of its construction (`reward_model.py:47-48`, `free_cache_engine` being on by
  default) and woken by `compute_rm_score` only, which streaming does not call.
  `reward_loop.rst:270` says that it evaluates each sample "immediately after its rollout
  finishes". In the streaming setups the model has servers of its own (`Standalone`), and
  `AskedAwake` claims nothing of a streamed request to a pooled model.
* The limiters are per worker process, though called global.
* The columns of the extra information are the first row's; a row that timed out or
  failed lacks them (`LostByFirstRow`). The discriminative reward model returns
  no extra information at all, which the streaming caller requires.
* Timed-out calls of synchronous scorers keep their threads. The router answers
  any failure with a 500, which its client retries although it means not to
  retry client errors; counts of failed requests are never released.

Batches
* `rearrange_micro_batches` calls `max_token_len` the maximum of a micro-batch;
  lengths 3, 3, 3 with 5 give one of 6. `MicroBatchBound` is the bound that holds.
* Rounding the number of micro-batches up for pipeline stages may exceed the number
  of rows, which an assertion refuses.
* `core_algos.py:724` resets REINFORCE++'s running return at every masked token,
  meant for what follows the end; tool tokens inside a response are masked too.
  (Tensor code, not modelled.)

Other facts kept in the models: `paused` is never true at the second check in
`_processor_worker`; `get_sample` returns a bare `None` after a shutdown while the
trainer unpacks a pair, but nobody shuts the queue down during training.

## 7. Plan

Done: all modules of section 2; proofs about `MessageQueue`, `FullyAsync`, the
refinement of `SamplePipeline`, `RolloutServers`, `ToolAgentLoop`, `Checkpointing`,
`RewardLoop`, `SyncTrainer` and `WeightTransfer`.

Left, in this order:

1. A resumable generation that is atomic to its caller, refined by
   `RolloutServers`.
2. The Kimi engine, Megatron's `async_save`, the generative reward model, the
   other dispatch modes.
3. Proofs about `SFTCheckpointing`.

## 8. Not modelled

Numerical code (losses, advantage estimators, models, kernels, forward and
backward passes), collective communication, process launch, logging, profiling
and tracking have no control logic TLC could check; they are most of the
repository's lines. The SGLang and TensorRT-LLM servers share the interface that
`RolloutServers` models. LoRA, routed experts, multimodal inputs and
`max_model_len` are left out of the server model; `max_model_len` is taken to be at
least `prompt_length + response_length`. Checkpoints are on a local disk, resumed
in "auto" mode; HDFS copies and merging are left out, as are validation, balancing and a
configured `total_training_steps` in the SFT trainers. Requests of the reward loop's
client and of the router's retry are not told apart at the server: a first attempt that
still runs there while its retry is sent is not modelled. A worker process of
`main_ppo_sync.py` that dies is not modelled: its prompts would stay running, and
the trainer has no timeout for them. A subscriber of the NCCL engine's ZMQ socket
that joins too late is not modelled: that depends on ZMQ's threads. SPEC-RL, which
the top-level README describes, is not in the tree. `PROJECT.json` lists every
component with its reason.
