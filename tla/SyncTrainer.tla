---------------------------- MODULE SyncTrainer ----------------------------
(***************************************************************************)
(* The trainer of main_ppo_sync.py: PPOTrainer.fit, step and _validate on  *)
(* one thread, the ReplayBuffer's polling thread on another, and the agent *)
(* loop workers, whose background tasks put their outputs into the         *)
(* TransferQueue (an external key-value service) whenever they end.        *)
(*                                                                         *)
(* Tensors are left out: a row of a batch is its key, and what a step      *)
(* computes for a row is the key it was computed from.                     *)
(***************************************************************************)
EXTENDS Integers, FiniteSets, SequencesExt

CONSTANTS
    Setups,                 \* configurations, see IsSetup
    test_freq,              \* 0: no validation during training
    dp_size,                \* data parallel ranks of the actor
    ppo_mini_batch_size,
    critic_warmup,          \* steps without an actor update
    MaxRaises               \* bound: prompts an agent loop of which raises

Fields == {"train_batch_size", "val_batch_size", "val_batches", "total_training_steps",
           "n", "val_n", "MaxOutputs"}
\* The configurations: numbers (MaxOutputs is a bound: outputs of one agent loop),
\* and whether validation comes before training.
IsSetup(x) ==
    /\ DOMAIN x = Fields \cup {"val_before_train"}
    /\ \A field \in Fields : x[field] \in Nat \ {0}
    /\ x.val_before_train \in BOOLEAN

ASSUME SyncTrainerAssumption ==
    /\ Setups # {} /\ IsFiniteSet(Setups) /\ \A x \in Setups : IsSetup(x)
    /\ {dp_size, ppo_mini_batch_size} \subseteq Nat \ {0}
    /\ {test_freq, critic_warmup, MaxRaises} \subseteq Nat

\* The largest value of a field: the sets of names below are the same in all setups.
Largest(field) == Max({x[field] : x \in Setups})

Step == 0 .. Largest("total_training_steps")

\* A uid is a fresh uuid for every prompt of every batch; a key of an output is
\* {uid}_{session_id}_{index}; a padding row has a uid of its own.
Uid ==
    [part : {"train"}, step : Step \ {0}, batch : {0}, i : 1 .. Largest("train_batch_size")]
        \cup [part : {"val"}, step : Step, batch : 1 .. Largest("val_batches"),
              i : 1 .. Largest("val_batch_size")]
Output(u, s, k) == [uid |-> u, session |-> s, index |-> k]
OutputKey ==
    [uid : Uid, session : 0 .. Max({Largest("n"), Largest("val_n")}) - 1,
     index : 0 .. Largest("MaxOutputs") - 1]
PadKey == [pad : Step, session : 0 .. dp_size * ppo_mini_batch_size * Largest("n")]
Key == Uid \cup OutputKey \cup PadKey

PartOf(key) ==
    IF key \in Uid THEN key.part ELSE IF key \in PadKey THEN "train" ELSE key.uid.part

\* A tag: status and global_steps. NoStep: the worker's put of a uid's status
\* carries no global_steps. A table maps the keys it holds to their tags.
NoStep == -1
Tag == [status : {"running", "success", "finished", "failure"}, step : Step \cup {NoStep}]
IsTable(table) == DOMAIN table \subseteq Key /\ \A key \in DOMAIN table : table[key] \in Tag
Nothing == [key \in {} |-> NoStep]
Tagged(keys, status, step) == [key \in keys |-> [status |-> status, step |-> step]]
Without(table, keys) == [key \in DOMAIN table \ keys |-> table[key]]

\* dict.update of the tags under a key: what the new tags leave out is kept.
Updated(table, items) ==
    [key \in DOMAIN items \cup DOMAIN table |->
        IF key \notin DOMAIN items THEN table[key]
        ELSE IF items[key].step = NoStep /\ key \in DOMAIN table
             THEN [items[key] EXCEPT !.step = table[key].step]
             ELSE items[key]]

VARIABLES
    setup,          \* the configuration of this run
    tq,             \* TransferQueue: a table
    partitions,     \* ReplayBuffer.partitions: a table
    snapshot,       \* what kv_list returned to the polling thread
    to_add,         \* partitions of the snapshot that are not added yet
    session,        \* background tasks of the agent loops: [Uid -> [session -> ...]]
    prompt,         \* _run_prompt tasks: [Uid -> ...]
    pc,             \* where the trainer is
    part,           \* the partition it works on: "train", or "val" in _validate
    val_batch,      \* batch of the validation dataloader
    global_steps,
    batch,          \* [train, val]: the keys of the KVBatchMeta in hand
    advantage,      \* row -> the row its advantage was computed from
    version,        \* global_steps at the last update_weights
    awake,          \* the rollout replicas hold weights and kv cache
    born            \* version under which an output was generated

queueVars   == <<tq, session, prompt, born>>
bufferVars  == <<partitions, snapshot, to_add>>
trainerVars == <<pc, part, val_batch, global_steps, batch, advantage, version, awake>>
vars == <<setup, queueVars, bufferVars, trainerVars>>

train_batch_size == setup.train_batch_size
val_batch_size == setup.val_batch_size
val_batches == setup.val_batches
total_training_steps == setup.total_training_steps
n == setup.n
val_n == setup.val_n
MaxOutputs == setup.MaxOutputs
val_before_train == setup.val_before_train

Sessions(u) == 0 .. (IF u.part = "train" THEN n ELSE val_n) - 1

Init ==
    /\ setup \in Setups
    /\ tq = Nothing /\ partitions = Nothing /\ snapshot = Nothing /\ to_add = {}
    /\ session = [u \in Uid |-> [s \in Sessions(u) |-> "idle"]]
    /\ prompt = [u \in Uid |-> "idle"]
    /\ born = Nothing
    /\ pc = "start" /\ part = "train" /\ val_batch = 0 /\ global_steps = 0
    /\ batch = [train |-> {}, val |-> {}] /\ advantage = <<>>
    /\ version = 0 /\ awake = TRUE

\* Faulty variant: the multiple is that of the data parallel ranks alone.
RequiredMultiple_DpOnly(step) == dp_size

\* _get_required_batch_multiple: the least common multiple of the data parallel
\* size and, from critic_warmup on, of the actor's mini-batch (no critic here).
RequiredMultiple(step) ==
    LET mini == ppo_mini_batch_size * n
    IN  IF critic_warmup <= step
        THEN CHOOSE m \in 1 .. dp_size * mini :
                 /\ m % dp_size = 0 /\ m % mini = 0
                 /\ \A k \in 1 .. m - 1 : ~(k % dp_size = 0 /\ k % mini = 0)
        ELSE dp_size

-----------------------------------------------------------------------------
(* AgentLoopWorkerTQ: fire-and-forget tasks in the workers *)

\* Faulty variant: index counts from one.
OutputsOf_FromOne(u, s, count) == {Output(u, s, k) : k \in 1 .. count}
OutputsOf(u, s, count) == {Output(u, s, k) : k \in 0 .. count - 1}

\* _run_agent_loop and _agent_loop_postprocess: the outputs of a session are put
\* in one call; an empty list puts nothing.
SessionEnds(u, s) ==
    /\ session[u][s] = "running"
    /\ session' = [session EXCEPT ![u][s] = "ended"]
    /\ \E count \in 0 .. MaxOutputs :
         LET keys == OutputsOf(u, s, count)
         IN  /\ tq' = Updated(tq, Tagged(keys, "success", u.step))
             /\ born' = [key \in keys \cup DOMAIN born |->
                             IF key \in keys THEN version ELSE born[key]]
    /\ UNCHANGED <<prompt, bufferVars, trainerVars, setup>>

SessionRaises(u, s) ==
    /\ session[u][s] = "running"
    /\ Cardinality({v \in Uid : prompt[v] = "failure"}) < MaxRaises
    /\ session' = [session EXCEPT ![u][s] = "raised"]
    /\ UNCHANGED <<tq, prompt, born, bufferVars, trainerVars, setup>>

\* kv_put of the status of a uid.
PutStatus(u, status) ==
    /\ prompt' = [prompt EXCEPT ![u] = status]
    /\ tq' = Updated(tq, Tagged({u}, status, NoStep))
    /\ UNCHANGED <<session, born, bufferVars, trainerVars, setup>>

\* Faulty variant: the first session that ends finishes the prompt.
PromptFinishes_First(u) ==
    /\ prompt[u] = "running"
    /\ \E s \in Sessions(u) : session[u][s] = "ended"
    /\ PutStatus(u, "finished")

\* _run_prompt: gather over the sessions, then the status.
PromptFinishes(u) ==
    /\ prompt[u] = "running"
    /\ \A s \in Sessions(u) : session[u][s] = "ended"
    /\ PutStatus(u, "finished")

\* Faulty variant: the exception handler only logs.
PromptFails_LogOnly(u) ==
    /\ prompt[u] = "running"
    /\ \E s \in Sessions(u) : session[u][s] = "raised"
    /\ prompt' = [prompt EXCEPT ![u] = "failure"]
    /\ UNCHANGED <<tq, session, born, bufferVars, trainerVars, setup>>

\* gather raises with its first exception; the other sessions run on.
PromptFails(u) ==
    /\ prompt[u] = "running"
    /\ \E s \in Sessions(u) : session[u][s] = "raised"
    /\ PutStatus(u, "failure")

Worker(u) ==
    \/ \E s \in Sessions(u) : SessionRaises(u, s) \/ SessionEnds(u, s)
    \/ PromptFinishes(u) \/ PromptFails(u)

-----------------------------------------------------------------------------
(* ReplayBuffer: the polling thread *)

\* kv_list, without the buffer's lock.
PollList ==
    /\ to_add = {}
    /\ snapshot' = tq
    /\ to_add' = {PartOf(key) : key \in DOMAIN tq}
    /\ UNCHANGED <<partitions, queueVars, trainerVars, setup>>

\* add, with the lock, once for each partition of the answer.
Items(table, p) == [key \in {k \in DOMAIN table : PartOf(k) = p} |-> table[key]]

PollAdd(p) ==
    /\ p \in to_add
    /\ to_add' = to_add \ {p}
    /\ partitions' = Updated(partitions, Items(snapshot, p))
    /\ snapshot' = IF to_add' = {} THEN Nothing ELSE snapshot
    /\ UNCHANGED <<queueVars, trainerVars, setup>>

Poll == PollList \/ \E p \in {"train", "val"} : PollAdd(p)

-----------------------------------------------------------------------------
(* PPOTrainer *)

Goto(label) == pc' = label

\* The validation that follows a weight update, if it is due.
ValidationDue ==
    /\ test_freq > 0
    /\ global_steps >= total_training_steps \/ global_steps % test_freq = 0

\* fit: validation before training, then step 1.
Start ==
    /\ pc = "start"
    /\ IF val_before_train
       THEN Goto("dispatch") /\ part' = "val" /\ val_batch' = 1 /\ UNCHANGED global_steps
       ELSE Goto("dispatch") /\ global_steps' = 1 /\ UNCHANGED <<part, val_batch>>
    /\ UNCHANGED <<batch, advantage, version, awake, queueVars, bufferVars, setup>>

\* The prompts of the batch the trainer is at.
Prompts ==
    {u \in Uid : u.part = part /\ u.step = global_steps
                 /\ IF part = "val" THEN u.batch = val_batch /\ u.i <= val_batch_size
                                    ELSE u.i <= train_batch_size}

\* AgentLoopManagerTQ.generate_sequences: the prompts are marked in the buffer,
Dispatch ==
    /\ pc = "dispatch"
    /\ Goto("spawn")
    /\ partitions' = Updated(partitions, Tagged(Prompts, "running", global_steps))
    /\ UNCHANGED <<part, val_batch, global_steps, batch, advantage, version, awake, snapshot,
                   to_add, queueVars, setup>>

\* then the workers create one task per prompt, and that one per session.
Spawn ==
    /\ pc = "spawn"
    /\ prompt' = [u \in Uid |-> IF u \in Prompts THEN "running" ELSE prompt[u]]
    /\ session' = [u \in Uid |-> IF u \in Prompts THEN [s \in Sessions(u) |-> "running"]
                                 ELSE session[u]]
    /\ Goto("sample")
    /\ UNCHANGED <<part, val_batch, global_steps, batch, advantage, version, awake, tq, born,
                   bufferVars, setup>>

OfStep == {key \in DOMAIN partitions : PartOf(key) = part /\ partitions[key].step = global_steps}

\* Faulty variant: the step of a key is not looked at.
Sampled_AnyStep ==
    {key \in DOMAIN partitions : PartOf(key) = part /\ partitions[key].status = "success"}
Sampled == {key \in OfStep : partitions[key].status = "success"}

\* Faulty variant: a running prompt does not hold the sample up.
MustWait_Never == FALSE
MustWait == \E key \in OfStep : partitions[key].status = "running"

\* ReplayBuffer.sample: one turn of its loop that does not wait.
Sample ==
    /\ pc = "sample"
    /\ ~MustWait
    /\ batch' = [batch EXCEPT ![part] = Sampled]
    /\ Goto(IF part = "val" THEN "collect" ELSE "sleep")
    /\ UNCHANGED <<part, val_batch, global_steps, advantage, version, awake, queueVars,
                   bufferVars, setup>>

SleepReplicas ==
    /\ pc = "sleep"
    /\ awake' = FALSE
    /\ Goto("balance")
    /\ UNCHANGED <<part, val_batch, global_steps, batch, advantage, version, queueVars,
                   bufferVars, setup>>

\* kv_batch_get fails on a key that is not there, and has nothing to return for none.
Readable(keys) == keys # {} /\ keys \subseteq DOMAIN tq

\* The trainer raises; fit does not catch it.
Raise ==
    /\ Goto("raised")
    /\ UNCHANGED <<part, val_batch, global_steps, batch, advantage, version, awake, queueVars,
                   bufferVars, setup>>

\* _balance_batch: synthetic rows fill the batch up to a multiple, with the tag
\* of its first row; an empty batch cannot be partitioned. The reordering of
\* the rows is a choice in Compute.
PadRows ==
    LET missing == (-Cardinality(batch.train)) % RequiredMultiple(global_steps)
    IN  {[pad |-> global_steps, session |-> i] : i \in 0 .. missing - 1}

Balance ==
    /\ pc = "balance"
    /\ IF Readable(batch.train)
       THEN /\ tq' = Updated(tq, Tagged(PadRows, "success", global_steps))
            /\ batch' = [batch EXCEPT !.train = @ \cup PadRows]
            /\ Goto("compute")
            /\ UNCHANGED <<part, val_batch, global_steps, advantage, version, awake, session,
                           prompt, born, bufferVars, setup>>
       ELSE Raise

SessionOf(key) ==
    IF key \in PadKey THEN key ELSE [uid |-> key.uid, session |-> key.session]
IndexOf(key) == IF key \in PadKey THEN 0 ELSE key.index

\* Faulty variant: the last row of the session.
FinalRow_Last(rows) == rows[Len(rows)]

\* compute_advantage_for_multi_trajectories: one pass over the rows keeps, per
\* session, the row with the largest index seen so far.
FinalRow(rows) ==
    FoldLeft(LAMBDA final, row : IF IndexOf(final) < IndexOf(row) THEN row ELSE final,
             rows[1], rows)

Siblings(key) == {row \in batch.train : SessionOf(row) = SessionOf(key)}

\* batch.reorder leaves the batch in any order, of which the rows of each session
\* among themselves count: place[row] is the rank of a row in its session.
Orders ==
    {place \in [batch.train -> 1 .. MaxOutputs] :
        \A key \in batch.train :
            [row \in Siblings(key) |-> place[row]]
                \in Bijection(Siblings(key), 1 .. Cardinality(Siblings(key)))}

\* The rows of key's session as the reordering by workload left them.
SessionRows(key, place) ==
    [i \in 1 .. Cardinality(Siblings(key)) |->
        CHOOSE row \in Siblings(key) : place[row] = i]

\* _compute_old_log_prob, _compute_ref_log_prob, _compute_advantage and
\* _update_actor: they read the rows from TransferQueue and write columns back.
Compute ==
    /\ pc = "compute"
    /\ IF Readable(batch.train)
       THEN /\ \E place \in Orders :
                 advantage' = [key \in batch.train |-> FinalRow(SessionRows(key, place))]
            /\ Goto("update_weights")
            /\ UNCHANGED <<part, val_batch, global_steps, batch, version, awake, queueVars,
                           bufferVars, setup>>
       ELSE Raise

\* checkpoint_manager.update_weights wakes the replicas with the new weights.
UpdateWeights ==
    /\ pc = "update_weights"
    /\ version' = global_steps
    /\ awake' = TRUE
    /\ IF ValidationDue
       THEN Goto("dispatch") /\ part' = "val" /\ val_batch' = 1
       ELSE Goto("metrics") /\ UNCHANGED <<part, val_batch>>
    /\ UNCHANGED <<global_steps, batch, advantage, queueVars, bufferVars, setup>>

\* _validate: the outputs of the batch are read for the metrics.
Collect ==
    /\ pc = "collect"
    /\ IF Readable(batch.val)
       THEN /\ Goto("clear")
            /\ UNCHANGED <<part, val_batch, global_steps, batch, advantage, version, awake,
                           queueVars, bufferVars, setup>>
       ELSE Raise

\* _compute_metrics and _log_rollout_data read the rows once more.
Metrics ==
    /\ pc = "metrics"
    /\ IF Readable(batch.train)
       THEN /\ Goto("clear")
            /\ UNCHANGED <<part, val_batch, global_steps, batch, advantage, version, awake,
                           queueVars, bufferVars, setup>>
       ELSE Raise

\* Faulty variant: the padding rows are left in the queue.
Cleared_NoPads == batch[part] \ PadKey
Cleared == batch[part]

\* The end of a batch: kv_clear,
Clear ==
    /\ pc = "clear"
    /\ tq' = Without(tq, Cleared)
    /\ born' = Without(born, Cleared)
    /\ Goto("remove")
    /\ UNCHANGED <<part, val_batch, global_steps, batch, advantage, version, awake, session,
                   prompt, bufferVars, setup>>

\* then ReplayBuffer.remove, and on to the next batch or the next step.
RemoveBatch ==
    /\ pc = "remove"
    /\ partitions' = Without(partitions, batch[part])
    /\ batch' = [batch EXCEPT ![part] = {}]
    /\ IF part = "val"
       THEN IF val_batch < val_batches
            THEN Goto("dispatch") /\ val_batch' = val_batch + 1
                 /\ UNCHANGED <<part, global_steps, advantage>>
            ELSE /\ part' = "train" /\ val_batch' = 0
                 /\ IF batch.train = {}
                    THEN Goto("dispatch") /\ global_steps' = global_steps + 1
                    ELSE Goto("metrics") /\ UNCHANGED global_steps
                 /\ UNCHANGED advantage
       ELSE /\ advantage' = <<>>
            /\ IF global_steps >= total_training_steps
               THEN Goto("done") /\ UNCHANGED global_steps
               ELSE Goto("dispatch") /\ global_steps' = global_steps + 1
            /\ UNCHANGED <<part, val_batch>>
    /\ UNCHANGED <<version, awake, snapshot, to_add, queueVars, setup>>

Trainer ==
    \/ Start \/ Dispatch \/ Spawn \/ Sample \/ SleepReplicas \/ Balance \/ Compute
    \/ UpdateWeights \/ Collect \/ Metrics \/ Clear \/ RemoveBatch

Next == Trainer \/ Poll \/ \E u \in Uid : Worker(u)

\* Both threads keep running, and an agent loop ends or raises.
Fairness ==
    /\ WF_vars(Trainer)
    /\ WF_vars(Poll)
    /\ \A u \in Uid : WF_vars(Worker(u))

Spec == Init /\ [][Next]_vars /\ Fairness

-----------------------------------------------------------------------------
\* Type invariant.
TypeOK ==
    /\ IsTable(tq) /\ IsTable(partitions) /\ IsTable(snapshot)
    /\ to_add \subseteq {"train", "val"}
    /\ \A u \in Uid : session[u] \in [Sessions(u) -> {"idle", "running", "ended", "raised"}]
    /\ prompt \in [Uid -> {"idle", "running", "finished", "failure"}]
    /\ part \in {"train", "val"} /\ val_batch \in 0 .. val_batches /\ setup \in Setups
    /\ global_steps \in Step /\ version \in Step /\ awake \in BOOLEAN
    /\ \A p \in {"train", "val"} : batch[p] \subseteq OutputKey \cup PadKey

\* Rows of outputs in the training batch.
TrainRows == batch.train \cap OutputKey
StepPrompts ==
    {u \in Uid : u.part = "train" /\ u.step = global_steps /\ u.i <= train_batch_size}

\* sample: "wait until all prompts of this global steps have finished". The batch
\* the polled view gives holds every output of every finished prompt of the step.
SampleComplete ==
    pc \in {"sleep", "balance", "compute"} =>
        \A u \in StepPrompts :
            /\ prompt[u] \in {"finished", "failure"}
            /\ prompt[u] = "finished" =>
                 {key \in DOMAIN tq \cap OutputKey : key.uid = u} \subseteq batch.train

\* The polled view may be older than the queue, yet a training batch never names
\* a row that is not, or no longer, in the TransferQueue.
TrainRowsInQueue ==
    pc \in {"sleep", "balance", "compute", "update_weights", "metrics"} =>
        batch.train \subseteq DOMAIN tq

\* Synchronous PPO is on-policy: every row that is trained on was generated for
\* this step, with the weights of the step before it.
OnPolicy ==
    pc = "compute" =>
        \A key \in TrainRows : key.uid.step = global_steps /\ born[key] = global_steps - 1

\* While the replicas sleep for training, the only agent loops that still run
\* are the siblings of a session that raised.
QuietReplicas ==
    ~awake =>
        \A u \in Uid : \A s \in Sessions(u) :
            session[u][s] = "running" => prompt[u] = "failure"

\* What a step leaves in the TransferQueue: no padding row, and outputs only of
\* prompts that failed. (The status of every uid stays too.)
StepLeavesNothing ==
    pc = "dispatch" /\ part = "train" =>
        \A key \in DOMAIN tq \ Uid : key \in OutputKey /\ prompt[key.uid] = "failure"

\* A step starts from a clean state, failed prompts and their siblings apart: nothing
\* generates while the replicas sleep, and nothing is left in the queue.
CleanSteps == QuietReplicas /\ StepLeavesNothing

\* All rows of a session get the advantage of its final output, in whatever
\* order balancing left them.
AdvantageOfFinal ==
    \A key \in DOMAIN advantage :
        /\ SessionOf(advantage[key]) = SessionOf(key)
        /\ \A other \in batch.train :
             SessionOf(other) = SessionOf(key) => IndexOf(other) <= IndexOf(advantage[key])

\* The batch can be cut into equal shares of the data parallel ranks and into
\* mini-batches, however many sessions failed.
Divisible ==
    pc = "compute" =>
        /\ Cardinality(batch.train) % dp_size = 0
        /\ critic_warmup <= global_steps =>
             Cardinality(batch.train) % (ppo_mini_batch_size * n) = 0

\* Training raises only for a step in which no agent loop returned anything.
RaisesOnlyEmpty == pc = "raised" /\ part = "train" => batch.train = {}

\* _validate: "cleanup transfer queue and replay buffer" after every batch, so
\* that the next sample names only rows that are in the queue.
ValRowsInQueue == pc = "collect" => batch.val \subseteq DOMAIN tq

\* The same where the validation set is a single batch.
OneValBatch == val_batches = 1 => ValRowsInQueue

\* The batch sampled from the polled view is the step's batch: complete, in the
\* queue (and so is a single validation batch), on-policy and of a size that divides;
\* a step raises only if there is nothing at all.
BatchOfStep ==
    /\ SampleComplete /\ TrainRowsInQueue /\ OnPolicy
    /\ Divisible /\ RaisesOnlyEmpty /\ OneValBatch

\* Training ends or raises: no prompt, failed or not, keeps the trainer waiting.
EveryStepEnds == <>(pc \in {"done", "raised"})
=============================================================================
