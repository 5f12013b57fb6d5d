----------------------------- MODULE TrainStep -----------------------------
(***************************************************************************)
(* One batch through RayPPOTrainer: RayPPOTrainer.fit repeats the prompts, *)
(* hands them to the agent loop workers, puts the answers beside the rows  *)
(* they belong to, reorders the batch (_balance_batch), has the workers    *)
(* compute log-probabilities, groups the rows for the advantages and       *)
(* updates the actor mini-batch by mini-batch. _validate takes the first   *)
(* part of the same way, with padding. On the worker's side: the dispatch  *)
(* by mesh of the single controller, TrainingWorker.infer_batch and        *)
(* train_mini_batch, and the engines' forward_backward_batch.              *)
(*                                                                         *)
(* Tensors are left out: a row is the prompt and the answer it belongs to, *)
(* with a length, and what is computed for a row is the answer it was      *)
(* computed from. Nothing in the code compares them: rows are matched by   *)
(* their position alone.                                                   *)
(***************************************************************************)
EXTENDS SeqlenBalancing, Functions

CONSTANTS
    Setups,     \* configurations, see IsSetup
    Lengths     \* lengths (in tokens) of a prompt and its answer

Numbers == {"prompts", "n", "num_workers", "dp_size", "mp_size", "max_token_len",
            "num_batches_divided_by", "mini_batch_size", "epochs"}
Switches == {"remax", "validate", "balance_batch", "use_prefix_grouper", "pipeline", "shuffle"}
\* mp_size: ranks that hold one replica of the model, the stages of a pipeline or
\* (FSDP's sequence parallelism, tensor parallelism) neighbours.
\* num_batches_divided_by is 1 for None. mini_batch_size counts rows of all ranks.
IsSetup(x) ==
    /\ DOMAIN x = Numbers \cup Switches
    /\ \A field \in Numbers : x[field] \in Nat \ {0}
    /\ \A field \in Switches : x[field] \in BOOLEAN

ASSUME TrainStepAssumption ==
    /\ Setups # {} /\ \A x \in Setups : IsSetup(x)
    /\ Lengths # {} /\ Lengths \subseteq Nat \ {0}

VARIABLES
    setup,      \* the configuration of this run
    phase,      \* where the trainer is
    answers,    \* per agent loop worker, the answers to its chunk, <<>> until it ends
    batch,      \* the rows of the batch
    work,       \* per rank, its rows in batches: one to infer, the mini-batches to train
    counts,     \* per rank and batch, the micro-batches it asked for in the all_reduce
    micros,     \* per rank and batch, the rows of each micro-batch
    entered,    \* per rank and batch, the micro-batches it has started
    outputs     \* per rank, what the worker returned, <<>> until it does

rankVars == <<work, counts, micros, entered, outputs>>
vars == <<setup, phase, answers, batch, work, counts, micros, entered, outputs>>

Phase == {"prompts", "generate", "gathered", "balanced", "infer", "inferred", "update",
          "done", "raised"}

-----------------------------------------------------------------------------
(* Driver and agent loop workers *)

\* DataProto.repeat with interleave, and chunk into parts of one size.
Repeat(s, times) == [i \in 1 .. Len(s) * times |-> s[(i - 1) \div times + 1]]
Chunkable(s, chunks) == Len(s) % chunks = 0
Chunk(s, chunks) ==
    LET size == Len(s) \div chunks
    IN  [c \in 1 .. chunks |-> SubSeq(s, (c - 1) * size + 1, c * size)]

\* pad_dataproto_to_divisor: the rows from the first on, again and again.
PadSize(s, divisor) == IF Len(s) % divisor = 0 THEN 0 ELSE divisor - (Len(s) % divisor)
Padded(s, divisor) == s \o [i \in 1 .. PadSize(s, divisor) |-> s[((i - 1) % Len(s)) + 1]]
unpad_First(s, pad_size) == SubSeq(s, pad_size + 1, Len(s))
unpad(s, pad_size) == SubSeq(s, 1, Len(s) - pad_size)

Uids == [i \in 1 .. setup.prompts |-> i]
Rows == Repeat(Uids, setup.n)

\* What is sent to the agent loop workers: the prompts n times, in REMAX followed
\* by each prompt once for a greedy baseline, in validation padded.
GenBatch ==
    CASE setup.validate -> Padded(Rows, setup.num_workers)
      [] setup.remax    -> Rows \o Uids
      [] OTHER          -> Rows

GenerateSequences ==
    /\ phase = "prompts"
    /\ phase' = IF Chunkable(GenBatch, setup.num_workers) THEN "generate" ELSE "raised"
    /\ UNCHANGED <<setup, answers, batch, rankVars>>

\* A worker answers the prompts of its chunk; an answer is its prompt, its place
\* in the batch that was sent and a length.
WorkerAnswers(w) ==
    LET size == Len(GenBatch) \div setup.num_workers
        chunk == Chunk(GenBatch, setup.num_workers)[w]
    IN  /\ phase = "generate" /\ answers[w] = <<>>
        /\ \E lens \in [1 .. size -> Lengths] :
              answers' = [answers EXCEPT ![w] =
                  [i \in 1 .. size |-> [prompt |-> chunk[i], sent |-> (w - 1) * size + i,
                                        len |-> lens[i]]]]
        /\ UNCHANGED <<setup, phase, batch, rankVars>>

\* asyncio.gather keeps the order of the workers, whichever ends first. unpad,
\* slice, and union by position with the separately repeated batch; in REMAX the
\* baselines join the batch before it is repeated.
Nothing == 0
GatheredRows(all) ==
    LET sampled == IF setup.validate THEN unpad(all, PadSize(Rows, setup.num_workers))
                   ELSE SubSeq(all, 1, Len(Rows))
        baselines == Repeat(SubSeq(all, Len(Rows) + 1, Len(all)), setup.n)
    IN  [i \in DOMAIN Rows |->
            [uid |-> Rows[i], answer |-> sampled[i].sent, prompt |-> sampled[i].prompt,
             len |-> sampled[i].len, log_prob |-> Nothing,
             baseline |-> IF setup.remax /\ ~setup.validate THEN baselines[i].prompt ELSE Nothing]]

Gather ==
    /\ phase = "generate"
    /\ \A w \in 1 .. setup.num_workers : answers[w] # <<>>
    /\ batch' = GatheredRows(FlattenSeq(answers))
    /\ phase' = IF setup.validate THEN "done" ELSE "gathered"
    /\ UNCHANGED <<setup, answers, rankVars>>

\* _balance_batch
Workloads(rows) == [i \in DOMAIN rows |-> calculate_workload(rows[i].len)]
Lens(rows) == [i \in DOMAIN rows |-> rows[i].len]
RowUids(rows) == [i \in DOMAIN rows |-> rows[i].uid]

Balanceable ==
    IF setup.use_prefix_grouper
    THEN /\ Cardinality(ToSet(RowUids(batch))) % setup.dp_size = 0
         /\ Partitionable(Runs(RowUids(batch)), setup.dp_size, TRUE)
         /\ CheckedPartitions(RunWorkloads(Lens(batch), Runs(RowUids(batch))), setup.dp_size, TRUE)
    ELSE /\ Partitionable(Lens(batch), setup.dp_size, TRUE)
         /\ CheckedPartitions(Workloads(batch), setup.dp_size, TRUE)

OrderedPartition(part) ==
    LET sorted == ByValue(Workloads(batch), part)
    IN  EvenPlaces(sorted) \o Reverse(OddPlaces(sorted))
global_idx_Sorted == ByValue(Workloads(batch), [i \in DOMAIN batch |-> i])
global_idx ==
    IF setup.use_prefix_grouper
    THEN FlattenSeq(get_group_balanced_partitions(Lens(batch), RowUids(batch), setup.dp_size))
    ELSE LET parts == get_seqlen_balanced_partitions(Workloads(batch), setup.dp_size, TRUE)
         IN  FlattenSeq([p \in DOMAIN parts |-> OrderedPartition(parts[p])])

Balance ==
    /\ phase = "gathered"
    /\ \/ /\ setup.balance_batch /\ Balanceable
          /\ LET idx == global_idx IN batch' = [i \in DOMAIN batch |-> batch[idx[i]]]
          /\ phase' = "balanced"
       \/ /\ setup.balance_batch /\ ~Balanceable
          /\ phase' = "raised" /\ UNCHANGED batch
       \/ /\ ~setup.balance_batch
          /\ phase' = "balanced" /\ UNCHANGED batch
    /\ UNCHANGED <<setup, answers, rankVars>>

-----------------------------------------------------------------------------
(* Dispatch by mesh, and the workers' ranks *)

\* Ranks count from 0. _register_dispatch_collect_info: the data parallel rank of
\* a worker, and whether its output is collected (the first rank of a replica, the
\* last stage of a pipeline). DpGroup: the ranks that hold the same part of the
\* model, among which the engines' all_reduce takes place.
World == 0 .. setup.dp_size * setup.mp_size - 1
DpRank(r) == IF setup.pipeline THEN r % setup.dp_size ELSE r \div setup.mp_size
MpRank(r) == IF setup.pipeline THEN r \div setup.dp_size ELSE r % setup.mp_size
Collected(r) == MpRank(r) = IF setup.pipeline THEN setup.mp_size - 1 ELSE 0
DpGroup(r) == {q \in World : MpRank(q) = MpRank(r)}

\* The rows dispatch_nd_compute hands to a rank.
LocalRows(r) == Chunk(batch, setup.dp_size)[DpRank(r) + 1]
LocalSize == Len(batch) \div setup.dp_size

\* Every rank of the world takes its rows; batches: per data parallel rank, the
\* positions of its rows in each batch it works on.
Dispatched(batches) ==
    /\ work' = [r \in World |-> batches[DpRank(r)]]
    /\ counts' = [r \in World |-> <<>>]
    /\ micros' = [r \in World |-> <<>>]
    /\ entered' = [r \in World |-> <<>>]
    /\ outputs' = [r \in World |-> <<>>]

Dispatch ==
    /\ phase = "balanced"
    /\ \/ /\ Chunkable(batch, setup.dp_size)
          /\ Dispatched([d \in 0 .. setup.dp_size - 1 |-> <<[i \in 1 .. LocalSize |-> i]>>])
          /\ phase' = "infer"
       \/ /\ ~Chunkable(batch, setup.dp_size)
          /\ phase' = "raised" /\ UNCHANGED rankVars
    /\ UNCHANGED <<setup, answers, batch>>

\* train_mini_batch and make_iterator: the rows of a rank in mini-batches, once per
\* epoch, in an order drawn anew for every epoch, or as they are.
MiniBatchSize == setup.mini_batch_size \div setup.dp_size
MiniBatchable ==
    setup.mini_batch_size % setup.dp_size = 0 /\ LocalSize % MiniBatchSize = 0
Orders ==
    IF setup.shuffle THEN {p \in [1 .. LocalSize -> 1 .. LocalSize] : IsInjective(p)}
    ELSE {[i \in 1 .. LocalSize |-> i]}
\* Mutant: the first epoch only. order: the order of each epoch.
MiniBatches_Once(order) == Chunk(order[1], LocalSize \div MiniBatchSize)
MiniBatches(order) ==
    FlattenSeq([e \in 1 .. setup.epochs |-> Chunk(order[e], LocalSize \div MiniBatchSize)])

\* old_log_prob, compute_advantage (grouping by uid is in AdvantageGroups below) and
\* update_actor, whose call is dispatched like the one before it.
UpdateActor ==
    /\ phase = "inferred"
    /\ \/ /\ MiniBatchable
          /\ \E orders \in [0 .. setup.dp_size - 1 -> [1 .. setup.epochs -> Orders]] :
                Dispatched([d \in 0 .. setup.dp_size - 1 |-> MiniBatches(orders[d])])
          /\ phase' = "update"
       \/ /\ ~MiniBatchable
          /\ phase' = "raised" /\ UNCHANGED rankVars
    /\ UNCHANGED <<setup, answers, batch>>

Working == phase \in {"infer", "update"}
\* The lengths of the rows of a batch of a rank.
BatchLens(r, b) == [i \in DOMAIN work[r][b] |-> LocalRows(r)[work[r][b][i]].len]
Entered(r, b) == IF b \in DOMAIN entered[r] THEN entered[r][b] ELSE 0
\* A rank is done with a batch when its last micro-batch is over: every layer of a
\* forward pass gathers parameters from all ranks, so no rank is over with a
\* micro-batch that another one never starts.
AllEntered(b, j) == \A q \in World : Entered(q, b) >= j
BatchOver(r, b) == b = 0 \/ (b \in DOMAIN micros[r] /\ Entered(r, b) = Len(micros[r][b])
                             /\ AllEntered(b, Len(micros[r][b])))

\* rearrange_micro_batches up to the all_reduce of the number of micro-batches. A
\* worker that raises ends the driver, which waits for all of them.
CanAsk(r) == Len(counts[r]) < Len(work[r]) /\ BatchOver(r, Len(counts[r]))
AskMicroBatches(r) ==
    LET b == Len(counts[r]) + 1
    IN  /\ Working /\ CanAsk(r)
        /\ \/ /\ Max(ToSet(BatchLens(r, b))) <= setup.max_token_len
              /\ counts' = [counts EXCEPT ![r] =
                               Append(@, LocalMicroBatches(BatchLens(r, b), setup.max_token_len))]
              /\ UNCHANGED phase
           \/ /\ Max(ToSet(BatchLens(r, b))) > setup.max_token_len
              /\ phase' = "raised" /\ UNCHANGED counts
        /\ UNCHANGED <<setup, answers, batch, work, micros, entered, outputs>>

\* all_reduce with MAX, and the rounding for virtual pipeline stages.
AllReduced_Local(r, b) == counts[r][b]
AllReduced(r, b) == Max({counts[q][b] : q \in DpGroup(r)})
NumMicroBatches(r, b) == roundup_divisible(AllReduced(r, b), setup.num_batches_divided_by)

MicrosOf(r, b) ==
    LET parts == micro_bsz_idx(BatchLens(r, b), NumMicroBatches(r, b))
    IN  [m \in DOMAIN parts |-> [i \in DOMAIN parts[m] |-> work[r][b][parts[m][i]]]]

Divisible(r, b) ==
    LET workloads == [i \in DOMAIN work[r][b] |-> calculate_workload(BatchLens(r, b)[i])]
    IN  /\ NumMicroBatches(r, b) <= Len(work[r][b])
        /\ CheckedPartitions(workloads, NumMicroBatches(r, b), FALSE)

CanRearrange(r) ==
    /\ Len(counts[r]) = Len(micros[r]) + 1
    /\ \A q \in DpGroup(r) : Len(counts[r]) \in DOMAIN counts[q]
Rearrange(r) ==
    LET b == Len(counts[r])
    IN  /\ Working /\ CanRearrange(r)
        /\ \/ /\ Divisible(r, b)
              /\ micros' = [micros EXCEPT ![r] = Append(@, MicrosOf(r, b))]
              /\ entered' = [entered EXCEPT ![r] = Append(@, 0)]
              /\ UNCHANGED phase
           \/ /\ ~Divisible(r, b)
              /\ phase' = "raised" /\ UNCHANGED <<micros, entered>>
        /\ UNCHANGED <<setup, answers, batch, work, counts, outputs>>

\* forward_backward_batch: the next micro-batch.
CanForward(r) ==
    LET b == Len(micros[r])
    IN  /\ b > 0 /\ b = Len(counts[r])
        /\ entered[r][b] < Len(micros[r][b])
        /\ AllEntered(b, entered[r][b])
Forward(r) ==
    LET b == Len(micros[r])
    IN  /\ Working /\ CanForward(r)
        /\ entered' = [entered EXCEPT ![r][b] = @ + 1]
        /\ UNCHANGED <<setup, phase, answers, batch, work, counts, micros, outputs>>

\* postprocess_batch_func: the results of the micro-batches, back in the order of
\* the rows. An update returns metrics alone.
Restored(r) ==
    LET flat == FlattenSeq(micros[r][1])
        data == [i \in DOMAIN flat |-> LocalRows(r)[flat[i]].answer]
    IN  restore_dynamic_batch(data, micros[r][1])

CanReturn(r) ==
    outputs[r] = <<>> /\ Len(micros[r]) = Len(work[r]) /\ BatchOver(r, Len(work[r]))
Return(r) ==
    /\ Working /\ CanReturn(r)
    /\ outputs' = [outputs EXCEPT ![r] = IF phase = "infer" THEN Restored(r) ELSE <<"metrics">>]
    /\ UNCHANGED <<setup, phase, answers, batch, work, counts, micros, entered>>

\* collect_nd_compute takes the outputs in the order of the ranks and joins them;
\* union by position.
CollectedRanks == SelectSeq([i \in 1 .. Cardinality(World) |-> i - 1], Collected)
Collect ==
    LET log_probs == FlattenSeq([i \in DOMAIN CollectedRanks |-> outputs[CollectedRanks[i]]])
    IN  /\ Working /\ \A r \in World : outputs[r] # <<>>
        /\ \/ /\ phase = "infer"
              /\ batch' = [i \in DOMAIN batch |-> [batch[i] EXCEPT !.log_prob = log_probs[i]]]
              /\ phase' = "inferred"
           \/ /\ phase = "update"
              /\ phase' = "done" /\ UNCHANGED batch
        /\ UNCHANGED <<setup, answers, rankVars>>

Stopped ==
    /\ phase \in {"done", "raised"}
    /\ UNCHANGED vars

Init ==
    /\ setup \in Setups
    /\ phase = "prompts"
    /\ answers = [w \in 1 .. setup.num_workers |-> <<>>]
    /\ batch = <<>>
    /\ work = [r \in World |-> <<>>]
    /\ counts = [r \in World |-> <<>>]
    /\ micros = [r \in World |-> <<>>]
    /\ entered = [r \in World |-> <<>>]
    /\ outputs = [r \in World |-> <<>>]

Next ==
    \/ GenerateSequences \/ Gather \/ Balance \/ Dispatch \/ UpdateActor \/ Collect \/ Stopped
    \/ \E w \in 1 .. setup.num_workers : WorkerAnswers(w)
    \/ \E r \in World : AskMicroBatches(r) \/ Rearrange(r) \/ Forward(r) \/ Return(r)

Spec == Init /\ [][Next]_vars

-----------------------------------------------------------------------------
(* Properties *)

\* Type invariant: rows, chunks and micro-batches are within the batch, and a rank
\* asks for at most as many micro-batches as it has rows.
TypeOK ==
    /\ setup \in Setups /\ phase \in Phase
    /\ \A i \in DOMAIN batch :
          /\ batch[i].uid \in 1 .. setup.prompts /\ batch[i].prompt \in 1 .. setup.prompts
          /\ batch[i].baseline \in 0 .. setup.prompts
          /\ {batch[i].answer, batch[i].log_prob} \subseteq 0 .. Len(GenBatch)
          /\ batch[i].len \in Lengths
    /\ \A r \in World :
          /\ Len(work[r]) >= Len(counts[r]) /\ Len(counts[r]) >= Len(micros[r])
          /\ Len(entered[r]) = Len(micros[r])
          /\ \A b \in DOMAIN counts[r] : counts[r][b] \in 1 .. Len(work[r][b])
          /\ \A b \in DOMAIN entered[r] : entered[r][b] \in 0 .. Len(micros[r][b])

\* Every answer is beside its own prompt, in REMAX with the baseline of that
\* prompt, and no answer is lost or there twice, whatever order the agent loop
\* workers end in, through repeat, padding, chunk, unpad, union and reorder.
AnswersWithPrompts ==
    /\ \A i \in DOMAIN batch :
          /\ batch[i].prompt = batch[i].uid
          /\ batch[i].baseline \in {Nothing, batch[i].uid}
    /\ batch # <<>> => {batch[i].answer : i \in DOMAIN batch} = 1 .. Len(Rows)

\* Every row gets the result computed from it: the reordering of a rank's rows into
\* micro-batches is undone, and the collected outputs are in the order of the chunks
\* that were dispatched, on every mesh.
ResultsWithRows ==
    phase \in {"inferred", "update"} => \A i \in DOMAIN batch : batch[i].log_prob = batch[i].answer

\* The rows of a prompt, n of them, are all in the batch when compute_advantage
\* groups the rows by uid, and with use_prefix_grouper they are on one rank.
AdvantageGroups ==
    /\ phase = "inferred" => \A i \in DOMAIN batch :
          Cardinality({j \in DOMAIN batch : batch[j].uid = batch[i].uid}) = setup.n
    /\ (phase = "inferred" /\ setup.use_prefix_grouper) =>
          \A i, j \in DOMAIN batch : batch[i].uid = batch[j].uid =>
              (i - 1) \div LocalSize = (j - 1) \div LocalSize

\* Through padding, balancing, dispatch, micro-batches and collection every row keeps
\* its prompt, its answer, its results and its group (and the batch its shape).
RowsKept == TypeOK /\ AnswersWithPrompts /\ ResultsWithRows /\ AdvantageGroups

\* Balancing balances: the workloads of two data parallel ranks differ by no more
\* than the workloads of two rows (of two prompts with use_prefix_grouper).
BalancedRanks ==
    LET rank(d) == SumOf(Workloads(Chunk(batch, setup.dp_size)[d]))
        units == IF setup.use_prefix_grouper
                 THEN {SumOf(Workloads(SelectSeq(batch, LAMBDA row : row.uid = u))) :
                          u \in 1 .. setup.prompts}
                 ELSE ToSet(Workloads(batch))
    IN  (phase = "balanced" /\ setup.balance_batch) =>
            \A d, e \in 1 .. setup.dp_size : rank(d) - rank(e) <= Max(units) - Min(units)

\* The ranks of one replica (tensor, sequence or pipeline parallel) form the same
\* micro-batches, and all ranks form equally many: otherwise their collectives
\* would not match.
SameMicroBatches ==
    \A r, q \in World : \A b \in DOMAIN micros[r] \cap DOMAIN micros[q] :
        /\ Len(micros[r][b]) = Len(micros[q][b])
        /\ DpRank(r) = DpRank(q) => micros[r][b] = micros[q][b]

\* The tokens of a micro-batch exceed max_token_len by less than one row: the
\* bound that holds, since partitions are balanced and not packed (the docstring of
\* rearrange_micro_batches calls max_token_len the "max sum of attention_mask per
\* micro-batch").
MicroBatchTokens(r, b, m) == SumOf([i \in DOMAIN micros[r][b][m] |-> LocalRows(r)[micros[r][b][m][i]].len])
MicroBatchBound ==
    \A r \in World : \A b \in DOMAIN micros[r] : \A m \in DOMAIN micros[r][b] :
        MicroBatchTokens(r, b, m) < setup.max_token_len + Max(Lengths)

\* Work is divided as the partitions promise, over the ranks and into micro-batches.
WorkDivided == BalancedRanks /\ MicroBatchBound

\* An update trains every row of the batch once per epoch, on every rank that
\* holds it.
TrainedOncePerEpoch ==
    (phase = "done" /\ ~setup.validate) =>
        \A r \in World : \A i \in 1 .. LocalSize :
            SumOf([b \in DOMAIN micros[r] |->
                SumOf([m \in DOMAIN micros[r][b] |-> Len(SelectSeq(micros[r][b][m], LAMBDA x : x = i))])])
            = setup.epochs

\* What a step raises for: sizes that do not divide, a row longer than
\* max_token_len, or more micro-batches than rows after the rounding for virtual
\* pipeline stages. The assertions on partitions (none empty, all rows covered,
\* equal sizes) never fail.
RaisesForReason ==
    phase = "raised" =>
        \/ ~Chunkable(GenBatch, setup.num_workers)
        \/ ~Chunkable(Rows, setup.dp_size) \/ ~MiniBatchable
        \/ setup.use_prefix_grouper /\ setup.prompts % setup.dp_size # 0
        \/ \E i \in DOMAIN batch : batch[i].len > setup.max_token_len
        \/ \E r \in World : \E b \in DOMAIN counts[r] :
              Len(work[r][b]) % setup.num_batches_divided_by # 0

\* An update that ends trained every row, in micro-batches and on ranks between which
\* the work is divided, and one that raises had a reason.
UpdateDone == WorkDivided /\ TrainedOncePerEpoch /\ RaisesForReason

\* No rank is left waiting in a collective for a rank that never joins it: while a
\* call is under way, some rank can go on or all have returned. (Every step but
\* Stopped brings the batch forward, so a call that can always go on ends.)
NoRankStranded ==
    Working =>
        \/ \A r \in World : outputs[r] # <<>>
        \/ \E r \in World : CanAsk(r) \/ CanRearrange(r) \/ CanForward(r) \/ CanReturn(r)

\* The collectives of the ranks match: equal micro-batches, and nobody waits for ever.
CollectivesMatch == SameMicroBatches /\ NoRankStranded
=============================================================================
