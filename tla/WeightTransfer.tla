--------------------------- MODULE WeightTransfer ---------------------------
(***************************************************************************)
(* One weight update after the other through a checkpoint engine: rank 0   *)
(* of the trainer packs tensors into buckets, the ranks of the rollout     *)
(* receive them into two buffers used in turn, and each rank passes the    *)
(* tensors on to its vLLM worker through one IPC buffer                    *)
(* (BucketedWeightSender, BucketedWeightReceiver). Engines:                *)
(*   nccl, hccl   every bucket is broadcast by rank 0                      *)
(*   nixl         rank r reads each bucket from rank r - 1, which is told  *)
(*                when the read is over                                    *)
(*   mooncake     the same, but "over" is a magic word that rank r writes  *)
(*                over the beginning of the bucket in rank r - 1           *)
(*                                                                         *)
(* A byte is the update, tensor and place it belongs to. A copy on a       *)
(* device stream reads its source when it is executed, not when it is      *)
(* issued. Trainer ranks other than 0 only drain their generator. NCCL,    *)
(* NIXL, Mooncake and ZeroMQ are external: operations complete, messages   *)
(* arrive in order. The magic word (four bytes) is one byte here, and no   *)
(* tensor holds it.                                                        *)
(***************************************************************************)
EXTENDS Integers, Sequences, FiniteSets, SequencesExt

CONSTANTS
    R,             \* ranks 1 .. R of the rollout; 0 is the trainer
    bucket_size,
    MaxRounds,     \* bound: weight updates
    Setups         \* engine, sizes of the tensors, use_shm of the vLLM workers

Engines == {"nccl", "hccl", "nixl", "mooncake"}

ASSUME TransferAssumption ==
    /\ R \in Nat \ {0} /\ bucket_size \in Nat \ {0} /\ MaxRounds \in Nat \ {0}
    /\ Setups \subseteq [engine : Engines, sizes : Seq(Nat \ {0}), use_shm : BOOLEAN]

VARIABLES
    setup, round,
    next, bucket_meta, sent, trainer, reclaim,   \* send_weights of rank 0
    buf,                                         \* send_buf and recv_buf of every rank
    have, moved, reading, yielded, offered, returned,  \* receive_weights of a rank
    merge, item, pending,                        \* merge_weight_chunks and the stream
    ipc_meta, ipc_buf, loaded, done              \* towards the vLLM worker

sender == <<next, bucket_meta, sent, trainer, reclaim>>
receiver == <<have, moved, reading, yielded, offered, returned>>
consumer == <<merge, item, pending, ipc_meta, ipc_buf, loaded, done>>
vars == <<setup, round, sender, buf, receiver, consumer>>

Ranks == 1 .. R
engine == setup.engine
sizes == setup.sizes
Names == DOMAIN sizes

Bytes == 0 .. bucket_size - 1
Zero == <<0, 0, 0>>
Magic == <<-1, 0, 0>>
Byte(t, i) == <<round, t, i>>
Empty == [i \in Bytes |-> Zero]
NoMerge == [name |-> 0, offset |-> 0, bytes |-> <<>>]
NoItem == [name |-> 0, slot |-> 0, offset |-> 0]

Smaller(a, b) == IF a < b THEN a ELSE b

Of(x) == [r \in Ranks |-> x]
NewBuffers == [r \in 0 .. R |-> [s \in {0, 1} |-> Empty]]
NothingLoaded == Of([t \in Names |-> <<>>])

Init ==
    /\ setup \in Setups /\ round = 1
    /\ next = 1 /\ bucket_meta = <<>> /\ sent = <<>>
    /\ trainer = "sending" /\ reclaim = FALSE
    /\ buf = NewBuffers
    /\ have = Of(0) /\ moved = Of(0) /\ reading = Of(FALSE)
    /\ yielded = Of(0) /\ offered = Of(0) /\ returned = Of(0)
    /\ merge = Of(NoMerge) /\ item = Of(NoItem) /\ pending = Of(<<>>)
    /\ ipc_meta = Of(<<>>) /\ ipc_buf = Of(Empty)
    /\ loaded = NothingLoaded /\ done = Of(FALSE)

-----------------------------------------------------------------------------
(* The trainer.                                                            *)

\* Faulty variant: a chunk leaves the last byte of the bucket free.
ChunksOf_Short(t) ==
    LET size == bucket_size - 1 IN
    [j \in 1 .. (sizes[t] + size - 1) \div size |->
        [name |-> t, at |-> (j - 1) * size, size |-> Smaller(size, sizes[t] - (j - 1) * size)]]

ChunksOf(t) ==
    [j \in 1 .. (sizes[t] + bucket_size - 1) \div bucket_size |->
        [name |-> t, at |-> (j - 1) * bucket_size,
         size |-> Smaller(bucket_size, sizes[t] - (j - 1) * bucket_size)]]

\* split_weight_chunks; hccl and mooncake send whole tensors.
Chunks ==
    IF engine \in {"nccl", "nixl"} THEN FlattenSeq([t \in Names |-> ChunksOf(t)])
    ELSE [t \in Names |-> [name |-> t, at |-> 0, size |-> sizes[t]]]

\* The buffer of bucket k, in every rank.
Slot(k) == k % 2

Filled(meta) ==
    IF meta = <<>> THEN 0 ELSE meta[Len(meta)].offset + meta[Len(meta)].size

\* Rank 0's operation on bucket k is complete: broadcast to all, or read by rank 1.
Taken(k) ==
    k > 0 => IF engine = "nixl" THEN moved[1] >= k ELSE \A r \in Ranks : moved[r] >= k

Fits == next <= Len(Chunks) /\ Filled(bucket_meta) + Chunks[next].size <= bucket_size

\* hccl broadcasts in the constructor of BroadcastOperation, nccl in a thread.
\* mooncake has waited for the magic word after a hand-over (Reclaim).
MayFill == /\ trainer = "sending" /\ ~reclaim
           /\ engine = "hccl" => Taken(Len(sent))

\* A chunk is copied into the bucket.
PackChunk ==
    /\ MayFill /\ Fits
    /\ LET c == Chunks[next] offset == Filled(bucket_meta)
       IN  /\ bucket_meta' = Append(bucket_meta, [name |-> c.name, at |-> c.at,
                                                  size |-> c.size, offset |-> offset])
           /\ buf' = [buf EXCEPT ![0][Slot(Len(sent) + 1)] =
                        [i \in Bytes |-> IF i \in offset .. offset + c.size - 1
                                         THEN Byte(c.name, c.at + i - offset) ELSE @[i]]]
    /\ next' = next + 1
    /\ UNCHANGED <<setup, round, sent, trainer, reclaim, receiver, consumer>>

HandOver(is_last) ==
    /\ sent' = Append(sent, [meta |-> bucket_meta, is_last |-> is_last])
    /\ bucket_meta' = <<>>
    /\ UNCHANGED <<setup, round, next, buf, receiver, consumer>>

PreviousOver == engine # "mooncake" => Taken(Len(sent))

\* The chunk does not fit: the bucket goes out, once the previous operation is
\* over, and the buffers are swapped. mooncake only then waits for the buffer.
SendBucket ==
    /\ MayFill /\ next <= Len(Chunks) /\ ~Fits
    /\ bucket_meta # <<>> \/ sent = <<>>
    /\ PreviousOver
    /\ reclaim' = (engine = "mooncake" /\ sent # <<>>)
    /\ HandOver(FALSE)
    /\ UNCHANGED trainer

\* wait_for_complete of mooncake.
Reclaim ==
    /\ reclaim /\ buf[0][Slot(Len(sent) + 1)][0] = Magic
    /\ reclaim' = FALSE
    /\ UNCHANGED <<setup, round, next, bucket_meta, sent, trainer, buf, receiver, consumer>>

\* A tensor larger than a bucket, in an engine that does not split tensors.
TooLarge ==
    /\ MayFill /\ next <= Len(Chunks) /\ ~Fits /\ bucket_meta = <<>> /\ sent # <<>>
    /\ trainer' = "raised"
    /\ UNCHANGED <<setup, round, next, bucket_meta, sent, reclaim, buf, receiver, consumer>>

SendLast ==
    /\ MayFill /\ next > Len(Chunks)
    /\ PreviousOver
    /\ HandOver(TRUE)
    /\ trainer' = "waiting"
    /\ UNCHANGED reclaim

SendDone ==
    /\ trainer = "waiting"
    /\ IF engine = "mooncake" THEN buf[0][Slot(Len(sent))][0] = Magic ELSE Taken(Len(sent))
    /\ trainer' = "done"
    /\ UNCHANGED <<setup, round, next, bucket_meta, sent, reclaim, buf, receiver, consumer>>

-----------------------------------------------------------------------------
(* A rank of the rollout: receive_weights.                                 *)

Source(r) == IF engine \in {"nccl", "hccl"} THEN 0 ELSE r - 1
Offered(r) == IF Source(r) = 0 THEN Len(sent) ELSE offered[Source(r)]

AtLast(r) == have[r] > 0 /\ sent[have[r]].is_last
Meta(r) == IF have[r] = 0 THEN <<>> ELSE sent[have[r]].meta
\* The consumer has come back for more, and the bucket is used up.
Used(r) == item[r] = NoItem /\ yielded[r] = Len(Meta(r))

\* nixl: the metadata of the next bucket is here, the read begins.
BeginRead(r) ==
    /\ engine = "nixl" /\ ~reading[r] /\ ~AtLast(r) /\ Offered(r) > have[r]
    /\ reading' = [reading EXCEPT ![r] = TRUE]
    /\ UNCHANGED <<setup, round, sender, buf, have, moved, yielded, offered, returned, consumer>>

\* The next bucket arrives in the buffer that is not being yielded from, at any
\* time while the operation is under way.
Transfer(r) ==
    /\ engine # "mooncake" /\ moved[r] = have[r] /\ ~AtLast(r)
    /\ IF engine = "nixl" THEN reading[r] ELSE Offered(r) > have[r]
    /\ LET k == have[r] + 1
       IN  buf' = [buf EXCEPT ![r][Slot(k)] = buf[Source(r)][Slot(k)]]
    /\ moved' = [moved EXCEPT ![r] = @ + 1]
    /\ UNCHANGED <<setup, round, sender, have, reading, yielded, offered, returned, consumer>>

\* Faulty variant: the copies from the buffer are not waited for.
Synchronized_Skipped(r) == TRUE
Synchronized(r) == pending[r] = <<>>
NextHasRead(r) == engine = "nixl" /\ r < R => moved[r + 1] >= have[r]

\* nccl, hccl, nixl: the bucket is used up and the next one complete: swap. nixl
\* offers it to the next rank.
Advance(r) ==
    /\ engine # "mooncake" /\ Used(r) /\ moved[r] = have[r] + 1
    /\ NextHasRead(r) /\ Synchronized(r)
    /\ have' = [have EXCEPT ![r] = @ + 1]
    /\ yielded' = [yielded EXCEPT ![r] = 0]
    /\ reading' = [reading EXCEPT ![r] = FALSE]
    /\ offered' = [offered EXCEPT ![r] = @ + 1]
    /\ UNCHANGED <<setup, round, sender, buf, moved, returned, consumer>>

\* mooncake, from the third bucket on: the next rank has left its magic word.
ReadByNext(r) == have[r] >= 2 /\ r < R => buf[r][Slot(have[r] + 1)][0] = Magic

\* mooncake: info of the next bucket, the read, and the info for the next rank.
ReadBucket(r) ==
    /\ engine = "mooncake" /\ Used(r) /\ returned[r] = have[r] /\ ~AtLast(r)
    /\ Synchronized(r)
    /\ Offered(r) > have[r] /\ ReadByNext(r)
    /\ LET k == have[r] + 1
       IN  buf' = [buf EXCEPT ![r][Slot(k)] =
                     [i \in Bytes |-> IF i < Filled(sent[k].meta)
                                      THEN buf[r - 1][Slot(k)][i] ELSE @[i]]]
    /\ have' = [have EXCEPT ![r] = @ + 1] /\ moved' = [moved EXCEPT ![r] = @ + 1]
    /\ offered' = [offered EXCEPT ![r] = @ + 1]
    /\ yielded' = [yielded EXCEPT ![r] = 0]
    /\ UNCHANGED <<setup, round, sender, reading, returned, consumer>>

\* Faulty variant: the loop is left before the last magic word.
WriteMagic_NotLast(r) ==
    /\ engine = "mooncake" /\ Used(r) /\ returned[r] < have[r]
    /\ buf' = IF AtLast(r) THEN buf ELSE [buf EXCEPT ![r - 1][Slot(have[r])][0] = Magic]
    /\ returned' = [returned EXCEPT ![r] = have[r]]
    /\ UNCHANGED <<setup, round, sender, have, moved, reading, yielded, offered, consumer>>

\* mooncake: everything is yielded, the magic word goes to the previous rank.
WriteMagic(r) ==
    /\ engine = "mooncake" /\ Used(r) /\ returned[r] < have[r]
    /\ buf' = [buf EXCEPT ![r - 1][Slot(have[r])][0] = Magic]
    /\ returned' = [returned EXCEPT ![r] = have[r]]
    /\ UNCHANGED <<setup, round, sender, have, moved, reading, yielded, offered, consumer>>

-----------------------------------------------------------------------------
(* merge_weight_chunks and BucketedWeightSender, which take the tensors.   *)

Issue(r, copy) == pending' = [pending EXCEPT ![r] = Append(@, copy)]

\* hccl has the next bucket before it yields, nixl has begun to read it.
MayYield(r) ==
    \/ AtLast(r) \/ engine \in {"nccl", "mooncake"}
    \/ engine = "hccl" /\ moved[r] > have[r]
    \/ engine = "nixl" /\ reading[r]

\* The next chunk: a whole tensor, or a part that is copied to the tensor being
\* put together, which is yielded with its last part.
YieldChunk(r) ==
    /\ item[r] = NoItem /\ yielded[r] < Len(Meta(r)) /\ MayYield(r)
    /\ LET c == Meta(r)[yielded[r] + 1]
           part == sizes[c.name] > bucket_size
           whole == [name |-> c.name, slot |-> Slot(have[r]), offset |-> c.offset]
           last == c.at + c.size = sizes[c.name]
       IN  IF part
           THEN /\ merge' = [merge EXCEPT ![r] =
                     [name |-> c.name, offset |-> c.at + c.size,
                      bytes |-> IF @ = NoMerge THEN [i \in 0 .. sizes[c.name] - 1 |-> Zero]
                                ELSE @.bytes]]
                /\ Issue(r, [to |-> "merge", slot |-> Slot(have[r]), offset |-> c.offset,
                             at |-> c.at, size |-> c.size])
                /\ item' = [item EXCEPT ![r] = IF last THEN whole ELSE NoItem]
           ELSE item' = [item EXCEPT ![r] = whole] /\ UNCHANGED <<merge, pending>>
    /\ yielded' = [yielded EXCEPT ![r] = @ + 1]
    /\ UNCHANGED <<setup, round, sender, buf, have, moved, reading, offered, returned,
                   ipc_meta, ipc_buf, loaded, done>>

\* The copy at the head of the stream is executed.
StreamCopy(r) ==
    /\ pending[r] # <<>>
    /\ LET c == Head(pending[r])
           Copied(b) == [i \in DOMAIN b |-> IF i \in c.at .. c.at + c.size - 1
                                            THEN buf[r][c.slot][c.offset + i - c.at] ELSE b[i]]
       IN  IF c.to = "merge"
           THEN merge' = [merge EXCEPT ![r].bytes = Copied(@)] /\ UNCHANGED ipc_buf
           ELSE ipc_buf' = [ipc_buf EXCEPT ![r] = Copied(@)] /\ UNCHANGED merge
    /\ pending' = [pending EXCEPT ![r] = Tail(@)]
    /\ UNCHANGED <<setup, round, sender, buf, receiver, item, ipc_meta, loaded, done>>

\* The worker loads the tensors of the IPC buffer and answers.
LoadIpc(r) ==
    /\ pending[r] = <<>>
    /\ loaded' = [loaded EXCEPT ![r] =
         [t \in Names |->
            IF \E i \in DOMAIN ipc_meta[r] : ipc_meta[r][i].name = t
            THEN LET m == ipc_meta[r][CHOOSE i \in DOMAIN ipc_meta[r] : ipc_meta[r][i].name = t]
                 IN  [i \in 0 .. m.size - 1 |-> ipc_buf[r][m.offset + i]]
            ELSE @[t]]]
    /\ ipc_meta' = [ipc_meta EXCEPT ![r] = <<>>]

\* Faulty variant: one byte too many.
IpcFits_OneMore(r) == Filled(ipc_meta[r]) + sizes[item[r].name] <= bucket_size + 1
IpcFits(r) == Filled(ipc_meta[r]) + sizes[item[r].name] <= bucket_size

\* The tensor does not fit: the buffer is sent first.
SendIpc(r) ==
    /\ item[r] # NoItem /\ ~IpcFits(r) /\ ipc_meta[r] # <<>>
    /\ LoadIpc(r)
    /\ UNCHANGED <<setup, round, sender, buf, receiver, merge, item, pending, ipc_buf, done>>

PackIpc(r) ==
    /\ item[r] # NoItem /\ IpcFits(r)
    /\ LET offset == Filled(ipc_meta[r]) size == sizes[item[r].name]
       IN  /\ ipc_meta' = [ipc_meta EXCEPT ![r] =
                  Append(@, [name |-> item[r].name, offset |-> offset, size |-> size])]
           /\ Issue(r, [to |-> "ipc", slot |-> item[r].slot, offset |-> item[r].offset,
                        at |-> offset, size |-> size])
    /\ item' = [item EXCEPT ![r] = NoItem]
    /\ UNCHANGED <<setup, round, sender, buf, receiver, merge, ipc_buf, loaded, done>>

\* _direct_send_large_weight: the IPC handle of the tensor itself; the worker
\* waits for the event that reduce_tensor recorded on the stream.
SendLarge(r) ==
    /\ item[r] # NoItem /\ ~IpcFits(r) /\ ipc_meta[r] = <<>> /\ ~setup.use_shm
    /\ pending[r] = <<>>
    /\ loaded' = [loaded EXCEPT ![r][item[r].name] = merge[r].bytes]
    /\ item' = [item EXCEPT ![r] = NoItem] /\ merge' = [merge EXCEPT ![r] = NoMerge]
    /\ UNCHANGED <<setup, round, sender, buf, receiver, pending, ipc_meta, ipc_buf, done>>

\* With shared memory a tensor larger than the buffer is an error.
SendLargeRaises(r) ==
    /\ item[r] # NoItem /\ ~IpcFits(r) /\ ipc_meta[r] = <<>> /\ setup.use_shm
    /\ trainer' = "raised"
    /\ UNCHANGED <<setup, round, next, bucket_meta, sent, reclaim, buf, receiver, consumer>>

\* The generator ends: nixl has waited for the next rank; the last IPC buffer.
ReceiveDone(r) ==
    /\ ~done[r] /\ AtLast(r) /\ Used(r)
    /\ NextHasRead(r)
    /\ engine = "mooncake" => returned[r] = have[r]
    /\ LoadIpc(r)
    /\ done' = [done EXCEPT ![r] = TRUE]
    /\ UNCHANGED <<setup, round, sender, buf, receiver, merge, item, pending, ipc_buf>>

-----------------------------------------------------------------------------
Over == trainer = "done" /\ \A r \in Ranks : done[r]

\* update_weights of the manager returns (finalize), and the next one begins
\* (prepare) with new buffers, except those of mooncake, which live as long as
\* the engine.
NextRound ==
    /\ Over /\ round < MaxRounds
    /\ round' = round + 1
    /\ next' = 1 /\ bucket_meta' = <<>> /\ sent' = <<>>
    /\ trainer' = "sending" /\ reclaim' = FALSE
    /\ buf' = IF engine = "mooncake" THEN buf ELSE NewBuffers
    /\ have' = Of(0) /\ moved' = Of(0) /\ reading' = Of(FALSE)
    /\ yielded' = Of(0) /\ offered' = Of(0) /\ returned' = Of(0)
    /\ merge' = Of(NoMerge) /\ item' = Of(NoItem) /\ pending' = Of(<<>>)
    /\ ipc_meta' = Of(<<>>) /\ ipc_buf' = Of(Empty)
    /\ loaded' = NothingLoaded /\ done' = Of(FALSE)
    /\ UNCHANGED setup

Send == PackChunk \/ SendBucket \/ Reclaim \/ TooLarge \/ SendLast \/ SendDone
Receive(r) ==
    \/ BeginRead(r) \/ Transfer(r) \/ Advance(r) \/ ReadBucket(r) \/ WriteMagic(r)
    \/ YieldChunk(r) \/ StreamCopy(r) \/ SendIpc(r) \/ PackIpc(r) \/ SendLarge(r)
    \/ SendLargeRaises(r) \/ ReceiveDone(r)

Next ==
    \/ trainer # "raised" /\ (Send \/ \E r \in Ranks : Receive(r))
    \/ NextRound

Spec == Init /\ [][Next]_vars /\ WF_vars(Next)

-----------------------------------------------------------------------------
\* Type invariant.
TypeOK ==
    /\ setup \in Setups /\ round \in 1 .. MaxRounds
    /\ next \in 1 .. Len(Chunks) + 1 /\ Filled(bucket_meta) <= bucket_size
    /\ trainer \in {"sending", "waiting", "done", "raised"} /\ reclaim \in BOOLEAN
    /\ \A r \in 0 .. R : \A s \in {0, 1} : DOMAIN buf[r][s] = Bytes
    /\ \A r \in Ranks :
         /\ have[r] \in 0 .. Len(sent) /\ moved[r] \in have[r] .. have[r] + 1
         /\ moved[r] <= Len(sent) /\ yielded[r] \in 0 .. Len(Meta(r))
         /\ reading[r] \in BOOLEAN /\ done[r] \in BOOLEAN
         /\ offered[r] <= have[r] /\ returned[r] <= have[r]
         /\ Filled(ipc_meta[r]) <= bucket_size
         /\ item[r].name \in Names \cup {0} /\ merge[r].name \in Names \cup {0}

\* What rank r has loaded of tensor t, if anything, is what rank 0 sent.
Sound(r, t) ==
    IF loaded[r][t] = <<>> THEN ~done[r]
    ELSE loaded[r][t] = [i \in 0 .. sizes[t] - 1 |-> Byte(t, i)]

\* Tensors at the beginning of a bucket.
FirstInBucket(t) ==
    \E k \in DOMAIN sent : sent[k].meta # <<>> /\ sent[k].meta[1].name = t

\* Every worker loads every byte of every tensor of this update, although
\* buffers are refilled while earlier buckets are on their way, yielded from, or
\* still being copied ("check_allclose" of tests/checkpoint_engine); all but the
\* first tensor of a bucket in a mooncake rank that has a successor, into which the
\* successor's magic word may be written too early.
WeightsArriveButMagic ==
    \A r \in Ranks : \A t \in Names :
        Sound(r, t) \/ (engine = "mooncake" /\ r < R /\ FirstInBucket(t))

\* The assertions of send_weights and merge_weight_chunks: no name twice in a
\* bucket, and the parts of a large tensor come one after the other.
AssertionsHold ==
    /\ \A i, j \in DOMAIN bucket_meta : bucket_meta[i].name = bucket_meta[j].name => i = j
    /\ \A r \in Ranks : item[r] = NoItem /\ yielded[r] < Len(Meta(r)) =>
         LET c == Meta(r)[yielded[r] + 1]
         IN  IF sizes[c.name] <= bucket_size THEN merge[r] = NoMerge
             ELSE IF merge[r] = NoMerge THEN c.at = 0
             ELSE merge[r].name = c.name /\ merge[r].offset = c.at

\* An update delivers the weights through buckets that are never overfilled, and no
\* assertion of the code stops it.
WeightsDelivered == TypeOK /\ WeightsArriveButMagic /\ AssertionsHold

\* Every update comes to an end in every rank, the last one included; only a
\* tensor too large for its engine or for shared memory stops the job.
EveryRoundEnds == <>(trainer = "raised" \/ (round = MaxRounds /\ Over))
=============================================================================
