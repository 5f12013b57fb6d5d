-------------------------- MODULE SeqlenBalancing --------------------------
(***************************************************************************)
(* verl/utils/seqlen_balancing.py: how the rows of a batch are divided     *)
(* among data parallel ranks and then into micro-batches. Indices count    *)
(* from 1 (the code counts from 0). An operator that can fail an assertion *)
(* of the code has the assertion as an operator of its own.                *)
(***************************************************************************)
EXTENDS Integers, Sequences, SequencesExt, FiniteSetsExt, TLC

calculate_workload(seqlen) == 24576 * seqlen + seqlen * seqlen

SumOver(values, indices) == FoldSeq(LAMBDA i, total : values[i] + total, 0, indices)
SumOf(values) == FoldSeq(+, 0, values)

ceildiv_Floor(a, b) == a \div b
ceildiv(a, b) == -((-a) \div b)
roundup_divisible(a, b) == ((a + b - 1) \div b) * b

\* s[::2] and s[1::2] of the code.
EvenPlaces(s) == [i \in 1 .. (Len(s) + 1) \div 2 |-> s[2 * i - 1]]
OddPlaces(s) == [i \in 1 .. Len(s) \div 2 |-> s[2 * i]]

-----------------------------------------------------------------------------
\* karmarkar_karp. A Set is its sum and its items (indices, in the order they
\* were added); a State is k Sets in decreasing order.

\* Set.__lt__: by sum, then by number of items, then by the items themselves,
\* of which the first decides, because no index is in two sets.
SetLess(a, b) ==
    IF a.sum # b.sum THEN a.sum < b.sum
    ELSE IF Len(a.items) # Len(b.items) THEN Len(a.items) < Len(b.items)
    ELSE a.items # <<>> /\ a.items[1] < b.items[1]

Decreasing(sets) == SortSeq(sets, LAMBDA a, b : SetLess(b, a))
NewState(items, values, k) ==
    Decreasing([i \in 1 .. k |-> IF i <= Len(items)
                                 THEN [sum |-> values[items[i]], items |-> <<items[i]>>]
                                 ELSE [sum |-> 0, items |-> <<>>]])

\* State.merge: the largest set of one state with the smallest of the other.
Partner_Same(i, k) == i
Partner(i, k) == k + 1 - i
MergeStates(s, t) ==
    Decreasing([i \in 1 .. Len(s) |->
        [sum |-> s[i].sum + t[Partner(i, Len(s))].sum,
         items |-> s[i].items \o t[Partner(i, Len(s))].items]])

Spread(s) == s[1].sum - s[Len(s)].sum
\* State.__lt__: what the heap pops first.
PoppedBefore(s, t) ==
    IF Spread(s) # Spread(t) THEN Spread(s) > Spread(t) ELSE SetLess(t[1], s[1])

RECURSIVE MergeAll(_)
MergeAll(states) ==
    IF Cardinality(states) = 1 THEN CHOOSE s \in states : TRUE
    ELSE LET First(heap) == CHOOSE s \in heap : \A t \in heap \ {s} : PoppedBefore(s, t)
             state0 == First(states)
             state1 == First(states \ {state0})
         IN  MergeAll((states \ {state0, state1}) \cup {MergeStates(state0, state1)})

Indices(values) == [i \in 1 .. Len(values) |-> i]
\* sorted((seqlen, i) for ...): the indices by value, then by index.
ByValue(values, indices) ==
    SortSeq(indices, LAMBDA i, j : values[i] < values[j] \/ (values[i] = values[j] /\ i < j))

karmarkar_karp(values, k, equal_size) ==
    LET sorted == ByValue(values, Indices(values))
        Start == IF equal_size
                 THEN {SubSeq(sorted, (j - 1) * k + 1, j * k) : j \in 1 .. Len(values) \div k}
                 ELSE {<<i>> : i \in ToSet(sorted)}
        final == MergeAll({NewState(items, values, k) : items \in Start})
    IN  [i \in 1 .. k |-> final[i].items]

-----------------------------------------------------------------------------
\* get_seqlen_balanced_partitions: its assertions, on the values and on what
\* karmarkar_karp returns, and its result.
Partitionable(values, k, equal_size) ==
    /\ Len(values) >= k
    /\ equal_size => Len(values) % k = 0

CheckedPartitions(values, k, equal_size) ==
    LET parts == karmarkar_karp(values, k, equal_size)
    IN  /\ \A i \in 1 .. k : parts[i] # <<>>
        /\ UNION {ToSet(parts[i]) : i \in 1 .. k} = 1 .. Len(values)
        /\ equal_size => \A i \in 1 .. k : Len(parts[i]) * k = Len(values)

Ascending(indices) == SortSeq(indices, <)
get_seqlen_balanced_partitions(values, k, equal_size) ==
    LET parts == karmarkar_karp(values, k, equal_size)
    IN  [i \in 1 .. k |-> Ascending(parts[i])]

\* get_group_balanced_partitions: the runs of equal uids, divided like rows, each
\* of the workload of its rows.
RunStarts(uids) == {i \in 1 .. Len(uids) : i = 1 \/ uids[i] # uids[i - 1]}
Runs(uids) ==
    LET starts == SetToSortSeq(RunStarts(uids), <)
        End(g) == IF g = Len(starts) THEN Len(uids) ELSE starts[g + 1] - 1
    IN  [g \in 1 .. Len(starts) |-> [i \in 1 .. End(g) - starts[g] + 1 |-> starts[g] + i - 1]]
RunWorkloads(seqlens, runs) ==
    [g \in DOMAIN runs |-> SumOf([i \in DOMAIN runs[g] |-> calculate_workload(seqlens[runs[g][i]])])]
get_group_balanced_partitions_Rows(seqlens, uids, k) ==
    get_seqlen_balanced_partitions([i \in DOMAIN seqlens |-> calculate_workload(seqlens[i])], k, TRUE)
get_group_balanced_partitions(seqlens, uids, k) ==
    LET runs == Runs(uids)
        parts == get_seqlen_balanced_partitions(RunWorkloads(seqlens, runs), k, TRUE)
    IN  [p \in 1 .. k |-> Ascending(FlattenSeq([g \in DOMAIN parts[p] |-> runs[parts[p][g]]]))]

-----------------------------------------------------------------------------
\* rearrange_micro_batches: how many micro-batches a rank asks for, and how its
\* rows are divided once the ranks agree on a number.
LocalMicroBatches(seqlens, max_token_len) ==
    Min({Len(seqlens), ceildiv(SumOf(seqlens), max_token_len)})

\* Larger micro-batches in the middle.
SmallAtBothEnds(parts, workloads) ==
    LET Key(p) == SumOver(workloads, p)
        sorted == SortSeq(parts, LAMBDA p, q : \/ Key(p) > Key(q)
                                               \/ Key(p) = Key(q) /\ p[1] > q[1])
    IN  Reverse(EvenPlaces(sorted)) \o OddPlaces(sorted)

micro_bsz_idx(seqlens, num_micro_batches) ==
    LET workloads == [i \in DOMAIN seqlens |-> calculate_workload(seqlens[i])]
    IN  SmallAtBothEnds(get_seqlen_balanced_partitions(workloads, num_micro_batches, FALSE), workloads)

\* get_reverse_idx and restore_dynamic_batch: the results of the micro-batches,
\* one after the other, in the order of the rows.
get_reverse_idx_Forward(idx_map) == idx_map
get_reverse_idx(idx_map) == [j \in DOMAIN idx_map |-> CHOOSE i \in DOMAIN idx_map : idx_map[i] = j]
restore_dynamic_batch(data, batch_idx_list) ==
    LET revert == get_reverse_idx(FlattenSeq(batch_idx_list))
    IN  [i \in DOMAIN data |-> data[revert[i]]]
=============================================================================
