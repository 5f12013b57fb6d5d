-------------------------- MODULE MCWeightTransfer --------------------------
(***************************************************************************)
(* Instances of WeightTransfer: tensors that share a bucket, fill one and, *)
(* for the engines that split, span two; and tensors that are too large.   *)
(***************************************************************************)
EXTENDS WeightTransfer

MCSetup(e, s, shm) == [engine |-> e, sizes |-> s, use_shm |-> shm]

MCSetups ==
    {MCSetup(e, <<1, 3, 1>>, FALSE) : e \in {"nccl", "nixl"}}
    \cup {MCSetup(e, <<1, 2, 2, 1>>, FALSE) : e \in {"hccl", "mooncake"}}
    \cup {MCSetup("nccl", <<1, 3>>, TRUE), MCSetup("hccl", <<1, 3>>, FALSE),
          MCSetup("mooncake", <<3>>, FALSE)}
=============================================================================
