--------------------------- MODULE SyncTrainerProofs ---------------------------
(***************************************************************************)
(* Proofs about the trainer of main_ppo_sync.py, for all configurations,   *)
(* numbers of prompts, sessions, outputs, steps, validation batches and    *)
(* data parallel ranks.                                                    *)
(***************************************************************************)
EXTENDS SyncTrainer, FiniteSetTheorems, SequenceTheorems, WellFoundedInduction, TLAPS

-----------------------------------------------------------------------------
(* The inductive invariant. *)

Pc == {"start", "dispatch", "spawn", "sample", "sleep", "balance", "compute", "update_weights",
       "collect", "metrics", "clear", "remove", "done", "raised"}
Part == {"train", "val"}
Row == OutputKey \cup PadKey

\* The step a row belongs to, and its tag wherever it is listed.
StepOf(key) == IF key \in PadKey THEN key.pad ELSE key.uid.step
RowTag(key) == [status |-> "success", step |-> StepOf(key)]
RowsOf(table, p) == {key \in DOMAIN table : key \in Row /\ PartOf(key) = p /\ StepOf(key) = global_steps}
OutputsIn(table) == DOMAIN table \cap OutputKey

\* Every variable has its type.
Types ==
    /\ setup \in Setups
    /\ IsTable(tq) /\ IsTable(partitions) /\ IsTable(snapshot)
    /\ to_add \subseteq Part
    /\ DOMAIN session = Uid
    /\ \A u \in Uid : session[u] \in [Sessions(u) -> {"idle", "running", "ended", "raised"}]
    /\ prompt \in [Uid -> {"idle", "running", "finished", "failure"}]
    /\ pc \in Pc /\ part \in Part
    /\ val_batch \in 0 .. val_batches
    /\ global_steps \in 0 .. total_training_steps
    /\ version \in 0 .. total_training_steps /\ awake \in BOOLEAN
    /\ batch \in [train : SUBSET Row, val : SUBSET OutputKey]

\* Where the trainer can be.
Placed ==
    /\ pc \in {"start", "sleep", "balance", "compute", "update_weights", "metrics", "done"} => part = "train"
    /\ pc = "collect" => part = "val"
    /\ part = "train" => (global_steps = 0 <=> pc = "start")
    /\ part = "val" => val_batch > 0 /\ (batch.train = {} <=> global_steps = 0)
    /\ part = "train" => batch.val = {}
    /\ pc \in {"start", "dispatch", "spawn", "sample"} => batch[part] = {}
    /\ pc \in {"update_weights", "metrics"} \/ (part = "val" /\ global_steps > 0) => batch.train # {}
    /\ ~awake => pc \in {"balance", "compute", "update_weights", "raised"}
    /\ pc # "raised" =>
         version = IF part = "train" /\ pc \in {"dispatch", "spawn", "sample", "sleep", "balance",
                                                "compute", "update_weights"}
                   THEN global_steps - 1 ELSE global_steps

\* The prompts that may have been started.
Started(u) ==
    \/ u.step < global_steps
    \/ /\ u.step = global_steps /\ u.part = "train"
       /\ part = "val" \/ pc \notin {"start", "dispatch", "spawn"}
    \/ /\ u.step = global_steps /\ u.part = "val"
       /\ \/ part = "train" /\ pc \in {"metrics", "clear", "remove", "done", "raised"}
          \/ part = "val" /\ (u.batch < val_batch \/ (u.batch = val_batch /\ pc \notin {"dispatch", "spawn"}))

\* What the agent loops have come to.
Prompted ==
    \A u \in Uid :
        /\ ~Started(u) => prompt[u] = "idle"
        /\ prompt[u] = "idle" => \A s \in Sessions(u) : session[u][s] = "idle"
        /\ prompt[u] = "finished" => \A s \in Sessions(u) : session[u][s] = "ended"
        /\ prompt[u] = "running" => pc = "sample" /\ u \in Prompts
        /\ u \in Prompts /\ pc \in {"sample", "sleep", "balance", "compute"} => prompt[u] # "idle"

\* A status in the queue is that of a prompt that ended.
Status(table) ==
    \A u \in Uid \cap DOMAIN table :
        /\ prompt[u] \in {"finished", "failure"}
        /\ table[u] = [status |-> prompt[u], step |-> NoStep]

\* The polled view of the prompts: one is seen running until its end is polled.
View ==
    /\ \A u \in Uid \cap DOMAIN partitions :
          partitions[u].status = "running"
          \/ (prompt[u] \in {"finished", "failure"} /\ partitions[u].status = prompt[u])
    /\ pc \in {"spawn", "sample"} =>
         \A u \in Prompts : u \in DOMAIN partitions /\ partitions[u].step = global_steps

Ended(key) == key.session \in Sessions(key.uid) /\ session[key.uid][key.session] = "ended"

\* A row has the tag of its step and no later one than the present; an output is of a
\* session that has ended.
Listed(table) ==
    \A key \in DOMAIN table \cap Row :
        /\ table[key] = RowTag(key) /\ StepOf(key) <= global_steps
        /\ key \in OutputKey => Ended(key)

\* Who sees that a prompt has finished sees all its outputs that are still there.
SeesAll(table) ==
    \A u \in Uid \cap DOMAIN table :
        table[u].status = "finished" => {key \in OutputsIn(tq) : key.uid = u} \subseteq DOMAIN table

\* The batches in hand.
InHand ==
    /\ \A key \in batch.train : PartOf(key) = "train" /\ StepOf(key) = global_steps
    /\ \A key \in batch.val : PartOf(key) = "val"
    /\ \A key \in (batch.train \cup batch.val) \cap OutputKey : Ended(key)
    /\ pc \in {"sleep", "balance"} => batch.train \subseteq OutputKey
    /\ pc = "remove" => batch[part] \cap DOMAIN tq = {}

\* A row of the queue is in a batch in hand, to be sampled, or of a prompt that failed.
Accounted ==
    \A key \in DOMAIN tq \cap Row :
        \/ key \in batch.train \cup batch.val
        \/ /\ key \in OutputKey
           /\ prompt[key.uid] = "failure" \/ (pc = "sample" /\ key.uid \in Prompts)

\* Until the batch is cleared, what any view lists of its step is in the queue.
TrainLive == ~(part = "train" /\ pc \in {"remove", "done"})
ValLive == val_batches = 1 /\ part = "val" /\ pc # "remove"
InQueue ==
    /\ TrainLive => /\ RowsOf(snapshot, "train") \subseteq DOMAIN tq
                    /\ RowsOf(partitions, "train") \subseteq DOMAIN tq
                    /\ batch.train \subseteq DOMAIN tq
    /\ ValLive => /\ RowsOf(snapshot, "val") \subseteq DOMAIN tq
                  /\ RowsOf(partitions, "val") \subseteq DOMAIN tq
                  /\ batch.val \subseteq DOMAIN tq

\* With the outputs of a session, all the earlier ones are there.
Closed(keys) ==
    \A key \in keys \cap OutputKey :
        \A k \in 0 .. key.index - 1 : Output(key.uid, key.session, k) \in keys
Whole ==
    TrainLive => /\ Closed(RowsOf(tq, "train")) /\ Closed(RowsOf(snapshot, "train"))
                 /\ Closed(RowsOf(partitions, "train")) /\ Closed(batch.train)

\* Outputs of the step are generated with the weights of the step before.
Born ==
    part = "train" /\ pc \in {"sample", "sleep", "balance", "compute"} =>
        \A key \in OutputsIn(tq) :
            key.uid.part = "train" /\ key.uid.step = global_steps =>
                key \in DOMAIN born /\ born[key] = global_steps - 1

\* Advantages are of the batch in hand.
Advantages ==
    /\ batch.train = {} \/ pc \in {"sleep", "balance", "compute"} => advantage = <<>>
    /\ AdvantageOfFinal

IInv ==
    /\ Types /\ Placed /\ Prompted
    /\ Status(tq) /\ Status(snapshot) /\ View
    /\ Listed(tq) /\ Listed(snapshot) /\ Listed(partitions)
    /\ SeesAll(snapshot) /\ SeesAll(partitions)
    /\ InHand /\ Accounted /\ InQueue /\ Whole /\ Born /\ Advantages
    /\ Divisible /\ RaisesOnlyEmpty

-----------------------------------------------------------------------------
(* Bounds of the configurations. *)

LEMMA LeastElement ==
  ASSUME NEW T \in SUBSET Nat, T # {}
  PROVE  \E x \in T : \A y \in T : x <= y
<1> DEFINE R == OpToRel(<, Nat)
<1>1. IsWellFoundedOn(R, Nat)
  BY NatLessThanWellFounded
<1>2. PICK x \in T : \A y \in T : ~(<<y, x>> \in R)
  <2> HIDE DEF R
  <2> QED
    BY <1>1, WFMin
<1>3. \A y \in T : ~(y < x)
  BY <1>2 DEF OpToRel
<1> QED
  BY <1>3

\* A set of numbers without a bound has no smallest subset without one.
LEMMA FiniteBounded ==
  ASSUME NEW S \in SUBSET Nat, IsFiniteSet(S)
  PROVE  \E b \in Nat : \A x \in S : x <= b
<1> DEFINE Bounded(A) == \E b \in Nat : \A x \in A : x <= b
           T == {k \in Nat : \E A \in SUBSET S : Cardinality(A) = k /\ ~Bounded(A)}
<1>1. ASSUME T # {} PROVE FALSE
  <2>1. PICK k \in T : \A j \in T : k <= j
    BY <1>1, LeastElement
  <2>2. PICK A \in SUBSET S : Cardinality(A) = k /\ ~Bounded(A)
    BY <2>1
  <2>3. IsFiniteSet(A)
    BY FS_Subset
  <2>4. PICK a \in A : TRUE
    BY <2>2
  <2>5. Cardinality(A \ {a}) = k - 1 /\ k \in Nat /\ k > 0
    <3>1. Cardinality(A \ {a}) = k - 1
      BY <2>2, <2>3, FS_RemoveElement
    <3>2. IsFiniteSet(A \ {a}) /\ Cardinality(A \ {a}) \in Nat
      BY <2>3, FS_RemoveElement, FS_CardinalityType
    <3> QED
      BY <3>1, <3>2, <2>1
  <2>6. Bounded(A \ {a})
    <3> HIDE DEF Bounded
    <3>1. k - 1 \notin T
      BY <2>1, <2>5
    <3> QED
      BY <2>5, <3>1
  <2>7. PICK b \in Nat : \A x \in A \ {a} : x <= b
    BY <2>6
  <2>8. a \in Nat /\ \A x \in A : x <= a + b
    BY <2>7
  <2>9. Bounded(A)
    BY <2>8
  <2> QED
    BY <2>2, <2>9
<1>2. Cardinality(S) \in Nat
  BY FS_CardinalityType
<1> HIDE DEF Bounded
<1>3. Bounded(S)
  BY <1>1, <1>2
<1> QED
  BY <1>3 DEF Bounded

LEMMA MaxOfFinite ==
  ASSUME NEW S \in SUBSET Nat, S # {}, IsFiniteSet(S)
  PROVE  Max(S) \in S /\ \A x \in S : x <= Max(S)
<1>1. PICK b \in Nat : \A x \in S : x <= b
  BY FiniteBounded
<1> DEFINE T == {k \in Nat : b - k \in S}
<1>2. T # {}
  <2>1. PICK x \in S : TRUE
    OBVIOUS
  <2>2. b - x \in Nat /\ b - (b - x) = x
    BY <1>1, <2>1
  <2> QED
    BY <2>2
<1>3. PICK m \in T : \A y \in T : m <= y
  BY <1>2, LeastElement
<1>4. \A y \in S : b - m >= y
  <2> TAKE y \in S
  <2>1. b - y \in Nat /\ b - (b - y) = y
    BY <1>1
  <2>2. b - y \in T
    BY <2>1
  <2>3. m <= b - y /\ m \in Nat
    BY <2>2, <1>3
  <2> QED
    BY <2>3
<1>5. b - m \in S
  BY <1>3
<1>6. \E z \in S : \A y \in S : z >= y
  BY <1>4, <1>5
<1> DEFINE M == CHOOSE z \in S : \A y \in S : z >= y
<1>7. M \in S /\ \A y \in S : M >= y
  BY <1>6
<1>8. Max(S) = M
  BY DEF Max
<1> HIDE DEF M
<1>9. M \in Nat
  BY <1>7
<1>10. \A y \in S : y <= M
  BY <1>7, <1>9
<1> QED
  BY <1>7, <1>8, <1>10

LEMMA SetupTypes ==
  ASSUME NEW x \in Setups
  PROVE  /\ \A field \in Fields : x[field] \in Nat \ {0}
         /\ \A field \in Fields : Largest(field) \in Nat \ {0} /\ x[field] <= Largest(field)
         /\ x.val_before_train \in BOOLEAN
<1>1. \A y \in Setups : \A field \in Fields : y[field] \in Nat \ {0}
  BY SyncTrainerAssumption DEF IsSetup
<1>2. ASSUME NEW field \in Fields PROVE Largest(field) \in Nat \ {0} /\ x[field] <= Largest(field)
  <2> DEFINE S == {y[field] : y \in Setups}
  <2>1. S \in SUBSET Nat /\ S # {} /\ 0 \notin S
    BY <1>1
  <2>2. IsFiniteSet(S)
    <3>1. IsFiniteSet(Setups)
      BY SyncTrainerAssumption
    <3> DEFINE f == [y \in Setups |-> y[field]]
    <3>2. f \in Surjection(Setups, S)
      BY DEF Surjection
    <3> HIDE DEF f, S
    <3> QED
      BY <3>1, <3>2, FS_Surjection
  <2>3. Max(S) \in S /\ \A z \in S : z <= Max(S)
    <3> HIDE DEF S
    <3> QED
      BY <2>1, <2>2, MaxOfFinite
  <2> QED
    BY <2>1, <2>3 DEF Largest
<1> QED
  BY <1>1, <1>2, SyncTrainerAssumption DEF IsSetup

LEMMA Sizes ==
  ASSUME setup \in Setups
  PROVE  /\ train_batch_size \in Nat \ {0} /\ train_batch_size <= Largest("train_batch_size")
         /\ val_batch_size \in Nat \ {0} /\ val_batch_size <= Largest("val_batch_size")
         /\ val_batches \in Nat \ {0} /\ val_batches <= Largest("val_batches")
         /\ total_training_steps \in Nat \ {0}
         /\ total_training_steps <= Largest("total_training_steps")
         /\ n \in Nat \ {0} /\ n <= Largest("n") /\ val_n \in Nat \ {0} /\ val_n <= Largest("val_n")
         /\ MaxOutputs \in Nat \ {0} /\ MaxOutputs <= Largest("MaxOutputs")
         /\ val_before_train \in BOOLEAN
<1>1. /\ "train_batch_size" \in Fields /\ "val_batch_size" \in Fields /\ "val_batches" \in Fields
      /\ "total_training_steps" \in Fields /\ "n" \in Fields /\ "val_n" \in Fields
      /\ "MaxOutputs" \in Fields
  BY DEF Fields
<1> QED
  BY <1>1, SetupTypes DEF train_batch_size, val_batch_size, val_batches, total_training_steps, n,
     val_n, MaxOutputs, val_before_train

LEMMA Largests ==
  \A field \in Fields : Largest(field) \in Nat \ {0}
BY SyncTrainerAssumption, SetupTypes

-----------------------------------------------------------------------------
(* Tables. *)

LEMMA TagStep ==
  ASSUME NEW tag \in Tag, NEW s \in Step \cup {NoStep}
  PROVE  /\ [tag EXCEPT !.step = s] = [status |-> tag.status, step |-> s]
         /\ [tag EXCEPT !.step = s] \in Tag
BY DEF Tag

\* The step of a key in a table that is updated with items.
Kept(table, items, key) ==
    IF items[key].step = NoStep /\ key \in DOMAIN table THEN table[key].step ELSE items[key].step

Stamp(status, s) == [status |-> status, step |-> s]

\* What after is when table was updated with items.
IsUpdate(table, items, after) ==
    /\ IsTable(after) /\ DOMAIN after = DOMAIN table \cup DOMAIN items
    /\ \A key \in DOMAIN items : after[key] = Stamp(items[key].status, Kept(table, items, key))
    /\ \A key \in DOMAIN table : key \notin DOMAIN items => after[key] = table[key]

LEMMA UpdatedFacts ==
  ASSUME NEW table, NEW items, IsTable(table), IsTable(items)
  PROVE  IsUpdate(table, items, Updated(table, items))
<1> DEFINE New(key) == IF items[key].step = NoStep /\ key \in DOMAIN table
                       THEN [items[key] EXCEPT !.step = table[key].step]
                       ELSE items[key]
           after == Updated(table, items)
<1>1. /\ DOMAIN after = DOMAIN table \cup DOMAIN items
      /\ \A key \in DOMAIN items : after[key] = New(key)
      /\ \A key \in DOMAIN table : key \notin DOMAIN items => after[key] = table[key]
  BY DEF Updated
<1>2. ASSUME NEW key \in DOMAIN items
      PROVE  after[key] = Stamp(items[key].status, Kept(table, items, key)) /\ after[key] \in Tag
  <2>1. PICK tag \in Tag : tag = items[key]
    BY DEF IsTable
  <2>2. CASE items[key].step = NoStep /\ key \in DOMAIN table
    <3>1. PICK s \in Step \cup {NoStep} : s = table[key].step
      BY <2>2 DEF IsTable, Tag
    <3>2. after[key] = [tag EXCEPT !.step = s] /\ Kept(table, items, key) = s
      BY <1>1, <2>1, <2>2, <3>1 DEF Kept
    <3> QED
      BY <2>1, <3>2, TagStep DEF Stamp
  <2>3. CASE ~(items[key].step = NoStep /\ key \in DOMAIN table)
    <3>1. after[key] = tag /\ Kept(table, items, key) = tag.step
      BY <1>1, <2>1, <2>3 DEF Kept
    <3>2. tag = [status |-> tag.status, step |-> tag.step]
      BY DEF Tag
    <3> QED
      BY <2>1, <3>1, <3>2 DEF Stamp
  <2> QED
    BY <2>2, <2>3
<1> HIDE DEF after, New
<1>3. IsTable(after)
  <2>1. DOMAIN after \subseteq Key
    BY <1>1 DEF IsTable
  <2>2. \A key \in DOMAIN table : table[key] \in Tag
    BY DEF IsTable
  <2>3. \A key \in DOMAIN after : after[key] \in Tag
    BY <1>1, <1>2, <2>2
  <2> QED
    BY <2>1, <2>3 DEF IsTable
<1> QED
  BY <1>1, <1>2, <1>3 DEF IsUpdate, after

LEMMA TaggedFacts ==
  ASSUME NEW keys, NEW status, NEW s
  PROVE  /\ DOMAIN Tagged(keys, status, s) = keys
         /\ \A key \in keys : Tagged(keys, status, s)[key] = Stamp(status, s)
BY DEF Tagged, Stamp

\* What after is when the tags of keys were put into table: a key that is put without
\* a step keeps the one it had.
IsPut(table, keys, status, s, after) ==
    /\ IsTable(after) /\ DOMAIN after = DOMAIN table \cup keys
    /\ \A key \in DOMAIN table \ keys : after[key] = table[key]
    /\ \A key \in keys : after[key].status = status
    /\ \A key \in keys : s # NoStep \/ key \notin DOMAIN table => after[key] = Stamp(status, s)
    /\ \A key \in keys : s = NoStep /\ key \in DOMAIN table => after[key].step = table[key].step

LEMMA Put ==
  ASSUME NEW table, NEW keys, NEW status, NEW s \in Step \cup {NoStep}, IsTable(table),
         keys \subseteq Key, status \in {"running", "success", "finished", "failure"}
  PROVE  IsPut(table, keys, status, s, Updated(table, Tagged(keys, status, s)))
<1> DEFINE items == Tagged(keys, status, s)
           after == Updated(table, items)
<1>1. DOMAIN items = keys /\ \A key \in keys : items[key] = Stamp(status, s)
  BY TaggedFacts
<1>2. IsTable(items)
  BY <1>1 DEF IsTable, Tag, Stamp
<1>3. IsUpdate(table, items, after)
  BY <1>2, UpdatedFacts
<1> HIDE DEF items, after
<1>4. IsTable(after) /\ DOMAIN after = DOMAIN table \cup keys
  BY <1>1, <1>3 DEF IsUpdate
<1>5. \A key \in DOMAIN table \ keys : after[key] = table[key]
  BY <1>1, <1>3 DEF IsUpdate
<1>6. \A key \in keys : after[key] = Stamp(items[key].status, Kept(table, items, key))
  BY <1>1, <1>3 DEF IsUpdate
<1>7. ASSUME NEW key \in keys
      PROVE  /\ after[key].status = status
             /\ s # NoStep \/ key \notin DOMAIN table => after[key] = Stamp(status, s)
             /\ s = NoStep /\ key \in DOMAIN table => after[key].step = table[key].step
  <2>1. items[key].status = status /\ items[key].step = s
    BY <1>1 DEF Stamp
  <2>2. after[key] = Stamp(status, Kept(table, items, key))
    BY <2>1, <1>6
  <2>3. s # NoStep \/ key \notin DOMAIN table => Kept(table, items, key) = s
    BY <2>1 DEF Kept
  <2>4. s = NoStep /\ key \in DOMAIN table => Kept(table, items, key) = table[key].step
    BY <2>1 DEF Kept
  <2>5. after[key].status = status /\ after[key].step = Kept(table, items, key)
    BY <2>2 DEF Stamp
  <2> QED
    BY <2>2, <2>3, <2>4, <2>5
<1>8. IsPut(table, keys, status, s, after)
  BY <1>4, <1>5, <1>7 DEF IsPut
<1> QED
  BY <1>8 DEF after, items

-----------------------------------------------------------------------------
(* Keys. *)

LEMMA Steps == Step \subseteq Nat /\ NoStep \notin Step /\ 0 \in Step
<1>1. Largest("total_training_steps") \in Nat \ {0}
  BY Largests DEF Fields
<1> QED
  BY <1>1 DEF Step, NoStep

LEMMA Disjoint ==
  /\ \A key \in Uid : key \notin OutputKey /\ key \notin PadKey
  /\ \A key \in OutputKey : key \notin PadKey
<1>1. ASSUME NEW key \in Uid PROVE DOMAIN key = {"part", "step", "batch", "i"}
  BY DEF Uid
<1>2. ASSUME NEW key \in OutputKey PROVE DOMAIN key = {"uid", "session", "index"}
  BY DEF OutputKey
<1>3. ASSUME NEW key \in PadKey PROVE DOMAIN key = {"pad", "session"}
  BY DEF PadKey
<1>4. /\ "part" \notin {"uid", "session", "index"} /\ "part" \notin {"pad", "session"}
      /\ "uid" \notin {"pad", "session"}
  OBVIOUS
<1> QED
  BY <1>1, <1>2, <1>3, <1>4

LEMMA UidFacts ==
  ASSUME NEW u \in Uid
  PROVE  /\ u.part \in Part /\ u.step \in Step /\ u.step \in Nat /\ u.batch \in Nat /\ u.i \in Nat
         /\ PartOf(u) = u.part /\ u \in Key /\ u \notin Row /\ u \notin OutputKey /\ u \notin PadKey
<1>1. /\ Largest("train_batch_size") \in Nat /\ Largest("val_batches") \in Nat
      /\ Largest("val_batch_size") \in Nat
  BY Largests DEF Fields
<1>2. u.part \in Part /\ u.step \in Step /\ u.batch \in Nat /\ u.i \in Nat
  <2>1. CASE u \in [part : {"train"}, step : Step \ {0}, batch : {0}, i : 1 .. Largest("train_batch_size")]
    <3>1. u.part = "train" /\ u.step \in Step /\ u.batch = 0 /\ u.i \in 1 .. Largest("train_batch_size")
      BY <2>1
    <3> QED
      BY <1>1, <3>1 DEF Part
  <2>2. CASE u \in [part : {"val"}, step : Step, batch : 1 .. Largest("val_batches"),
                    i : 1 .. Largest("val_batch_size")]
    <3>1. /\ u.part = "val" /\ u.step \in Step /\ u.batch \in 1 .. Largest("val_batches")
          /\ u.i \in 1 .. Largest("val_batch_size")
      BY <2>2
    <3> QED
      BY <1>1, <3>1 DEF Part
  <2> QED
    BY <2>1, <2>2 DEF Uid
<1>3. u \notin OutputKey /\ u \notin PadKey
  BY Disjoint
<1> QED
  BY <1>2, <1>3, Steps DEF PartOf, Key, Row

LEMMA OutputFacts ==
  ASSUME NEW key \in OutputKey
  PROVE  /\ key.uid \in Uid /\ key.session \in Nat /\ key.index \in Nat
         /\ key = Output(key.uid, key.session, key.index)
         /\ key \in Key /\ key \in Row /\ key \notin Uid /\ key \notin PadKey
         /\ PartOf(key) = key.uid.part /\ StepOf(key) = key.uid.step
<1>1. key \notin Uid /\ key \notin PadKey
  BY Disjoint
<1>2. key.uid \in Uid /\ key.session \in Nat /\ key.index \in Nat
  BY DEF OutputKey
<1>3. key = Output(key.uid, key.session, key.index)
  BY DEF OutputKey, Output
<1> QED
  BY <1>1, <1>2, <1>3 DEF Key, Row, PartOf, StepOf

LEMMA PadFacts ==
  ASSUME NEW key \in PadKey
  PROVE  /\ key.pad \in Step /\ key \in Key /\ key \in Row /\ key \notin Uid /\ key \notin OutputKey
         /\ PartOf(key) = "train" /\ StepOf(key) = key.pad
<1>1. key \notin Uid /\ key \notin OutputKey
  BY Disjoint
<1>2. key.pad \in Step
  BY DEF PadKey
<1> QED
  BY <1>1, <1>2 DEF Key, Row, PartOf, StepOf

LEMMA RowFacts ==
  ASSUME NEW key \in Row
  PROVE  /\ key \in Key /\ key \notin Uid /\ PartOf(key) \in Part
         /\ StepOf(key) \in Step /\ StepOf(key) \in Nat /\ StepOf(key) # NoStep
<1>1. CASE key \in OutputKey
  BY <1>1, OutputFacts, UidFacts, Steps
<1>2. CASE key \in PadKey
  BY <1>2, PadFacts, Steps DEF Part
<1> QED
  BY <1>1, <1>2 DEF Row

LEMMA KeyCases == Key = Uid \cup Row
BY DEF Key, Row

LEMMA SessionFacts ==
  ASSUME setup \in Setups, NEW u \in Uid
  PROVE  Sessions(u) \subseteq 0 .. Max({Largest("n"), Largest("val_n")}) - 1
<1> DEFINE S == {Largest("n"), Largest("val_n")}
<1>1. n \in Nat /\ n <= Largest("n") /\ val_n \in Nat /\ val_n <= Largest("val_n")
  BY Sizes
<1>2. Largest("n") \in Nat /\ Largest("val_n") \in Nat
  BY Largests DEF Fields
<1>3. IsFiniteSet(S)
  <2>1. IsFiniteSet({Largest("n")})
    BY FS_Singleton
  <2>2. IsFiniteSet({Largest("n")} \cup {Largest("val_n")})
    BY <2>1, FS_AddElement
  <2> QED
    BY <2>2
<1>4. Max(S) \in S /\ \A x \in S : x <= Max(S)
  BY <1>2, <1>3, MaxOfFinite
<1>5. Max(S) \in Nat /\ n <= Max(S) /\ val_n <= Max(S)
  <2>1. Largest("n") <= Max(S) /\ Largest("val_n") <= Max(S) /\ Max(S) \in Nat
    BY <1>2, <1>4
  <2> HIDE DEF S
  <2> QED
    BY <1>1, <1>2, <2>1
<1> HIDE DEF S
<1>6. Sessions(u) \subseteq 0 .. Max(S) - 1
  BY <1>1, <1>5 DEF Sessions
<1> QED
  BY <1>6 DEF S

LEMMA OutputOf ==
  ASSUME setup \in Setups, NEW u \in Uid, NEW s \in Sessions(u), NEW k \in 0 .. MaxOutputs - 1
  PROVE  /\ Output(u, s, k) \in OutputKey /\ Output(u, s, k).uid = u
         /\ Output(u, s, k).session = s /\ Output(u, s, k).index = k
<1>1. s \in 0 .. Max({Largest("n"), Largest("val_n")}) - 1
  BY SessionFacts
<1>2. MaxOutputs \in Nat /\ MaxOutputs <= Largest("MaxOutputs")
  BY Sizes
<1>3. Largest("MaxOutputs") \in Nat
  BY Largests DEF Fields
<1>4. k \in 0 .. Largest("MaxOutputs") - 1
  BY <1>2, <1>3
<1> QED
  BY <1>1, <1>4 DEF Output, OutputKey

LEMMA PromptsFacts ==
  ASSUME NEW u \in Prompts
  PROVE  /\ u \in Uid /\ u.part = part /\ u.step = global_steps
         /\ part = "val" => u.batch = val_batch
BY DEF Prompts

-----------------------------------------------------------------------------
(* What the invariant says of a state. *)

Table == {tq, snapshot, partitions}

LEMMA TableFacts ==
  ASSUME IInv, NEW T \in Table
  PROVE  IsTable(T) /\ DOMAIN T \subseteq Key /\ Listed(T)
BY DEF IInv, Types, Table, IsTable

\* An output anywhere is of a prompt that was started.
LEMMA ListedFacts ==
  ASSUME IInv, NEW T \in Table, NEW key \in DOMAIN T, key \in Row
  PROVE  /\ T[key] = RowTag(key) /\ StepOf(key) <= global_steps
         /\ T[key].status = "success" /\ T[key].step = StepOf(key)
         /\ key \in OutputKey => Ended(key) /\ Started(key.uid) /\ prompt[key.uid] # "idle"
<1>1. T[key] = RowTag(key) /\ StepOf(key) <= global_steps /\ (key \in OutputKey => Ended(key))
  BY TableFacts DEF Listed
<1>2. T[key].status = "success" /\ T[key].step = StepOf(key)
  BY <1>1 DEF RowTag
<1>3. ASSUME key \in OutputKey PROVE Started(key.uid) /\ prompt[key.uid] # "idle"
  <2>1. key.uid \in Uid
    BY <1>3, OutputFacts
  <2>2. key.session \in Sessions(key.uid) /\ session[key.uid][key.session] = "ended"
    BY <1>1, <1>3 DEF Ended
  <2>3. Prompted
    BY DEF IInv
  <2>4. prompt[key.uid] # "idle"
    BY <2>1, <2>2, <2>3 DEF Prompted
  <2> QED
    BY <2>1, <2>3, <2>4 DEF Prompted
<1> QED
  BY <1>1, <1>2, <1>3

\* The numbers of the trainer.
LEMMA Numbers ==
  ASSUME IInv
  PROVE  /\ setup \in Setups /\ part \in Part /\ pc \in Pc
         /\ global_steps \in Nat /\ version \in Nat /\ val_batch \in Nat
         /\ total_training_steps \in Nat \ {0} /\ global_steps <= total_training_steps
         /\ val_batches \in Nat \ {0} /\ val_batch <= val_batches
         /\ global_steps \in Step /\ global_steps # NoStep
<1>1. setup \in Setups
  BY DEF IInv, Types
<1>2. /\ total_training_steps \in Nat \ {0} /\ val_batches \in Nat \ {0}
      /\ total_training_steps <= Largest("total_training_steps")
  BY <1>1, Sizes
<1>3. /\ part \in Part /\ pc \in Pc /\ val_batch \in 0 .. val_batches
      /\ global_steps \in 0 .. total_training_steps /\ version \in 0 .. total_training_steps
  BY DEF IInv, Types
<1>4. Largest("total_training_steps") \in Nat
  BY Largests DEF Fields
<1>5. global_steps \in Step
  BY <1>2, <1>3, <1>4 DEF Step
<1> QED
  BY <1>1, <1>2, <1>3, <1>5, Steps

\* No row is of a step to come.
LEMMA NewStepEmpty ==
  ASSUME IInv, NEW T \in Table, NEW key \in DOMAIN T, key \in Row
  PROVE  StepOf(key) # global_steps + 1
BY ListedFacts, RowFacts, Numbers

\* Before the validation of a step no row is of it.
LEMMA NoValRows ==
  ASSUME IInv, part = "train", pc \in {"start", "update_weights"}, NEW T \in Table
  PROVE  RowsOf(T, "val") = {}
<1> SUFFICES ASSUME NEW key \in RowsOf(T, "val") PROVE FALSE
  OBVIOUS
<1>1. key \in DOMAIN T /\ key \in Row /\ PartOf(key) = "val" /\ StepOf(key) = global_steps
  BY DEF RowsOf
<1>2. key \in OutputKey
  BY <1>1, PadFacts DEF Row
<1>3. Started(key.uid) /\ key.uid \in Uid /\ key.uid.part = "val" /\ key.uid.step = global_steps
  BY <1>1, <1>2, ListedFacts, OutputFacts
<1> QED
  BY <1>3, Numbers DEF Started

\* Nothing is of the prompts that are about to be started.
LEMMA NoRowsYet ==
  ASSUME IInv, pc = "spawn", NEW u \in Prompts
  PROVE  /\ ~Started(u) /\ prompt[u] = "idle" /\ \A s \in Sessions(u) : session[u][s] = "idle"
         /\ \A T \in Table : \A key \in OutputsIn(T) : key.uid # u
<1>1. u \in Uid /\ u.part = part /\ u.step = global_steps /\ (part = "val" => u.batch = val_batch)
  BY PromptsFacts
<1>2. ~Started(u)
  BY <1>1, Numbers DEF Started, Part
<1>3. prompt[u] = "idle" /\ \A s \in Sessions(u) : session[u][s] = "idle"
  BY <1>1, <1>2 DEF IInv, Prompted
<1>4. ASSUME NEW T \in Table, NEW key \in OutputsIn(T) PROVE key.uid # u
  BY <1>2, <1>4, ListedFacts, OutputFacts DEF OutputsIn
<1> QED
  BY <1>2, <1>3, <1>4

\* A session that runs is of a prompt of the batch that is waited for, or of one that failed.
LEMMA Running ==
  ASSUME IInv, NEW u \in Uid, NEW s \in Sessions(u), session[u][s] = "running"
  PROVE  /\ prompt[u] \in {"running", "failure"} /\ u.step <= global_steps
         /\ prompt[u] = "running" => pc = "sample" /\ u \in Prompts
<1>1. Prompted /\ prompt[u] \in {"idle", "running", "finished", "failure"}
  BY DEF IInv, Types
<1>2. prompt[u] # "idle" /\ prompt[u] # "finished"
  BY <1>1 DEF Prompted
<1>3. Started(u)
  BY <1>1, <1>2 DEF Prompted
<1>4. u.step <= global_steps
  BY <1>3, UidFacts, Numbers DEF Started
<1> QED
  BY <1>1, <1>2, <1>4 DEF Prompted

\* The batches hold rows that are in the types.
LEMMA Batches ==
  ASSUME IInv
  PROVE  /\ batch.train \subseteq Row /\ batch.val \subseteq OutputKey /\ batch.val \subseteq Row
         /\ \A key \in batch.train : PartOf(key) = "train" /\ StepOf(key) = global_steps
         /\ \A key \in batch.val : PartOf(key) = "val"
         /\ batch.train \cap batch.val = {}
         /\ batch = [train |-> batch.train, val |-> batch.val]
         /\ part = "train" => batch[part] = batch.train /\ batch.val = {}
         /\ part = "val" => batch[part] = batch.val
<1>1. batch \in [train : SUBSET Row, val : SUBSET OutputKey]
  BY DEF IInv, Types
<1>2. batch.train \subseteq Row /\ batch.val \subseteq OutputKey /\ batch = [train |-> batch.train, val |-> batch.val]
  BY <1>1
<1>3. InHand /\ Placed
  BY DEF IInv
<1>4. /\ \A key \in batch.train : PartOf(key) = "train" /\ StepOf(key) = global_steps
      /\ \A key \in batch.val : PartOf(key) = "val"
  BY <1>3 DEF InHand
<1>5. batch.train \cap batch.val = {}
  BY <1>4
<1>6. part = "train" => batch.val = {}
  BY <1>3 DEF Placed
<1> QED
  BY <1>2, <1>4, <1>5, <1>6 DEF Row

-----------------------------------------------------------------------------
(* Parts of the invariant that a step does not touch. *)

LEMMA FixedSetup ==
  ASSUME setup' = setup
  PROVE  /\ total_training_steps' = total_training_steps /\ val_batches' = val_batches
         /\ n' = n /\ val_n' = val_n /\ MaxOutputs' = MaxOutputs
         /\ \A u \in Uid : Sessions(u)' = Sessions(u)
BY DEF total_training_steps, val_batches, n, val_n, MaxOutputs, Sessions

LEMMA FixedPrompts ==
  ASSUME setup' = setup, part' = part, val_batch' = val_batch, global_steps' = global_steps
  PROVE  Prompts' = Prompts
BY DEF Prompts, train_batch_size, val_batch_size

LEMMA StatusStays ==
  ASSUME IInv, prompt' = prompt
  PROVE  /\ tq' = tq => Status(tq)'
         /\ snapshot' = snapshot => Status(snapshot)'
BY DEF IInv, Status

LEMMA SeesAllStays ==
  ASSUME IInv, OutputsIn(tq)' \subseteq OutputsIn(tq)
  PROVE  /\ snapshot' = snapshot => SeesAll(snapshot)'
         /\ partitions' = partitions => SeesAll(partitions)'
BY DEF IInv, SeesAll

LEMMA ListedStays ==
  ASSUME IInv, setup' = setup, session' = session, global_steps' \in Nat, global_steps <= global_steps'
  PROVE  /\ tq' = tq => Listed(tq)'
         /\ snapshot' = snapshot => Listed(snapshot)'
         /\ partitions' = partitions => Listed(partitions)'
<1>1. \A u \in Uid : Sessions(u)' = Sessions(u)
  BY FixedSetup
<1>2. \A key \in OutputKey : Ended(key) => Ended(key)'
  BY <1>1, OutputFacts DEF Ended
<1>3. global_steps \in Nat
  BY Numbers
<1>4. \A key \in Row : StepOf(key) <= global_steps => StepOf(key) <= global_steps'
  BY <1>3, RowFacts
<1> QED
  BY <1>2, <1>4 DEF IInv, Listed

LEMMA ViewStays ==
  ASSUME IInv, partitions' = partitions, prompt' = prompt, pc' \notin {"spawn", "sample"}
  PROVE  View'
BY DEF IInv, View

LEMMA RowsOfStay ==
  ASSUME global_steps' = global_steps
  PROVE  /\ tq' = tq => \A p \in Part : RowsOf(tq, p)' = RowsOf(tq, p)
         /\ snapshot' = snapshot => \A p \in Part : RowsOf(snapshot, p)' = RowsOf(snapshot, p)
         /\ partitions' = partitions => \A p \in Part : RowsOf(partitions, p)' = RowsOf(partitions, p)
BY DEF RowsOf

-----------------------------------------------------------------------------
(* Steps of the trainer that only move it on. *)

MovedOn ==
    /\ setup' = setup /\ tq' = tq /\ session' = session /\ prompt' = prompt /\ born' = born
    /\ partitions' = partitions /\ snapshot' = snapshot /\ to_add' = to_add
    /\ part' = part /\ val_batch' = val_batch /\ global_steps' = global_steps /\ batch' = batch
    /\ pc \in {"sleep", "balance", "compute", "collect", "metrics"}
    /\ pc' \in {"balance", "compute", "update_weights", "clear", "raised"}
    /\ pc' = "balance" => pc = "sleep"
    /\ pc' = "compute" => pc = "balance"
    /\ pc' = "update_weights" => pc = "compute"

LEMMA MovedOnLive ==
  ASSUME IInv, MovedOn
  PROVE  /\ TrainLive /\ TrainLive' /\ (ValLive' => ValLive)
         /\ \A u \in Uid : Started(u) => Started(u)'
<1>1. TrainLive /\ TrainLive'
  BY DEF MovedOn, TrainLive
<1>2. ValLive' => ValLive
  BY FixedSetup DEF MovedOn, ValLive
<1>3. \A u \in Uid : Started(u) => Started(u)'
  BY DEF MovedOn, Started
<1> QED
  BY <1>1, <1>2, <1>3

LEMMA MovedOnKeeps ==
  ASSUME IInv, MovedOn
  PROVE  /\ Prompted' /\ Status(tq)' /\ Status(snapshot)' /\ View'
         /\ Listed(tq)' /\ Listed(snapshot)' /\ Listed(partitions)'
         /\ SeesAll(snapshot)' /\ SeesAll(partitions)'
         /\ InHand' /\ Accounted' /\ InQueue' /\ Whole' /\ Born'
<1>1. /\ setup' = setup /\ tq' = tq /\ session' = session /\ prompt' = prompt /\ born' = born
      /\ partitions' = partitions /\ snapshot' = snapshot /\ to_add' = to_add
      /\ part' = part /\ val_batch' = val_batch /\ global_steps' = global_steps /\ batch' = batch
      /\ pc \in {"sleep", "balance", "compute", "collect", "metrics"}
      /\ pc' \in {"balance", "compute", "update_weights", "clear", "raised"}
      /\ pc' = "balance" => pc = "sleep"
      /\ pc' = "compute" => pc = "balance"
  BY DEF MovedOn
<1>2. Prompts' = Prompts /\ \A u \in Uid : Sessions(u)' = Sessions(u)
  BY <1>1, FixedPrompts, FixedSetup
<1>3. Status(tq)' /\ Status(snapshot)' /\ View'
  BY <1>1, StatusStays, ViewStays
<1>4. Listed(tq)' /\ Listed(snapshot)' /\ Listed(partitions)'
  BY <1>1, ListedStays, Numbers
<1>5. SeesAll(snapshot)' /\ SeesAll(partitions)'
  BY <1>1, SeesAllStays DEF OutputsIn
<1>6. Prompted'
  <2>1. Prompted
    BY DEF IInv
  <2>2. \A u \in Uid : prompt[u] # "running"
    BY <1>1, <2>1 DEF Prompted
  <2> QED
    BY <1>1, <1>2, <2>1, <2>2, MovedOnLive DEF Prompted
<1>7. InHand'
  <2>1. InHand
    BY DEF IInv
  <2>2. \A key \in OutputKey : Ended(key)' <=> Ended(key)
    BY <1>1, <1>2, OutputFacts DEF Ended
  <2> QED
    BY <1>1, <2>1, <2>2 DEF InHand
<1>8. Accounted'
  BY <1>1, <1>2 DEF IInv, Accounted
<1>9. InQueue'
  BY <1>1, MovedOnLive, RowsOfStay DEF IInv, InQueue, Part
<1>10. Whole'
  BY <1>1, MovedOnLive, RowsOfStay DEF IInv, Whole, Part
<1>11. Born'
  BY <1>1 DEF IInv, Born, OutputsIn
<1> QED
  BY <1>3, <1>4, <1>5, <1>6, <1>7, <1>8, <1>9, <1>10, <1>11

LEMMA TypesMovedOn ==
  ASSUME IInv, MovedOn, version' \in 0 .. total_training_steps, awake' \in BOOLEAN
  PROVE  Types'
<1>1. \A u \in Uid : Sessions(u)' = Sessions(u)
  BY FixedSetup DEF MovedOn
<1>2. total_training_steps' = total_training_steps /\ val_batches' = val_batches
  BY FixedSetup DEF MovedOn
<1>3. pc' \in Pc
  BY DEF MovedOn, Pc
<1> QED
  BY <1>1, <1>2, <1>3 DEF MovedOn, IInv, Types

LEMMA StepSleepReplicas ==
  ASSUME IInv, SleepReplicas
  PROVE  IInv'
<1>1. MovedOn /\ pc = "sleep" /\ pc' = "balance" /\ version' = version /\ awake' = FALSE /\ advantage' = advantage
  BY DEF SleepReplicas, MovedOn, Goto, queueVars, bufferVars
<1>2. Types'
  BY <1>1, TypesMovedOn DEF IInv, Types
<1>3. Placed'
  BY <1>1 DEF MovedOn, IInv, Placed
<1>4. Advantages'
  BY <1>1 DEF MovedOn, IInv, Advantages, AdvantageOfFinal
<1>5. Divisible' /\ RaisesOnlyEmpty'
  BY <1>1 DEF Divisible, RaisesOnlyEmpty
<1> QED
  BY <1>1, <1>2, <1>3, <1>4, <1>5, MovedOnKeeps DEF IInv

\* The trainer raises in training only where the batch is empty.
LEMMA StepRaise ==
  ASSUME IInv, Raise, \/ pc \in {"balance", "compute", "metrics"} /\ ~Readable(batch.train)
                      \/ pc = "collect"
  PROVE  IInv'
<1>1. MovedOn /\ pc' = "raised" /\ version' = version /\ awake' = awake /\ advantage' = advantage
  BY DEF Raise, MovedOn, Goto, queueVars, bufferVars
<1>2. Types'
  BY <1>1, TypesMovedOn DEF IInv, Types
<1>3. Placed'
  BY <1>1 DEF MovedOn, IInv, Placed
<1>4. Advantages'
  BY <1>1 DEF MovedOn, IInv, Advantages, AdvantageOfFinal
<1>5. RaisesOnlyEmpty'
  <2>1. CASE pc = "collect"
    BY <1>1, <2>1 DEF RaisesOnlyEmpty, MovedOn, IInv, Placed
  <2>2. CASE ~Readable(batch.train)
    <3>1. batch.train \subseteq DOMAIN tq
      BY <1>1, MovedOnLive DEF IInv, InQueue
    <3>2. batch.train = {}
      BY <3>1, <2>2 DEF Readable
    <3> QED
      BY <1>1, <3>2 DEF RaisesOnlyEmpty, MovedOn
  <2> QED
    BY <2>1, <2>2
<1>6. Divisible'
  BY <1>1 DEF Divisible
<1> QED
  BY <1>1, <1>2, <1>3, <1>4, <1>5, <1>6, MovedOnKeeps DEF IInv

LEMMA StepReads ==
  ASSUME IInv, Collect \/ Metrics
  PROVE  IInv'
<1>1. CASE Raise
  <2>1. \/ pc = "metrics" /\ ~Readable(batch.train)
        \/ pc = "collect"
    BY <1>1 DEF Collect, Metrics, Raise, Goto
  <2> QED
    BY <1>1, <2>1, StepRaise
<1>2. CASE ~Raise
  <2>1. MovedOn /\ pc \in {"collect", "metrics"} /\ pc' = "clear" /\ version' = version /\ awake' = awake /\ advantage' = advantage
    BY <1>2 DEF Collect, Metrics, MovedOn, Goto, queueVars, bufferVars
  <2>2. Types'
    BY <2>1, TypesMovedOn DEF IInv, Types
  <2>3. Placed'
    BY <2>1 DEF MovedOn, IInv, Placed
  <2>4. Advantages'
    BY <2>1 DEF MovedOn, IInv, Advantages, AdvantageOfFinal
  <2>5. Divisible' /\ RaisesOnlyEmpty'
    BY <2>1 DEF Divisible, RaisesOnlyEmpty
  <2> QED
    BY <2>1, <2>2, <2>3, <2>4, <2>5, MovedOnKeeps DEF IInv
<1> QED
  BY <1>1, <1>2

-----------------------------------------------------------------------------
(* The first step, and the step from training to the metrics or the validation. *)

LEMMA NewRowsEmpty ==
  ASSUME IInv, global_steps' = global_steps + 1
  PROVE  /\ tq' = tq => \A p \in Part : RowsOf(tq, p)' = {}
         /\ snapshot' = snapshot => \A p \in Part : RowsOf(snapshot, p)' = {}
         /\ partitions' = partitions => \A p \in Part : RowsOf(partitions, p)' = {}
<1>1. \A T \in Table : \A key \in DOMAIN T : key \in Row => StepOf(key) # global_steps + 1
  BY NewStepEmpty
<1> QED
  BY <1>1 DEF RowsOf, Table

LEMMA StepStart ==
  ASSUME IInv, Start
  PROVE  IInv'
<1>1. /\ setup' = setup /\ tq' = tq /\ session' = session /\ prompt' = prompt /\ born' = born
      /\ partitions' = partitions /\ snapshot' = snapshot /\ to_add' = to_add
      /\ batch' = batch /\ advantage' = advantage /\ version' = version /\ awake' = awake
      /\ pc = "start" /\ pc' = "dispatch"
  BY DEF Start, Goto, queueVars, bufferVars
<1>2. \/ part' = "val" /\ val_batch' = 1 /\ global_steps' = global_steps
      \/ part' = part /\ val_batch' = val_batch /\ global_steps' = 1
  BY DEF Start
<1>3. /\ part = "train" /\ global_steps = 0 /\ batch.train = {} /\ batch.val = {}
      /\ advantage = <<>> /\ version = 0 /\ awake
  <2>1. part = "train" /\ global_steps = 0 /\ batch[part] = {} /\ batch.val = {}
    BY <1>1 DEF IInv, Placed
  <2>2. batch.train = {}
    BY <2>1
  <2>3. version = 0 /\ awake
    BY <1>1, <2>1 DEF IInv, Placed, Types
  <2> QED
    BY <2>1, <2>2, <2>3 DEF IInv, Advantages
<1>4. /\ total_training_steps' = total_training_steps /\ val_batches' = val_batches
      /\ \A u \in Uid : Sessions(u)' = Sessions(u)
  BY <1>1, FixedSetup
<1>5. ASSUME NEW u \in Uid PROVE prompt[u] = "idle"
  <2>1. ~Started(u)
    BY <1>1, <1>3, UidFacts DEF Started
  <2> QED
    BY <2>1 DEF IInv, Prompted
<1>6. Types'
  BY <1>1, <1>2, <1>3, <1>4, Numbers DEF IInv, Types, Pc, Part
<1>7. Placed'
  BY <1>1, <1>2, <1>3 DEF Placed
<1>8. Prompted'
  BY <1>1, <1>4, <1>5 DEF IInv, Prompted
<1>9. Status(tq)' /\ Status(snapshot)' /\ View'
  BY <1>1, StatusStays, ViewStays
<1>10. Listed(tq)' /\ Listed(snapshot)' /\ Listed(partitions)'
  BY <1>1, <1>2, <1>3, ListedStays, Numbers
<1>11. SeesAll(snapshot)' /\ SeesAll(partitions)'
  BY <1>1, SeesAllStays DEF OutputsIn
<1>12. InHand'
  BY <1>1, <1>3 DEF InHand
<1>13. Accounted'
  BY <1>1, <1>3 DEF IInv, Accounted
<1>14. InQueue'
  <2>1. CASE global_steps' = global_steps + 1
    BY <1>1, <1>2, <1>3, <2>1, NewRowsEmpty DEF InQueue, ValLive, Part
  <2>2. CASE global_steps' = global_steps
    <3>1. TrainLive
      BY <1>1 DEF TrainLive
    <3>2. RowsOf(snapshot, "val") = {} /\ RowsOf(partitions, "val") = {}
      BY <1>1, <1>3, NoValRows DEF Table
    <3> QED
      BY <1>1, <1>3, <2>2, <3>1, <3>2, RowsOfStay DEF IInv, InQueue, Part
  <2> QED
    BY <1>2, <1>3, <2>1, <2>2
<1>15. Whole'
  <2>1. CASE global_steps' = global_steps + 1
    BY <1>1, <1>2, <1>3, <2>1, NewRowsEmpty DEF Whole, Closed, Part
  <2>2. CASE global_steps' = global_steps
    <3>1. TrainLive
      BY <1>1 DEF TrainLive
    <3> QED
      BY <1>1, <1>3, <2>2, <3>1, RowsOfStay DEF IInv, Whole, Part
  <2> QED
    BY <1>2, <1>3, <2>1, <2>2
<1>16. Born' /\ Divisible' /\ RaisesOnlyEmpty'
  BY <1>1 DEF Born, Divisible, RaisesOnlyEmpty
<1>17. Advantages'
  BY <1>1, <1>3 DEF IInv, Advantages, AdvantageOfFinal
<1> QED
  BY <1>6, <1>7, <1>8, <1>9, <1>10, <1>11, <1>12, <1>13, <1>14, <1>15, <1>16, <1>17 DEF IInv

LEMMA StepUpdateWeights ==
  ASSUME IInv, UpdateWeights
  PROVE  IInv'
<1>1. /\ setup' = setup /\ tq' = tq /\ session' = session /\ prompt' = prompt /\ born' = born
      /\ partitions' = partitions /\ snapshot' = snapshot /\ to_add' = to_add
      /\ batch' = batch /\ advantage' = advantage /\ version' = global_steps /\ awake' = TRUE
      /\ global_steps' = global_steps /\ pc = "update_weights"
  BY DEF UpdateWeights, queueVars, bufferVars
<1>2. \/ part' = "val" /\ val_batch' = 1 /\ pc' = "dispatch"
      \/ part' = part /\ val_batch' = val_batch /\ pc' = "metrics"
  BY DEF UpdateWeights, Goto
<1>3. part = "train" /\ global_steps # 0 /\ batch.train # {} /\ batch.val = {}
  BY <1>1 DEF IInv, Placed
<1>4. /\ total_training_steps' = total_training_steps /\ val_batches' = val_batches
      /\ \A u \in Uid : Sessions(u)' = Sessions(u)
  BY <1>1, FixedSetup
<1>5. \A u \in Uid : Started(u) => Started(u)'
  BY <1>1, <1>2, <1>3, UidFacts DEF Started, Part
<1>6. Types'
  BY <1>1, <1>2, <1>3, <1>4, Numbers DEF IInv, Types, Pc, Part
<1>7. Placed'
  BY <1>1, <1>2, <1>3, Numbers DEF Placed
<1>8. Prompted'
  <2>1. Prompted
    BY DEF IInv
  <2>2. \A u \in Uid : prompt[u] # "running"
    BY <1>1, <2>1 DEF Prompted
  <2> QED
    BY <1>1, <1>2, <1>4, <1>5, <2>1, <2>2 DEF Prompted
<1>9. Status(tq)' /\ Status(snapshot)' /\ View'
  BY <1>1, <1>2, StatusStays, ViewStays
<1>10. Listed(tq)' /\ Listed(snapshot)' /\ Listed(partitions)'
  BY <1>1, ListedStays, Numbers
<1>11. SeesAll(snapshot)' /\ SeesAll(partitions)'
  BY <1>1, SeesAllStays DEF OutputsIn
<1>12. InHand'
  <2>1. InHand
    BY DEF IInv
  <2>2. \A key \in OutputKey : Ended(key)' <=> Ended(key)
    BY <1>1, <1>4, OutputFacts DEF Ended
  <2> QED
    BY <1>1, <1>2, <2>1, <2>2 DEF InHand
<1>13. Accounted'
  BY <1>1 DEF IInv, Accounted
<1>14. TrainLive
  BY <1>1 DEF TrainLive
<1>15. InQueue'
  <2>1. RowsOf(snapshot, "val") = {} /\ RowsOf(partitions, "val") = {}
    BY <1>1, <1>3, NoValRows DEF Table
  <2> QED
    BY <1>1, <1>3, <1>14, <2>1, RowsOfStay DEF IInv, InQueue, Part
<1>16. Whole'
  BY <1>1, <1>14, RowsOfStay DEF IInv, Whole, Part
<1>17. Born' /\ Divisible' /\ RaisesOnlyEmpty'
  BY <1>2 DEF Born, Divisible, RaisesOnlyEmpty
<1>18. Advantages'
  BY <1>1, <1>2, <1>3 DEF IInv, Advantages, AdvantageOfFinal
<1> QED
  BY <1>6, <1>7, <1>8, <1>9, <1>10, <1>11, <1>12, <1>13, <1>15, <1>16, <1>17, <1>18 DEF IInv

-----------------------------------------------------------------------------
(* The trainer starts a batch. *)

SameRows(old, new) ==
    \A key \in Row : /\ key \in DOMAIN new <=> key \in DOMAIN old
                     /\ key \in DOMAIN old => new[key] = old[key]

LEMMA SameRowsKeep ==
  ASSUME IInv, setup' = setup, session' = session, global_steps' = global_steps
  PROVE  /\ SameRows(tq, tq') => /\ Listed(tq)' /\ OutputsIn(tq)' = OutputsIn(tq)
                                 /\ \A p \in Part : RowsOf(tq, p)' = RowsOf(tq, p)
         /\ SameRows(partitions, partitions') =>
               /\ Listed(partitions)' /\ \A p \in Part : RowsOf(partitions, p)' = RowsOf(partitions, p)
<1>1. \A u \in Uid : Sessions(u)' = Sessions(u)
  BY FixedSetup
<1>2. \A key \in OutputKey : Ended(key) <=> Ended(key)'
  BY <1>1, OutputFacts DEF Ended
<1>3. \A key \in OutputKey : key \in Row
  BY DEF Row
<1>4. Listed(tq) /\ Listed(partitions)
  BY DEF IInv
<1>5. ASSUME SameRows(tq, tq')
      PROVE  /\ Listed(tq)' /\ OutputsIn(tq)' = OutputsIn(tq)
             /\ \A p \in Part : RowsOf(tq, p)' = RowsOf(tq, p)
  <2>1. Listed(tq)'
    BY <1>2, <1>4, <1>5 DEF Listed, SameRows
  <2>2. OutputsIn(tq)' = OutputsIn(tq)
    BY <1>3, <1>5 DEF OutputsIn, SameRows
  <2>3. \A p \in Part : RowsOf(tq, p)' = RowsOf(tq, p)
    BY <1>5 DEF RowsOf, SameRows
  <2> QED
    BY <2>1, <2>2, <2>3
<1>6. ASSUME SameRows(partitions, partitions')
      PROVE  Listed(partitions)' /\ \A p \in Part : RowsOf(partitions, p)' = RowsOf(partitions, p)
  <2>1. Listed(partitions)'
    BY <1>2, <1>4, <1>6 DEF Listed, SameRows
  <2>2. \A p \in Part : RowsOf(partitions, p)' = RowsOf(partitions, p)
    BY <1>6 DEF RowsOf, SameRows
  <2> QED
    BY <2>1, <2>2
<1> QED
  BY <1>5, <1>6

LEMMA StepDispatch ==
  ASSUME IInv, Dispatch
  PROVE  IInv'
<1>1. /\ setup' = setup /\ tq' = tq /\ session' = session /\ prompt' = prompt /\ born' = born
      /\ snapshot' = snapshot /\ to_add' = to_add /\ part' = part /\ val_batch' = val_batch
      /\ batch' = batch /\ advantage' = advantage /\ version' = version /\ awake' = awake
      /\ global_steps' = global_steps /\ pc = "dispatch" /\ pc' = "spawn"
      /\ partitions' = Updated(partitions, Tagged(Prompts, "running", global_steps))
  BY DEF Dispatch, Goto, queueVars
<1>2. /\ total_training_steps' = total_training_steps /\ val_batches' = val_batches
      /\ \A u \in Uid : Sessions(u)' = Sessions(u)
  BY <1>1, FixedSetup
<1>3. Prompts' = Prompts
  BY <1>1, FixedPrompts
<1>4. Prompts \subseteq Uid /\ Prompts \subseteq Key
  BY PromptsFacts, UidFacts
<1>5. /\ IsTable(partitions') /\ DOMAIN partitions' = DOMAIN partitions \cup Prompts
      /\ \A key \in DOMAIN partitions \ Prompts : partitions'[key] = partitions[key]
      /\ \A key \in Prompts : partitions'[key] = Stamp("running", global_steps)
  <2>1. IsTable(partitions) /\ global_steps \in Step \cup {NoStep} /\ global_steps # NoStep
    BY TableFacts, Numbers DEF Table
  <2>2. "running" \in {"running", "success", "finished", "failure"}
    OBVIOUS
  <2>3. IsPut(partitions, Prompts, "running", global_steps, partitions')
    BY <1>1, <1>4, <2>1, <2>2, Put
  <2> QED
    BY <2>1, <2>3 DEF IsPut
<1>21. \A key \in Prompts : partitions'[key].status = "running" /\ partitions'[key].step = global_steps
  BY <1>5 DEF Stamp
<1>6. SameRows(partitions, partitions')
  <2>1. \A key \in Row : key \notin Prompts
    BY <1>4, RowFacts
  <2> QED
    BY <1>5, <2>1 DEF SameRows
<1>7. TrainLive /\ TrainLive' /\ (ValLive' => ValLive)
  BY <1>1, <1>2 DEF TrainLive, ValLive
<1>8. Types'
  BY <1>1, <1>2, <1>5 DEF IInv, Types, Pc
<1>9. Placed'
  BY <1>1 DEF IInv, Placed
<1>10. Prompted'
  <2>1. \A u \in Uid : Started(u)' <=> Started(u)
    BY <1>1 DEF Started
  <2> QED
    BY <1>1, <1>2, <2>1 DEF IInv, Prompted
<1>11. Status(tq)' /\ Status(snapshot)'
  BY <1>1, StatusStays
<1>12. View'
  <2>1. View
    BY DEF IInv
  <2>2. ASSUME NEW u \in Uid \cap DOMAIN partitions'
        PROVE  partitions'[u].status = "running"
               \/ (prompt[u] \in {"finished", "failure"} /\ partitions'[u].status = prompt[u])
    <3>1. CASE u \in Prompts
      BY <1>21, <3>1
    <3>2. CASE u \notin Prompts
      <4>1. u \in DOMAIN partitions /\ partitions'[u] = partitions[u]
        BY <1>5, <3>2
      <4> QED
        BY <2>1, <4>1 DEF View
    <3> QED
      BY <3>1, <3>2
  <2>3. \A u \in Prompts : u \in DOMAIN partitions' /\ partitions'[u].step = global_steps
    BY <1>5, <1>21
  <2> QED
    BY <1>1, <1>3, <2>2, <2>3 DEF View
<1>13. Listed(tq)' /\ Listed(snapshot)' /\ Listed(partitions)'
  BY <1>1, <1>6, ListedStays, SameRowsKeep, Numbers
<1>14. SeesAll(snapshot)' /\ SeesAll(partitions)'
  <2>1. OutputsIn(tq)' = OutputsIn(tq)
    BY <1>1 DEF OutputsIn
  <2>2. SeesAll(snapshot)'
    BY <1>1, <2>1, SeesAllStays
  <2>3. ASSUME NEW u \in Uid \cap DOMAIN partitions', partitions'[u].status = "finished"
        PROVE  {key \in OutputsIn(tq) : key.uid = u} \subseteq DOMAIN partitions'
    <3>1. u \notin Prompts
      BY <1>21, <2>3
    <3>2. u \in DOMAIN partitions /\ partitions[u].status = "finished"
      BY <1>5, <2>3, <3>1
    <3>3. {key \in OutputsIn(tq) : key.uid = u} \subseteq DOMAIN partitions
      BY <3>2 DEF IInv, SeesAll
    <3> QED
      BY <1>5, <3>3
  <2> QED
    BY <2>1, <2>2, <2>3 DEF SeesAll
<1>15. InHand'
  <2>1. InHand
    BY DEF IInv
  <2>2. \A key \in OutputKey : Ended(key)' <=> Ended(key)
    BY <1>1, <1>2, OutputFacts DEF Ended
  <2> QED
    BY <1>1, <2>1, <2>2 DEF InHand
<1>16. Accounted'
  BY <1>1 DEF IInv, Accounted
<1>17. InQueue'
  BY <1>1, <1>6, <1>7, RowsOfStay, SameRowsKeep DEF IInv, InQueue, Part
<1>18. Whole'
  BY <1>1, <1>6, <1>7, RowsOfStay, SameRowsKeep DEF IInv, Whole, Part
<1>19. Born' /\ Divisible' /\ RaisesOnlyEmpty'
  BY <1>1 DEF Born, Divisible, RaisesOnlyEmpty
<1>20. Advantages'
  BY <1>1 DEF IInv, Advantages, AdvantageOfFinal
<1> QED
  BY <1>8, <1>9, <1>10, <1>11, <1>12, <1>13, <1>14, <1>15, <1>16, <1>17, <1>18, <1>19, <1>20 DEF IInv

LEMMA StepSpawn ==
  ASSUME IInv, Spawn
  PROVE  IInv'
<1>1. /\ setup' = setup /\ tq' = tq /\ born' = born /\ partitions' = partitions
      /\ snapshot' = snapshot /\ to_add' = to_add /\ part' = part /\ val_batch' = val_batch
      /\ batch' = batch /\ advantage' = advantage /\ version' = version /\ awake' = awake
      /\ global_steps' = global_steps /\ pc = "spawn" /\ pc' = "sample"
      /\ prompt' = [u \in Uid |-> IF u \in Prompts THEN "running" ELSE prompt[u]]
      /\ session' = [u \in Uid |-> IF u \in Prompts THEN [s \in Sessions(u) |-> "running"]
                                   ELSE session[u]]
  BY DEF Spawn, Goto, bufferVars
<1>2. /\ total_training_steps' = total_training_steps /\ val_batches' = val_batches
      /\ \A u \in Uid : Sessions(u)' = Sessions(u)
  BY <1>1, FixedSetup
<1>3. Prompts' = Prompts /\ Prompts \subseteq Uid
  BY <1>1, FixedPrompts, PromptsFacts
<1>4. /\ \A u \in Prompts : /\ prompt'[u] = "running" /\ prompt[u] = "idle"
                            /\ \A s \in Sessions(u) : session[u][s] = "idle"
                            /\ \A T \in Table : \A key \in OutputsIn(T) : key.uid # u
      /\ \A u \in Uid \ Prompts : prompt'[u] = prompt[u] /\ session'[u] = session[u]
  BY <1>1, <1>3, NoRowsYet
<1>5. \A key \in OutputKey : Ended(key) => key.uid \notin Prompts /\ Ended(key)'
  <2> TAKE key \in OutputKey
  <2>1. key.uid \in Uid
    BY OutputFacts
  <2> QED
    BY <1>2, <1>4, <2>1 DEF Ended
<1>6. TrainLive /\ TrainLive' /\ (ValLive' => ValLive)
  BY <1>1, <1>2 DEF TrainLive, ValLive
<1>7. Types'
  <2>1. ASSUME NEW u \in Uid
        PROVE  session'[u] \in [Sessions(u) -> {"idle", "running", "ended", "raised"}]
    <3>1. CASE u \in Prompts
      BY <1>1, <3>1
    <3>2. CASE u \notin Prompts
      BY <1>4, <3>2 DEF IInv, Types
    <3> QED
      BY <3>1, <3>2
  <2>2. prompt' \in [Uid -> {"idle", "running", "finished", "failure"}]
    BY <1>1 DEF IInv, Types
  <2>3. DOMAIN session' = Uid
    BY <1>1
  <2> QED
    BY <1>1, <1>2, <2>1, <2>2, <2>3 DEF IInv, Types, Pc
<1>8. Placed'
  BY <1>1 DEF IInv, Placed
<1>9. Prompted'
  <2> SUFFICES ASSUME NEW u \in Uid
               PROVE  /\ ~Started(u)' => prompt'[u] = "idle"
                      /\ prompt'[u] = "idle" => \A s \in Sessions(u) : session'[u][s] = "idle"
                      /\ prompt'[u] = "finished" => \A s \in Sessions(u) : session'[u][s] = "ended"
                      /\ prompt'[u] = "running" => u \in Prompts
                      /\ u \in Prompts => prompt'[u] # "idle"
    BY <1>1, <1>2, <1>3 DEF Prompted
  <2>1. Prompted
    BY DEF IInv
  <2>2. CASE u \in Prompts
    <3>1. Started(u)'
      BY <1>1, <2>2, PromptsFacts, Numbers DEF Started, Part
    <3> QED
      BY <1>4, <2>2, <3>1
  <2>3. CASE u \notin Prompts
    <3>1. Started(u) => Started(u)'
      BY <1>1 DEF Started
    <3>2. prompt[u] # "running"
      BY <1>1, <2>1 DEF Prompted
    <3> QED
      BY <1>4, <2>1, <2>3, <3>1, <3>2 DEF Prompted
  <2> QED
    BY <2>2, <2>3
<1>10. Status(tq)' /\ Status(snapshot)'
  <2>1. Status(tq) /\ Status(snapshot)
    BY DEF IInv
  <2>2. \A u \in Uid \cap DOMAIN tq : u \notin Prompts
    BY <1>4, <2>1 DEF Status
  <2>3. \A u \in Uid \cap DOMAIN snapshot : u \notin Prompts
    BY <1>4, <2>1 DEF Status
  <2> QED
    BY <1>1, <1>4, <2>1, <2>2, <2>3 DEF Status
<1>11. View'
  <2>1. View
    BY DEF IInv
  <2>2. ASSUME NEW u \in Uid \cap DOMAIN partitions
        PROVE  partitions[u].status = "running"
               \/ (prompt'[u] \in {"finished", "failure"} /\ partitions[u].status = prompt'[u])
    BY <1>4, <2>1 DEF View
  <2> QED
    BY <1>1, <1>3, <2>1, <2>2 DEF View
<1>12. Listed(tq)' /\ Listed(snapshot)' /\ Listed(partitions)'
  BY <1>1, <1>5 DEF IInv, Listed
<1>13. SeesAll(snapshot)' /\ SeesAll(partitions)'
  BY <1>1, SeesAllStays DEF OutputsIn
<1>14. InHand'
  <2>1. InHand
    BY DEF IInv
  <2> QED
    BY <1>1, <1>5, <2>1 DEF InHand
<1>15. Accounted'
  <2>1. ASSUME NEW key \in DOMAIN tq \cap Row
        PROVE  \/ key \in batch.train \cup batch.val
               \/ key \in OutputKey /\ prompt'[key.uid] = "failure"
    <3>1. \/ key \in batch.train \cup batch.val
          \/ key \in OutputKey /\ prompt[key.uid] = "failure"
      BY <1>1 DEF IInv, Accounted
    <3>2. key \in OutputKey => key.uid \in Uid
      BY OutputFacts
    <3> QED
      BY <1>4, <3>1, <3>2
  <2> QED
    BY <1>1, <2>1 DEF Accounted
<1>16. InQueue'
  BY <1>1, <1>6, RowsOfStay DEF IInv, InQueue, Part
<1>17. Whole'
  BY <1>1, <1>6, RowsOfStay DEF IInv, Whole, Part
<1>18. Born'
  <2>1. ASSUME part = "train", NEW key \in OutputsIn(tq), key.uid.part = "train",
               key.uid.step = global_steps
        PROVE  FALSE
    <3>1. key \in OutputKey /\ key.uid \in Uid
      BY <2>1, OutputFacts DEF OutputsIn
    <3>2. Started(key.uid)
      BY <3>1, <2>1, ListedFacts, OutputFacts DEF OutputsIn, Table
    <3> QED
      BY <1>1, <2>1, <3>2, Numbers DEF Started
  <2> QED
    BY <1>1, <2>1 DEF Born, OutputsIn
<1>19. Divisible' /\ RaisesOnlyEmpty'
  BY <1>1 DEF Divisible, RaisesOnlyEmpty
<1>20. Advantages'
  BY <1>1 DEF IInv, Advantages, AdvantageOfFinal
<1> QED
  BY <1>7, <1>8, <1>9, <1>10, <1>11, <1>12, <1>13, <1>14, <1>15, <1>16, <1>17, <1>18, <1>19, <1>20 DEF IInv

-----------------------------------------------------------------------------
(* The sample. *)

\* A prompt of the batch does not run once the trainer need not wait.
LEMMA NoneRuns ==
  ASSUME IInv, pc = "sample", ~MustWait
  PROVE  /\ \A u \in Uid : prompt[u] # "running"
         /\ \A u \in Prompts : /\ prompt[u] \in {"finished", "failure"}
                               /\ u \in DOMAIN partitions /\ partitions[u].status = prompt[u]
<1>1. View /\ Prompted
  BY DEF IInv
<1>2. ASSUME NEW u \in Prompts
      PROVE  /\ prompt[u] \in {"finished", "failure"}
             /\ u \in DOMAIN partitions /\ partitions[u].status = prompt[u]
  <2>1. u \in Uid /\ PartOf(u) = part
    BY PromptsFacts, UidFacts
  <2>2. u \in DOMAIN partitions /\ partitions[u].step = global_steps
    BY <1>1 DEF View
  <2>3. u \in OfStep
    BY <2>1, <2>2 DEF OfStep
  <2>4. partitions[u].status # "running"
    BY <2>3 DEF MustWait
  <2> QED
    BY <1>1, <2>1, <2>2, <2>4 DEF View
<1>3. ASSUME NEW u \in Uid, prompt[u] = "running" PROVE FALSE
  <2>1. u \in Prompts
    BY <1>1, <1>3 DEF Prompted
  <2> QED
    BY <1>2, <1>3, <2>1
<1> QED
  BY <1>2, <1>3

\* What is sampled are the rows of the batch's step that the polled view lists.
LEMMA SampledRows ==
  ASSUME IInv
  PROVE  Sampled = RowsOf(partitions, part)
<1>1. ASSUME NEW key \in Sampled PROVE key \in RowsOf(partitions, part)
  <2>1. key \in DOMAIN partitions /\ PartOf(key) = part /\ partitions[key].step = global_steps
        /\ partitions[key].status = "success"
    BY DEF Sampled, OfStep
  <2>2. key \notin Uid
    BY <2>1 DEF IInv, View
  <2>3. key \in Row
    BY <2>1, <2>2, TableFacts, KeyCases DEF Table
  <2>4. partitions[key].step = StepOf(key)
    BY <2>1, <2>3, ListedFacts DEF Table
  <2> QED
    BY <2>1, <2>3, <2>4 DEF RowsOf
<1>2. ASSUME NEW key \in RowsOf(partitions, part) PROVE key \in Sampled
  <2>1. key \in DOMAIN partitions /\ key \in Row /\ PartOf(key) = part /\ StepOf(key) = global_steps
    BY DEF RowsOf
  <2>2. partitions[key].status = "success" /\ partitions[key].step = global_steps
    BY <2>1, ListedFacts DEF Table
  <2> QED
    BY <2>1, <2>2 DEF Sampled, OfStep
<1> QED
  BY <1>1, <1>2

LEMMA StepSample ==
  ASSUME IInv, Sample
  PROVE  IInv'
<1>1. /\ setup' = setup /\ tq' = tq /\ session' = session /\ prompt' = prompt /\ born' = born
      /\ partitions' = partitions /\ snapshot' = snapshot /\ to_add' = to_add
      /\ part' = part /\ val_batch' = val_batch /\ global_steps' = global_steps
      /\ advantage' = advantage /\ version' = version /\ awake' = awake
      /\ pc = "sample" /\ ~MustWait /\ batch' = [batch EXCEPT ![part] = Sampled]
      /\ pc' = IF part = "val" THEN "collect" ELSE "sleep"
  BY DEF Sample, Goto, queueVars, bufferVars
<1>2. /\ total_training_steps' = total_training_steps /\ val_batches' = val_batches
      /\ \A u \in Uid : Sessions(u)' = Sessions(u)
  BY <1>1, FixedSetup
<1>3. Prompts' = Prompts /\ Prompts \subseteq Uid
  BY <1>1, FixedPrompts, PromptsFacts
<1>4. PICK rows : rows = RowsOf(partitions, part)
  OBVIOUS
<1>5. /\ \A key \in rows : /\ key \in DOMAIN partitions /\ key \in Row /\ PartOf(key) = part
                           /\ StepOf(key) = global_steps
                           /\ key \in OutputKey => Ended(key)
  BY <1>4, ListedFacts DEF RowsOf, Table
<1>6. /\ part = "train" => batch'.train = rows /\ batch'.val = {} /\ batch.train = {} /\ batch.val = {}
      /\ part = "val" => batch'.val = rows /\ batch'.train = batch.train /\ batch.val = {}
      /\ batch' = [train |-> batch'.train, val |-> batch'.val]
  <2>1. batch = [train |-> batch.train, val |-> batch.val] /\ part \in Part
    BY Batches, Numbers
  <2>2. batch' = [batch EXCEPT ![part] = rows]
    BY <1>1, <1>4, SampledRows
  <2>3. batch[part] = {} /\ (part = "train" => batch.val = {})
    BY <1>1 DEF IInv, Placed
  <2>4. CASE part = "train"
    BY <2>1, <2>2, <2>3, <2>4
  <2>5. CASE part = "val"
    BY <2>1, <2>2, <2>3, <2>5
  <2> QED
    BY <2>1, <2>4, <2>5 DEF Part
<1>7. TrainLive /\ TrainLive' /\ (ValLive' => ValLive)
  BY <1>1, <1>2 DEF TrainLive, ValLive
<1>8. rows \subseteq OutputKey
  <2> SUFFICES ASSUME NEW key \in rows, key \in PadKey PROVE FALSE
    BY <1>5 DEF Row
  <2>1. part = "train"
    BY <1>5, PadFacts
  <2>2. key \in DOMAIN tq /\ key \in Row
    BY <1>4, <1>5, <1>7, <2>1 DEF IInv, InQueue
  <2>3. key \in batch.train \cup batch.val \/ key \in OutputKey
    BY <2>2 DEF IInv, Accounted
  <2> QED
    BY <1>6, <2>1, <2>3, PadFacts
<1>9. Types'
  <2>1. batch' \in [train : SUBSET Row, val : SUBSET OutputKey]
    <3>1. batch'.train \subseteq Row /\ batch'.val \subseteq OutputKey
      BY <1>5, <1>6, <1>8, Batches, Numbers DEF Part
    <3> QED
      BY <1>6, <3>1
  <2>2. pc' \in Pc
    BY <1>1 DEF Pc
  <2> QED
    BY <1>1, <1>2, <2>1, <2>2 DEF IInv, Types
<1>10. Placed'
  <2>1. part \in Part /\ Placed
    BY Numbers DEF IInv
  <2>2. CASE part = "train"
    BY <1>1, <1>6, <2>1, <2>2 DEF Placed
  <2>3. CASE part = "val"
    BY <1>1, <1>6, <2>1, <2>3 DEF Placed
  <2> QED
    BY <2>1, <2>2, <2>3 DEF Part
<1>11. Prompted'
  <2>1. Prompted
    BY DEF IInv
  <2>2. \A u \in Uid : prompt[u] # "running"
    BY <1>1, NoneRuns
  <2>3. \A u \in Uid : Started(u)' <=> Started(u)
    BY <1>1 DEF Started
  <2> QED
    BY <1>1, <1>2, <1>3, <2>1, <2>2, <2>3 DEF Prompted
<1>12. Status(tq)' /\ Status(snapshot)' /\ View'
  BY <1>1, StatusStays, ViewStays
<1>13. Listed(tq)' /\ Listed(snapshot)' /\ Listed(partitions)'
  BY <1>1, ListedStays, Numbers
<1>14. SeesAll(snapshot)' /\ SeesAll(partitions)'
  BY <1>1, SeesAllStays DEF OutputsIn
<1>15. InHand'
  <2>1. InHand /\ part \in Part
    BY Numbers DEF IInv
  <2>2. \A key \in OutputKey : Ended(key)' <=> Ended(key)
    BY <1>1, <1>2, OutputFacts DEF Ended
  <2>3. CASE part = "train"
    BY <1>1, <1>5, <1>6, <1>8, <2>2, <2>3 DEF InHand
  <2>4. CASE part = "val"
    BY <1>1, <1>5, <1>6, <1>8, <2>1, <2>2, <2>4 DEF InHand
  <2> QED
    BY <2>1, <2>3, <2>4 DEF Part
<1>16. Accounted'
  <2>1. ASSUME NEW key \in DOMAIN tq \cap Row
        PROVE  \/ key \in batch'.train \cup batch'.val
               \/ key \in OutputKey /\ prompt[key.uid] = "failure"
    <3>1. \/ key \in batch.train \cup batch.val
          \/ key \in OutputKey /\ prompt[key.uid] = "failure"
          \/ key \in OutputKey /\ key.uid \in Prompts
      BY DEF IInv, Accounted
    <3>2. CASE key \in batch.train \cup batch.val
      BY <1>6, <3>2, Numbers DEF Part
    <3>3. CASE key \in OutputKey /\ key.uid \in Prompts /\ prompt[key.uid] # "failure"
      <4>1. key.uid \in DOMAIN partitions /\ partitions[key.uid].status = "finished" /\ key.uid \in Uid
        BY <1>1, <1>3, <3>3, NoneRuns
      <4>2. key \in DOMAIN partitions
        BY <3>3, <4>1 DEF IInv, SeesAll, OutputsIn
      <4>3. PartOf(key) = part /\ StepOf(key) = global_steps
        BY <3>3, OutputFacts, PromptsFacts
      <4>4. key \in rows
        BY <1>4, <4>2, <4>3 DEF RowsOf
      <4> QED
        BY <1>6, <4>4, Numbers DEF Part
    <3> QED
      BY <3>1, <3>2, <3>3
  <2> QED
    BY <1>1, <2>1 DEF Accounted
<1>17. InQueue'
  <2>1. InQueue /\ part \in Part
    BY Numbers DEF IInv
  <2>2. RowsOf(snapshot, "train") \subseteq DOMAIN tq /\ RowsOf(partitions, "train") \subseteq DOMAIN tq
        /\ batch'.train \subseteq DOMAIN tq
    BY <1>4, <1>6, <1>7, <2>1 DEF InQueue, Part
  <2>3. ValLive => /\ RowsOf(snapshot, "val") \subseteq DOMAIN tq
                   /\ RowsOf(partitions, "val") \subseteq DOMAIN tq
                   /\ batch'.val \subseteq DOMAIN tq
    BY <1>4, <1>6, <2>1 DEF InQueue, ValLive
  <2> QED
    BY <1>1, <1>7, <2>2, <2>3, RowsOfStay DEF InQueue, Part
<1>18. Whole'
  <2>1. Closed(batch'.train)
    BY <1>4, <1>6, <1>7, Numbers DEF IInv, Whole, Part
  <2> QED
    BY <1>1, <1>7, <2>1, RowsOfStay DEF IInv, Whole, Part
<1>19. Born'
  BY <1>1 DEF IInv, Born, OutputsIn
<1>20. Divisible' /\ RaisesOnlyEmpty'
  BY <1>1 DEF Divisible, RaisesOnlyEmpty
<1>21. Advantages'
  <2>1. CASE part = "train"
    <3>1. advantage = <<>>
      BY <1>6, <2>1 DEF IInv, Advantages
    <3> QED
      BY <1>1, <3>1 DEF Advantages, AdvantageOfFinal
  <2>2. CASE part = "val"
    BY <1>1, <1>6, <2>2 DEF IInv, Advantages, AdvantageOfFinal
  <2> QED
    BY <2>1, <2>2, Numbers DEF Part
<1> QED
  BY <1>9, <1>10, <1>11, <1>12, <1>13, <1>14, <1>15, <1>16, <1>17, <1>18, <1>19, <1>20, <1>21 DEF IInv

-----------------------------------------------------------------------------
(* The end of a batch. *)

\* The keys and the values of a table after some were taken out.
IsWithout(table, keys, after) ==
    DOMAIN after = DOMAIN table \ keys /\ \A key \in DOMAIN after : after[key] = table[key]

LEMMA TakeOut ==
  ASSUME NEW table, NEW keys
  PROVE  IsWithout(table, keys, Without(table, keys))
BY DEF Without, IsWithout

LEMMA StepClear ==
  ASSUME IInv, Clear
  PROVE  IInv'
<1>1. /\ setup' = setup /\ session' = session /\ prompt' = prompt
      /\ partitions' = partitions /\ snapshot' = snapshot /\ to_add' = to_add
      /\ part' = part /\ val_batch' = val_batch /\ global_steps' = global_steps /\ batch' = batch
      /\ advantage' = advantage /\ version' = version /\ awake' = awake
      /\ tq' = Without(tq, batch[part]) /\ pc = "clear" /\ pc' = "remove"
  BY DEF Clear, Cleared, Goto, bufferVars
<1>2. /\ total_training_steps' = total_training_steps /\ val_batches' = val_batches
      /\ \A u \in Uid : Sessions(u)' = Sessions(u)
  BY <1>1, FixedSetup
<1>3. PICK gone : gone = batch[part]
  OBVIOUS
<1>4. DOMAIN tq' = DOMAIN tq \ gone /\ \A key \in DOMAIN tq' : key \in DOMAIN tq /\ tq'[key] = tq[key]
  <2>1. IsWithout(tq, gone, tq')
    BY <1>1, <1>3, TakeOut
  <2> QED
    BY <2>1 DEF IsWithout
<1>5. TrainLive' => TrainLive /\ part = "val"
  BY <1>1, Numbers DEF TrainLive, Part
<1>6. Types'
  <2>1. IsTable(tq')
    BY <1>4 DEF IInv, Types, IsTable
  <2> QED
    BY <1>1, <1>2, <2>1 DEF IInv, Types, Pc
<1>7. Placed'
  BY <1>1 DEF IInv, Placed
<1>8. Prompted'
  <2>1. \A u \in Uid : Started(u)' <=> Started(u)
    BY <1>1 DEF Started
  <2>2. Prompted
    BY DEF IInv
  <2>3. \A u \in Uid : prompt[u] # "running"
    BY <1>1, <2>2 DEF Prompted
  <2> QED
    BY <1>1, <1>2, <2>1, <2>2, <2>3 DEF Prompted
<1>9. Status(tq)' /\ Status(snapshot)' /\ View'
  <2>1. Status(tq)'
    BY <1>1, <1>4 DEF IInv, Status
  <2> QED
    BY <1>1, <2>1, StatusStays, ViewStays
<1>10. Listed(tq)' /\ Listed(snapshot)' /\ Listed(partitions)'
  <2>1. \A key \in OutputKey : Ended(key)' <=> Ended(key)
    BY <1>1, <1>2, OutputFacts DEF Ended
  <2>2. Listed(tq)'
    BY <1>1, <1>4, <2>1 DEF IInv, Listed
  <2> QED
    BY <1>1, <2>2, ListedStays, Numbers
<1>11. SeesAll(snapshot)' /\ SeesAll(partitions)'
  <2>1. OutputsIn(tq)' \subseteq OutputsIn(tq)
    BY <1>4 DEF OutputsIn
  <2> QED
    BY <1>1, <2>1, SeesAllStays
<1>12. InHand'
  <2>1. InHand
    BY DEF IInv
  <2>2. \A key \in OutputKey : Ended(key)' <=> Ended(key)
    BY <1>1, <1>2, OutputFacts DEF Ended
  <2>3. batch'[part'] \cap DOMAIN tq' = {}
    BY <1>1, <1>3, <1>4
  <2> QED
    BY <1>1, <2>1, <2>2, <2>3 DEF InHand
<1>13. Accounted'
  BY <1>1, <1>4 DEF IInv, Accounted
<1>14. ASSUME part = "val", NEW key \in Row, PartOf(key) = "train" PROVE key \notin gone
  BY <1>3, <1>14, Batches
<1>15. InQueue'
  <2>1. InQueue
    BY DEF IInv
  <2>2. ASSUME TrainLive, part = "val"
        PROVE  /\ RowsOf(snapshot, "train") \subseteq DOMAIN tq'
               /\ RowsOf(partitions, "train") \subseteq DOMAIN tq'
               /\ batch.train \subseteq DOMAIN tq'
    <3>1. \A key \in RowsOf(snapshot, "train") \cup RowsOf(partitions, "train") \cup batch.train :
             key \notin gone
      BY <2>2, <1>14, Batches DEF RowsOf
    <3> QED
      BY <1>4, <2>1, <2>2, <3>1 DEF InQueue
  <2>3. ~ValLive'
    BY <1>1 DEF ValLive
  <2> QED
    BY <1>1, <1>5, <2>2, <2>3, RowsOfStay DEF InQueue, Part
<1>16. Whole'
  <2>1. ASSUME part = "val" PROVE RowsOf(tq, "train")' = RowsOf(tq, "train")
    BY <1>1, <1>4, <1>14, <2>1 DEF RowsOf
  <2> QED
    BY <1>1, <1>5, <2>1, RowsOfStay DEF IInv, Whole, Part
<1>17. Born' /\ Divisible' /\ RaisesOnlyEmpty'
  BY <1>1 DEF Born, Divisible, RaisesOnlyEmpty
<1>18. Advantages'
  BY <1>1 DEF IInv, Advantages, AdvantageOfFinal
<1> QED
  BY <1>6, <1>7, <1>8, <1>9, <1>10, <1>11, <1>12, <1>13, <1>15, <1>16, <1>17, <1>18 DEF IInv

\* What follows the end of a batch.
NextBatch ==
    /\ part = "val" /\ val_batch < val_batches /\ pc' = "dispatch" /\ val_batch' = val_batch + 1
    /\ part' = part /\ global_steps' = global_steps /\ advantage' = advantage
FirstStep ==
    /\ part = "val" /\ batch.train = {} /\ pc' = "dispatch" /\ part' = "train" /\ val_batch' = 0
    /\ global_steps' = global_steps + 1 /\ advantage' = advantage
BackToStep ==
    /\ part = "val" /\ batch.train # {} /\ pc' = "metrics" /\ part' = "train" /\ val_batch' = 0
    /\ global_steps' = global_steps /\ advantage' = advantage
LastStep ==
    /\ part = "train" /\ global_steps >= total_training_steps /\ pc' = "done"
    /\ part' = part /\ val_batch' = val_batch /\ global_steps' = global_steps /\ advantage' = <<>>
NextStep ==
    /\ part = "train" /\ global_steps < total_training_steps /\ pc' = "dispatch"
    /\ part' = part /\ val_batch' = val_batch /\ global_steps' = global_steps + 1
    /\ advantage' = <<>>

LEMMA StepRemoveBatch ==
  ASSUME IInv, RemoveBatch
  PROVE  IInv'
<1>1. /\ setup' = setup /\ tq' = tq /\ session' = session /\ prompt' = prompt /\ born' = born
      /\ snapshot' = snapshot /\ to_add' = to_add /\ version' = version /\ awake' = awake
      /\ partitions' = Without(partitions, batch[part]) /\ batch' = [batch EXCEPT ![part] = {}]
      /\ pc = "remove"
  BY DEF RemoveBatch, queueVars
<1>2. NextBatch \/ FirstStep \/ BackToStep \/ LastStep \/ NextStep
  <2>1. CASE part = "val"
    BY <2>1 DEF RemoveBatch, Goto, NextBatch, FirstStep, BackToStep
  <2>2. CASE part = "train"
    BY <2>2, Numbers DEF RemoveBatch, Goto, LastStep, NextStep
  <2> QED
    BY <2>1, <2>2, Numbers DEF Part
<1>3. /\ total_training_steps' = total_training_steps /\ val_batches' = val_batches
      /\ \A u \in Uid : Sessions(u)' = Sessions(u)
  BY <1>1, FixedSetup
<1>4. PICK gone : gone = batch[part]
  OBVIOUS
<1>5. /\ DOMAIN partitions' = DOMAIN partitions \ gone
      /\ \A key \in DOMAIN partitions' : key \in DOMAIN partitions /\ partitions'[key] = partitions[key]
  <2>1. IsWithout(partitions, gone, partitions')
    BY <1>1, <1>4, TakeOut
  <2> QED
    BY <2>1 DEF IsWithout
<1>6. /\ part = "train" => /\ batch'.train = {} /\ batch'.val = {} /\ gone = batch.train
                           /\ batch.val = {}
      /\ part = "val" => batch'.val = {} /\ batch'.train = batch.train /\ gone = batch.val
      /\ batch' = [train |-> batch'.train, val |-> batch'.val]
  <2>1. /\ batch = [train |-> batch.train, val |-> batch.val] /\ part \in Part
        /\ part = "train" => batch.val = {}
    BY Batches, Numbers
  <2>2. CASE part = "train"
    BY <1>1, <1>4, <2>1, <2>2
  <2>3. CASE part = "val"
    BY <1>1, <1>4, <2>1, <2>3
  <2> QED
    BY <2>1, <2>2, <2>3 DEF Part
<1>7. Placed /\ InHand /\ Prompted
  BY DEF IInv
<1>8. gone \cap DOMAIN tq = {} /\ gone \subseteq Row
  BY <1>1, <1>4, <1>6, <1>7, Batches, Numbers DEF InHand, Part
<1>9. /\ part = "val" => val_batch > 0 /\ (batch.train = {} <=> global_steps = 0)
      /\ part = "train" => global_steps # 0
      /\ version = global_steps /\ awake
  <2>1. awake \in BOOLEAN
    BY DEF IInv, Types
  <2> QED
    BY <1>1, <1>7, <2>1 DEF Placed
<1>10. /\ global_steps' \in Nat /\ global_steps <= global_steps'
       /\ global_steps' = global_steps \/ global_steps' = global_steps + 1
       /\ global_steps' <= total_training_steps
       /\ global_steps' = global_steps + 1 => batch'.train = {} /\ batch'.val = {} /\ part' = "train"
  BY <1>2, <1>6, <1>9, Numbers DEF NextBatch, FirstStep, BackToStep, LastStep, NextStep
<1>11. \A u \in Uid : Started(u) => Started(u)'
  <2> TAKE u \in Uid
  <2>1. u.part \in Part /\ u.step \in Nat /\ u.batch \in Nat
    BY UidFacts
  <2>2. CASE NextBatch
    BY <1>1, <2>1, <2>2, Numbers DEF NextBatch, Started, Part
  <2>3. CASE FirstStep \/ NextStep
    BY <1>1, <2>1, <2>3, Numbers DEF FirstStep, NextStep, Started, Part
  <2>4. CASE BackToStep \/ LastStep
    BY <1>1, <2>1, <2>4, Numbers DEF BackToStep, LastStep, Started, Part
  <2> QED
    BY <1>2, <2>2, <2>3, <2>4
<1>12. pc' \in {"dispatch", "metrics", "done"} /\ part' \in Part
  BY <1>2, Numbers DEF NextBatch, FirstStep, BackToStep, LastStep, NextStep, Part
<1>13. Types'
  <2>1. IsTable(partitions')
    BY <1>5 DEF IInv, Types, IsTable
  <2>2. batch' \in [train : SUBSET Row, val : SUBSET OutputKey]
    <3>1. batch'.train \subseteq Row /\ batch'.val \subseteq OutputKey
      BY <1>6, Batches, Numbers DEF Part
    <3> QED
      BY <1>6, <3>1
  <2>3. val_batch' \in 0 .. val_batches
    BY <1>2, Numbers DEF NextBatch, FirstStep, BackToStep, LastStep, NextStep
  <2>4. global_steps' \in 0 .. total_training_steps
    BY <1>10, Numbers
  <2> QED
    BY <1>1, <1>3, <1>12, <2>1, <2>2, <2>3, <2>4 DEF IInv, Types, Pc
<1>14. Placed'
  <2>1. CASE NextBatch
    BY <1>1, <1>6, <1>7, <1>9, <2>1, Numbers DEF NextBatch, Placed
  <2>2. CASE FirstStep
    BY <1>1, <1>6, <1>7, <1>9, <2>2, Numbers DEF FirstStep, Placed
  <2>3. CASE BackToStep
    BY <1>1, <1>6, <1>7, <1>9, <2>3, Numbers DEF BackToStep, Placed
  <2>4. CASE LastStep
    BY <1>1, <1>6, <1>7, <1>9, <2>4, Numbers DEF LastStep, Placed
  <2>5. CASE NextStep
    BY <1>1, <1>6, <1>7, <1>9, <2>5, Numbers DEF NextStep, Placed
  <2> QED
    BY <1>2, <2>1, <2>2, <2>3, <2>4, <2>5
<1>15. Prompted'
  <2>1. \A u \in Uid : prompt[u] # "running"
    BY <1>1, <1>7 DEF Prompted
  <2> QED
    BY <1>1, <1>3, <1>7, <1>11, <1>12, <2>1 DEF Prompted
<1>16. Status(tq)' /\ Status(snapshot)' /\ View'
  <2>1. View'
    BY <1>1, <1>5, <1>12 DEF IInv, View
  <2> QED
    BY <1>1, <2>1, StatusStays
<1>17. Listed(tq)' /\ Listed(snapshot)' /\ Listed(partitions)'
  <2>1. \A key \in OutputKey : Ended(key)' <=> Ended(key)
    BY <1>1, <1>3, OutputFacts DEF Ended
  <2>2. \A key \in Row : StepOf(key) <= global_steps => StepOf(key) <= global_steps'
    BY <1>10, RowFacts, Numbers
  <2>3. Listed(partitions)'
    BY <1>1, <1>5, <2>1, <2>2 DEF IInv, Listed
  <2> QED
    BY <1>1, <1>10, <2>3, ListedStays, Numbers
<1>18. SeesAll(snapshot)' /\ SeesAll(partitions)'
  <2>1. OutputsIn(tq)' = OutputsIn(tq)
    BY <1>1 DEF OutputsIn
  <2>2. SeesAll(snapshot)'
    BY <1>1, <2>1, SeesAllStays
  <2>3. ASSUME NEW u \in Uid \cap DOMAIN partitions', partitions'[u].status = "finished"
        PROVE  {key \in OutputsIn(tq) : key.uid = u} \subseteq DOMAIN partitions'
    <3>1. {key \in OutputsIn(tq) : key.uid = u} \subseteq DOMAIN partitions
      BY <1>5, <2>3 DEF IInv, SeesAll
    <3> QED
      BY <1>5, <1>8, <3>1 DEF OutputsIn
  <2> QED
    BY <2>1, <2>2, <2>3 DEF SeesAll
<1>19. InHand'
  <2>1. \A key \in OutputKey : Ended(key)' <=> Ended(key)
    BY <1>1, <1>3, OutputFacts DEF Ended
  <2>2. CASE global_steps' = global_steps + 1
    BY <1>10, <1>12, <2>2 DEF InHand
  <2>3. CASE global_steps' = global_steps
    <3>1. batch'.train \subseteq batch.train /\ batch'.val \subseteq batch.val
      BY <1>6, Numbers DEF Part
    <3> QED
      BY <1>7, <1>12, <2>1, <2>3, <3>1 DEF InHand
  <2> QED
    BY <1>10, <2>2, <2>3
<1>20. Accounted'
  <2>1. ASSUME NEW key \in DOMAIN tq \cap Row
        PROVE  \/ key \in batch'.train \cup batch'.val
               \/ key \in OutputKey /\ prompt[key.uid] = "failure"
    <3>1. \/ key \in batch.train \cup batch.val
          \/ key \in OutputKey /\ prompt[key.uid] = "failure"
      BY <1>1 DEF IInv, Accounted
    <3>2. key \notin gone
      BY <1>8
    <3> QED
      BY <1>6, <3>1, <3>2, Numbers DEF Part
  <2> QED
    BY <1>1, <2>1 DEF Accounted
<1>21. ASSUME global_steps' = global_steps, TrainLive'
       PROVE  /\ part = "val" /\ TrainLive /\ batch'.train = batch.train
              /\ RowsOf(partitions, "train")' = RowsOf(partitions, "train")
  <2>1. NextBatch \/ BackToStep
    BY <1>2, <1>21, Numbers DEF FirstStep, LastStep, NextStep, TrainLive
  <2>2. part = "val" /\ TrainLive /\ batch'.train = batch.train /\ gone = batch.val
    BY <1>6, <2>1 DEF NextBatch, BackToStep, TrainLive
  <2>3. \A key \in gone : PartOf(key) # "train"
    BY <2>2, Batches
  <2> QED
    BY <1>5, <1>21, <2>2, <2>3 DEF RowsOf
<1>22. \A key \in RowsOf(partitions, "train")' : global_steps' # global_steps + 1
  BY <1>5, NewStepEmpty DEF RowsOf, Table
<1>23. ~ValLive'
  BY <1>2, <1>3, <1>9, Numbers DEF NextBatch, FirstStep, BackToStep, LastStep, NextStep, ValLive
<1>24. InQueue'
  <2>1. CASE global_steps' = global_steps + 1
    BY <1>1, <1>10, <1>22, <1>23, <2>1, NewRowsEmpty DEF InQueue, Part
  <2>2. CASE global_steps' = global_steps
    BY <1>1, <1>21, <1>23, <2>2, RowsOfStay DEF IInv, InQueue, Part
  <2> QED
    BY <1>10, <2>1, <2>2
<1>25. Whole'
  <2>1. CASE global_steps' = global_steps + 1
    BY <1>1, <1>10, <1>22, <2>1, NewRowsEmpty DEF Whole, Closed, Part
  <2>2. CASE global_steps' = global_steps
    BY <1>1, <1>21, <2>2, RowsOfStay DEF IInv, Whole, Part
  <2> QED
    BY <1>10, <2>1, <2>2
<1>26. Born' /\ Divisible' /\ RaisesOnlyEmpty'
  BY <1>12 DEF Born, Divisible, RaisesOnlyEmpty
<1>27. Advantages'
  <2>1. CASE part = "train"
    <3>1. advantage' = <<>>
      BY <1>2, <2>1 DEF NextBatch, FirstStep, BackToStep, LastStep, NextStep
    <3> QED
      BY <3>1 DEF Advantages, AdvantageOfFinal
  <2>2. CASE part = "val"
    <3>1. advantage' = advantage
      BY <1>2, <2>2 DEF NextBatch, FirstStep, BackToStep, LastStep, NextStep
    <3> QED
      BY <1>6, <1>12, <2>2, <3>1 DEF IInv, Advantages, AdvantageOfFinal
  <2> QED
    BY <2>1, <2>2, Numbers DEF Part
<1> QED
  BY <1>13, <1>14, <1>15, <1>16, <1>17, <1>18, <1>19, <1>20, <1>24, <1>25, <1>26, <1>27 DEF IInv

-----------------------------------------------------------------------------
(* The polling thread. *)

PolledOnly ==
    /\ setup' = setup /\ tq' = tq /\ session' = session /\ prompt' = prompt /\ born' = born
    /\ part' = part /\ val_batch' = val_batch /\ global_steps' = global_steps /\ batch' = batch
    /\ advantage' = advantage /\ version' = version /\ awake' = awake /\ pc' = pc

LEMMA PolledOnlyKeeps ==
  ASSUME IInv, PolledOnly
  PROVE  /\ Placed' /\ Prompted' /\ Status(tq)' /\ Listed(tq)' /\ InHand' /\ Accounted' /\ Born'
         /\ Advantages' /\ Divisible' /\ RaisesOnlyEmpty'
         /\ (TrainLive' <=> TrainLive) /\ (ValLive' <=> ValLive) /\ Prompts' = Prompts
         /\ \A u \in Uid : Sessions(u)' = Sessions(u)
         /\ \A key \in OutputKey : Ended(key)' <=> Ended(key)
         /\ OutputsIn(tq)' = OutputsIn(tq)
         /\ \A p \in Part : RowsOf(tq, p)' = RowsOf(tq, p)
<1>1. /\ setup' = setup /\ tq' = tq /\ session' = session /\ prompt' = prompt /\ born' = born
      /\ part' = part /\ val_batch' = val_batch /\ global_steps' = global_steps /\ batch' = batch
      /\ advantage' = advantage /\ version' = version /\ awake' = awake /\ pc' = pc
  BY DEF PolledOnly
<1>2. /\ val_batches' = val_batches /\ n' = n /\ Prompts' = Prompts
      /\ \A u \in Uid : Sessions(u)' = Sessions(u)
  BY <1>1, FixedSetup, FixedPrompts
<1>3. \A key \in OutputKey : Ended(key)' <=> Ended(key)
  BY <1>1, <1>2, OutputFacts DEF Ended
<1>4. Placed'
  BY <1>1 DEF IInv, Placed
<1>5. Prompted'
  <2>1. \A u \in Uid : Started(u)' <=> Started(u)
    BY <1>1 DEF Started
  <2> QED
    BY <1>1, <1>2, <2>1 DEF IInv, Prompted
<1>6. Status(tq)' /\ Listed(tq)'
  BY <1>1, StatusStays, ListedStays, Numbers
<1>7. InHand'
  <2>1. InHand
    BY DEF IInv
  <2> QED
    BY <1>1, <1>3, <2>1 DEF InHand
<1>8. Accounted'
  BY <1>1, <1>2 DEF IInv, Accounted
<1>9. Born'
  BY <1>1 DEF IInv, Born, OutputsIn
<1>10. Advantages'
  BY <1>1 DEF IInv, Advantages, AdvantageOfFinal
<1>11. Divisible' /\ RaisesOnlyEmpty'
  BY <1>1, <1>2 DEF IInv, Divisible, RaisesOnlyEmpty
<1>12. (TrainLive' <=> TrainLive) /\ (ValLive' <=> ValLive)
  BY <1>1, <1>2 DEF TrainLive, ValLive
<1>13. OutputsIn(tq)' = OutputsIn(tq)
  BY <1>1 DEF OutputsIn
<1>14. \A p \in Part : RowsOf(tq, p)' = RowsOf(tq, p)
  BY <1>1, RowsOfStay
<1> QED
  BY <1>2, <1>3, <1>4, <1>5, <1>6, <1>7, <1>8, <1>9, <1>10, <1>11, <1>12, <1>13, <1>14

LEMMA PolledTypes ==
  ASSUME IInv, PolledOnly, IsTable(partitions'), IsTable(snapshot'), to_add' \subseteq Part
  PROVE  Types'
<1>1. /\ val_batches' = val_batches /\ total_training_steps' = total_training_steps
      /\ \A u \in Uid : Sessions(u)' = Sessions(u)
  BY FixedSetup DEF PolledOnly
<1> QED
  BY <1>1 DEF PolledOnly, IInv, Types

LEMMA StepPollList ==
  ASSUME IInv, PollList
  PROVE  IInv'
<1>1. PolledOnly /\ partitions' = partitions /\ snapshot' = tq
      /\ to_add' = {PartOf(key) : key \in DOMAIN tq}
  BY DEF PollList, PolledOnly, queueVars, trainerVars
<1>2. Types'
  <2>1. \A key \in Key : PartOf(key) \in Part
    BY KeyCases, UidFacts, RowFacts
  <2>2. to_add' \subseteq Part
    BY <1>1, <2>1, TableFacts DEF Table
  <2>3. IsTable(partitions') /\ IsTable(snapshot')
    BY <1>1, TableFacts DEF Table
  <2> QED
    BY <1>1, <2>2, <2>3, PolledTypes
<1>3. Status(snapshot)'
  BY <1>1 DEF IInv, Status, PolledOnly
<1>4. View'
  BY <1>1, PolledOnlyKeeps DEF IInv, View, PolledOnly
<1>5. Listed(snapshot)' /\ Listed(partitions)'
  <2>1. Listed(tq) /\ Listed(partitions)
    BY DEF IInv
  <2> QED
    BY <1>1, <2>1, PolledOnlyKeeps DEF Listed, PolledOnly
<1>6. SeesAll(snapshot)' /\ SeesAll(partitions)'
  <2>1. SeesAll(snapshot)'
    BY <1>1 DEF SeesAll, OutputsIn, PolledOnly
  <2> QED
    BY <1>1, <2>1, SeesAllStays, PolledOnlyKeeps
<1>7. \A p \in Part : /\ RowsOf(snapshot, p)' = RowsOf(tq, p)
                      /\ RowsOf(partitions, p)' = RowsOf(partitions, p)
                      /\ RowsOf(tq, p) \subseteq DOMAIN tq
  BY <1>1 DEF RowsOf, PolledOnly
<1>8. InQueue'
  BY <1>1, <1>7, PolledOnlyKeeps DEF IInv, InQueue, Part, PolledOnly
<1>9. Whole'
  BY <1>1, <1>7, PolledOnlyKeeps DEF IInv, Whole, Part, PolledOnly
<1> QED
  BY <1>1, <1>2, <1>3, <1>4, <1>5, <1>6, <1>8, <1>9, PolledOnlyKeeps DEF IInv

\* An answer that has been added is dropped.
LEMMA AnswerDropped ==
  ASSUME IInv, PolledOnly, snapshot' = Nothing
  PROVE  /\ IsTable(snapshot') /\ Status(snapshot)' /\ Listed(snapshot)' /\ SeesAll(snapshot)'
         /\ \A p \in Part : RowsOf(snapshot, p)' = {}
<1>1. DOMAIN snapshot' = {}
  BY DEF Nothing
<1> QED
  BY <1>1 DEF IsTable, Status, Listed, SeesAll, RowsOf

LEMMA AnswerKept ==
  ASSUME IInv, PolledOnly, snapshot' = snapshot
  PROVE  /\ IsTable(snapshot') /\ Status(snapshot)' /\ Listed(snapshot)' /\ SeesAll(snapshot)'
         /\ \A p \in Part : RowsOf(snapshot, p)' = RowsOf(snapshot, p)
<1>1. Status(snapshot)' /\ SeesAll(snapshot)'
  BY StatusStays, SeesAllStays, PolledOnlyKeeps DEF PolledOnly
<1>2. Listed(snapshot)'
  BY ListedStays, Numbers DEF PolledOnly
<1>3. \A p \in Part : RowsOf(snapshot, p)' = RowsOf(snapshot, p)
  BY RowsOfStay DEF PolledOnly
<1>4. IsTable(snapshot')
  BY TableFacts DEF Table
<1> QED
  BY <1>1, <1>2, <1>3, <1>4

\* The union of two sets that are closed is closed.
LEMMA ClosedUnion ==
  ASSUME NEW A, NEW B, Closed(A), Closed(B)
  PROVE  Closed(A \cup B)
BY DEF Closed

LEMMA StepPollAdd ==
  ASSUME IInv, NEW p \in Part, PollAdd(p)
  PROVE  IInv'
<1>1. /\ PolledOnly /\ to_add' = to_add \ {p}
      /\ snapshot' = Nothing \/ snapshot' = snapshot
      /\ partitions' = Updated(partitions, Items(snapshot, p))
  BY DEF PollAdd, PolledOnly, queueVars, trainerVars
<1> DEFINE items == Items(snapshot, p)
<1>2. DOMAIN items = {key \in DOMAIN snapshot : PartOf(key) = p} /\ \A key \in DOMAIN items : items[key] = snapshot[key]
  BY DEF Items
<1>3. IsTable(items) /\ IsTable(partitions)
  BY <1>2, TableFacts DEF IsTable, Table
<1>4. IsUpdate(partitions, items, partitions')
  BY <1>1, <1>3, UpdatedFacts
<1> HIDE DEF items
<1>5. /\ IsTable(partitions') /\ DOMAIN partitions' = DOMAIN partitions \cup DOMAIN items
      /\ \A key \in DOMAIN items : partitions'[key] = Stamp(items[key].status, Kept(partitions, items, key))
      /\ \A key \in DOMAIN partitions : key \notin DOMAIN items => partitions'[key] = partitions[key]
  BY <1>4 DEF IsUpdate
<1>6. /\ Listed(snapshot) /\ Listed(partitions) /\ Status(snapshot) /\ View
      /\ SeesAll(snapshot) /\ SeesAll(partitions) /\ InQueue /\ Whole
  BY DEF IInv
<1>7. ASSUME NEW u \in Uid \cap DOMAIN items
      PROVE  /\ u \in DOMAIN snapshot /\ partitions'[u].status = prompt[u]
             /\ prompt[u] \in {"finished", "failure"} /\ snapshot[u].status = prompt[u]
             /\ u \in DOMAIN partitions => partitions'[u].step = partitions[u].step
  <2>1. u \in DOMAIN snapshot /\ items[u] = snapshot[u]
    BY <1>2
  <2>2. prompt[u] \in {"finished", "failure"} /\ snapshot[u].status = prompt[u] /\ snapshot[u].step = NoStep
    BY <1>6, <2>1 DEF Status
  <2>3. u \in DOMAIN partitions => Kept(partitions, items, u) = partitions[u].step
    BY <2>1, <2>2 DEF Kept
  <2>4. /\ partitions'[u].status = items[u].status
        /\ partitions'[u].step = Kept(partitions, items, u)
    BY <1>5 DEF Stamp
  <2> QED
    BY <2>1, <2>2, <2>3, <2>4
<1>8. ASSUME NEW key \in Row \cap DOMAIN items
      PROVE  key \in DOMAIN snapshot /\ partitions'[key] = snapshot[key] /\ PartOf(key) = p
  <2>1. key \in DOMAIN snapshot /\ items[key] = snapshot[key] /\ PartOf(key) = p
    BY <1>2
  <2>2. snapshot[key] = RowTag(key)
    BY <1>6, <2>1 DEF Listed
  <2>3. items[key].step = StepOf(key) /\ items[key].status = "success"
    BY <2>1, <2>2 DEF RowTag
  <2>4. Kept(partitions, items, key) = StepOf(key)
    BY <2>3, RowFacts DEF Kept
  <2>5. partitions'[key] = Stamp("success", StepOf(key))
    BY <1>5, <2>3, <2>4
  <2> QED
    BY <2>1, <2>2, <2>5 DEF Stamp, RowTag
<1>9. Types'
  BY <1>1, <1>5, AnswerDropped, AnswerKept, PolledTypes DEF IInv, Types
<1>10. Status(snapshot)' /\ Listed(snapshot)' /\ SeesAll(snapshot)'
  BY <1>1, AnswerDropped, AnswerKept
<1>11. View'
  <2>1. ASSUME NEW u \in Uid \cap DOMAIN partitions'
        PROVE  partitions'[u].status = "running"
               \/ (prompt[u] \in {"finished", "failure"} /\ partitions'[u].status = prompt[u])
    <3>1. CASE u \in DOMAIN items
      BY <1>7, <3>1
    <3>2. CASE u \notin DOMAIN items
      <4>1. u \in DOMAIN partitions /\ partitions'[u] = partitions[u]
        BY <1>5, <3>2
      <4> QED
        BY <1>6, <4>1 DEF View
    <3> QED
      BY <3>1, <3>2
  <2>2. ASSUME pc \in {"spawn", "sample"}, NEW u \in Prompts
        PROVE  u \in DOMAIN partitions' /\ partitions'[u].step = global_steps
    <3>1. u \in Uid /\ u \in DOMAIN partitions /\ partitions[u].step = global_steps
      BY <1>6, <2>2, PromptsFacts DEF View
    <3>2. partitions'[u].step = partitions[u].step
      BY <1>5, <1>7, <3>1
    <3> QED
      BY <1>5, <3>1, <3>2
  <2> QED
    BY <1>1, <2>1, <2>2, PolledOnlyKeeps DEF View, PolledOnly
<1>12. Listed(partitions)'
  <2>1. ASSUME NEW key \in DOMAIN partitions' \cap Row
        PROVE  /\ partitions'[key] = RowTag(key) /\ StepOf(key) <= global_steps
               /\ key \in OutputKey => Ended(key)
    <3>1. CASE key \in DOMAIN items
      <4>1. key \in DOMAIN snapshot /\ partitions'[key] = snapshot[key]
        BY <1>8, <3>1
      <4> QED
        BY <1>6, <4>1 DEF Listed
    <3>2. CASE key \notin DOMAIN items
      <4>1. key \in DOMAIN partitions /\ partitions'[key] = partitions[key]
        BY <1>5, <3>2
      <4> QED
        BY <1>6, <4>1 DEF Listed
    <3> QED
      BY <3>1, <3>2
  <2> QED
    BY <1>1, <2>1, PolledOnlyKeeps DEF Listed, PolledOnly
<1>13. SeesAll(partitions)'
  <2>1. ASSUME NEW u \in Uid \cap DOMAIN partitions', partitions'[u].status = "finished"
        PROVE  {key \in OutputsIn(tq) : key.uid = u} \subseteq DOMAIN partitions'
    <3>1. CASE u \in DOMAIN items
      <4>1. u \in DOMAIN snapshot /\ snapshot[u].status = "finished" /\ PartOf(u) = p
        BY <1>2, <1>7, <2>1, <3>1
      <4>2. {key \in OutputsIn(tq) : key.uid = u} \subseteq DOMAIN snapshot
        BY <1>6, <4>1 DEF SeesAll
      <4>3. \A key \in OutputsIn(tq) : key.uid = u => PartOf(key) = p
        BY <4>1, OutputFacts, UidFacts DEF OutputsIn
      <4> QED
        BY <1>2, <1>5, <4>2, <4>3
    <3>2. CASE u \notin DOMAIN items
      <4>1. u \in DOMAIN partitions /\ partitions[u].status = "finished"
        BY <1>5, <2>1, <3>2
      <4>2. {key \in OutputsIn(tq) : key.uid = u} \subseteq DOMAIN partitions
        BY <1>6, <4>1 DEF SeesAll
      <4> QED
        BY <1>5, <4>2
    <3> QED
      BY <3>1, <3>2
  <2> QED
    BY <1>1, <2>1, PolledOnlyKeeps DEF SeesAll
<1>14. \A q \in Part :
          RowsOf(partitions, q)' = RowsOf(partitions, q) \cup (IF q = p THEN RowsOf(snapshot, q) ELSE {})
  BY <1>1, <1>2, <1>5 DEF RowsOf, PolledOnly
<1>15. \A q \in Part : RowsOf(snapshot, q)' = RowsOf(snapshot, q) \/ RowsOf(snapshot, q)' = {}
  BY <1>1, AnswerDropped, AnswerKept
<1>16. InQueue'
  <2>1. \A q \in Part : /\ RowsOf(partitions, q)' \subseteq RowsOf(partitions, q) \cup RowsOf(snapshot, q)
                        /\ RowsOf(snapshot, q)' \subseteq RowsOf(snapshot, q)
    BY <1>14, <1>15
  <2> QED
    BY <1>1, <1>6, <2>1, PolledOnlyKeeps DEF InQueue, PolledOnly, Part
<1>17. Whole'
  <2>1. Closed({})
    BY DEF Closed
  <2>2. ASSUME TrainLive PROVE Closed(RowsOf(partitions, "train")') /\ Closed(RowsOf(snapshot, "train")')
    <3>1. Closed(RowsOf(partitions, "train")) /\ Closed(RowsOf(snapshot, "train"))
      BY <1>6, <2>2 DEF Whole
    <3>2. Closed(RowsOf(partitions, "train") \cup RowsOf(snapshot, "train"))
      BY <3>1, ClosedUnion
    <3>3. Closed(RowsOf(snapshot, "train")')
      BY <1>15, <2>1, <3>1 DEF Part
    <3>4. \/ RowsOf(partitions, "train")' = RowsOf(partitions, "train") \cup RowsOf(snapshot, "train")
          \/ RowsOf(partitions, "train")' = RowsOf(partitions, "train")
      BY <1>14 DEF Part
    <3> QED
      BY <3>1, <3>2, <3>3, <3>4
  <2> QED
    BY <1>1, <1>6, <2>2, PolledOnlyKeeps DEF Whole, Part, PolledOnly
<1> QED
  BY <1>1, <1>9, <1>10, <1>11, <1>12, <1>13, <1>16, <1>17, PolledOnlyKeeps DEF IInv

-----------------------------------------------------------------------------
(* The agent loops. *)

WorkedOnly ==
    /\ setup' = setup /\ partitions' = partitions /\ snapshot' = snapshot /\ to_add' = to_add
    /\ part' = part /\ val_batch' = val_batch /\ global_steps' = global_steps /\ batch' = batch
    /\ advantage' = advantage /\ version' = version /\ awake' = awake /\ pc' = pc

LEMMA WorkedOnlyKeeps ==
  ASSUME IInv, WorkedOnly
  PROVE  /\ Placed' /\ Advantages' /\ Divisible' /\ RaisesOnlyEmpty'
         /\ (TrainLive' <=> TrainLive) /\ (ValLive' <=> ValLive) /\ Prompts' = Prompts
         /\ \A u \in Uid : Sessions(u)' = Sessions(u) /\ (Started(u)' <=> Started(u))
         /\ val_batches' = val_batches /\ total_training_steps' = total_training_steps
         /\ \A p \in Part : /\ RowsOf(snapshot, p)' = RowsOf(snapshot, p)
                            /\ RowsOf(partitions, p)' = RowsOf(partitions, p)
<1>1. /\ setup' = setup /\ partitions' = partitions /\ snapshot' = snapshot /\ to_add' = to_add
      /\ part' = part /\ val_batch' = val_batch /\ global_steps' = global_steps /\ batch' = batch
      /\ advantage' = advantage /\ version' = version /\ awake' = awake /\ pc' = pc
  BY DEF WorkedOnly
<1>2. /\ val_batches' = val_batches /\ n' = n /\ total_training_steps' = total_training_steps
      /\ Prompts' = Prompts /\ \A u \in Uid : Sessions(u)' = Sessions(u)
  BY <1>1, FixedSetup, FixedPrompts
<1>3. \A u \in Uid : Started(u)' <=> Started(u)
  BY <1>1 DEF Started
<1>4. Placed'
  BY <1>1 DEF IInv, Placed
<1>5. Advantages'
  BY <1>1 DEF IInv, Advantages, AdvantageOfFinal
<1>6. Divisible' /\ RaisesOnlyEmpty'
  BY <1>1, <1>2 DEF IInv, Divisible, RaisesOnlyEmpty
<1>7. (TrainLive' <=> TrainLive) /\ (ValLive' <=> ValLive)
  BY <1>1, <1>2 DEF TrainLive, ValLive
<1> QED
  BY <1>1, <1>2, <1>3, <1>4, <1>5, <1>6, <1>7, RowsOfStay

\* The types, where the queue stays a table and sessions and prompts keep theirs.
LEMMA WorkedTypes ==
  ASSUME IInv, WorkedOnly, IsTable(tq'), DOMAIN session' = Uid,
         \A u \in Uid : session'[u] \in [Sessions(u) -> {"idle", "running", "ended", "raised"}],
         prompt' \in [Uid -> {"idle", "running", "finished", "failure"}]
  PROVE  Types'
BY WorkedOnlyKeeps DEF WorkedOnly, IInv, Types

\* A session that runs ends or raises.
SessionStops(u, s, how) ==
    /\ session[u][s] = "running" /\ how \in {"ended", "raised"}
    /\ session' = [session EXCEPT ![u][s] = how] /\ prompt' = prompt

LEMMA StoppedSession ==
  ASSUME IInv, WorkedOnly, NEW u \in Uid, NEW s \in Sessions(u), NEW how, SessionStops(u, s, how)
  PROVE  /\ Prompted' /\ DOMAIN session' = Uid
         /\ \A v \in Uid : session'[v] \in [Sessions(v) -> {"idle", "running", "ended", "raised"}]
         /\ session'[u][s] = how
         /\ \A key \in OutputKey : Ended(key) => Ended(key)'
<1>1. session[u][s] = "running" /\ how \in {"ended", "raised"} /\ prompt' = prompt
  BY DEF SessionStops
<1>2. /\ \A v \in Uid : session[v] \in [Sessions(v) -> {"idle", "running", "ended", "raised"}]
      /\ DOMAIN session = Uid
  BY DEF IInv, Types
<1>3. /\ session'[u] = [session[u] EXCEPT ![s] = how] /\ DOMAIN session' = Uid
      /\ \A v \in Uid : v # u => session'[v] = session[v]
  BY <1>2 DEF SessionStops
<1>4. session'[u][s] = how /\ \A r \in Sessions(u) : r # s => session'[u][r] = session[u][r]
  BY <1>2, <1>3
<1>5. \A v \in Uid : session'[v] \in [Sessions(v) -> {"idle", "running", "ended", "raised"}]
  <2> TAKE v \in Uid
  <2>1. CASE v = u
    BY <1>1, <1>2, <1>3, <2>1
  <2>2. CASE v # u
    BY <1>2, <1>3, <2>2
  <2> QED
    BY <2>1, <2>2
<1>6. \A v \in Uid : \A r \in Sessions(v) :
         session'[v][r] = session[v][r] \/ (v = u /\ r = s)
  BY <1>3, <1>4
<1>7. \A key \in OutputKey : Ended(key) => Ended(key)'
  <2> TAKE key \in OutputKey
  <2> HAVE Ended(key)
  <2>1. key.uid \in Uid /\ key.session \in Sessions(key.uid) /\ session[key.uid][key.session] = "ended"
    BY OutputFacts DEF Ended
  <2>2. ~(key.uid = u /\ key.session = s)
    BY <1>1, <2>1
  <2>3. session'[key.uid][key.session] = "ended"
    BY <1>6, <2>1, <2>2
  <2> QED
    BY <2>1, <2>3, WorkedOnlyKeeps DEF Ended
<1>8. Prompted'
  <2>1. Prompted
    BY DEF IInv
  <2>2. prompt[u] # "idle" /\ prompt[u] # "finished"
    BY <1>1, <2>1 DEF Prompted
  <2> SUFFICES ASSUME NEW v \in Uid
               PROVE  /\ ~Started(v) => prompt[v] = "idle"
                      /\ prompt[v] = "idle" => \A r \in Sessions(v) : session'[v][r] = "idle"
                      /\ prompt[v] = "finished" => \A r \in Sessions(v) : session'[v][r] = "ended"
                      /\ prompt[v] = "running" => pc = "sample" /\ v \in Prompts
                      /\ v \in Prompts /\ pc \in {"sample", "sleep", "balance", "compute"} => prompt[v] # "idle"
    BY <1>1, WorkedOnlyKeeps DEF Prompted, WorkedOnly
  <2>3. CASE v = u
    BY <2>1, <2>2, <2>3 DEF Prompted
  <2>4. CASE v # u
    <3>1. session'[v] = session[v]
      BY <1>3, <2>4
    <3> QED
      BY <2>1, <3>1 DEF Prompted
  <2> QED
    BY <2>3, <2>4
<1> QED
  BY <1>3, <1>4, <1>5, <1>7, <1>8

LEMMA StepSessionRaises ==
  ASSUME IInv, NEW u \in Uid, NEW s \in Sessions(u), SessionRaises(u, s)
  PROVE  IInv'
<1>1. /\ WorkedOnly /\ SessionStops(u, s, "raised") /\ tq' = tq /\ prompt' = prompt /\ born' = born
  BY DEF SessionRaises, WorkedOnly, SessionStops, bufferVars, trainerVars
<1>2. Types'
  <2>1. IsTable(tq') /\ prompt' \in [Uid -> {"idle", "running", "finished", "failure"}]
    BY <1>1 DEF IInv, Types
  <2> QED
    BY <1>1, <2>1, StoppedSession, WorkedTypes
<1>3. \A key \in OutputKey : Ended(key) => Ended(key)'
  BY <1>1, StoppedSession
<1>4. Status(tq)' /\ Status(snapshot)'
  BY <1>1, StatusStays DEF WorkedOnly
<1>5. View'
  BY <1>1, WorkedOnlyKeeps DEF IInv, View, WorkedOnly
<1>6. Listed(tq)' /\ Listed(snapshot)' /\ Listed(partitions)'
  BY <1>1, <1>3 DEF IInv, Listed, WorkedOnly
<1>7. SeesAll(snapshot)' /\ SeesAll(partitions)'
  BY <1>1, SeesAllStays DEF OutputsIn, WorkedOnly
<1>8. InHand'
  <2>1. InHand
    BY DEF IInv
  <2> QED
    BY <1>1, <1>3, <2>1 DEF InHand, WorkedOnly
<1>9. Accounted'
  BY <1>1, WorkedOnlyKeeps DEF IInv, Accounted, WorkedOnly
<1>10. InQueue'
  BY <1>1, WorkedOnlyKeeps DEF IInv, InQueue, WorkedOnly, Part
<1>11. Whole'
  BY <1>1, WorkedOnlyKeeps, RowsOfStay DEF IInv, Whole, WorkedOnly, Part
<1>12. Born'
  BY <1>1 DEF IInv, Born, OutputsIn, WorkedOnly
<1> QED
  BY <1>1, <1>2, <1>4, <1>5, <1>6, <1>7, <1>8, <1>9, <1>10, <1>11, <1>12, StoppedSession,
     WorkedOnlyKeeps DEF IInv

\* _run_prompt puts the status of its prompt: how is "finished" or "failure".
PromptStops(u, how) ==
    /\ prompt[u] = "running" /\ how \in {"finished", "failure"}
    /\ how = "finished" => \A s \in Sessions(u) : session[u][s] = "ended"
    /\ PutStatus(u, how)

LEMMA StepPromptStops ==
  ASSUME IInv, NEW u \in Uid, NEW how, PromptStops(u, how)
  PROVE  IInv'
<1>1. /\ WorkedOnly /\ session' = session /\ born' = born
      /\ prompt' = [prompt EXCEPT ![u] = how]
      /\ tq' = Updated(tq, Tagged({u}, how, NoStep))
      /\ prompt[u] = "running" /\ how \in {"finished", "failure"}
      /\ how = "finished" => \A s \in Sessions(u) : session[u][s] = "ended"
  BY DEF PromptStops, PutStatus, WorkedOnly, bufferVars, trainerVars
<1>2. /\ prompt \in [Uid -> {"idle", "running", "finished", "failure"}]
      /\ Prompted /\ Status(tq) /\ Status(snapshot) /\ View
  BY DEF IInv, Types
<1>3. pc = "sample" /\ u \in Prompts /\ u \notin DOMAIN tq /\ u \notin DOMAIN snapshot
  BY <1>1, <1>2 DEF Prompted, Status
<1>4. prompt'[u] = how /\ \A v \in Uid : v # u => prompt'[v] = prompt[v]
  BY <1>1, <1>2
<1>5. /\ IsTable(tq') /\ DOMAIN tq' = DOMAIN tq \cup {u}
      /\ \A key \in DOMAIN tq : key # u => tq'[key] = tq[key]
      /\ tq'[u] = Stamp(how, NoStep)
  <2>1. IsTable(tq) /\ {u} \subseteq Key
    BY TableFacts, UidFacts DEF Table
  <2>2. NoStep \in Step \cup {NoStep} /\ how \in {"running", "success", "finished", "failure"}
    BY <1>1
  <2>3. IsPut(tq, {u}, how, NoStep, tq')
    BY <1>1, <2>1, <2>2, Put
  <2> QED
    BY <1>3, <2>3 DEF IsPut
<1>6. SameRows(tq, tq')
  <2>1. \A key \in Row : key # u
    BY RowFacts
  <2> QED
    BY <1>5, <2>1 DEF SameRows
<1>7. /\ Listed(tq)' /\ OutputsIn(tq)' = OutputsIn(tq)
      /\ \A p \in Part : RowsOf(tq, p)' = RowsOf(tq, p)
  BY <1>1, <1>6, SameRowsKeep DEF WorkedOnly
<1>8. Types'
  <2>1. prompt' \in [Uid -> {"idle", "running", "finished", "failure"}]
    BY <1>1, <1>2
  <2>2. /\ DOMAIN session' = Uid
        /\ \A v \in Uid : session'[v] \in [Sessions(v) -> {"idle", "running", "ended", "raised"}]
    BY <1>1 DEF IInv, Types
  <2> QED
    BY <1>1, <1>5, <2>1, <2>2, WorkedTypes
<1>9. \A key \in OutputKey : Ended(key)' <=> Ended(key)
  BY <1>1, OutputFacts, WorkedOnlyKeeps DEF Ended
<1>10. Prompted'
  <2> SUFFICES ASSUME NEW v \in Uid
               PROVE  /\ ~Started(v) => prompt'[v] = "idle"
                      /\ prompt'[v] = "idle" => \A r \in Sessions(v) : session[v][r] = "idle"
                      /\ prompt'[v] = "finished" => \A r \in Sessions(v) : session[v][r] = "ended"
                      /\ prompt'[v] = "running" => pc = "sample" /\ v \in Prompts
                      /\ v \in Prompts /\ pc \in {"sample", "sleep", "balance", "compute"} => prompt'[v] # "idle"
    BY <1>1, WorkedOnlyKeeps DEF Prompted, WorkedOnly
  <2>1. CASE v = u
    BY <1>1, <1>2, <1>4, <2>1 DEF Prompted
  <2>2. CASE v # u
    <3>1. prompt'[v] = prompt[v]
      BY <1>4, <2>2
    <3> QED
      BY <1>2, <3>1 DEF Prompted
  <2> QED
    BY <2>1, <2>2
<1>11. Status(tq)' /\ Status(snapshot)'
  <2>1. ASSUME NEW v \in Uid \cap DOMAIN tq'
        PROVE  prompt'[v] \in {"finished", "failure"} /\ tq'[v] = [status |-> prompt'[v], step |-> NoStep]
    <3>1. CASE v = u
      BY <1>1, <1>4, <1>5, <3>1 DEF Stamp
    <3>2. CASE v # u
      <4>1. v \in DOMAIN tq /\ tq'[v] = tq[v] /\ prompt'[v] = prompt[v]
        BY <1>4, <1>5, <3>2
      <4> QED
        BY <1>2, <4>1 DEF Status
    <3> QED
      BY <3>1, <3>2
  <2>2. ASSUME NEW v \in Uid \cap DOMAIN snapshot
        PROVE  prompt'[v] \in {"finished", "failure"} /\ snapshot[v] = [status |-> prompt'[v], step |-> NoStep]
    <3>1. prompt'[v] = prompt[v]
      BY <1>3, <1>4
    <3> QED
      BY <1>2, <3>1 DEF Status
  <2> QED
    BY <1>1, <2>1, <2>2 DEF Status, WorkedOnly
<1>12. View'
  <2>1. ASSUME NEW v \in Uid \cap DOMAIN partitions
        PROVE  partitions[v].status = "running"
               \/ (prompt'[v] \in {"finished", "failure"} /\ partitions[v].status = prompt'[v])
    <3>1. CASE v = u
      BY <1>1, <1>2, <3>1 DEF View
    <3>2. CASE v # u
      <4>1. prompt'[v] = prompt[v]
        BY <1>4, <3>2
      <4> QED
        BY <1>2, <4>1 DEF View
    <3> QED
      BY <3>1, <3>2
  <2> QED
    BY <1>1, <1>2, <2>1, WorkedOnlyKeeps DEF View, WorkedOnly
<1>13. Listed(snapshot)' /\ Listed(partitions)'
  BY <1>1, ListedStays, Numbers DEF WorkedOnly
<1>14. SeesAll(snapshot)' /\ SeesAll(partitions)'
  BY <1>1, <1>7, SeesAllStays DEF WorkedOnly
<1>15. InHand'
  <2>1. InHand
    BY DEF IInv
  <2> QED
    BY <1>1, <1>3, <1>9, <2>1 DEF InHand, WorkedOnly
<1>16. Accounted'
  <2>1. ASSUME NEW key \in DOMAIN tq' \cap Row
        PROVE  \/ key \in batch.train \cup batch.val
               \/ /\ key \in OutputKey
                  /\ prompt'[key.uid] = "failure" \/ (pc = "sample" /\ key.uid \in Prompts)
    <3>1. key \in DOMAIN tq
      BY <1>6, <2>1 DEF SameRows
    <3>2. \/ key \in batch.train \cup batch.val
          \/ /\ key \in OutputKey
             /\ prompt[key.uid] = "failure" \/ (pc = "sample" /\ key.uid \in Prompts)
      BY <3>1 DEF IInv, Accounted
    <3>3. key \in OutputKey /\ prompt[key.uid] = "failure" => prompt'[key.uid] = "failure"
      BY <1>1, <1>4, OutputFacts
    <3> QED
      BY <3>2, <3>3
  <2> QED
    BY <1>1, <2>1, WorkedOnlyKeeps DEF Accounted, WorkedOnly
<1>17. InQueue'
  <2>1. DOMAIN tq \subseteq DOMAIN tq'
    BY <1>5
  <2> QED
    BY <1>1, <2>1, WorkedOnlyKeeps DEF IInv, InQueue, WorkedOnly, Part
<1>18. Whole'
  BY <1>1, <1>7, WorkedOnlyKeeps DEF IInv, Whole, WorkedOnly, Part
<1>19. Born'
  BY <1>1, <1>7 DEF IInv, Born, WorkedOnly
<1> QED
  BY <1>1, <1>7, <1>8, <1>10, <1>11, <1>12, <1>13, <1>14, <1>15, <1>16, <1>17, <1>18, <1>19,
     WorkedOnlyKeeps DEF IInv

LEMMA OutputsOfFacts ==
  ASSUME setup \in Setups, NEW u \in Uid, NEW s \in Sessions(u), NEW count \in 0 .. MaxOutputs,
         NEW key \in OutputsOf(u, s, count)
  PROVE  /\ key \in OutputKey /\ key.uid = u /\ key.session = s /\ key.index \in Nat
         /\ \A k \in 0 .. key.index - 1 : Output(u, s, k) \in OutputsOf(u, s, count)
<1>1. PICK i \in 0 .. count - 1 : key = Output(u, s, i)
  BY DEF OutputsOf
<1>2. MaxOutputs \in Nat
  BY Sizes
<1>3. i \in 0 .. MaxOutputs - 1 /\ i \in Nat
  BY <1>2
<1>4. key \in OutputKey /\ key.uid = u /\ key.session = s /\ key.index = i
  BY <1>1, <1>3, OutputOf
<1>5. \A k \in 0 .. i - 1 : k \in 0 .. count - 1
  BY <1>2, <1>3
<1> QED
  BY <1>3, <1>4, <1>5 DEF OutputsOf

LEMMA StepSessionEnds ==
  ASSUME IInv, NEW u \in Uid, NEW s \in Sessions(u), SessionEnds(u, s)
  PROVE  IInv'
<1>1. PICK count \in 0 .. MaxOutputs :
         /\ tq' = Updated(tq, Tagged(OutputsOf(u, s, count), "success", u.step))
         /\ born' = [key \in OutputsOf(u, s, count) \cup DOMAIN born |->
                        IF key \in OutputsOf(u, s, count) THEN version ELSE born[key]]
  BY DEF SessionEnds
<1>2. WorkedOnly /\ SessionStops(u, s, "ended") /\ prompt' = prompt /\ session[u][s] = "running"
  BY DEF SessionEnds, WorkedOnly, SessionStops, bufferVars, trainerVars
<1>3. PICK keys : keys = OutputsOf(u, s, count)
  OBVIOUS
<1>4. setup \in Setups
  BY Numbers
<1>5. \A key \in keys :
         /\ key \in OutputKey /\ key.uid = u /\ key.session = s
         /\ key \in Row /\ key \in Key /\ StepOf(key) = u.step /\ PartOf(key) = u.part
  BY <1>3, <1>4, OutputsOfFacts, OutputFacts
<1>6. Closed(keys)
  BY <1>3, <1>4, <1>5, OutputsOfFacts DEF Closed
<1>7. /\ prompt[u] \in {"running", "failure"} /\ u.step <= global_steps
      /\ prompt[u] = "running" => pc = "sample" /\ u \in Prompts
  BY <1>2, Running
<1>8. /\ session'[u][s] = "ended" /\ Prompted'
      /\ \A key \in OutputKey : Ended(key) => Ended(key)'
  BY <1>2, StoppedSession
<1>9. \A key \in keys : Ended(key)' /\ ~Ended(key)
  BY <1>2, <1>5, <1>8, WorkedOnlyKeeps DEF Ended
<1>10. /\ IsTable(tq') /\ DOMAIN tq' = DOMAIN tq \cup keys
       /\ \A key \in DOMAIN tq \ keys : tq'[key] = tq[key]
       /\ \A key \in keys : tq'[key] = RowTag(key)
  <2>1. IsTable(tq) /\ keys \subseteq Key /\ u.step \in Step \cup {NoStep} /\ u.step # NoStep
    BY <1>5, TableFacts, UidFacts, Steps DEF Table
  <2>2. "success" \in {"running", "success", "finished", "failure"}
    OBVIOUS
  <2>3. IsPut(tq, keys, "success", u.step, tq')
    BY <1>1, <1>3, <2>1, <2>2, Put
  <2>4. \A key \in keys : tq'[key] = Stamp("success", u.step)
    BY <2>1, <2>3 DEF IsPut
  <2>5. \A key \in keys : tq'[key] = RowTag(key)
    BY <1>5, <2>4 DEF Stamp, RowTag
  <2> QED
    BY <2>3, <2>5 DEF IsPut
<1>11. /\ DOMAIN born' = keys \cup DOMAIN born
       /\ \A key \in keys : born'[key] = version
       /\ \A key \in DOMAIN born \ keys : born'[key] = born[key]
  BY <1>1, <1>3
<1>12. OutputsIn(tq)' = OutputsIn(tq) \cup keys
  BY <1>5, <1>10 DEF OutputsIn
<1>13. Types'
  <2>1. prompt' \in [Uid -> {"idle", "running", "finished", "failure"}]
    BY <1>2 DEF IInv, Types
  <2> QED
    BY <1>2, <1>10, <2>1, StoppedSession, WorkedTypes
<1>14. Status(tq)' /\ Status(snapshot)' /\ View'
  <2>1. \A v \in Uid : v \notin keys
    BY <1>5, Disjoint
  <2>2. Status(tq)'
    BY <1>2, <1>10, <2>1 DEF IInv, Status
  <2>3. View'
    BY <1>2, WorkedOnlyKeeps DEF IInv, View, WorkedOnly
  <2> QED
    BY <1>2, <2>2, <2>3, StatusStays DEF WorkedOnly
<1>15. Listed(tq)' /\ Listed(snapshot)' /\ Listed(partitions)'
  <2>1. Listed(tq) /\ Listed(snapshot) /\ Listed(partitions)
    BY DEF IInv
  <2>2. ASSUME NEW key \in DOMAIN tq' \cap Row
        PROVE  /\ tq'[key] = RowTag(key) /\ StepOf(key) <= global_steps
               /\ key \in OutputKey => Ended(key)'
    <3>1. CASE key \in keys
      BY <1>5, <1>7, <1>9, <1>10, <3>1
    <3>2. CASE key \notin keys
      <4>1. key \in DOMAIN tq /\ tq'[key] = tq[key]
        BY <1>10, <3>2
      <4> QED
        BY <1>8, <2>1, <4>1 DEF Listed
    <3> QED
      BY <3>1, <3>2
  <2>3. Listed(tq)'
    BY <1>2, <2>2 DEF Listed, WorkedOnly
  <2> QED
    BY <1>2, <1>8, <2>1, <2>3 DEF Listed, WorkedOnly
<1>16. SeesAll(snapshot)' /\ SeesAll(partitions)'
  <2>1. ASSUME NEW T \in {snapshot, partitions}, NEW v \in Uid \cap DOMAIN T, T[v].status = "finished"
        PROVE  {key \in OutputsIn(tq) \cup keys : key.uid = v} \subseteq DOMAIN T
    <3>1. prompt[v] = "finished"
      <4>1. Status(snapshot) /\ View
        BY DEF IInv
      <4>2. CASE T = snapshot
        BY <2>1, <4>1, <4>2 DEF Status
      <4>3. CASE T = partitions
        BY <2>1, <4>1, <4>3 DEF View
      <4> QED
        BY <4>2, <4>3
    <3>2. v # u
      BY <1>7, <3>1
    <3>3. SeesAll(T)
      BY DEF IInv
    <3>4. {key \in OutputsIn(tq) : key.uid = v} \subseteq DOMAIN T
      BY <2>1, <3>3 DEF SeesAll
    <3> QED
      BY <1>5, <3>2, <3>4
  <2> QED
    BY <1>2, <1>12, <2>1 DEF SeesAll, WorkedOnly
<1>17. InHand'
  <2>1. InHand
    BY DEF IInv
  <2>2. pc = "remove" => batch[part] \cap DOMAIN tq' = {}
    <3>1. batch[part] \subseteq batch.train \cup batch.val
      BY Batches, Numbers DEF Part
    <3>2. \A key \in (batch.train \cup batch.val) \cap OutputKey : key \notin keys
      BY <1>9, <2>1 DEF InHand
    <3> QED
      BY <1>5, <1>10, <2>1, <3>1, <3>2 DEF InHand
  <2> QED
    BY <1>2, <1>8, <2>1, <2>2 DEF InHand, WorkedOnly
<1>18. Accounted'
  <2>1. ASSUME NEW key \in DOMAIN tq' \cap Row
        PROVE  \/ key \in batch.train \cup batch.val
               \/ /\ key \in OutputKey
                  /\ prompt[key.uid] = "failure" \/ (pc = "sample" /\ key.uid \in Prompts)
    <3>1. CASE key \in keys
      BY <1>5, <1>7, <3>1
    <3>2. CASE key \notin keys
      BY <1>10, <3>2 DEF IInv, Accounted
    <3> QED
      BY <3>1, <3>2
  <2> QED
    BY <1>2, <2>1, WorkedOnlyKeeps DEF Accounted, WorkedOnly
<1>19. InQueue'
  <2>1. DOMAIN tq \subseteq DOMAIN tq'
    BY <1>10
  <2> QED
    BY <1>2, <2>1, WorkedOnlyKeeps DEF IInv, InQueue, WorkedOnly, Part
<1>20. Whole'
  <2>1. \/ RowsOf(tq, "train")' = RowsOf(tq, "train")
        \/ RowsOf(tq, "train")' = RowsOf(tq, "train") \cup keys
    <3>1. CASE u.part = "train" /\ u.step = global_steps
      <4>1. RowsOf(tq, "train")' = RowsOf(tq, "train") \cup keys
        BY <1>2, <1>5, <1>10, <3>1 DEF RowsOf, WorkedOnly
      <4> QED
        BY <4>1
    <3>2. CASE ~(u.part = "train" /\ u.step = global_steps)
      <4>1. RowsOf(tq, "train")' = RowsOf(tq, "train")
        BY <1>2, <1>5, <1>10, <3>2 DEF RowsOf, WorkedOnly
      <4> QED
        BY <4>1
    <3> QED
      BY <3>1, <3>2
  <2>2. Closed(RowsOf(tq, "train")) => Closed(RowsOf(tq, "train") \cup keys)
    BY <1>6, ClosedUnion
  <2>3. TrainLive => Closed(RowsOf(tq, "train")')
    BY <2>1, <2>2 DEF IInv, Whole
  <2> QED
    BY <1>2, <2>3, WorkedOnlyKeeps DEF IInv, Whole, WorkedOnly, Part
<1>21. Born'
  <2>1. ASSUME part = "train", pc \in {"sample", "sleep", "balance", "compute"},
               NEW key \in OutputsIn(tq) \cup keys, key.uid.part = "train",
               key.uid.step = global_steps
        PROVE  key \in DOMAIN born' /\ born'[key] = global_steps - 1
    <3>1. version = global_steps - 1
      BY <2>1 DEF IInv, Placed
    <3>2. CASE key \in keys
      BY <1>11, <3>1, <3>2
    <3>3. CASE key \notin keys
      <4>1. key \in DOMAIN born /\ born[key] = global_steps - 1
        BY <2>1, <3>3 DEF IInv, Born
      <4> QED
        BY <1>11, <3>3, <4>1
    <3> QED
      BY <3>2, <3>3
  <2> QED
    BY <1>2, <1>12, <2>1 DEF Born, WorkedOnly
<1> QED
  BY <1>2, <1>8, <1>13, <1>14, <1>15, <1>16, <1>17, <1>18, <1>19, <1>20, <1>21,
     WorkedOnlyKeeps DEF IInv

-----------------------------------------------------------------------------
(* Division with remainder. *)

LEMMA DivMod ==
  ASSUME NEW a \in Int, NEW d \in Nat \ {0}
  PROVE  /\ a \div d \in Int /\ a % d \in 0 .. d - 1 /\ a = d * (a \div d) + (a % d)
OBVIOUS

\* Only one multiple of d is within d below a number.
LEMMA OneMultiple ==
  ASSUME NEW d \in Nat \ {0}, NEW q \in Int, NEW r \in 0 .. d - 1, d * q + r = 0
  PROVE  r = 0
<1>1. CASE q >= 0
  <2>1. d * q >= 0
    BY <1>1
  <2> QED
    BY <2>1
<1>2. CASE q <= -1
  <2>1. -q - 1 \in Nat
    BY <1>2
  <2>2. d * (-q - 1) >= 0
    BY <2>1
  <2>3. d * (-q - 1) = -(d * q) - d
    OBVIOUS
  <2> QED
    BY <2>2, <2>3
<1> QED
  BY <1>1, <1>2

LEMMA MultipleMod ==
  ASSUME NEW d \in Nat \ {0}, NEW q \in Int, NEW a \in Int, a = d * q
  PROVE  a % d = 0
<1>1. a \div d \in Int /\ a % d \in 0 .. d - 1 /\ a = d * (a \div d) + (a % d)
  BY DivMod
<1> DEFINE p == a \div d
           r == a % d
<1>2. d * (p - q) = d * p - d * q
  BY <1>1
<1>3. p - q \in Int /\ r \in 0 .. d - 1 /\ d * (p - q) + r = 0
  <2>1. p \in Int /\ r \in 0 .. d - 1 /\ a = d * p + r
    BY <1>1
  <2> HIDE DEF p, r
  <2> QED
    BY <1>2, <2>1
<1> HIDE DEF p, r
<1>4. r = 0
  BY <1>3, OneMultiple
<1> QED
  BY <1>4 DEF r

\* What divides m divides the multiples of m.
LEMMA MultipleOfMultiple ==
  ASSUME NEW d \in Nat \ {0}, NEW m \in Nat, m % d = 0, NEW k \in Int, NEW a \in Int, a = m * k
  PROVE  a % d = 0
<1>1. m \div d \in Int /\ m = d * (m \div d) + (m % d)
  BY DivMod
<1> DEFINE p == m \div d
<1>2. p \in Int /\ m = d * p
  BY <1>1
<1> HIDE DEF p
<1>3. a = d * (p * k) /\ p * k \in Int
  BY <1>2
<1> QED
  BY <1>3, MultipleMod

\* A number and what is missing to the next multiple of m.
LEMMA FilledUp ==
  ASSUME NEW c \in Nat, NEW m \in Nat \ {0}, NEW d \in Nat \ {0}, m % d = 0
  PROVE  (-c) % m \in 0 .. m - 1 /\ (c + ((-c) % m)) % d = 0
<1> DEFINE b == -c
<1>0. b \in Int
  OBVIOUS
<1>1. b \div m \in Int /\ b % m \in 0 .. m - 1 /\ b = m * (b \div m) + (b % m)
  <2> HIDE DEF b
  <2> QED
    BY <1>0, DivMod
<1>2. PICK q : q = b \div m
  OBVIOUS
<1>3. PICK r : r = b % m
  OBVIOUS
<1>4. q \in Int /\ r \in 0 .. m - 1 /\ -c = m * q + r
  BY <1>1, <1>2, <1>3
<1>5. m * (-q) = -(m * q)
  BY <1>4
<1>6. c + r = m * (-q) /\ -q \in Int /\ c + r \in Int
  BY <1>4, <1>5
<1>7. (c + r) % d = 0
  BY <1>6, MultipleOfMultiple
<1> QED
  BY <1>3, <1>4, <1>7

LEMMA Ranks ==
  /\ dp_size \in Nat \ {0} /\ ppo_mini_batch_size \in Nat \ {0} /\ critic_warmup \in Nat
BY SyncTrainerAssumption

LEMMA Multiple ==
  ASSUME setup \in Setups, NEW step \in Nat
  PROVE  LET m == RequiredMultiple(step) IN
         /\ m \in Nat \ {0} /\ m % dp_size = 0 /\ m <= dp_size * (ppo_mini_batch_size * n)
         /\ critic_warmup <= step => m % (ppo_mini_batch_size * n) = 0
<1>1. PICK mini : mini = ppo_mini_batch_size * n
  OBVIOUS
<1>2. mini \in Nat \ {0}
  <2>1. n \in Nat \ {0}
    BY Sizes
  <2>2. ppo_mini_batch_size * n \in Nat /\ ppo_mini_batch_size * n > 0
    BY <2>1, Ranks
  <2> QED
    BY <1>1, <2>2
<1>3. PICK top : top = dp_size * mini
  OBVIOUS
<1>4. top \in Nat \ {0} /\ dp_size <= top
  <2>1. dp_size * mini \in Nat /\ dp_size * mini > 0
    BY <1>2, Ranks
  <2>2. dp_size * (mini - 1) >= 0 /\ dp_size * (mini - 1) = dp_size * mini - dp_size
    BY <1>2, Ranks
  <2> QED
    BY <1>3, <2>1, <2>2, Ranks
<1>5. top % dp_size = 0 /\ top % mini = 0
  <2>1. top = mini * dp_size
    BY <1>2, <1>3, Ranks
  <2> QED
    BY <1>2, <1>3, <1>4, <2>1, Ranks, MultipleMod
<1>6. CASE critic_warmup <= step
  <2> DEFINE Both(k) == k % dp_size = 0 /\ k % mini = 0
             T == {k \in Nat : k > 0 /\ Both(k)}
  <2>1. top \in T
    BY <1>4, <1>5
  <2>2. PICK least \in T : \A k \in T : least <= k
    BY <2>1, LeastElement
  <2>3. least \in 1 .. top /\ Both(least)
    BY <1>4, <2>1, <2>2
  <2>4. \A k \in 1 .. least - 1 : ~Both(k)
    <3> TAKE k \in 1 .. least - 1
    <3>1. k \in Nat /\ k > 0 /\ k < least
      BY <2>2
    <3>2. k \notin T
      BY <2>2, <3>1
    <3> QED
      BY <3>1, <3>2
  <2> HIDE DEF Both
  <2> DEFINE m == CHOOSE k \in 1 .. top : Both(k) /\ \A i \in 1 .. k - 1 : ~Both(i)
  <2>5. m \in 1 .. top /\ Both(m)
    BY <2>3, <2>4
  <2>6. RequiredMultiple(step) = m
    BY <1>1, <1>3, <1>6 DEF RequiredMultiple, Both
  <2> HIDE DEF m
  <2>7. m \in Nat \ {0} /\ m <= top /\ m % dp_size = 0 /\ m % mini = 0
    BY <1>4, <2>5 DEF Both
  <2> QED
    BY <1>1, <1>3, <2>6, <2>7
<1>7. CASE ~(critic_warmup <= step)
  <2>1. RequiredMultiple(step) = dp_size
    BY <1>7 DEF RequiredMultiple
  <2>2. dp_size = dp_size * 1
    BY Ranks
  <2>3. dp_size % dp_size = 0
    BY <2>2, Ranks, MultipleMod
  <2> QED
    BY <1>1, <1>3, <1>4, <1>7, <2>1, <2>3, Ranks
<1> QED
  BY <1>6, <1>7

-----------------------------------------------------------------------------
(* Balancing. *)

\* Records whose fields are from finite sets are finitely many.
LEMMA FiniteKeys ==
  IsFiniteSet(OutputKey) /\ IsFiniteSet(PadKey)
<1>1. /\ Largest("total_training_steps") \in Nat /\ Largest("train_batch_size") \in Nat
      /\ Largest("val_batches") \in Nat /\ Largest("val_batch_size") \in Nat
      /\ Largest("MaxOutputs") \in Nat /\ Largest("n") \in Nat /\ Largest("val_n") \in Nat
  BY Largests DEF Fields
<1>2. Step = 0 .. Largest("total_training_steps")
  BY DEF Step
<1>3. IsFiniteSet(Step)
  BY <1>1, <1>2, FS_Interval
<1>4. ASSUME NEW A, NEW B, NEW C, NEW D, IsFiniteSet(A), IsFiniteSet(B), IsFiniteSet(C), IsFiniteSet(D)
      PROVE  IsFiniteSet([part : A, step : B, batch : C, i : D])
  <2> DEFINE P == (A \X B) \X (C \X D)
             Q == [part : A, step : B, batch : C, i : D]
             f == [x \in P |-> [part |-> x[1][1], step |-> x[1][2], batch |-> x[2][1], i |-> x[2][2]]]
  <2>1. IsFiniteSet(A \X B) /\ IsFiniteSet(C \X D)
    BY <1>4, FS_Product
  <2>2. IsFiniteSet(P)
    BY <2>1, FS_Product
  <2>3. f \in [P -> Q]
    OBVIOUS
  <2>4. ASSUME NEW q \in Q PROVE \E x \in P : f[x] = q
    <3>1. <<<<q.part, q.step>>, <<q.batch, q.i>>>> \in P
      OBVIOUS
    <3>2. f[<<<<q.part, q.step>>, <<q.batch, q.i>>>>] = q
      BY <3>1
    <3> QED
      BY <3>1, <3>2
  <2>5. f \in Surjection(P, Q)
    BY <2>3, <2>4 DEF Surjection
  <2> HIDE DEF P, Q, f
  <2>6. IsFiniteSet(Q)
    BY <2>2, <2>5, FS_Surjection
  <2> QED
    BY <2>6 DEF Q
<1>5. ASSUME NEW A, NEW B, NEW C, IsFiniteSet(A), IsFiniteSet(B), IsFiniteSet(C)
      PROVE  IsFiniteSet([uid : A, session : B, index : C])
  <2> DEFINE P == A \X (B \X C)
             Q == [uid : A, session : B, index : C]
             f == [x \in P |-> [uid |-> x[1], session |-> x[2][1], index |-> x[2][2]]]
  <2>1. IsFiniteSet(B \X C)
    BY <1>5, FS_Product
  <2>2. IsFiniteSet(P)
    BY <1>5, <2>1, FS_Product
  <2>3. f \in [P -> Q]
    OBVIOUS
  <2>4. ASSUME NEW q \in Q PROVE \E x \in P : f[x] = q
    <3>1. <<q.uid, <<q.session, q.index>>>> \in P
      OBVIOUS
    <3>2. f[<<q.uid, <<q.session, q.index>>>>] = q
      BY <3>1
    <3> QED
      BY <3>1, <3>2
  <2>5. f \in Surjection(P, Q)
    BY <2>3, <2>4 DEF Surjection
  <2> HIDE DEF P, Q, f
  <2>6. IsFiniteSet(Q)
    BY <2>2, <2>5, FS_Surjection
  <2> QED
    BY <2>6 DEF Q
<1>6. ASSUME NEW A, NEW B, IsFiniteSet(A), IsFiniteSet(B)
      PROVE  IsFiniteSet([pad : A, session : B])
  <2> DEFINE P == A \X B
             Q == [pad : A, session : B]
             f == [x \in P |-> [pad |-> x[1], session |-> x[2]]]
  <2>1. IsFiniteSet(P)
    BY <1>6, FS_Product
  <2>2. f \in [P -> Q]
    OBVIOUS
  <2>3. ASSUME NEW q \in Q PROVE \E x \in P : f[x] = q
    <3>1. <<q.pad, q.session>> \in P
      OBVIOUS
    <3>2. f[<<q.pad, q.session>>] = q
      BY <3>1
    <3> QED
      BY <3>1, <3>2
  <2>4. f \in Surjection(P, Q)
    BY <2>2, <2>3 DEF Surjection
  <2> HIDE DEF P, Q, f
  <2>5. IsFiniteSet(Q)
    BY <2>1, <2>4, FS_Surjection
  <2> QED
    BY <2>5 DEF Q
<1>7. IsFiniteSet(Uid)
  <2>1. /\ IsFiniteSet({"train"}) /\ IsFiniteSet({"val"}) /\ IsFiniteSet({0})
        /\ IsFiniteSet(1 .. Largest("train_batch_size")) /\ IsFiniteSet(1 .. Largest("val_batches"))
        /\ IsFiniteSet(1 .. Largest("val_batch_size"))
    <3>1. \A l \in Nat : IsFiniteSet(1 .. l)
      BY FS_Interval
    <3>2. \A x : IsFiniteSet({x})
      BY FS_Singleton
    <3> QED
      BY <1>1, <3>1, <3>2
  <2>2. IsFiniteSet(Step \ {0})
    BY <1>3, FS_Subset
  <2>3. IsFiniteSet([part : {"train"}, step : Step \ {0}, batch : {0}, i : 1 .. Largest("train_batch_size")])
    BY <1>4, <2>1, <2>2
  <2>4. IsFiniteSet([part : {"val"}, step : Step, batch : 1 .. Largest("val_batches"),
                     i : 1 .. Largest("val_batch_size")])
    BY <1>3, <1>4, <2>1
  <2> QED
    BY <2>3, <2>4, FS_Union DEF Uid
<1>8. IsFiniteSet(OutputKey)
  <2>1. {Largest("n"), Largest("val_n")} \in SUBSET Nat /\ {Largest("n"), Largest("val_n")} # {}
    BY <1>1
  <2>2. IsFiniteSet({Largest("n"), Largest("val_n")})
    <3>1. IsFiniteSet({Largest("n")})
      BY FS_Singleton
    <3>2. IsFiniteSet({Largest("n")} \cup {Largest("val_n")})
      BY <3>1, FS_AddElement
    <3> QED
      BY <3>2
  <2>3. Max({Largest("n"), Largest("val_n")}) \in Nat
    BY <2>1, <2>2, MaxOfFinite
  <2>4. PICK m \in Nat : m = Max({Largest("n"), Largest("val_n")})
    BY <2>3
  <2>5. IsFiniteSet(0 .. m - 1) /\ IsFiniteSet(0 .. Largest("MaxOutputs") - 1)
    <3>1. \A l \in Nat : IsFiniteSet(0 .. l - 1)
      BY FS_Interval
    <3> QED
      BY <1>1, <3>1
  <2> QED
    BY <1>5, <1>7, <2>4, <2>5 DEF OutputKey
<1>9. IsFiniteSet(PadKey)
  <2>1. dp_size * ppo_mini_batch_size * Largest("n") \in Nat
    BY <1>1, Ranks
  <2>2. PICK m \in Nat : m = dp_size * ppo_mini_batch_size * Largest("n")
    BY <2>1
  <2>3. IsFiniteSet(0 .. m)
    BY <2>2, FS_Interval
  <2> QED
    BY <1>3, <1>6, <2>2, <2>3 DEF PadKey
<1> QED
  BY <1>8, <1>9

LEMMA FiniteBatch ==
  ASSUME IInv
  PROVE  IsFiniteSet(batch.train)
<1>1. IsFiniteSet(Row) /\ batch.train \subseteq Row
  BY FiniteKeys, FS_Union, Batches DEF Row
<1> QED
  BY <1>1, FS_Subset

\* The padding rows are as many as are missing.
LEMMA PadRowsFacts ==
  ASSUME IInv
  PROVE  /\ PadRows \subseteq PadKey /\ \A key \in PadRows : key.pad = global_steps
         /\ IsFiniteSet(PadRows) /\ Cardinality(batch.train) \in Nat
         /\ Cardinality(PadRows) = (-Cardinality(batch.train)) % RequiredMultiple(global_steps)
<1>1. Cardinality(batch.train) \in Nat
  BY FiniteBatch, FS_CardinalityType
<1>2. PICK c \in Nat : c = Cardinality(batch.train)
  BY <1>1
<1>3. PICK m : m = RequiredMultiple(global_steps)
  OBVIOUS
<1>4. m \in Nat \ {0} /\ m <= dp_size * (ppo_mini_batch_size * n)
  BY <1>3, Numbers, Multiple
<1>5. PICK missing : missing = (-c) % m
  OBVIOUS
<1>6. missing \in 0 .. m - 1
  <2>1. 1 \in Nat \ {0} /\ m % 1 = 0
    BY <1>4
  <2> QED
    BY <1>4, <1>5, <2>1, FilledUp
<1>7. PadRows = {[pad |-> global_steps, session |-> i] : i \in 0 .. missing - 1}
  BY <1>2, <1>3, <1>5 DEF PadRows
<1>8. m <= dp_size * ppo_mini_batch_size * Largest("n")
        /\ dp_size * ppo_mini_batch_size * Largest("n") \in Nat
  <2>1. n \in Nat /\ Largest("n") \in Nat /\ n <= Largest("n")
    BY Numbers, Sizes, Largests DEF Fields
  <2>2. PICK w \in Nat : w = dp_size * ppo_mini_batch_size
    BY Ranks
  <2>3. PICK l \in Nat : l = Largest("n")
    BY <2>1
  <2>4. dp_size * (ppo_mini_batch_size * n) = w * n
    BY <2>1, <2>2, Ranks
  <2>5. w * (l - n) >= 0 /\ w * (l - n) = w * l - w * n /\ w * l \in Nat /\ w * n \in Nat
    BY <2>1, <2>2, <2>3
  <2>6. w * n <= w * l
    BY <2>5
  <2>7. m <= w * n
    BY <1>4, <2>4
  <2>8. m <= w * l
    BY <1>4, <2>5, <2>6, <2>7
  <2> QED
    BY <2>2, <2>3, <2>5, <2>8
<1>9. PadRows \subseteq PadKey /\ \A key \in PadRows : key.pad = global_steps
  <2>1. global_steps \in Step
    BY Numbers
  <2>2. PICK top \in Nat : top = dp_size * ppo_mini_batch_size * Largest("n")
    BY <1>8
  <2>3. 0 .. missing - 1 \subseteq 0 .. top
    BY <1>4, <1>6, <1>8, <2>2
  <2>4. PadKey = [pad : Step, session : 0 .. top]
    BY <2>2 DEF PadKey
  <2> QED
    BY <1>7, <2>1, <2>3, <2>4
<1>10. IsFiniteSet(PadRows) /\ Cardinality(PadRows) = missing
  <2> DEFINE f == [i \in 0 .. missing - 1 |-> [pad |-> global_steps, session |-> i]]
  <2>1. f \in Bijection(0 .. missing - 1, PadRows)
    <3>1. f \in [0 .. missing - 1 -> PadRows]
      BY <1>7
    <3>2. \A i, j \in 0 .. missing - 1 : f[i] = f[j] => i = j
      OBVIOUS
    <3>3. \A key \in PadRows : \E i \in 0 .. missing - 1 : f[i] = key
      BY <1>7
    <3> QED
      BY <3>1, <3>2, <3>3 DEF Bijection, Injection, Surjection, IsInjective
  <2>2. ExistsBijection(0 .. missing - 1, PadRows)
    BY <2>1 DEF ExistsBijection
  <2>3. missing \in Nat
    BY <1>4, <1>6
  <2>4. IsFiniteSet(0 .. missing - 1) /\ Cardinality(0 .. missing - 1) = missing
    <3>1. /\ IsFiniteSet(0 .. missing - 1)
          /\ Cardinality(0 .. missing - 1) = IF 0 > missing - 1 THEN 0 ELSE missing - 1 - 0 + 1
      BY <2>3, FS_Interval
    <3> QED
      BY <2>3, <3>1
  <2> QED
    BY <2>2, <2>4, FS_Bijection
<1> QED
  BY <1>2, <1>3, <1>5, <1>9, <1>10

\* Padded, the batch divides.
LEMMA PaddedDivides ==
  ASSUME IInv, batch.train \subseteq OutputKey
  PROVE  /\ Cardinality(batch.train \cup PadRows) % dp_size = 0
         /\ critic_warmup <= global_steps =>
              Cardinality(batch.train \cup PadRows) % (ppo_mini_batch_size * n) = 0
<1>1. PICK c \in Nat : c = Cardinality(batch.train)
  BY PadRowsFacts
<1>2. PICK m : m = RequiredMultiple(global_steps)
  OBVIOUS
<1>3. /\ m \in Nat \ {0} /\ m % dp_size = 0
      /\ critic_warmup <= global_steps => m % (ppo_mini_batch_size * n) = 0
  BY <1>2, Numbers, Multiple
<1>4. ppo_mini_batch_size * n \in Nat \ {0}
  <2>1. n \in Nat \ {0}
    BY Numbers, Sizes
  <2>2. ppo_mini_batch_size * n \in Nat /\ ppo_mini_batch_size * n > 0
    BY <2>1, Ranks
  <2> QED
    BY <2>2
<1>5. Cardinality(PadRows) = (-c) % m
  BY <1>1, <1>2, PadRowsFacts
<1>6. Cardinality(batch.train \cup PadRows) = c + ((-c) % m)
  <2>1. batch.train \cap PadRows = {}
    BY PadRowsFacts, Disjoint
  <2>2. /\ IsFiniteSet(batch.train) /\ IsFiniteSet(PadRows)
        /\ Cardinality(batch.train \cap PadRows) = 0
    BY <2>1, FiniteBatch, PadRowsFacts, FS_EmptySet
  <2>3. Cardinality(batch.train \cup PadRows) =
           Cardinality(batch.train) + Cardinality(PadRows) - Cardinality(batch.train \cap PadRows)
    BY <2>2, FS_Union
  <2>4. PICK r : r = Cardinality(PadRows)
    OBVIOUS
  <2>5. r \in Nat
    BY <2>2, <2>4, FS_CardinalityType
  <2>6. Cardinality(batch.train \cup PadRows) = c + r
    BY <1>1, <2>2, <2>3, <2>4, <2>5
  <2> QED
    BY <1>5, <2>4, <2>6
<1>7. (c + ((-c) % m)) % dp_size = 0
  BY <1>3, Ranks, FilledUp
<1>8. critic_warmup <= global_steps => (c + ((-c) % m)) % (ppo_mini_batch_size * n) = 0
  BY <1>3, <1>4, FilledUp
<1> QED
  BY <1>6, <1>7, <1>8

LEMMA StepBalance ==
  ASSUME IInv, Balance
  PROVE  IInv'
<1>1. CASE ~Readable(batch.train)
  BY <1>1, StepRaise DEF Balance
<1>2. CASE Readable(batch.train)
  <2>1. /\ setup' = setup /\ session' = session /\ prompt' = prompt /\ born' = born
        /\ partitions' = partitions /\ snapshot' = snapshot /\ to_add' = to_add
        /\ part' = part /\ val_batch' = val_batch /\ global_steps' = global_steps
        /\ advantage' = advantage /\ version' = version /\ awake' = awake
        /\ pc = "balance" /\ pc' = "compute"
        /\ tq' = Updated(tq, Tagged(PadRows, "success", global_steps))
        /\ batch' = [batch EXCEPT !.train = @ \cup PadRows]
    BY <1>2 DEF Balance, Goto, bufferVars
  <2>2. /\ total_training_steps' = total_training_steps /\ val_batches' = val_batches /\ n' = n
        /\ Prompts' = Prompts /\ \A u \in Uid : Sessions(u)' = Sessions(u)
    BY <2>1, FixedSetup, FixedPrompts
  <2>3. PICK pads : pads = PadRows
    OBVIOUS
  <2>4. /\ part = "train" /\ batch.train \subseteq OutputKey /\ batch.train # {}
        /\ batch'.train = batch.train \cup pads /\ batch'.val = batch.val
        /\ batch' = [train |-> batch'.train, val |-> batch'.val]
    <3>1. part = "train" /\ batch.train \subseteq OutputKey
      BY <2>1 DEF IInv, Placed, InHand
    <3>2. batch = [train |-> batch.train, val |-> batch.val] /\ batch.train # {}
      BY <1>2, Batches DEF Readable
    <3> QED
      BY <2>1, <2>3, <3>1, <3>2
  <2>5. \A key \in pads : /\ key \in PadKey /\ key \in Row /\ key \in Key /\ key \notin OutputKey
                          /\ key \notin Uid /\ StepOf(key) = global_steps /\ PartOf(key) = "train"
    BY <2>3, PadRowsFacts, PadFacts
  <2>6. /\ IsTable(tq') /\ DOMAIN tq' = DOMAIN tq \cup pads
        /\ \A key \in DOMAIN tq \ pads : tq'[key] = tq[key]
        /\ \A key \in pads : tq'[key] = RowTag(key)
    <3>1. IsTable(tq) /\ pads \subseteq Key /\ global_steps \in Step \cup {NoStep} /\ global_steps # NoStep
      BY <2>5, TableFacts, Numbers DEF Table
    <3>2. "success" \in {"running", "success", "finished", "failure"}
      OBVIOUS
    <3>3. IsPut(tq, pads, "success", global_steps, tq')
      BY <2>1, <2>3, <3>1, <3>2, Put
    <3>4. \A key \in pads : tq'[key] = Stamp("success", global_steps)
      BY <3>1, <3>3 DEF IsPut
    <3>5. \A key \in pads : tq'[key] = RowTag(key)
      BY <2>5, <3>4 DEF Stamp, RowTag
    <3> QED
      BY <3>3, <3>5 DEF IsPut
  <2>7. OutputsIn(tq)' = OutputsIn(tq) /\ TrainLive /\ TrainLive' /\ ~ValLive'
    BY <2>1, <2>4, <2>5, <2>6 DEF OutputsIn, TrainLive, ValLive
  <2>8. \A key \in OutputKey : Ended(key)' <=> Ended(key)
    BY <2>1, <2>2, OutputFacts DEF Ended
  <2>9. Types'
    <3>1. batch' \in [train : SUBSET Row, val : SUBSET OutputKey]
      <4>1. batch'.train \subseteq Row /\ batch'.val \subseteq OutputKey
        BY <2>4, <2>5, Batches
      <4> QED
        BY <2>4, <4>1
    <3> QED
      BY <2>1, <2>2, <2>6, <3>1 DEF IInv, Types, Pc
  <2>10. Placed'
    BY <2>1, <2>4 DEF IInv, Placed
  <2>11. Prompted'
    <3>1. Prompted
      BY DEF IInv
    <3>2. \A u \in Uid : prompt[u] # "running" /\ (Started(u)' <=> Started(u))
      BY <2>1, <3>1 DEF Prompted, Started
    <3> QED
      BY <2>1, <2>2, <3>1, <3>2 DEF Prompted
  <2>12. Status(tq)' /\ Status(snapshot)' /\ View'
    <3>1. Status(tq)'
      BY <2>1, <2>5, <2>6 DEF IInv, Status
    <3> QED
      BY <2>1, <3>1, StatusStays, ViewStays
  <2>13. Listed(tq)' /\ Listed(snapshot)' /\ Listed(partitions)'
    <3>1. ASSUME NEW key \in DOMAIN tq' \cap Row
          PROVE  /\ tq'[key] = RowTag(key) /\ StepOf(key) <= global_steps
                 /\ key \in OutputKey => Ended(key)
      <4>1. CASE key \in pads
        BY <2>5, <2>6, <4>1, Numbers
      <4>2. CASE key \notin pads
        BY <2>6, <4>2 DEF IInv, Listed
      <4> QED
        BY <4>1, <4>2
    <3>2. Listed(tq)'
      BY <2>1, <2>8, <3>1 DEF Listed
    <3> QED
      BY <2>1, <3>2, ListedStays, Numbers
  <2>14. SeesAll(snapshot)' /\ SeesAll(partitions)'
    BY <2>1, <2>7, SeesAllStays
  <2>15. InHand'
    <3>1. InHand
      BY DEF IInv
    <3>2. \A key \in batch'.train : PartOf(key) = "train" /\ StepOf(key) = global_steps
      BY <2>4, <2>5, <3>1 DEF InHand
    <3>3. \A key \in (batch'.train \cup batch'.val) \cap OutputKey : Ended(key)
      BY <2>4, <2>5, <3>1 DEF InHand
    <3> QED
      BY <2>1, <2>4, <2>8, <3>1, <3>2, <3>3 DEF InHand
  <2>16. Accounted'
    <3>1. ASSUME NEW key \in DOMAIN tq' \cap Row
          PROVE  \/ key \in batch'.train \cup batch'.val
                 \/ key \in OutputKey /\ prompt[key.uid] = "failure"
      <4>1. CASE key \in pads
        BY <2>4, <4>1
      <4>2. CASE key \notin pads
        <5>1. key \in DOMAIN tq
          BY <2>6, <4>2
        <5> QED
          BY <2>1, <2>4, <5>1 DEF IInv, Accounted
      <4> QED
        BY <4>1, <4>2
    <3> QED
      BY <2>1, <3>1 DEF Accounted
  <2>17. InQueue'
    <3>1. DOMAIN tq \subseteq DOMAIN tq' /\ pads \subseteq DOMAIN tq'
      BY <2>6
    <3> QED
      BY <2>1, <2>4, <2>7, <3>1, RowsOfStay DEF IInv, InQueue, Part
  <2>18. Whole'
    <3>1. Closed(RowsOf(tq, "train")) /\ Closed(batch.train)
      BY <2>7 DEF IInv, Whole
    <3>2. RowsOf(tq, "train") \subseteq RowsOf(tq, "train")'
          /\ RowsOf(tq, "train")' \cap OutputKey \subseteq RowsOf(tq, "train")
      BY <2>1, <2>5, <2>6 DEF RowsOf
    <3>3. Closed(RowsOf(tq, "train")')
      BY <3>1, <3>2 DEF Closed
    <3>4. Closed(batch'.train)
      BY <2>4, <2>5, <3>1 DEF Closed
    <3> QED
      BY <2>1, <2>7, <3>3, <3>4, RowsOfStay DEF IInv, Whole, Part
  <2>19. Born'
    BY <2>1, <2>7 DEF IInv, Born
  <2>20. Advantages'
    <3>1. advantage = <<>>
      BY <2>1 DEF IInv, Advantages
    <3> QED
      BY <2>1, <3>1 DEF Advantages, AdvantageOfFinal
  <2>21. Divisible' /\ RaisesOnlyEmpty'
    BY <2>1, <2>2, <2>3, <2>4, PaddedDivides DEF Divisible, RaisesOnlyEmpty
  <2> QED
    BY <2>9, <2>10, <2>11, <2>12, <2>13, <2>14, <2>15, <2>16, <2>17, <2>18, <2>19, <2>20, <2>21 DEF IInv
<1> QED
  BY <1>1, <1>2

-----------------------------------------------------------------------------
(* The final output of a session. *)

\* The function that the fold of FinalRow is: over the rows with the numbers in a set.
FoldOf(rows, g) ==
    g = [s \in SUBSET DOMAIN rows |->
            IF s = {} THEN rows[1]
            ELSE IF IndexOf(g[s \ {Max(s)}]) < IndexOf(rows[Max(s)]) THEN rows[Max(s)]
                 ELSE g[s \ {Max(s)}]]

LEMMA FinalRowFold ==
  ASSUME NEW rows
  PROVE  FinalRow(rows) = (CHOOSE g : FoldOf(rows, g))[DOMAIN rows]
BY DEF FinalRow, FoldLeft, MapThenFoldSet, FoldOf

\* The first of the rows with the numbers in s, and of the first row, that has the
\* largest index among them.
IsFirst(rows, s, i) ==
    /\ i \in s \cup {1}
    /\ \A j \in s \cup {1} : \/ IndexOf(rows[j]) < IndexOf(rows[i])
                             \/ IndexOf(rows[j]) = IndexOf(rows[i]) /\ i <= j

LEMMA FirstExists ==
  ASSUME NEW rows, NEW count \in Nat \ {0}, \A j \in 1 .. count : IndexOf(rows[j]) \in Nat,
         NEW s \in SUBSET (1 .. count)
  PROVE  \E i \in 1 .. count : IsFirst(rows, s, i) /\ \A k : IsFirst(rows, s, k) => k = i
<1> DEFINE J == s \cup {1}
           V == {IndexOf(rows[j]) : j \in J}
<1>1. J \subseteq 1 .. count /\ J \subseteq Nat /\ J # {} /\ IsFiniteSet(J)
  <2>1. J \subseteq 1 .. count
    OBVIOUS
  <2>2. \A l \in Nat : IsFiniteSet(1 .. l)
    BY FS_Interval
  <2>3. IsFiniteSet(1 .. count)
    BY <2>2
  <2> HIDE DEF J
  <2>4. IsFiniteSet(J)
    BY <2>1, <2>3, FS_Subset
  <2> QED
    BY <2>1, <2>4 DEF J
<1>2. V \in SUBSET Nat /\ V # {}
  BY <1>1
<1>3. IsFiniteSet(V)
  <2> DEFINE f == [j \in J |-> IndexOf(rows[j])]
  <2>1. f \in Surjection(J, V)
    BY DEF Surjection
  <2> HIDE DEF f, V, J
  <2> QED
    BY <1>1, <2>1, FS_Surjection
<1>4. PICK m \in V : \A v \in V : v <= m
  <2> HIDE DEF V
  <2> QED
    BY <1>2, <1>3, MaxOfFinite
<1> DEFINE T == {j \in J : IndexOf(rows[j]) = m}
<1>5. T \in SUBSET Nat /\ T # {}
  BY <1>1
<1>6. PICK i \in T : \A j \in T : i <= j
  <2> HIDE DEF T
  <2> QED
    BY <1>5, LeastElement
<1>7. i \in 1 .. count /\ i \in J /\ IndexOf(rows[i]) = m /\ i \in Nat
  BY <1>1, <1>6
<1>8. ASSUME NEW j \in J
      PROVE  IndexOf(rows[j]) < IndexOf(rows[i]) \/ (IndexOf(rows[j]) = IndexOf(rows[i]) /\ i <= j)
  <2>1. IndexOf(rows[j]) \in Nat /\ IndexOf(rows[j]) <= m /\ m \in Nat
    BY <1>1, <1>2, <1>4
  <2>2. IndexOf(rows[j]) = m => i <= j
    BY <1>6
  <2> QED
    BY <1>7, <2>1, <2>2
<1>9. IsFirst(rows, s, i)
  BY <1>7, <1>8 DEF IsFirst
<1>10. ASSUME NEW k, IsFirst(rows, s, k) PROVE k = i
  <2>1. k \in J /\ k \in Nat /\ k \in 1 .. count
    BY <1>1, <1>10 DEF IsFirst
  <2>2. \/ IndexOf(rows[k]) < IndexOf(rows[i])
        \/ IndexOf(rows[k]) = IndexOf(rows[i]) /\ i <= k
    BY <1>8, <2>1
  <2>3. \/ IndexOf(rows[i]) < IndexOf(rows[k])
        \/ IndexOf(rows[i]) = IndexOf(rows[k]) /\ k <= i
    BY <1>7, <1>10 DEF IsFirst
  <2>4. IndexOf(rows[k]) \in Nat /\ IndexOf(rows[i]) \in Nat
    BY <1>7, <2>1
  <2> QED
    BY <1>7, <2>1, <2>2, <2>3, <2>4
<1> QED
  BY <1>7, <1>9, <1>10

\* One more row of a higher number: it is the first if its index is larger.
LEMMA FirstOfMore ==
  ASSUME NEW rows, NEW count \in Nat \ {0}, \A j \in 1 .. count : IndexOf(rows[j]) \in Nat,
         NEW s \in SUBSET (1 .. count), s # {}, NEW b, IsFirst(rows, s \ {Max(s)}, b)
  PROVE  IsFirst(rows, s, IF IndexOf(rows[b]) < IndexOf(rows[Max(s)]) THEN Max(s) ELSE b)
<1>1. PICK m : m = Max(s)
  OBVIOUS
<1>2. m \in s /\ \A x \in s : x <= m
  <2>1. IsFiniteSet(s) /\ s \in SUBSET Nat
    <3>1. \A l \in Nat : IsFiniteSet(1 .. l)
      BY FS_Interval
    <3>2. IsFiniteSet(1 .. count)
      BY <3>1
    <3>3. s \subseteq 1 .. count
      OBVIOUS
    <3>4. IsFiniteSet(s)
      BY <3>2, <3>3, FS_Subset
    <3>5. s \in SUBSET Nat
      BY <3>3
    <3> QED
      BY <3>4, <3>5
  <2> QED
    BY <1>1, <2>1, MaxOfFinite
<1>3. b \in (s \ {m}) \cup {1} /\ b \in 1 .. count /\ m \in 1 .. count
  BY <1>1, <1>2 DEF IsFirst
<1>4. PICK top \in Nat : top = IndexOf(rows[b])
  BY <1>3
<1>5. PICK new \in Nat : new = IndexOf(rows[m])
  BY <1>3
<1>6. \A j \in (s \ {m}) \cup {1} :
         IndexOf(rows[j]) < top \/ (IndexOf(rows[j]) = top /\ b <= j)
  BY <1>1, <1>4 DEF IsFirst
<1>7. \A j \in s \cup {1} : j \in 1 .. count /\ IndexOf(rows[j]) \in Nat /\ (j = m \/ j \in (s \ {m}) \cup {1})
  OBVIOUS
<1>8. CASE top < new
  <2>1. \A j \in s \cup {1} : IndexOf(rows[j]) < new \/ (IndexOf(rows[j]) = new /\ m <= j)
    <3> TAKE j \in s \cup {1}
    <3>1. CASE j = m
      BY <1>3, <1>5, <3>1
    <3>2. CASE j \in (s \ {m}) \cup {1}
      BY <1>6, <1>7, <1>8, <3>2
    <3> QED
      BY <1>7, <3>1, <3>2
  <2>2. IsFirst(rows, s, m)
    BY <1>2, <1>5, <2>1 DEF IsFirst
  <2> QED
    BY <1>1, <1>4, <1>5, <1>8, <2>2
<1>9. CASE ~(top < new)
  <2>1. \A j \in s \cup {1} : IndexOf(rows[j]) < top \/ (IndexOf(rows[j]) = top /\ b <= j)
    <3> TAKE j \in s \cup {1}
    <3>1. CASE j = m
      <4>1. b <= m
        BY <1>2, <1>3
      <4> QED
        BY <1>5, <1>9, <3>1, <4>1
    <3>2. CASE j \in (s \ {m}) \cup {1}
      BY <1>6, <3>2
    <3> QED
      BY <1>7, <3>1, <3>2
  <2>2. IsFirst(rows, s, b)
    BY <1>3, <1>4, <2>1 DEF IsFirst
  <2> QED
    BY <1>1, <1>4, <1>5, <1>9, <2>2
<1> QED
  BY <1>8, <1>9

LEMMA MaxOfPrefix ==
  ASSUME NEW k \in Nat \ {0}
  PROVE  Max(1 .. k) = k /\ (1 .. k) \ {Max(1 .. k)} = 1 .. k - 1
<1>1. \A l \in Nat : IsFiniteSet(1 .. l)
  BY FS_Interval
<1>2. 1 .. k \in SUBSET Nat /\ 1 .. k # {} /\ IsFiniteSet(1 .. k) /\ k \in 1 .. k
  BY <1>1
<1>3. Max(1 .. k) \in 1 .. k /\ k <= Max(1 .. k)
  BY <1>2, MaxOfFinite
<1>4. Max(1 .. k) = k
  BY <1>3
<1> QED
  BY <1>4

\* The fold keeps a row whose index is the largest.
LEMMA FinalRowIs ==
  ASSUME NEW rows, NEW count \in Nat \ {0}, DOMAIN rows = 1 .. count,
         \A j \in 1 .. count : IndexOf(rows[j]) \in Nat
  PROVE  \E i \in 1 .. count : /\ FinalRow(rows) = rows[i]
                               /\ \A j \in 1 .. count : IndexOf(rows[j]) <= IndexOf(rows[i])
<1> DEFINE First(s) == CHOOSE i : IsFirst(rows, s, i)
           h == [s \in SUBSET (1 .. count) |-> rows[First(s)]]
           Value(g, s) ==
               IF s = {} THEN rows[1]
               ELSE IF IndexOf(g[s \ {Max(s)}]) < IndexOf(rows[Max(s)]) THEN rows[Max(s)]
                    ELSE g[s \ {Max(s)}]
<1>1. ASSUME NEW s \in SUBSET (1 .. count)
      PROVE  /\ IsFirst(rows, s, First(s)) /\ First(s) \in 1 .. count /\ h[s] = rows[First(s)]
             /\ \A i : IsFirst(rows, s, i) => i = First(s)
  <2>1. PICK i \in 1 .. count : IsFirst(rows, s, i) /\ \A k : IsFirst(rows, s, k) => k = i
    BY FirstExists
  <2>2. IsFirst(rows, s, First(s))
    BY <2>1
  <2>3. First(s) = i
    BY <2>1, <2>2
  <2> QED
    BY <2>1, <2>2, <2>3
<1>2. ASSUME NEW s \in SUBSET (1 .. count)
      PROVE  h[s] = Value(h, s)
  <2>1. CASE s = {}
    <3>1. First(s) = 1
      BY <1>1, <2>1 DEF IsFirst
    <3>2. h[s] = rows[1]
      BY <1>1, <3>1
    <3> QED
      BY <2>1, <3>2
  <2>2. CASE s # {}
    <3>1. PICK r : r = s \ {Max(s)}
      OBVIOUS
    <3>2. r \in SUBSET (1 .. count)
      BY <3>1
    <3>3. PICK b \in 1 .. count : b = First(r) /\ IsFirst(rows, r, b) /\ h[r] = rows[b]
      BY <1>1, <3>2
    <3>4. IsFirst(rows, s, IF IndexOf(rows[b]) < IndexOf(rows[Max(s)]) THEN Max(s) ELSE b)
      BY <2>2, <3>1, <3>3, FirstOfMore
    <3>5. h[s] = rows[IF IndexOf(rows[b]) < IndexOf(rows[Max(s)]) THEN Max(s) ELSE b]
      <4> HIDE DEF h, First
      <4> QED
        BY <1>1, <3>4
    <3> QED
      BY <2>2, <3>1, <3>3, <3>5
  <2> QED
    BY <2>1, <2>2
<1>3. \E g : FoldOf(rows, g)
  <2>1. h = [s \in SUBSET DOMAIN rows |-> Value(h, s)]
    BY <1>2
  <2>2. FoldOf(rows, h)
    BY <2>1 DEF FoldOf
  <2> QED
    BY <2>2
<1>4. PICK g : g = (CHOOSE f : FoldOf(rows, f)) /\ FoldOf(rows, g)
  BY <1>3
<1>5. \A s \in SUBSET (1 .. count) : g[s] = Value(g, s)
  BY <1>4 DEF FoldOf
<1> DEFINE T == {k \in 0 .. count : g[1 .. k] # h[1 .. k]}
<1>6. ASSUME T # {} PROVE FALSE
  <2>1. PICK k \in T : \A j \in T : k <= j
    <3>1. T \in SUBSET Nat
      OBVIOUS
    <3> HIDE DEF T
    <3> QED
      BY <1>6, <3>1, LeastElement
  <2>2. 1 .. k \in SUBSET (1 .. count) /\ k \in Nat
    BY <2>1
  <2>3. CASE k = 0
    <3>1. 1 .. k = {}
      BY <2>3
    <3> QED
      BY <1>2, <1>5, <2>1, <2>2, <3>1
  <2>4. CASE k # 0
    <3>1. /\ Max(1 .. k) = k /\ (1 .. k) \ {Max(1 .. k)} = 1 .. k - 1 /\ 1 .. k # {}
      BY <2>2, <2>4, MaxOfPrefix
    <3>2. k - 1 \notin T /\ k - 1 \in 0 .. count
      <4> HIDE DEF T
      <4>1. k \in 0 .. count
        BY <2>1 DEF T
      <4> QED
        BY <2>1, <2>2, <2>4, <4>1
    <3>3. g[1 .. k - 1] = h[1 .. k - 1]
      BY <3>2
    <3>4. g[1 .. k] = Value(g, 1 .. k) /\ h[1 .. k] = Value(h, 1 .. k)
      BY <1>2, <1>5, <2>2
    <3>5. Value(g, 1 .. k) = Value(h, 1 .. k)
      <4> HIDE DEF h
      <4> QED
        BY <3>1, <3>3
    <3> QED
      BY <2>1, <3>4, <3>5
  <2> QED
    BY <2>3, <2>4
<1>7. FinalRow(rows) = rows[First(1 .. count)]
  <2>1. count \notin T
    <3> HIDE DEF T
    <3> QED
      BY <1>6
  <2>2. g[1 .. count] = h[1 .. count]
    BY <2>1
  <2> QED
    BY <1>1, <1>4, <2>2, FinalRowFold
<1>8. \A j \in 1 .. count : IndexOf(rows[j]) <= IndexOf(rows[First(1 .. count)])
  <2>1. PICK i \in 1 .. count : i = First(1 .. count) /\ IsFirst(rows, 1 .. count, i)
    BY <1>1
  <2>2. ASSUME NEW j \in 1 .. count PROVE IndexOf(rows[j]) <= IndexOf(rows[i])
    BY <2>1 DEF IsFirst
  <2> QED
    BY <2>1, <2>2
<1> QED
  BY <1>1, <1>7, <1>8

\* However balancing reordered the batch, the rows of a session in it are those that
\* SessionRows lists.
LEMMA Arranged ==
  ASSUME IInv, TrainLive, NEW key \in batch.train, NEW place \in Orders
  PROVE  \E count \in Nat \ {0} :
            /\ DOMAIN SessionRows(key, place) = 1 .. count
            /\ \A i \in 1 .. count :
                  /\ SessionOf(SessionRows(key, place)[i]) = SessionOf(key)
                  /\ IndexOf(SessionRows(key, place)[i]) \in Nat
            /\ \A other \in batch.train : SessionOf(other) = SessionOf(key) =>
                  \E i \in 1 .. count : SessionRows(key, place)[i] = other
<1>1. batch.train \subseteq Row
  BY Batches
<1>2. \A row : row \in Siblings(key) <=> row \in batch.train /\ SessionOf(row) = SessionOf(key)
  BY DEF Siblings
<1>3. PICK S : S = Siblings(key)
  OBVIOUS
<1>4. PICK count : count = Cardinality(S)
  OBVIOUS
<1>5. PICK rows : rows = SessionRows(key, place)
  OBVIOUS
<1>6. IsFiniteSet(S)
  <2>1. IsFiniteSet(Row)
    BY FiniteKeys, FS_Union DEF Row
  <2> QED
    BY <1>1, <1>2, <1>3, <2>1, FS_Subset
<1>7. key \in S
  BY <1>2, <1>3
<1>8. count \in Nat \ {0}
  BY <1>4, <1>6, <1>7, FS_CardinalityType, FS_EmptySet
<1>9. PICK f : f = [row \in S |-> place[row]]
  OBVIOUS
<1>10. f \in Bijection(S, 1 .. count)
  BY <1>3, <1>4, <1>9 DEF Orders
<1>11. /\ f \in [S -> 1 .. count]
       /\ \A a, b \in S : f[a] = f[b] => a = b
       /\ \A i \in 1 .. count : \E row \in S : f[row] = i
  BY <1>10 DEF Bijection, Injection, Surjection, IsInjective
<1>12. \A row \in S : place[row] \in 1 .. count
  BY <1>9, <1>11
<1>13. rows = [i \in 1 .. count |-> CHOOSE row \in S : place[row] = i]
  BY <1>3, <1>4, <1>5 DEF SessionRows
<1>14. ASSUME NEW i \in 1 .. count
       PROVE  rows[i] \in S /\ place[rows[i]] = i
  <2>1. \E row \in S : place[row] = i
    BY <1>9, <1>11
  <2>2. rows[i] = CHOOSE row \in S : place[row] = i
    BY <1>13
  <2> QED
    BY <2>1, <2>2
<1>15. ASSUME NEW i \in 1 .. count
       PROVE  SessionOf(rows[i]) = SessionOf(key) /\ IndexOf(rows[i]) \in Nat
  <2>1. rows[i] \in Row /\ SessionOf(rows[i]) = SessionOf(key)
    BY <1>1, <1>2, <1>3, <1>14
  <2>2. IndexOf(rows[i]) \in Nat
    <3>1. CASE rows[i] \in PadKey
      BY <3>1 DEF IndexOf
    <3>2. CASE rows[i] \in OutputKey
      BY <3>2, Disjoint, OutputFacts DEF IndexOf
    <3> QED
      BY <2>1, <3>1, <3>2 DEF Row
  <2> QED
    BY <2>1, <2>2
<1>16. ASSUME NEW other \in batch.train, SessionOf(other) = SessionOf(key)
       PROVE  \E i \in 1 .. count : rows[i] = other
  <2>1. other \in S
    BY <1>2, <1>3, <1>16
  <2>2. PICK i \in 1 .. count : place[other] = i
    BY <1>12, <2>1
  <2>3. rows[i] \in S /\ place[rows[i]] = i
    BY <1>14
  <2>4. rows[i] = other
    BY <1>9, <1>11, <2>1, <2>2, <2>3
  <2> QED
    BY <2>4
<1>17. DOMAIN rows = 1 .. count
  BY <1>13
<1> QED
  BY <1>5, <1>8, <1>15, <1>16, <1>17

\* What compute_advantage_for_multi_trajectories takes for a row is the final output of
\* its session.
LEMMA FinalOutput ==
  ASSUME IInv, TrainLive, NEW key \in batch.train, NEW place \in Orders
  PROVE  LET final == FinalRow(SessionRows(key, place))
         IN  /\ SessionOf(final) = SessionOf(key)
             /\ \A other \in batch.train :
                  SessionOf(other) = SessionOf(key) => IndexOf(other) <= IndexOf(final)
<1>1. \E count \in Nat \ {0} :
         /\ DOMAIN SessionRows(key, place) = 1 .. count
         /\ \A i \in 1 .. count :
               /\ SessionOf(SessionRows(key, place)[i]) = SessionOf(key)
               /\ IndexOf(SessionRows(key, place)[i]) \in Nat
         /\ \A other \in batch.train : SessionOf(other) = SessionOf(key) =>
               \E i \in 1 .. count : SessionRows(key, place)[i] = other
  BY Arranged
<1>2. PICK rows : rows = SessionRows(key, place)
  OBVIOUS
<1>3. PICK count \in Nat \ {0} :
         /\ DOMAIN rows = 1 .. count
         /\ \A i \in 1 .. count : SessionOf(rows[i]) = SessionOf(key) /\ IndexOf(rows[i]) \in Nat
         /\ \A other \in batch.train : SessionOf(other) = SessionOf(key) =>
               \E i \in 1 .. count : rows[i] = other
  BY <1>1, <1>2
<1>4. PICK i \in 1 .. count : /\ FinalRow(rows) = rows[i]
                              /\ \A j \in 1 .. count : IndexOf(rows[j]) <= IndexOf(rows[i])
  BY <1>3, FinalRowIs
<1> QED
  BY <1>2, <1>3, <1>4

LEMMA StepCompute ==
  ASSUME IInv, Compute
  PROVE  IInv'
<1>1. CASE ~Readable(batch.train)
  BY <1>1, StepRaise DEF Compute
<1>2. CASE Readable(batch.train)
  <2>1. PICK place \in Orders :
           advantage' = [key \in batch.train |-> FinalRow(SessionRows(key, place))]
    BY <1>2 DEF Compute
  <2>2. MovedOn /\ pc = "compute" /\ pc' = "update_weights" /\ version' = version /\ awake' = awake
        /\ batch' = batch
    BY <1>2 DEF Compute, MovedOn, Goto, queueVars, bufferVars
  <2>3. TrainLive /\ batch.train # {}
    BY <1>2, <2>2, MovedOnLive DEF Readable
  <2>4. Types'
    BY <2>2, TypesMovedOn DEF IInv, Types
  <2>5. Placed'
    BY <2>2, <2>3 DEF MovedOn, IInv, Placed
  <2>6. Advantages'
    <3>1. ASSUME NEW key \in batch.train
          PROVE  /\ SessionOf(advantage'[key]) = SessionOf(key)
                 /\ \A other \in batch.train :
                      SessionOf(other) = SessionOf(key) => IndexOf(other) <= IndexOf(advantage'[key])
      <4>1. advantage'[key] = FinalRow(SessionRows(key, place))
        BY <2>1
      <4> QED
        BY <2>3, <4>1, FinalOutput
    <3>2. DOMAIN advantage' = batch.train
      BY <2>1
    <3>3. AdvantageOfFinal'
      BY <2>2, <3>1, <3>2 DEF AdvantageOfFinal, SessionOf, IndexOf
    <3> QED
      BY <2>2, <2>3, <3>3 DEF Advantages
  <2>7. Divisible' /\ RaisesOnlyEmpty'
    BY <2>2 DEF Divisible, RaisesOnlyEmpty
  <2> QED
    BY <2>2, <2>4, <2>5, <2>6, <2>7, MovedOnKeeps DEF IInv
<1> QED
  BY <1>1, <1>2

-----------------------------------------------------------------------------
(* The invariant holds, and what it says. *)

LEMMA InitIInv ==
  ASSUME Init
  PROVE  IInv
<1>1. /\ setup \in Setups /\ tq = Nothing /\ partitions = Nothing /\ snapshot = Nothing
      /\ to_add = {} /\ born = Nothing /\ pc = "start" /\ part = "train" /\ val_batch = 0
      /\ global_steps = 0 /\ batch = [train |-> {}, val |-> {}] /\ advantage = <<>>
      /\ version = 0 /\ awake = TRUE
      /\ session = [u \in Uid |-> [s \in Sessions(u) |-> "idle"]]
      /\ prompt = [u \in Uid |-> "idle"]
  BY DEF Init
<1>2. IsTable(Nothing) /\ DOMAIN Nothing = {}
  BY DEF Nothing, IsTable
<1>3. batch.train = {} /\ batch.val = {} /\ batch[part] = {}
  BY <1>1
<1>4. Types
  <2>1. total_training_steps \in Nat /\ val_batches \in Nat
    BY <1>1, Sizes
  <2>2. batch \in [train : SUBSET Row, val : SUBSET OutputKey]
    BY <1>1
  <2> QED
    BY <1>1, <1>2, <2>1, <2>2 DEF Types, Pc, Part
<1>5. Placed
  BY <1>1, <1>3 DEF Placed
<1>6. Prompted
  <2>1. \A u \in Uid : prompt[u] = "idle" /\ \A s \in Sessions(u) : session[u][s] = "idle"
    BY <1>1
  <2> QED
    BY <1>1, <2>1 DEF Prompted
<1>7. Status(tq) /\ Status(snapshot) /\ View
  BY <1>1, <1>2 DEF Status, View
<1>8. Listed(tq) /\ Listed(snapshot) /\ Listed(partitions) /\ SeesAll(snapshot) /\ SeesAll(partitions)
  BY <1>1, <1>2 DEF Listed, SeesAll
<1>9. InHand /\ Accounted /\ InQueue
  BY <1>1, <1>2, <1>3 DEF InHand, Accounted, InQueue, RowsOf, ValLive
<1>10. Whole /\ Born
  BY <1>1, <1>2, <1>3 DEF Whole, Closed, RowsOf, Born
<1>11. Advantages
  <2>1. DOMAIN advantage = {}
    BY <1>1
  <2> QED
    BY <1>1, <2>1 DEF Advantages, AdvantageOfFinal
<1>12. Divisible /\ RaisesOnlyEmpty
  BY <1>1 DEF Divisible, RaisesOnlyEmpty
<1> QED
  BY <1>4, <1>5, <1>6, <1>7, <1>8, <1>9, <1>10, <1>11, <1>12 DEF IInv

LEMMA Stuttering ==
  ASSUME IInv, UNCHANGED vars
  PROVE  IInv'
<1>1. /\ setup' = setup /\ tq' = tq /\ session' = session /\ prompt' = prompt /\ born' = born
      /\ partitions' = partitions /\ snapshot' = snapshot /\ to_add' = to_add
      /\ pc' = pc /\ part' = part /\ val_batch' = val_batch /\ global_steps' = global_steps
      /\ batch' = batch /\ advantage' = advantage /\ version' = version /\ awake' = awake
  BY DEF vars, queueVars, bufferVars, trainerVars
<1>2. /\ n' = n /\ total_training_steps' = total_training_steps /\ val_batches' = val_batches
      /\ Prompts' = Prompts /\ \A u \in Uid : Sessions(u)' = Sessions(u)
  BY <1>1, FixedSetup, FixedPrompts
<1>3. Types'
  BY <1>1, <1>2 DEF IInv, Types
<1>4. Placed' /\ Prompted' /\ Status(tq)' /\ Status(snapshot)' /\ View'
  <2>1. Placed'
    BY <1>1 DEF IInv, Placed
  <2>2. Prompted'
    BY <1>1, <1>2 DEF IInv, Prompted, Started
  <2>3. Status(tq)' /\ Status(snapshot)'
    BY <1>1, StatusStays
  <2>4. View'
    BY <1>1, <1>2 DEF IInv, View
  <2> QED
    BY <2>1, <2>2, <2>3, <2>4
<1>5. Listed(tq)' /\ Listed(snapshot)' /\ Listed(partitions)'
  BY <1>1, ListedStays, Numbers
<1>6. SeesAll(snapshot)' /\ SeesAll(partitions)'
  BY <1>1, SeesAllStays DEF OutputsIn
<1>7. InHand' /\ Accounted'
  <2>1. \A key \in OutputKey : Ended(key)' <=> Ended(key)
    BY <1>1, <1>2, OutputFacts DEF Ended
  <2>2. InHand'
    BY <1>1, <2>1 DEF IInv, InHand
  <2> QED
    BY <1>1, <1>2, <2>2 DEF IInv, Accounted
<1>8. InQueue' /\ Whole'
  BY <1>1, <1>2, RowsOfStay DEF IInv, InQueue, Whole, TrainLive, ValLive, Part
<1>9. Born' /\ Advantages'
  BY <1>1 DEF IInv, Born, OutputsIn, Advantages, AdvantageOfFinal
<1>10. Divisible' /\ RaisesOnlyEmpty'
  BY <1>1, <1>2 DEF IInv, Divisible, RaisesOnlyEmpty
<1> QED
  BY <1>3, <1>4, <1>5, <1>6, <1>7, <1>8, <1>9, <1>10 DEF IInv

LEMMA StepWorker ==
  ASSUME IInv, NEW u \in Uid, Worker(u)
  PROVE  IInv'
<1>1. ASSUME NEW s \in Sessions(u), SessionEnds(u, s) PROVE IInv'
  BY <1>1, StepSessionEnds
<1>2. ASSUME NEW s \in Sessions(u), SessionRaises(u, s) PROVE IInv'
  BY <1>2, StepSessionRaises
<1>3. CASE PromptFinishes(u)
  <2>1. PromptStops(u, "finished")
    BY <1>3 DEF PromptFinishes, PromptStops
  <2> QED
    BY <2>1, StepPromptStops
<1>4. CASE PromptFails(u)
  <2>1. PromptStops(u, "failure")
    BY <1>4 DEF PromptFails, PromptStops
  <2> QED
    BY <2>1, StepPromptStops
<1> QED
  BY <1>1, <1>2, <1>3, <1>4 DEF Worker

LEMMA StepNext ==
  ASSUME IInv, [Next]_vars
  PROVE  IInv'
<1>1. CASE Start
  BY <1>1, StepStart
<1>2. CASE Dispatch
  BY <1>2, StepDispatch
<1>3. CASE Spawn
  BY <1>3, StepSpawn
<1>4. CASE Sample
  BY <1>4, StepSample
<1>5. CASE SleepReplicas
  BY <1>5, StepSleepReplicas
<1>6. CASE Balance
  BY <1>6, StepBalance
<1>7. CASE Compute
  BY <1>7, StepCompute
<1>8. CASE UpdateWeights
  BY <1>8, StepUpdateWeights
<1>9. CASE Collect \/ Metrics
  BY <1>9, StepReads
<1>10. CASE Clear
  BY <1>10, StepClear
<1>11. CASE RemoveBatch
  BY <1>11, StepRemoveBatch
<1>12. CASE PollList
  BY <1>12, StepPollList
<1>13. ASSUME NEW p \in {"train", "val"}, PollAdd(p) PROVE IInv'
  BY <1>13, StepPollAdd DEF Part
<1>14. ASSUME NEW u \in Uid, Worker(u) PROVE IInv'
  BY <1>14, StepWorker
<1>15. CASE UNCHANGED vars
  BY <1>15, Stuttering
<1> QED
  BY <1>1, <1>2, <1>3, <1>4, <1>5, <1>6, <1>7, <1>8, <1>9, <1>10, <1>11, <1>12, <1>13, <1>14, <1>15
     DEF Next, Trainer, Poll

LEMMA InvTypeOK ==
  ASSUME IInv
  PROVE  TypeOK
<1>1. global_steps \in Step /\ version \in Step
  <2>1. /\ total_training_steps \in Nat /\ total_training_steps <= Largest("total_training_steps")
        /\ Largest("total_training_steps") \in Nat
    BY Numbers, Sizes, Largests DEF Fields
  <2>2. global_steps \in 0 .. total_training_steps /\ version \in 0 .. total_training_steps
    BY DEF IInv, Types
  <2> QED
    BY <2>1, <2>2 DEF Step
<1>2. \A p \in {"train", "val"} : batch[p] \subseteq OutputKey \cup PadKey
  BY Batches DEF Row
<1> QED
  BY <1>1, <1>2 DEF IInv, Types, TypeOK, Part

LEMMA InvCleanSteps ==
  ASSUME IInv
  PROVE  CleanSteps
<1>1. QuietReplicas
  <2>1. ~awake => pc # "sample"
    BY DEF IInv, Placed
  <2> QED
    BY <2>1, Running DEF QuietReplicas
<1>2. StepLeavesNothing
  <2> SUFFICES ASSUME pc = "dispatch", part = "train", NEW key \in DOMAIN tq \ Uid
               PROVE  key \in OutputKey /\ prompt[key.uid] = "failure"
    BY DEF StepLeavesNothing
  <2>1. key \in DOMAIN tq \cap Row
    BY TableFacts, KeyCases DEF Table
  <2>2. batch.train = {} /\ batch.val = {}
    <3>1. batch[part] = {}
      BY DEF IInv, Placed
    <3> QED
      BY <3>1, Batches
  <2> QED
    BY <2>1, <2>2 DEF IInv, Accounted
<1> QED
  BY <1>1, <1>2 DEF CleanSteps

LEMMA InvBatchOfStep ==
  ASSUME IInv
  PROVE  BatchOfStep
<1>1. SampleComplete
  <2> SUFFICES ASSUME pc \in {"sleep", "balance", "compute"}, NEW u \in StepPrompts
               PROVE  /\ prompt[u] \in {"finished", "failure"}
                      /\ prompt[u] = "finished" =>
                           {key \in DOMAIN tq \cap OutputKey : key.uid = u} \subseteq batch.train
    BY DEF SampleComplete
  <2>1. part = "train"
    BY DEF IInv, Placed
  <2>2. u \in Prompts /\ u \in Uid
    BY <2>1 DEF StepPrompts, Prompts
  <2>3. prompt[u] \in {"finished", "failure"}
    <3>1. prompt[u] # "idle" /\ prompt[u] # "running"
      BY <2>2 DEF IInv, Prompted
    <3> QED
      BY <2>2, <3>1 DEF IInv, Types
  <2>4. ASSUME prompt[u] = "finished", NEW key \in DOMAIN tq \cap OutputKey, key.uid = u
        PROVE  key \in batch.train
    <3>1. key \in DOMAIN tq \cap Row
      BY DEF Row
    <3>2. key \in batch.train \cup batch.val
      BY <2>4, <3>1 DEF IInv, Accounted
    <3> QED
      BY <2>1, <3>2, Batches
  <2> QED
    BY <2>3, <2>4
<1>2. TrainRowsInQueue
  BY DEF IInv, InQueue, TrainLive, TrainRowsInQueue
<1>3. OnPolicy
  <2> SUFFICES ASSUME pc = "compute", NEW key \in TrainRows
               PROVE  key.uid.step = global_steps /\ born[key] = global_steps - 1
    BY DEF OnPolicy
  <2>1. part = "train" /\ key \in batch.train /\ key \in OutputKey
    BY DEF IInv, Placed, TrainRows
  <2>2. key \in OutputsIn(tq)
    BY <1>2, <2>1 DEF TrainRowsInQueue, OutputsIn
  <2>3. key.uid.part = "train" /\ key.uid.step = global_steps
    BY <2>1, Batches, OutputFacts
  <2> QED
    BY <2>1, <2>2, <2>3 DEF IInv, Born
<1>4. OneValBatch
  BY DEF IInv, Placed, InQueue, ValLive, OneValBatch, ValRowsInQueue
<1> QED
  BY <1>1, <1>2, <1>3, <1>4 DEF IInv, BatchOfStep

LEMMA Invariant == Spec => []IInv
<1> QED
  BY InitIInv, StepNext, PTL DEF Spec

-----------------------------------------------------------------------------
(* The theorems. *)

\* Every table of keys and tags, of the TransferQueue, of what kv_list returned and of the
\* ReplayBuffer, is well-formed; the trainer's step, partition and validation batch stay
\* in their ranges, and a KVBatchMeta names only outputs and padding rows.
THEOREM Typed == Spec => []TypeOK
<1>1. IInv => TypeOK
  BY InvTypeOK
<1> QED
  BY <1>1, Invariant, PTL

\* fit begins a step with nothing in the TransferQueue but statuses and the outputs of
\* prompts that failed, and while the replicas sleep (checkpoint_manager.sleep_replicas)
\* no agent loop runs but the siblings of a session that raised.
THEOREM CleanBetweenSteps == Spec => []CleanSteps
<1>1. IInv => CleanSteps
  BY InvCleanSteps
<1> QED
  BY <1>1, Invariant, PTL

\* However far ReplayBuffer's polled view lags behind the TransferQueue, what sample
\* returns has every output of every prompt of the step that finished, names only rows
\* that are in the queue until kv_clear, was generated with the weights of the step
\* before and, padded by _balance_batch, divides into ranks and mini-batches; the step
\* raises only if no agent loop returned anything.
THEOREM BatchIsOfStep == Spec => []BatchOfStep
<1>1. IInv => BatchOfStep
  BY InvBatchOfStep
<1> QED
  BY <1>1, Invariant, PTL

\* compute_advantage_for_multi_trajectories gives every row of a session the advantage of
\* the output of the largest index, in whatever order _balance_batch left the rows.
THEOREM FinalAdvantages == Spec => []AdvantageOfFinal
<1>1. IInv => AdvantageOfFinal
  BY DEF IInv, Advantages
<1> QED
  BY <1>1, Invariant, PTL
=============================================================================
