------------------------ MODULE WeightTransferProofs ------------------------
(***************************************************************************)
(* Proofs about WeightTransfer, for every number of ranks and updates,     *)
(* every bucket size, all sizes of the tensors and all four engines.       *)
(***************************************************************************)
EXTENDS WeightTransfer, FiniteSetTheorems, SequenceTheorems, WellFoundedInduction, TLAPS

-----------------------------------------------------------------------------
(* Pieces of the tensors, in the order in which they are sent. *)

\* Where a piece begins, and where the one after it begins.
Place(c) == <<c.name, c.at>>
Follow(z, c) ==
    IF c.at + c.size = z[c.name] THEN <<c.name + 1, 0>> ELSE <<c.name, c.at + c.size>>
First == <<1, 0>>
End(z) == <<Len(z) + 1, 0>>

\* A part of a tensor that is as large as a bucket or the end of its tensor.
IsChunk(z, c) ==
    /\ c.name \in DOMAIN z /\ c.at \in Nat /\ c.size \in Nat \ {0}
    /\ c.at + c.size <= z[c.name]
    /\ c.at + c.size = z[c.name] \/ c.size = bucket_size
    /\ z[c.name] <= bucket_size => c.at = 0 /\ c.size = z[c.name]

\* The pieces in a bucket of engine g follow one another, without overlap.
Packed(z, g, m) ==
    /\ \A i \in 1..Len(m) :
         /\ IsChunk(z, m[i]) /\ m[i].offset \in Nat /\ m[i].offset + m[i].size <= bucket_size
         /\ g = "mooncake" => z[m[i].name] <= bucket_size
    /\ m # <<>> => m[1].offset = 0
    /\ \A i, j \in 1..Len(m) : i < j =>
         /\ m[i].offset + m[i].size <= m[j].offset
         /\ m[i].at + m[i].size = z[m[i].name]
         /\ m[j].name = m[i].name + (j - i) /\ m[j].at = 0

\* A piece in its place in a bucket, and a buffer with new contents.
Piece(c, o) == [name |-> c.name, at |-> c.at, size |-> c.size, offset |-> o]
Put(b, r, s, v) == [b EXCEPT ![r][s] = v]

\* What follows the k-th bucket.
After(z, s, k) ==
    IF k < 1 \/ s[k].meta = <<>> THEN First ELSE Follow(z, s[k].meta[Len(s[k].meta)])
Due(z, q, n) == IF n <= Len(q) THEN Place(q[n]) ELSE End(z)

Entry == [name : Nat, at : Nat, size : Nat, offset : Nat]
Ipc == [name : Nat, offset : Nat, size : Nat]
Item == [name : Nat, slot : {0, 1}, offset : Nat]
Bucket == [meta : Seq(Entry), is_last : BOOLEAN]
Copy == [to : {"merge", "ipc"}, slot : {0, 1}, offset : Nat, at : Nat, size : Nat]

Contents(v) == v = [i \in Bytes |-> v[i]]
BufferShape(b) == b = [r \in 0..R |-> [s \in {0, 1} |-> [i \in Bytes |-> b[r][s][i]]]]
MergeShape(m) == m = [r \in Ranks |-> [name |-> m[r].name, offset |-> m[r].offset,
                                       bytes |-> m[r].bytes]]
IpcShape(b) == b = [r \in Ranks |-> [i \in Bytes |-> b[r][i]]]
LoadedShape(z, l) == l = [r \in Ranks |-> [t \in DOMAIN z |-> l[r][t]]]

\* Every variable has its type.
Types ==
    /\ setup \in Setups /\ round \in 1..MaxRounds
    /\ next \in 1..Len(Chunks) + 1
    /\ bucket_meta \in Seq(Entry) /\ sent \in Seq(Bucket)
    /\ trainer \in {"sending", "waiting", "done", "raised"} /\ reclaim \in BOOLEAN
    /\ BufferShape(buf)
    /\ have \in [Ranks -> Nat] /\ moved \in [Ranks -> Nat] /\ reading \in [Ranks -> BOOLEAN]
    /\ yielded \in [Ranks -> Nat] /\ offered \in [Ranks -> Nat] /\ returned \in [Ranks -> Nat]
    /\ MergeShape(merge) /\ item \in [Ranks -> Item] /\ pending \in [Ranks -> Seq(Copy)]
    /\ ipc_meta \in [Ranks -> Seq(Ipc)] /\ IpcShape(ipc_buf) /\ LoadedShape(sizes, loaded)
    /\ done \in [Ranks -> BOOLEAN]

\* What rank 0 has sent is a beginning of the chunks, and the bucket it fills goes on
\* where the last one ended.
Ledger ==
    /\ \A k \in 1..Len(sent) : Packed(sizes, engine, sent[k].meta)
    /\ Packed(sizes, engine, bucket_meta)
    /\ \A k \in 1..Len(sent) :
         sent[k].meta # <<>> => Place(sent[k].meta[1]) = After(sizes, sent, k - 1)
    /\ bucket_meta # <<>> => Place(bucket_meta[1]) = After(sizes, sent, Len(sent))
    /\ Due(sizes, Chunks, next) = IF bucket_meta = <<>> THEN After(sizes, sent, Len(sent))
                                  ELSE Follow(sizes, bucket_meta[Len(bucket_meta)])

\* Only the last bucket is marked, and only the first can be empty: when there are no
\* tensors, or when the first one is too large.
Marks ==
    /\ \A k \in 1..Len(sent) : sent[k].is_last =>
         /\ k = Len(sent) /\ trainer # "sending" /\ bucket_meta = <<>>
         /\ After(sizes, sent, k) = End(sizes)
    /\ trainer \in {"waiting", "done"} => sent # <<>> /\ sent[Len(sent)].is_last
    /\ \A k \in 1..Len(sent) : sent[k].meta = <<>> =>
         /\ Len(sent) = 1 /\ bucket_meta = <<>> /\ next = 1
         /\ Len(Chunks) = 0 \/ Chunks[1].size > bucket_size
    /\ sent = <<>> /\ bucket_meta = <<>> => next = 1
    /\ sent # <<>> /\ bucket_meta = <<>> /\ trainer = "sending" => next <= Len(Chunks)
    /\ reclaim => bucket_meta = <<>> /\ engine = "mooncake"
    /\ bucket_meta # <<>> => trainer \in {"sending", "raised"}

\* How far the ranks are apart.
Pace ==
    /\ \A r \in Ranks :
         /\ have[r] <= moved[r] /\ moved[r] <= have[r] + 1 /\ moved[r] <= Len(sent)
         /\ offered[r] = have[r] /\ yielded[r] <= Len(Meta(r))
    /\ engine \in {"nccl", "hccl"} => \A r \in Ranks : moved[r] >= Len(sent) - 1
    /\ engine = "nixl" =>
         /\ moved[1] >= Len(sent) - 1
         /\ \A r \in Ranks : reading[r] => Offered(r) > have[r]
         /\ \A r \in 2..R : moved[r] <= have[r - 1] /\ moved[r] >= have[r - 1] - 1
    /\ IF engine = "mooncake"
       THEN /\ \A r \in Ranks : /\ moved[r] = have[r]
                                /\ returned[r] <= have[r] /\ have[r] <= returned[r] + 1
            /\ returned[1] >= Len(sent) - 2
            /\ ~reclaim /\ trainer = "sending" => returned[1] >= Len(sent) - 1
            /\ \A r \in 2..R : have[r] <= have[r - 1] /\ returned[r] >= have[r - 1] - 2
       ELSE \A r \in Ranks : returned[r] = 0

\* A buffer holds the pieces of a bucket, all of them or all but its first byte.
Intact(b, m, rd) ==
    \A i \in 1..Len(m) : \A x \in 0..m[i].size - 1 :
        b[m[i].offset + x] = <<rd, m[i].name, m[i].at + x>>
IntactBut(b, m, rd) ==
    \A i \in 1..Len(m) : \A x \in 0..m[i].size - 1 :
        m[i].offset + x = 0 \/ b[m[i].offset + x] = <<rd, m[i].name, m[i].at + x>>

\* The buckets that somebody still has to read are where they belong.
Buffers ==
    /\ Intact(buf[0][Slot(Len(sent) + 1)], bucket_meta, round)
    /\ IF engine = "mooncake"
       THEN /\ \A k \in 1..Len(sent) :
                 returned[1] < k => Intact(buf[0][Slot(k)], sent[k].meta, round)
            /\ \A r \in Ranks : r < R => \A k \in 1..have[r] :
                 returned[r + 1] < k => Intact(buf[r][Slot(k)], sent[k].meta, round)
            /\ \A r \in Ranks : have[r] > 0 =>
                 IF r < R THEN IntactBut(buf[r][Slot(have[r])], Meta(r), round)
                 ELSE Intact(buf[r][Slot(have[r])], Meta(r), round)
       ELSE /\ sent # <<>> => Intact(buf[0][Slot(Len(sent))], sent[Len(sent)].meta, round)
            /\ \A r \in Ranks :
                 /\ have[r] > 0 => Intact(buf[r][Slot(have[r])], Meta(r), round)
                 /\ moved[r] > have[r] =>
                      Intact(buf[r][Slot(moved[r])], sent[moved[r]].meta, round)

\* The piece that a rank is to yield next.
Position(z, s, h, y) ==
    IF h = 0 THEN First ELSE IF y = 0 THEN After(z, s, h - 1) ELSE Follow(z, s[h].meta[y])
Pos(r) == Position(sizes, sent, have[r], yielded[r])

\* The tensors that a magic word may damage on their way through rank r.
Damaged(r) ==
    IF engine = "mooncake" /\ r < R
    THEN {sent[k].meta[1].name : k \in {i \in 1..Len(sent) : sent[i].meta # <<>>}}
    ELSE {}

\* The tensor at hand ends with the piece yielded last.
ItemOK(z, m, h, y, it) ==
    it # NoItem =>
      /\ y > 0 /\ h > 0
      /\ it.name = m[y].name /\ it.offset = m[y].offset /\ it.slot = Slot(h)
      /\ m[y].at + m[y].size = z[m[y].name]

\* The tensor that is being put together, and how far it has come.
Open(z, p, it) ==
    IF p[2] > 0 THEN p
    ELSE IF it # NoItem /\ z[it.name] > bucket_size THEN <<it.name, z[it.name]>> ELSE <<0, 0>>

\* A byte of it is right, or a copy that is still to be executed brings it.
Spans(b, n) == b = [i \in 0..n - 1 |-> b[i]]
PartOK(rd, t, offset, size, mg, pd) ==
    /\ mg.name = t /\ mg.offset = offset
    /\ Spans(mg.bytes, size)
    /\ \A i \in 0..offset - 1 :
         \/ mg.bytes[i] = <<rd, t, i>>
         \/ \E j \in 1..Len(pd) :
              pd[j].to = "merge" /\ i \in pd[j].at..pd[j].at + pd[j].size - 1
MergeOK(z, rd, p, it, mg, pd) ==
    /\ p[2] > 0 => it = NoItem /\ p[1] \in DOMAIN z /\ z[p[1]] > bucket_size /\ p[2] <= z[p[1]]
    /\ LET o == Open(z, p, it)
       IN  IF o[1] = 0 THEN mg = NoMerge
           ELSE PartOK(rd, o[1], o[2], z[o[1]], mg, pd)

\* A copy to be executed reads a piece of the bucket that is being yielded, and
\* writes it where it belongs.
CopyOK(z, m, h, y, mg, im, c) ==
    /\ h > 0 /\ c.slot = Slot(h)
    /\ \E i \in 1..y :
         /\ m[i].offset = c.offset /\ m[i].size = c.size
         /\ IF c.to = "merge" THEN mg # NoMerge /\ mg.name = m[i].name /\ m[i].at = c.at
            ELSE m[i].at = 0 /\ \E k \in 1..Len(im) :
                   im[k].name = m[i].name /\ im[k].offset = c.at /\ im[k].size = c.size

\* A tensor in the IPC buffer is right, damaged, or still to be copied.
IpcOK(z, rd, x, im, ib, pd) ==
    \A k \in 1..Len(im) :
        /\ im[k].name \in DOMAIN z /\ im[k].size = z[im[k].name]
        /\ im[k].offset + im[k].size <= bucket_size
        /\ \A l \in 1..Len(im) : k < l => im[k].offset + im[k].size <= im[l].offset
        /\ \/ im[k].name \in x
           \/ \A i \in 0..im[k].size - 1 : ib[im[k].offset + i] = <<rd, im[k].name, i>>
           \/ \E j \in 1..Len(pd) : pd[j].to = "ipc" /\ pd[j].at = im[k].offset

\* What is loaded is right or damaged, and nothing that was yielded is lost.
LoadedOK(z, rd, x, p, it, im, ld, dn) ==
    \A t \in DOMAIN z :
        /\ ld[t] = <<>> \/ t \in x \/ ld[t] = [i \in 0..z[t] - 1 |-> <<rd, t, i>>]
        /\ t < p[1] => ld[t] # <<>> \/ it.name = t \/ \E k \in 1..Len(im) : im[k].name = t
        /\ dn => ld[t] # <<>>

Hand(r) ==
    /\ ItemOK(sizes, Meta(r), have[r], yielded[r], item[r])
    /\ MergeOK(sizes, round, Pos(r), item[r], merge[r], pending[r])
    /\ \A j \in 1..Len(pending[r]) :
         CopyOK(sizes, Meta(r), have[r], yielded[r], merge[r], ipc_meta[r], pending[r][j])
    /\ IpcOK(sizes, round, Damaged(r), ipc_meta[r], ipc_buf[r], pending[r])
    /\ LoadedOK(sizes, round, Damaged(r), Pos(r), item[r], ipc_meta[r], loaded[r], done[r])

Hands == \A r \in Ranks : Hand(r)

\* The same for what rank r comes to have at hand in a step.
Holding(r, y, it, mg, pd, im, ib, ld, dn) ==
    LET p == Position(sizes, sent, have[r], y)
    IN  /\ ItemOK(sizes, Meta(r), have[r], y, it)
        /\ MergeOK(sizes, round, p, it, mg, pd)
        /\ \A j \in 1..Len(pd) : CopyOK(sizes, Meta(r), have[r], y, mg, im, pd[j])
        /\ IpcOK(sizes, round, Damaged(r), im, ib, pd)
        /\ LoadedOK(sizes, round, Damaged(r), p, it, im, ld, dn)

IInv == Types /\ Ledger /\ Marks /\ Pace /\ Buffers /\ Hands

-----------------------------------------------------------------------------
(* Slots and sequences. *)

LEMMA Slots ==
  \A k \in Int : /\ Slot(k) \in {0, 1} /\ Slot(k + 1) # Slot(k) /\ Slot(k + 2) = Slot(k)
                 /\ Slot(k - 1) = Slot(k + 1)
  BY DEF Slot

LEMMA Constants ==
  /\ R \in Nat /\ R >= 1 /\ bucket_size \in Nat /\ bucket_size >= 1
  /\ MaxRounds \in Nat /\ MaxRounds >= 1
  BY TransferAssumption

LEMMA SetupFacts ==
  ASSUME setup \in Setups
  PROVE  /\ engine \in Engines /\ sizes \in Seq(Nat \ {0}) /\ Len(sizes) \in Nat
         /\ Names = 1..Len(sizes) /\ setup.use_shm \in BOOLEAN
         /\ \A t \in Names : sizes[t] \in Nat /\ sizes[t] >= 1
<1>1. setup \in [engine : Engines, sizes : Seq(Nat \ {0}), use_shm : BOOLEAN]
  BY TransferAssumption
<1>2. /\ engine \in Engines /\ sizes \in Seq(Nat \ {0}) /\ setup.use_shm \in BOOLEAN
  BY <1>1 DEF engine, sizes
<1>3. Len(sizes) \in Nat /\ DOMAIN sizes = 1..Len(sizes)
      /\ \A t \in 1..Len(sizes) : sizes[t] \in Nat \ {0}
  BY <1>2
<1> QED
  BY <1>2, <1>3 DEF Names

LEMMA LeastElement ==
  ASSUME NEW T \in SUBSET Nat, T # {}
  PROVE  \E x \in T : \A y \in T : x <= y
<1> DEFINE W == OpToRel(<, Nat)
<1>1. IsWellFoundedOn(W, Nat)
  BY NatLessThanWellFounded
<1>2. PICK x \in T : \A y \in T : ~(<<y, x>> \in W)
  <2> HIDE DEF W
  <2> QED
    BY <1>1, WFMin
<1>3. \A y \in T : ~(y < x)
  BY <1>2 DEF OpToRel
<1> QED
  BY <1>3

-----------------------------------------------------------------------------
(* The chunks of the tensors follow one another. *)

\* A run of pieces that begins at a and ends before e.
Chain(z, q, a, e) ==
    /\ q \in Seq([name : Nat, at : Nat, size : Nat]) /\ Len(q) >= 1
    /\ Place(q[1]) = a /\ Follow(z, q[Len(q)]) = e
    /\ \A p \in 1..Len(q) : IsChunk(z, q[p])
    /\ \A p \in 1..Len(q) - 1 : Follow(z, q[p]) = Place(q[p + 1])

LEMMA ChainConcat ==
  ASSUME NEW z, NEW q, NEW p, NEW a, NEW m, NEW e, Chain(z, q, a, m), Chain(z, p, m, e)
  PROVE  Chain(z, q \o p, a, e)
<1> DEFINE c == q \o p
           T == [name : Nat, at : Nat, size : Nat]
<1>1. /\ q \in Seq(T) /\ p \in Seq(T)
      /\ Len(q) \in Nat /\ Len(q) >= 1 /\ Len(p) \in Nat /\ Len(p) >= 1
  BY DEF Chain
<1> HIDE DEF T
<1>2. /\ c \in Seq(T) /\ Len(c) = Len(q) + Len(p)
      /\ \A i \in 1..Len(q) : c[i] = q[i]
      /\ \A i \in 1..Len(p) : c[Len(q) + i] = p[i]
  BY <1>1
<1>3. \A i \in 1..Len(c) : i \in 1..Len(q) \/ \E j \in 1..Len(p) : i = Len(q) + j
  <2> TAKE i \in 1..Len(c)
  <2>1. CASE i > Len(q)
    <3>1. i - Len(q) \in 1..Len(p) /\ i = Len(q) + (i - Len(q))
      BY <1>1, <1>2, <2>1
    <3> QED
      BY <3>1
  <2> QED
    BY <1>1, <1>2, <2>1
<1> HIDE DEF c
<1>4. \A i \in 1..Len(c) : IsChunk(z, c[i])
  BY <1>2, <1>3 DEF Chain
<1>5. ASSUME NEW i \in 1..Len(c) - 1 PROVE Follow(z, c[i]) = Place(c[i + 1])
  <2>1. CASE i < Len(q)
    <3>1. i \in 1..Len(q) - 1 /\ i \in 1..Len(q) /\ i + 1 \in 1..Len(q)
      BY <1>1, <1>2, <2>1
    <3> QED
      BY <1>2, <3>1 DEF Chain
  <2>2. CASE i = Len(q)
    <3>1. 1 \in 1..Len(p) /\ i \in 1..Len(q)
      BY <1>1, <2>2
    <3>2. c[i + 1] = p[1] /\ c[i] = q[Len(q)]
      BY <1>2, <2>2, <3>1
    <3> QED
      BY <3>2 DEF Chain
  <2>3. CASE i > Len(q)
    <3>1. PICK j \in Nat : i = Len(q) + j /\ j >= 1 /\ j + 1 <= Len(p)
      <4>1. i - Len(q) \in Nat /\ i = Len(q) + (i - Len(q)) /\ i - Len(q) >= 1
            /\ (i - Len(q)) + 1 <= Len(p)
        BY <1>1, <1>2, <2>3
      <4> QED
        BY <4>1
    <3>2. j \in 1..Len(p) - 1 /\ j \in 1..Len(p) /\ j + 1 \in 1..Len(p)
          /\ i + 1 = Len(q) + (j + 1)
      BY <1>1, <3>1
    <3>3. c[i] = p[j] /\ c[i + 1] = p[j + 1]
      BY <1>2, <3>1, <3>2
    <3> QED
      BY <3>2, <3>3 DEF Chain
  <2> QED
    BY <1>1, <1>2, <2>1, <2>2, <2>3
<1>6. 1 \in 1..Len(q) /\ Len(p) \in 1..Len(p) /\ Len(c) >= 1
  BY <1>1, <1>2
<1>7. c[1] = q[1] /\ c[Len(c)] = p[Len(p)]
  BY <1>2, <1>6
<1>8. Place(c[1]) = a /\ Follow(z, c[Len(c)]) = e
  BY <1>7 DEF Chain
<1>9. c \in Seq([name : Nat, at : Nat, size : Nat])
  BY <1>2 DEF T
<1>10. Chain(z, c, a, e)
  BY <1>4, <1>5, <1>6, <1>8, <1>9 DEF Chain
<1> QED
  BY <1>10 DEF c

\* Into how many pieces a tensor is split, and where they begin.
LEMMA Pieces ==
  ASSUME NEW s \in Nat, s >= 1, NEW b \in Nat, b >= 1
  PROVE  LET n == (s + b - 1) \div b
         IN  /\ n \in Nat /\ n >= 1
             /\ \A j \in 1..n :
                  /\ (j - 1) * b \in Nat /\ (j - 1) * b < s
                  /\ (j + 1 - 1) * b = (j - 1) * b + b
                  /\ j < n => (j - 1) * b + b < s
                  /\ j = n => s <= (j - 1) * b + b
<1> DEFINE n == (s + b - 1) \div b
           a == s + b - 1
<1>1. a \in Nat /\ a >= b
  OBVIOUS
<1>2. n \in Int /\ a = b * n + (a % b) /\ a % b \in 0..b - 1
  <2>1. \A y, d \in Nat : d >= 1 => /\ y \div d \in Int /\ y = d * (y \div d) + (y % d)
                                    /\ y % d \in 0..d - 1
    OBVIOUS
  <2> QED
    BY <1>1, <2>1
<1> HIDE DEF n
<1>3. PICK x \in Int : a = b * n + x /\ 0 <= x /\ x <= b - 1
  BY <1>2
<1>4. n >= 1
  <2> SUFFICES ASSUME n <= 0 PROVE FALSE
    BY <1>2
  <2>1. \A c, y \in Int : c >= 1 /\ y <= 0 => c * y <= 0
    OBVIOUS
  <2>2. b * n <= 0
    BY <1>2, <2>1
  <2> QED
    BY <1>1, <1>3, <2>2, <1>2
<1>5. n \in Nat
  BY <1>2, <1>4
<1>6. ASSUME NEW j \in 1..n
      PROVE  /\ (j - 1) * b \in Nat /\ (j - 1) * b < s
             /\ (j + 1 - 1) * b = (j - 1) * b + b
             /\ j < n => (j - 1) * b + b < s
             /\ j = n => s <= (j - 1) * b + b
  <2>1. j \in Nat /\ j >= 1 /\ j <= n
    BY <1>5
  <2> DEFINE u == (j - 1) * b
             v == b * n
  <2>2. u \in Nat
    BY <2>1
  <2>3. (j + 1 - 1) * b = u + b
    BY <2>1
  <2>4. v \in Int /\ s + b - 1 = v + x
    BY <1>2, <1>3
  <2>5. v - b - u = (n - j) * b
    BY <1>2, <2>1
  <2>6. (n - j) * b >= 0
    BY <1>2, <2>1
  <2>7. j < n => (n - j) * b >= b
    <3>1. j < n => n - j >= 1
      BY <1>5, <2>1
    <3>2. \A y \in Int : y >= 1 => y * b >= b
      OBVIOUS
    <3> QED
      BY <3>1, <3>2, <1>5, <2>1
  <2>8. j = n => (n - j) * b = 0
    BY <1>2, <2>1
  <2>9. PICK w \in Int : w = (n - j) * b
    BY <1>2, <2>1
  <2> HIDE DEF u, v
  <2>10. v - b - u = w /\ w >= 0 /\ (j < n => w >= b) /\ (j = n => w = 0)
    BY <2>5, <2>6, <2>7, <2>8, <2>9
  <2>11. u < s /\ (j < n => u + b < s) /\ (j = n => s <= u + b)
    BY <2>2, <2>4, <2>10, <1>3
  <2> QED
    BY <2>2, <2>3, <2>11 DEF u
<1> QED
  BY <1>4, <1>5, <1>6 DEF n

\* split_weight_chunks of one tensor.
LEMMA PiecesOfTensor ==
  ASSUME setup \in Setups, NEW t \in Names
  PROVE  Chain(sizes, ChunksOf(t), <<t, 0>>, <<t + 1, 0>>)
<1> DEFINE s == sizes[t]
           b == bucket_size
           n == (s + b - 1) \div b
           q == ChunksOf(t)
<1>1. s \in Nat /\ s >= 1 /\ b \in Nat /\ b >= 1 /\ t \in Nat
  BY SetupFacts, Constants
<1>2. /\ n \in Nat /\ n >= 1
      /\ \A j \in 1..n :
           /\ (j - 1) * b \in Nat /\ (j - 1) * b < s
           /\ (j + 1 - 1) * b = (j - 1) * b + b
           /\ j < n => (j - 1) * b + b < s
           /\ j = n => s <= (j - 1) * b + b
  BY <1>1, Pieces
<1>3. q = [j \in 1..n |-> [name |-> t, at |-> (j - 1) * b,
                            size |-> Smaller(b, s - (j - 1) * b)]]
  BY DEF ChunksOf
<1> HIDE DEF n, s, b, q
<1>4. ASSUME NEW j \in 1..n
      PROVE  \E u \in Nat : /\ q[j] = [name |-> t, at |-> u, size |-> Smaller(b, s - u)]
                            /\ u = (j - 1) * b /\ u < s
                            /\ j < n => u + b < s /\ (j + 1 - 1) * b = u + b
                            /\ j = n => s <= u + b
                            /\ j = 1 => u = 0
  <2>1. j = 1 => (j - 1) * b = 0
    BY <1>1
  <2>2. (j - 1) * b \in Nat
    BY <1>2
  <2> QED
    BY <1>2, <1>3, <2>1, <2>2
<1>5. ASSUME NEW j \in 1..n
      PROVE  /\ q[j] \in [name : Nat, at : Nat, size : Nat]
             /\ IsChunk(sizes, q[j])
             /\ j < n => q[j].size = b
             /\ q[j].at + q[j].size = s <=> j = n
  <2>1. PICK u \in Nat : /\ q[j] = [name |-> t, at |-> u, size |-> Smaller(b, s - u)]
                         /\ u = (j - 1) * b /\ u < s
                         /\ j < n => u + b < s
                         /\ j = n => s <= u + b
                         /\ j = 1 => u = 0
    BY <1>4
  <2>2. PICK y \in Nat : y = Smaller(b, s - u) /\ y >= 1 /\ u + y <= s
                         /\ (y = b \/ u + y = s) /\ (u + b < s => y = b /\ u + y < s)
                         /\ (s <= u + b => u + y = s)
    BY <1>1, <2>1 DEF Smaller
  <2>3. s <= b => u = 0
    <3>1. j # 1 => u >= b
      <4>1. \A x \in Nat : x >= 1 => x * b >= b
        BY <1>1
      <4>2. j # 1 => j - 1 \in Nat /\ j - 1 >= 1
        BY <1>2
      <4> QED
        BY <2>1, <4>1, <4>2
    <3> QED
      BY <3>1, <2>1, <1>1
  <2>4. q[j] = [name |-> t, at |-> u, size |-> y]
    BY <2>1, <2>2
  <2>5. q[j].name = t /\ q[j].at = u /\ q[j].size = y
    BY <2>4
  <2>6. q[j] \in [name : Nat, at : Nat, size : Nat]
    BY <2>4, <1>1
  <2>7. s <= b => y = s
    BY <2>3, <2>2, <1>1
  <2>8. IsChunk(sizes, q[j])
    BY <2>5, <2>2, <2>3, <2>7 DEF IsChunk, Names, s, b
  <2>9. u + y = s <=> j = n
    BY <2>1, <2>2, <1>2, <1>1
  <2>10. j < n => y = b
    BY <2>1, <2>2
  <2> QED
    BY <2>5, <2>6, <2>8, <2>9, <2>10
<1>6. q \in Seq([name : Nat, at : Nat, size : Nat]) /\ Len(q) = n
  <2> DEFINE T == [name : Nat, at : Nat, size : Nat]
             d(j) == [name |-> t, at |-> (j - 1) * b, size |-> Smaller(b, s - (j - 1) * b)]
  <2>1. q = [j \in 1..n |-> d(j)] /\ \A j \in 1..n : q[j] \in T
    BY <1>3, <1>5
  <2> HIDE DEF T, d
  <2>2. q \in Seq(T) /\ Len(q) = n
    BY <2>1, <1>2
  <2> QED
    BY <2>2 DEF T
<1>7. \A j \in 1..n : q[j].name = t /\ q[j].at = (j - 1) * b
  BY <1>3
<1>8. Place(q[1]) = <<t, 0>>
  <2>1. 1 \in 1..n /\ (1 - 1) * b = 0
    BY <1>1, <1>2
  <2> QED
    BY <1>7, <2>1 DEF Place
<1>9. Follow(sizes, q[n]) = <<t + 1, 0>>
  <2>1. n \in 1..n
    BY <1>2
  <2> QED
    BY <1>5, <1>7, <2>1 DEF Follow, s
<1>10. ASSUME NEW j \in 1..n - 1 PROVE Follow(sizes, q[j]) = Place(q[j + 1])
  <2>1. j \in 1..n /\ j + 1 \in 1..n /\ j < n /\ j # n
    BY <1>2
  <2>2. q[j].at + q[j].size # s /\ q[j].size = b /\ q[j].name = t
    BY <1>5, <1>7, <2>1
  <2>3. q[j].at + q[j].size = (j + 1 - 1) * b
    BY <1>2, <1>7, <2>1, <2>2
  <2>4. Follow(sizes, q[j]) = <<t, (j + 1 - 1) * b>>
    BY <2>2, <2>3 DEF Follow, s
  <2>5. q[j + 1].name = t /\ q[j + 1].at = (j + 1 - 1) * b
    BY <1>7, <2>1
  <2> QED
    BY <2>4, <2>5 DEF Place
<1>11. Chain(sizes, q, <<t, 0>>, <<t + 1, 0>>)
  BY <1>2, <1>5, <1>6, <1>8, <1>9, <1>10 DEF Chain
<1> QED
  BY <1>11 DEF q

LEMMA Flattened ==
  ASSUME NEW z, NEW n \in Nat \ {0}, NEW parts,
         \A t \in 1..n : Chain(z, parts[t], <<t, 0>>, <<t + 1, 0>>)
  PROVE  Chain(z, FlattenSeq([t \in 1..n |-> parts[t]]), First, <<n + 1, 0>>)
<1> DEFINE seqs == [t \in 1..n |-> parts[t]]
           Step(f, i) == IF i = 1 THEN seqs[i] ELSE f[i - 1] \o seqs[i]
           Equation(f) == f = [i \in 1..n |-> Step(f, i)]
           Partly(f, m) == \A i \in 1..m : f[i] = Step(f, i)
           flat == CHOOSE f : Equation(f)
           Bad == {m \in 1..n : ~ \E f : Partly(f, m)}
<1>1. Len(seqs) = n
  OBVIOUS
<1>2. FlattenSeq(seqs) = flat[n]
  BY <1>1 DEF FlattenSeq
<1>3. Bad = {}
  <2> SUFFICES ASSUME Bad # {} PROVE FALSE
    OBVIOUS
  <2>1. Bad \in SUBSET Nat
    OBVIOUS
  <2>2. PICK m \in Bad : \A y \in Bad : m <= y
    <3> HIDE DEF Bad
    <3> QED
      BY <2>1, LeastElement
  <2>3. m \in 1..n /\ m \in Nat /\ ~ \E f : Partly(f, m)
    <3> HIDE DEF Partly
    <3> QED
      BY <2>2
  <2>4. CASE m = 1
    <3>1. Partly([i \in 1..1 |-> seqs[1]], 1)
      OBVIOUS
    <3> QED
      BY <2>3, <2>4, <3>1
  <2>5. CASE m # 1
    <3>1. m - 1 \in 1..n /\ ~(m <= m - 1)
      BY <2>3, <2>5
    <3>2. PICK f : Partly(f, m - 1)
      BY <2>2, <3>1
    <3> DEFINE g == [i \in 1..m |-> IF i = m THEN f[m - 1] \o seqs[m] ELSE f[i]]
    <3>3. ASSUME NEW i \in 1..m PROVE g[i] = Step(g, i)
      <4>1. CASE i = m
        <5>1. m - 1 \in 1..m /\ m - 1 # m
          BY <2>3, <3>1
        <5>2. g[i] = f[m - 1] \o seqs[m]
          BY <4>1
        <5>3. g[m - 1] = f[m - 1]
          BY <5>1
        <5> HIDE DEF g
        <5> QED
          BY <4>1, <5>2, <5>3, <2>5
      <4>2. CASE i # m
        <5>1. i \in 1..m - 1 /\ i \in Nat
          BY <4>2, <2>3
        <5>2. g[i] = f[i] /\ f[i] = Step(f, i)
          BY <3>2, <5>1, <4>2
        <5>3. i # 1 => g[i - 1] = f[i - 1]
          <6>1. i # 1 => i - 1 \in 1..m /\ i - 1 # m
            BY <5>1, <2>3
          <6> QED
            BY <6>1
        <5> HIDE DEF g
        <5> QED
          BY <5>2, <5>3
      <4> QED
        BY <4>1, <4>2
    <3>4. Partly(g, m)
      BY <3>3
    <3> QED
      BY <2>3, <3>4
  <2> QED
    BY <2>4, <2>5
<1>4. PICK f : Partly(f, n)
  <2> HIDE DEF Partly
  <2> QED
    BY <1>3
<1>5. Equation([i \in 1..n |-> f[i]])
  <2> DEFINE g == [i \in 1..n |-> f[i]]
  <2>1. ASSUME NEW i \in 1..n PROVE g[i] = Step(g, i)
    <3>1. i # 1 => i - 1 \in 1..n
      OBVIOUS
    <3> QED
      BY <3>1, <1>4
  <2> QED
    BY <2>1
<1>6. Equation(flat)
  <2> HIDE DEF Equation
  <2> QED
    BY <1>5
<1> HIDE DEF flat
<1>7. \A i \in 1..n : flat[i] = IF i = 1 THEN seqs[i] ELSE flat[i - 1] \o seqs[i]
  BY <1>6
<1> DEFINE Wrong == {m \in 1..n : ~Chain(z, flat[m], First, <<m + 1, 0>>)}
<1>8. Wrong = {}
  <2> SUFFICES ASSUME Wrong # {} PROVE FALSE
    OBVIOUS
  <2>1. Wrong \in SUBSET Nat
    OBVIOUS
  <2>2. PICK m \in Wrong : \A y \in Wrong : m <= y
    <3> HIDE DEF Wrong
    <3> QED
      BY <2>1, LeastElement
  <2>3. m \in 1..n /\ m \in Nat /\ ~Chain(z, flat[m], First, <<m + 1, 0>>)
    BY <2>2
  <2>4. CASE m = 1
    <3>1. flat[1] = parts[1] /\ 1 \in 1..n
      BY <1>7
    <3>2. Chain(z, flat[1], <<1, 0>>, <<1 + 1, 0>>)
      BY <3>1
    <3> QED
      BY <2>3, <2>4, <3>2 DEF First
  <2>5. CASE m # 1
    <3>1. m - 1 \in 1..n /\ ~(m <= m - 1) /\ (m - 1) + 1 = m
      BY <2>3, <2>5
    <3>2. Chain(z, flat[m - 1], First, <<(m - 1) + 1, 0>>)
      BY <2>2, <3>1
    <3>3. Chain(z, flat[m - 1], First, <<m, 0>>) /\ Chain(z, parts[m], <<m, 0>>, <<m + 1, 0>>)
      BY <2>3, <3>1, <3>2
    <3>4. flat[m] = flat[m - 1] \o parts[m]
      BY <1>7, <2>3, <2>5
    <3> QED
      BY <2>3, <3>3, <3>4, ChainConcat
  <2> QED
    BY <2>4, <2>5
<1>9. n \in 1..n
  OBVIOUS
<1>10. Chain(z, flat[n], First, <<n + 1, 0>>)
  BY <1>8, <1>9
<1> QED
  BY <1>2, <1>10

\* The first chunk is the beginning of the first tensor, each one goes on where the one
\* before ended, and the last one ends the last tensor.
LEMMA ChunkFacts ==
  ASSUME setup \in Setups
  PROVE  /\ Len(Chunks) \in Nat
         /\ Due(sizes, Chunks, 1) = First
         /\ \A p \in 1..Len(Chunks) :
              /\ IsChunk(sizes, Chunks[p])
              /\ Chunks[p] \in [name : Nat, at : Nat, size : Nat]
              /\ engine = "mooncake" => Chunks[p].size = sizes[Chunks[p].name]
              /\ Follow(sizes, Chunks[p]) = Due(sizes, Chunks, p + 1)
<1> DEFINE n == Len(sizes)
<1>1. n \in Nat /\ Names = 1..n /\ \A t \in Names : sizes[t] \in Nat /\ sizes[t] >= 1
  BY SetupFacts
<1> HIDE DEF n
<1>2. CASE n = 0
  <2>1. Names = {}
    BY <1>1, <1>2
  <2>2. Len(Chunks) = 0
    <3>1. \A f : DOMAIN f = {} => Len([t \in Names |-> f[t]]) = 0
      BY <2>1
    <3>2. Len([t \in Names |-> ChunksOf(t)]) = 0
          /\ Len([t \in Names |-> [name |-> t, at |-> 0, size |-> sizes[t]]]) = 0
      BY <2>1
    <3>3. FlattenSeq([t \in Names |-> ChunksOf(t)]) = [t \in Names |-> ChunksOf(t)]
      BY <3>2 DEF FlattenSeq
    <3> QED
      BY <3>2, <3>3 DEF Chunks
  <2> QED
    BY <2>2, <1>2 DEF Due, End, First, n
<1>3. CASE n >= 1 /\ engine \notin {"nccl", "nixl"}
  <2>1. Chunks = [t \in 1..n |-> [name |-> t, at |-> 0, size |-> sizes[t]]]
    BY <1>1, <1>3 DEF Chunks
  <2>2. Len(Chunks) = n
    BY <1>1, <2>1
  <2>3. ASSUME NEW t \in 1..n
        PROVE  /\ Chunks[t].name = t /\ Chunks[t].at = 0 /\ Chunks[t].size = sizes[t]
               /\ Chunks[t] \in [name : Nat, at : Nat, size : Nat]
    BY <1>1, <2>1
  <2>4. ASSUME NEW p \in 1..n
        PROVE  /\ IsChunk(sizes, Chunks[p])
               /\ Chunks[p].size = sizes[Chunks[p].name]
               /\ Follow(sizes, Chunks[p]) = Due(sizes, Chunks, p + 1)
    <3>1. p \in Names /\ sizes[p] \in Nat /\ sizes[p] >= 1
      BY <1>1
    <3>2. IsChunk(sizes, Chunks[p])
      BY <2>3, <3>1 DEF IsChunk, Names
    <3>3. Follow(sizes, Chunks[p]) = <<p + 1, 0>>
      BY <2>3, <3>1 DEF Follow
    <3>4. CASE p < n
      <4>1. p + 1 \in 1..n
        BY <1>1, <3>4
      <4>2. Place(Chunks[p + 1]) = <<p + 1, 0>>
        BY <2>3, <4>1 DEF Place
      <4> QED
        BY <2>2, <2>3, <3>2, <3>3, <4>1, <4>2 DEF Due
    <3>5. CASE p = n
      <4>1. ~(p + 1 <= Len(Chunks))
        BY <1>1, <2>2, <3>5
      <4> QED
        BY <2>3, <3>2, <3>3, <3>5, <4>1 DEF Due, End, n
    <3> QED
      BY <1>1, <3>4, <3>5
  <2>5. Due(sizes, Chunks, 1) = First
    <3>1. 1 \in 1..n
      BY <1>1, <1>3
    <3> QED
      BY <3>1, <2>2, <2>3 DEF Due, Place, First
  <2> QED
    BY <1>1, <2>2, <2>3, <2>4, <2>5
<1>4. CASE n >= 1 /\ engine \in {"nccl", "nixl"}
  <2> DEFINE q == FlattenSeq([t \in 1..n |-> ChunksOf(t)])
             parts == [t \in 1..n |-> ChunksOf(t)]
  <2>1. Chunks = q
    BY <1>1, <1>4 DEF Chunks
  <2>2. \A t \in 1..n : Chain(sizes, parts[t], <<t, 0>>, <<t + 1, 0>>)
    BY <1>1, PiecesOfTensor
  <2>3. [t \in 1..n |-> parts[t]] = parts
    OBVIOUS
  <2> HIDE DEF parts
  <2>4. Chain(sizes, FlattenSeq(parts), First, <<n + 1, 0>>)
    BY <1>1, <1>4, <2>2, <2>3, Flattened
  <2>5. Chain(sizes, Chunks, First, End(sizes))
    BY <2>1, <2>4 DEF parts, End, n
  <2> HIDE DEF q
  <2>6. Len(Chunks) \in Nat /\ Len(Chunks) >= 1
        /\ Chunks \in Seq([name : Nat, at : Nat, size : Nat])
    BY <2>5 DEF Chain
  <2>7. ASSUME NEW p \in 1..Len(Chunks)
        PROVE  /\ IsChunk(sizes, Chunks[p])
               /\ Chunks[p] \in [name : Nat, at : Nat, size : Nat]
               /\ Follow(sizes, Chunks[p]) = Due(sizes, Chunks, p + 1)
    <3> DEFINE T == [name : Nat, at : Nat, size : Nat]
    <3>1. IsChunk(sizes, Chunks[p]) /\ Chunks[p] \in T
      <4>1. Chunks \in Seq(T)
        BY <2>6
      <4> HIDE DEF T
      <4>2. Chunks[p] \in T
        BY <4>1
      <4> QED
        BY <2>5, <4>2 DEF Chain
    <3>2. CASE p < Len(Chunks)
      <4>1. p \in 1..Len(Chunks) - 1 /\ p + 1 <= Len(Chunks)
        BY <2>6, <3>2
      <4> QED
        BY <2>5, <3>1, <4>1 DEF Chain, Due
    <3>3. CASE p = Len(Chunks)
      <4>1. ~(p + 1 <= Len(Chunks))
        BY <2>6, <3>3
      <4> QED
        BY <2>5, <3>1, <3>3, <4>1 DEF Chain, Due
    <3> QED
      BY <2>6, <3>2, <3>3
  <2>8. Due(sizes, Chunks, 1) = First
    BY <2>5, <2>6 DEF Chain, Due
  <2> QED
    BY <1>4, <2>6, <2>7, <2>8
<1> QED
  BY <1>1, <1>2, <1>3, <1>4

-----------------------------------------------------------------------------
(* The pieces in a bucket. *)

LEMMA EntryFields ==
  ASSUME NEW m \in Seq(Entry)
  PROVE  /\ Len(m) \in Nat /\ (m = <<>> <=> Len(m) = 0)
         /\ m # <<>> => 1 \in 1..Len(m) /\ Len(m) \in 1..Len(m)
         /\ \A i \in 1..Len(m) : /\ m[i].name \in Nat /\ m[i].at \in Nat
                                 /\ m[i].size \in Nat /\ m[i].offset \in Nat
<1>1. Len(m) \in Nat /\ (m = <<>> <=> Len(m) = 0)
  <2> HIDE DEF Entry
  <2> QED
    OBVIOUS
<1>2. \A i \in 1..Len(m) : m[i] \in Entry
  <2> HIDE DEF Entry
  <2> QED
    OBVIOUS
<1>3. \A e \in Entry : e.name \in Nat /\ e.at \in Nat /\ e.size \in Nat /\ e.offset \in Nat
  BY DEF Entry
<1> QED
  BY <1>1, <1>2, <1>3

LEMMA FilledFacts ==
  ASSUME NEW z, NEW g, NEW m \in Seq(Entry), Packed(z, g, m)
  PROVE  /\ Filled(m) \in Nat /\ Filled(m) <= bucket_size
         /\ \A i \in 1..Len(m) : m[i].offset + m[i].size <= Filled(m)
         /\ m = <<>> => Filled(m) = 0
<1>1. CASE m = <<>>
  BY <1>1, Constants, EntryFields DEF Filled
<1>2. CASE m # <<>>
  <2>1. Filled(m) = m[Len(m)].offset + m[Len(m)].size
    BY <1>2 DEF Filled
  <2>2. Len(m) \in Nat /\ Len(m) \in 1..Len(m)
        /\ \A i \in 1..Len(m) : m[i].size \in Nat /\ m[i].offset \in Nat
    BY <1>2, EntryFields
  <2>3. ASSUME NEW i \in 1..Len(m) PROVE m[i].offset + m[i].size <= Filled(m)
    <3>1. CASE i = Len(m)
      BY <2>1, <2>2, <3>1
    <3>2. CASE i < Len(m)
      <4>1. m[i].offset + m[i].size <= m[Len(m)].offset
        BY <2>2, <3>2 DEF Packed
      <4> QED
        BY <2>1, <2>2, <4>1
    <3> QED
      BY <2>2, <3>1, <3>2
  <2>4. Filled(m) <= bucket_size
    BY <2>1, <2>2 DEF Packed
  <2> QED
    BY <1>2, <2>1, <2>2, <2>3, <2>4
<1> QED
  BY <1>1, <1>2

\* Every piece but the last ends its tensor, and the next one begins the next tensor.
LEMMA PackedNext ==
  ASSUME NEW z, NEW g, NEW m \in Seq(Entry), Packed(z, g, m), NEW i \in 1..Len(m) - 1
  PROVE  Follow(z, m[i]) = Place(m[i + 1])
<1>1. i \in 1..Len(m) /\ i + 1 \in 1..Len(m) /\ i < i + 1 /\ (i + 1) - i = 1
  BY EntryFields
<1>2. m[i].at + m[i].size = z[m[i].name] /\ m[i + 1].name = m[i].name + ((i + 1) - i)
      /\ m[i + 1].at = 0
  BY <1>1 DEF Packed
<1> QED
  BY <1>1, <1>2 DEF Follow, Place

\* The names in a bucket are distinct.
LEMMA PackedNames ==
  ASSUME NEW z, NEW g, NEW m \in Seq(Entry), Packed(z, g, m),
         NEW i \in 1..Len(m), NEW j \in 1..Len(m), m[i].name = m[j].name
  PROVE  i = j
<1>1. Len(m) \in Nat /\ m[i].name \in Nat /\ m[j].name \in Nat
  BY EntryFields
<1>2. ~(i < j)
  <2> SUFFICES ASSUME i < j PROVE FALSE
    OBVIOUS
  <2>1. m[j].name = m[i].name + (j - i)
    BY DEF Packed
  <2> QED
    BY <1>1, <2>1
<1>3. ~(j < i)
  <2> SUFFICES ASSUME j < i PROVE FALSE
    OBVIOUS
  <2>1. m[i].name = m[j].name + (i - j)
    BY DEF Packed
  <2> QED
    BY <1>1, <2>1
<1> QED
  BY <1>1, <1>2, <1>3

\* A chunk that fits and follows the last piece keeps the bucket in order.
LEMMA PackedAppend ==
  ASSUME NEW z \in Seq(Nat \ {0}), NEW g, NEW m \in Seq(Entry), Packed(z, g, m),
         NEW c \in [name : Nat, at : Nat, size : Nat], IsChunk(z, c),
         g = "mooncake" => c.size = z[c.name],
         Filled(m) + c.size <= bucket_size,
         m # <<>> => Place(c) = Follow(z, m[Len(m)]),
         NEW e, e = Piece(c, Filled(m))
  PROVE  LET n == Append(m, e)
         IN  /\ n \in Seq(Entry) /\ n # <<>> /\ Len(n) = Len(m) + 1 /\ Packed(z, g, n)
             /\ \A i \in 1..Len(m) : n[i] = m[i]
             /\ n[Len(m) + 1] = e
             /\ m # <<>> => n[1] = m[1]
             /\ m = <<>> => n[1] = e
<1> DEFINE n == Append(m, e)
           l == Len(m)
           f == Filled(m)
<1>1. l \in Nat /\ f \in Nat /\ \A i \in 1..l : m[i].offset + m[i].size <= f
  BY EntryFields, FilledFacts
<1>2. /\ c.name \in Nat /\ c.at \in Nat /\ c.size \in Nat /\ c.size >= 1
      /\ e.name = c.name /\ e.at = c.at /\ e.size = c.size /\ e.offset = f
  BY DEF IsChunk, Piece
<1>3. e \in Entry
  BY <1>1, <1>2 DEF Entry, Piece
<1>4. /\ n \in Seq(Entry) /\ Len(n) = l + 1 /\ n # <<>>
      /\ \A i \in 1..l : n[i] = m[i]
      /\ n[l + 1] = e
  <2> HIDE DEF Entry
  <2> QED
    BY <1>3
<1>5. \A i \in 1..l + 1 : i \in 1..l \/ i = l + 1
  BY <1>1
<1>6. z[c.name] \in Nat
  BY DEF IsChunk
<1>7. ASSUME m # <<>>
      PROVE  /\ m[l].at + m[l].size = z[m[l].name]
             /\ c.name = m[l].name + 1 /\ c.at = 0
  <2>1. l \in 1..l /\ m[l].name \in Nat /\ m[l].at \in Nat /\ m[l].size \in Nat
        /\ m[l].offset \in Nat
    BY <1>7, EntryFields
  <2>2. IsChunk(z, m[l])
    BY <2>1 DEF Packed
  <2>3. f = m[l].offset + m[l].size
    BY <1>7 DEF Filled
  <2>4. m[l].size # bucket_size
    BY <2>1, <2>3, <1>2, Constants
  <2>5. m[l].at + m[l].size = z[m[l].name]
    BY <2>2, <2>4 DEF IsChunk
  <2>6. <<c.name, c.at>> = <<m[l].name + 1, 0>>
    BY <1>7, <2>5 DEF Place, Follow
  <2> QED
    BY <2>5, <2>6
<1>8. m # <<>> => 1 \in 1..l /\ n[1] = m[1]
  BY <1>4, EntryFields
<1>9. m = <<>> => l = 0 /\ f = 0 /\ n[1] = e
  <2>1. m = <<>> => l = 0 /\ f = 0
    BY FilledFacts
  <2> QED
    BY <2>1, <1>4
<1> HIDE DEF n, l, f
<1>10. ASSUME NEW i \in 1..l + 1
       PROVE  /\ IsChunk(z, n[i]) /\ n[i].offset \in Nat
              /\ n[i].offset + n[i].size <= bucket_size
              /\ g = "mooncake" => z[n[i].name] <= bucket_size
  <2>1. CASE i \in 1..l
    BY <2>1, <1>4 DEF Packed, l
  <2>2. CASE i = l + 1
    <3>1. n[i] = e
      BY <2>2, <1>4
    <3>2. IsChunk(z, e)
      BY <1>2 DEF IsChunk
    <3>3. f + c.size <= bucket_size /\ c.size <= bucket_size
      BY <1>1, <1>2, Constants DEF f
    <3> QED
      BY <3>1, <3>2, <3>3, <1>1, <1>2
  <2> QED
    BY <2>1, <2>2, <1>5
<1>11. n[1].offset = 0
  <2>1. m = <<>> => n[1].offset = 0
    BY <1>9, <1>2
  <2>2. m # <<>> => n[1].offset = 0
    BY <1>8 DEF Packed
  <2> QED
    BY <2>1, <2>2
<1>12. ASSUME NEW i \in 1..l + 1, NEW j \in 1..l + 1, i < j
       PROVE  /\ n[i].offset + n[i].size <= n[j].offset
              /\ n[i].at + n[i].size = z[n[i].name]
              /\ n[j].name = n[i].name + (j - i) /\ n[j].at = 0
  <2>1. i \in 1..l /\ n[i] = m[i]
    BY <1>1, <1>4, <1>12
  <2>2. CASE j \in 1..l
    BY <2>1, <2>2, <1>4, <1>12 DEF Packed, l
  <2>3. CASE j = l + 1
    <3>1. n[j] = e /\ m # <<>>
      BY <2>1, <2>3, <1>1, <1>4, <1>9
    <3>2. m[i].name \in Nat /\ m[l].name \in Nat /\ l \in 1..l
      BY <2>1, <3>1, EntryFields DEF l
    <3>3. m[i].at + m[i].size = z[m[i].name] /\ m[l].name = m[i].name + (l - i)
      <4>1. CASE i = l
        BY <4>1, <3>1, <3>2, <1>7, <1>1
      <4>2. CASE i < l
        BY <4>2, <2>1, <3>2 DEF Packed, l
      <4> QED
        BY <4>1, <4>2, <2>1, <1>1
    <3>4. e.name = m[i].name + (j - i)
      <4>1. e.name = m[l].name + 1
        BY <3>1, <1>7, <1>2
      <4>2. i \in Nat /\ l \in Nat /\ j = l + 1
        BY <2>1, <2>3, <1>1
      <4>3. PICK v \in Nat, w \in Nat : v = m[i].name /\ w = m[l].name
        BY <3>2
      <4>4. e.name = w + 1 /\ w = v + (l - i)
        BY <3>3, <4>1, <4>3
      <4>5. e.name = v + (j - i)
        BY <4>2, <4>3, <4>4
      <4> QED
        BY <4>3, <4>5
    <3> QED
      BY <2>1, <3>1, <3>3, <3>4, <1>1, <1>2, <1>7
  <2> QED
    BY <2>2, <2>3, <1>5
<1>13. Packed(z, g, n)
  BY <1>4, <1>10, <1>11, <1>12 DEF Packed
<1> QED
  BY <1>4, <1>8, <1>9, <1>13 DEF n, l

-----------------------------------------------------------------------------
(* The contents of a buffer. *)

LEMMA NoPieces == \A b, rd : Intact(b, <<>>, rd) /\ IntactBut(b, <<>>, rd)
  BY DEF Intact, IntactBut

LEMMA IntactAll ==
  ASSUME NEW b, NEW m, NEW rd, Intact(b, m, rd)
  PROVE  IntactBut(b, m, rd)
  BY DEF Intact, IntactBut

\* Where the bytes of a piece of size n at f are.
LEMMA Offsets ==
  \A f, n, a, x \in Nat : x <= n - 1 /\ f + n <= bucket_size =>
     f + x \in 0..bucket_size - 1 /\ f + x \in f..f + n - 1 /\ a + (f + x) - f = a + x
  BY Constants

\* What one write into a buffer puts there, and that it keeps what lies before it.
Written(d, f, n, a, nm, rd) ==
  \A y \in 0..bucket_size - 1 : y \in f..f + n - 1 => d[y] = <<rd, nm, a + y - f>>
HoldsPiece(d, f, n, a, nm, rd) ==
  \A x \in 0..n - 1 : d[f + x] = <<rd, nm, a + x>>

LEMMA PieceWritten ==
  ASSUME NEW f \in Nat, NEW n \in Nat, NEW a \in Nat, f + n <= bucket_size,
         NEW d, NEW nm, NEW rd, Written(d, f, n, a, nm, rd)
  PROVE  HoldsPiece(d, f, n, a, nm, rd)
<1> SUFFICES ASSUME NEW x \in 0..n - 1
             PROVE  d[f + x] = <<rd, nm, a + x>>
  BY DEF HoldsPiece
<1>1. f + x \in 0..bucket_size - 1 /\ f + x \in f..f + n - 1 /\ a + (f + x) - f = a + x
  BY Constants
<1> QED
  BY <1>1 DEF Written

KeptOutside(b, d, o, c) ==
  \A y \in 0..bucket_size - 1 : y \notin o..o + c - 1 => d[y] = b[y]
KeptAt(b, d, f, n) ==
  \A x \in 0..n - 1 : d[f + x] = b[f + x]

LEMMA PieceKept ==
  ASSUME NEW f \in Nat, NEW n \in Nat, NEW o \in Nat, NEW c \in Nat,
         f + n <= o, o + c <= bucket_size, NEW b, NEW d, KeptOutside(b, d, o, c)
  PROVE  KeptAt(b, d, f, n)
<1> SUFFICES ASSUME NEW x \in 0..n - 1
             PROVE  d[f + x] = b[f + x]
  BY DEF KeptAt
<1>1. f + x \in 0..bucket_size - 1 /\ f + x \notin o..o + c - 1
  BY Constants
<1> QED
  BY <1>1 DEF KeptOutside

\* PackChunk: the new piece is written behind the others.
LEMMA IntactAppend ==
  ASSUME NEW z, NEW g, NEW m \in Seq(Entry), Packed(z, g, m), NEW b, NEW rd,
         Intact(b, m, rd), NEW e \in Entry, e.offset = Filled(m),
         e.offset + e.size <= bucket_size, NEW d,
         \A i \in 0..bucket_size - 1 :
            d[i] = IF i \in e.offset .. e.offset + e.size - 1
                   THEN <<rd, e.name, e.at + i - e.offset>> ELSE b[i]
  PROVE  Intact(d, Append(m, e), rd)
<1> PICK n, l : n = Append(m, e) /\ l = Len(m)
  OBVIOUS
<1>1. /\ e.name \in Nat /\ e.at \in Nat /\ e.size \in Nat /\ e.offset \in Nat
  BY DEF Entry
<1>2. /\ l \in Nat /\ Len(n) = l + 1 /\ n[l + 1] = e /\ \A i \in 1..l : n[i] = m[i]
  <2> HIDE DEF Entry
  <2> QED
    OBVIOUS
<1>3. \A i \in 1..l + 1 : i \in 1..l \/ i = l + 1
  BY <1>2
<1>8. \A y \in 0..bucket_size - 1 :
        /\ y \in e.offset..e.offset + e.size - 1 => d[y] = <<rd, e.name, e.at + y - e.offset>>
        /\ y \notin e.offset..e.offset + e.size - 1 => d[y] = b[y]
  OBVIOUS
<1>4. ASSUME NEW i \in 1..l, NEW x \in 0..m[i].size - 1
      PROVE  d[m[i].offset + x] = <<rd, m[i].name, m[i].at + x>>
  <2>1. PICK f \in Nat, k \in Nat, o \in Nat, c \in Nat :
          /\ f = m[i].offset /\ k = m[i].size /\ o = e.offset /\ c = e.size
          /\ f + k <= o /\ o + c <= bucket_size
    BY <1>1, EntryFields, FilledFacts
  <2>2. KeptOutside(b, d, o, c)
    BY <1>8, <2>1 DEF KeptOutside
  <2>5. KeptAt(b, d, f, k)
    BY <2>1, <2>2, PieceKept
  <2>3. \A y \in 0..k - 1 : d[f + y] = b[f + y]
    BY <2>5 DEF KeptAt
  <2>4. b[m[i].offset + x] = <<rd, m[i].name, m[i].at + x>>
    BY DEF Intact
  <2> QED
    BY <2>1, <2>3, <2>4
<1>5. ASSUME NEW x \in 0..e.size - 1
      PROVE  d[e.offset + x] = <<rd, e.name, e.at + x>>
  <2>1. PICK f \in Nat, k \in Nat, a \in Nat :
          f = e.offset /\ k = e.size /\ a = e.at /\ f + k <= bucket_size
    BY <1>1
  <2>2. Written(d, f, k, a, e.name, rd)
    BY <1>8, <2>1 DEF Written
  <2>4. HoldsPiece(d, f, k, a, e.name, rd)
    BY <2>1, <2>2, PieceWritten
  <2>3. \A y \in 0..k - 1 : d[f + y] = <<rd, e.name, a + y>>
    BY <2>4 DEF HoldsPiece
  <2> QED
    BY <2>1, <2>3
<1>6. ASSUME NEW i \in 1..l + 1, NEW x \in 0..n[i].size - 1
      PROVE  d[n[i].offset + x] = <<rd, n[i].name, n[i].at + x>>
  <2>1. CASE i \in 1..l
    BY <1>2, <1>4, <2>1
  <2>2. CASE i = l + 1
    BY <1>2, <1>5, <2>2
  <2> QED
    BY <1>3, <2>1, <2>2
<1>7. Intact(d, n, rd)
  BY <1>2, <1>6 DEF Intact
<1> QED
  BY <1>7

\* ReadBucket: what the pieces occupy is copied.
LEMMA IntactCopy ==
  ASSUME NEW z, NEW g, NEW m \in Seq(Entry), Packed(z, g, m), NEW b, NEW rd,
         Intact(b, m, rd), NEW d, NEW a,
         d = [i \in Bytes |-> IF i < Filled(m) THEN b[i] ELSE a[i]]
  PROVE  Intact(d, m, rd)
<1> SUFFICES ASSUME NEW i \in 1..Len(m), NEW x \in 0..m[i].size - 1
             PROVE  d[m[i].offset + x] = <<rd, m[i].name, m[i].at + x>>
  BY DEF Intact
<1>1. m[i].offset \in Nat /\ m[i].size \in Nat /\ m[i].offset + m[i].size <= Filled(m)
      /\ Filled(m) \in Nat /\ Filled(m) <= bucket_size
  BY EntryFields, FilledFacts
<1>2. PICK y \in Int : y = m[i].offset + x /\ y >= 0 /\ y < Filled(m)
  BY <1>1
<1>3. y \in Bytes
  BY <1>1, <1>2, Constants DEF Bytes
<1>4. d[y] = b[y]
  BY <1>2, <1>3
<1>5. b[m[i].offset + x] = <<rd, m[i].name, m[i].at + x>>
  BY DEF Intact
<1> QED
  BY <1>2, <1>4, <1>5

\* WriteMagic: the first byte is lost.
LEMMA MagicDamage ==
  ASSUME NEW m \in Seq(Entry), NEW b, NEW rd, IntactBut(b, m, rd),
         NEW d, d = [b EXCEPT ![0] = Magic]
  PROVE  IntactBut(d, m, rd)
<1> SUFFICES ASSUME NEW i \in 1..Len(m), NEW x \in 0..m[i].size - 1, m[i].offset + x # 0
             PROVE  d[m[i].offset + x] = <<rd, m[i].name, m[i].at + x>>
  BY DEF IntactBut
<1>1. b[m[i].offset + x] = <<rd, m[i].name, m[i].at + x>>
  BY DEF IntactBut
<1>2. \A y : y # 0 /\ b[y] = <<rd, m[i].name, m[i].at + x>> => d[y] = b[y]
  OBVIOUS
<1> QED
  BY <1>1, <1>2

\* A magic word is not the beginning of a bucket.
LEMMA MagicSeen ==
  ASSUME NEW z, NEW g, NEW m \in Seq(Entry), Packed(z, g, m), m # <<>>, NEW b,
         NEW rd \in Nat, Intact(b, m, rd)
  PROVE  b[0] # Magic
<1>1. /\ 1 \in 1..Len(m) /\ m[1].size \in Nat /\ m[1].at \in Nat
      /\ m[1].offset = 0 /\ m[1].size >= 1
  BY EntryFields DEF Packed, IsChunk
<1>2. 0 \in 0..m[1].size - 1
  BY <1>1
<1>3. b[m[1].offset + 0] = <<rd, m[1].name, m[1].at + 0>>
  BY <1>1, <1>2 DEF Intact
<1>4. b[0] = <<rd, m[1].name, m[1].at + 0>>
  BY <1>1, <1>3
<1> QED
  BY <1>4 DEF Magic

-----------------------------------------------------------------------------
(* Updates of the variables that are functions. *)

LEMMA BufferUpdate ==
  ASSUME NEW b, BufferShape(b), NEW r \in 0..R, NEW s \in {0, 1}, NEW v,
         Contents(v), NEW c, c = Put(b, r, s, v)
  PROVE  /\ BufferShape(c) /\ c[r][s] = v
         /\ \A q \in 0..R : \A t \in {0, 1} : q # r \/ t # s => c[q][t] = b[q][t]
<1>1. b = [q \in 0..R |-> [t \in {0, 1} |-> [i \in Bytes |-> b[q][t][i]]]]
  BY DEF BufferShape
<1>2. DOMAIN b = 0..R /\ \A q \in 0..R : DOMAIN b[q] = {0, 1}
  BY <1>1
<1>3. /\ DOMAIN c = 0..R
      /\ c[r] = [b[r] EXCEPT ![s] = v]
      /\ \A q \in 0..R : q # r => c[q] = b[q]
  BY <1>2 DEF Put
<1>4. c[r][s] = v /\ \A t \in {0, 1} : t # s => c[r][t] = b[r][t]
  BY <1>2, <1>3
<1>5. \A q \in 0..R : DOMAIN c[q] = {0, 1}
  BY <1>2, <1>3
<1>6. \A q \in 0..R : \A t \in {0, 1} : q # r \/ t # s => c[q][t] = b[q][t]
  BY <1>3, <1>4
<1>7. \A q \in 0..R : \A t \in {0, 1} : b[q][t] = [i \in Bytes |-> b[q][t][i]]
  BY <1>1
<1>8. \A q \in 0..R : \A t \in {0, 1} : c[q][t] = [i \in Bytes |-> c[q][t][i]]
  <2> DEFINE w(x) == [i \in Bytes |-> x[i]]
  <2>1. v = w(v) /\ \A q \in 0..R : \A t \in {0, 1} : b[q][t] = w(b[q][t])
    BY <1>7 DEF Contents
  <2> HIDE DEF w
  <2>2. \A q \in 0..R : \A t \in {0, 1} : c[q][t] = w(c[q][t])
    BY <1>4, <1>6, <2>1
  <2> QED
    BY <2>2 DEF w
<1>9. \A q \in 0..R : c[q] = [t \in {0, 1} |-> [i \in Bytes |-> c[q][t][i]]]
  <2> TAKE q \in 0..R
  <2> DEFINE w == [t \in {0, 1} |-> [i \in Bytes |-> c[q][t][i]]]
  <2>1. \A t \in {0, 1} : w[t] = c[q][t]
    BY <1>8
  <2>2. c[q] = [t \in {0, 1} |-> c[q][t]]
    <3>1. CASE q = r
      <4>1. b[r] = [t \in {0, 1} |-> b[r][t]]
        BY <1>1
      <4> QED
        BY <3>1, <4>1, <1>3
    <3>2. CASE q # r
      <4>1. b[q] = [t \in {0, 1} |-> b[q][t]]
        BY <1>1
      <4> QED
        BY <3>2, <4>1, <1>3
    <3> QED
      BY <3>1, <3>2
  <2> QED
    BY <2>1, <2>2
<1>10. c = [q \in 0..R |-> c[q]]
  BY <1>1 DEF Put
<1>11. BufferShape(c)
  <2> DEFINE w(q) == [t \in {0, 1} |-> [i \in Bytes |-> c[q][t][i]]]
  <2>1. \A q \in 0..R : c[q] = w(q)
    BY <1>9
  <2> HIDE DEF w
  <2>2. c = [q \in 0..R |-> w(q)]
    BY <1>10, <2>1
  <2> QED
    BY <2>2 DEF w, BufferShape
<1> QED
  BY <1>4, <1>6, <1>11

\* The same for the buffers as one write leaves them.
Updated(b, r, s, v, c) ==
  /\ BufferShape(c) /\ c[r][s] = v
  /\ \A q \in 0..R : \A t \in {0, 1} : q # r \/ t # s => c[q][t] = b[q][t]

LEMMA BufferWrite ==
  ASSUME NEW b, BufferShape(b), NEW r \in 0..R, NEW s \in {0, 1}, NEW v, Contents(v)
  PROVE  Updated(b, r, s, v, Put(b, r, s, v))
<1> PICK c : c = Put(b, r, s, v)
  OBVIOUS
<1>1. Updated(b, r, s, v, c)
  BY BufferUpdate DEF Updated
<1> QED
  BY <1>1

LEMMA BufferContents ==
  ASSUME NEW b, BufferShape(b), NEW r \in 0..R, NEW s \in {0, 1}
  PROVE  Contents(b[r][s])
<1> DEFINE w(q, t) == [i \in Bytes |-> b[q][t][i]]
<1>1. b = [q \in 0..R |-> [t \in {0, 1} |-> w(q, t)]]
  BY DEF BufferShape
<1>2. b[r][s] = w(r, s)
  <2> HIDE DEF w
  <2> QED
    BY <1>1
<1> QED
  BY <1>2 DEF Contents

LEMMA ShapeUpdates ==
  ASSUME NEW r \in Ranks
  PROVE  /\ \A m, v : MergeShape(m) /\ v = [name |-> v.name, offset |-> v.offset,
                                            bytes |-> v.bytes]
                      => MergeShape([m EXCEPT ![r] = v])
         /\ \A m, v : MergeShape(m) => MergeShape([m EXCEPT ![r].bytes = v])
         /\ \A b, v : IpcShape(b) /\ v = [i \in Bytes |-> v[i]] => IpcShape([b EXCEPT ![r] = v])
         /\ \A z, l, v : LoadedShape(z, l) /\ v = [t \in DOMAIN z |-> v[t]]
                         => LoadedShape(z, [l EXCEPT ![r] = v])
         /\ \A z, l, t, v : LoadedShape(z, l) => LoadedShape(z, [l EXCEPT ![r][t] = v])
<1>1. ASSUME NEW m, NEW v, MergeShape(m),
             v = [name |-> v.name, offset |-> v.offset, bytes |-> v.bytes]
      PROVE  MergeShape([m EXCEPT ![r] = v])
  <2> DEFINE c == [m EXCEPT ![r] = v]
             w(x) == [name |-> x.name, offset |-> x.offset, bytes |-> x.bytes]
  <2>1. m = [q \in Ranks |-> w(m[q])] /\ v = w(v)
    BY <1>1 DEF MergeShape
  <2>2. \A q \in Ranks : c[q] = w(c[q])
    <3> HIDE DEF w
    <3>1. \A q \in Ranks : m[q] = w(m[q])
      BY <2>1
    <3>2. c[r] = v /\ \A q \in Ranks : q # r => c[q] = m[q]
      BY <2>1
    <3> QED
      BY <2>1, <3>1, <3>2
  <2>3. c = [q \in Ranks |-> c[q]]
    <3> HIDE DEF w
    <3> QED
      BY <2>1
  <2>4. c = [q \in Ranks |-> w(c[q])]
    <3> HIDE DEF w
    <3> QED
      BY <2>2, <2>3
  <2> QED
    BY <2>4 DEF MergeShape
<1>2. ASSUME NEW m, NEW v, MergeShape(m) PROVE MergeShape([m EXCEPT ![r].bytes = v])
  <2> DEFINE u == [m[r] EXCEPT !.bytes = v]
  <2>1. m[r] = [name |-> m[r].name, offset |-> m[r].offset, bytes |-> m[r].bytes]
    BY <1>2 DEF MergeShape
  <2>2. u = [name |-> u.name, offset |-> u.offset, bytes |-> u.bytes]
    BY <2>1
  <2>3. [m EXCEPT ![r].bytes = v] = [m EXCEPT ![r] = u]
    OBVIOUS
  <2> HIDE DEF u
  <2> QED
    BY <1>1, <1>2, <2>2, <2>3
<1>3. ASSUME NEW b, NEW v, IpcShape(b), v = [i \in Bytes |-> v[i]]
      PROVE  IpcShape([b EXCEPT ![r] = v])
  <2> DEFINE c == [b EXCEPT ![r] = v]
             w(x) == [i \in Bytes |-> x[i]]
  <2>1. b = [q \in Ranks |-> w(b[q])] /\ v = w(v)
    BY <1>3 DEF IpcShape
  <2> HIDE DEF w
  <2>2. \A q \in Ranks : c[q] = w(c[q])
    <3>1. \A q \in Ranks : b[q] = w(b[q])
      BY <2>1
    <3>2. c[r] = v /\ \A q \in Ranks : q # r => c[q] = b[q]
      BY <2>1
    <3> QED
      BY <2>1, <3>1, <3>2
  <2>3. c = [q \in Ranks |-> c[q]]
    BY <2>1
  <2>4. c = [q \in Ranks |-> w(c[q])]
    BY <2>2, <2>3
  <2> QED
    BY <2>4 DEF IpcShape, w
<1>4. ASSUME NEW z, NEW l, NEW v, LoadedShape(z, l), v = [t \in DOMAIN z |-> v[t]]
      PROVE  LoadedShape(z, [l EXCEPT ![r] = v])
  <2> DEFINE c == [l EXCEPT ![r] = v]
             w(x) == [t \in DOMAIN z |-> x[t]]
  <2>1. l = [q \in Ranks |-> w(l[q])] /\ v = w(v)
    BY <1>4 DEF LoadedShape
  <2> HIDE DEF w
  <2>2. \A q \in Ranks : c[q] = w(c[q])
    <3>1. \A q \in Ranks : l[q] = w(l[q])
      BY <2>1
    <3>2. c[r] = v /\ \A q \in Ranks : q # r => c[q] = l[q]
      BY <2>1
    <3> QED
      BY <2>1, <3>1, <3>2
  <2>3. c = [q \in Ranks |-> c[q]]
    BY <2>1
  <2>4. c = [q \in Ranks |-> w(c[q])]
    BY <2>2, <2>3
  <2> QED
    BY <2>4 DEF LoadedShape, w
<1>5. ASSUME NEW z, NEW l, NEW t, NEW v, LoadedShape(z, l)
      PROVE  LoadedShape(z, [l EXCEPT ![r][t] = v])
  <2> DEFINE u == [l[r] EXCEPT ![t] = v]
  <2>1. l[r] = [x \in DOMAIN z |-> l[r][x]]
    BY <1>5 DEF LoadedShape
  <2>2. u = [x \in DOMAIN z |-> u[x]]
    BY <2>1
  <2>3. [l EXCEPT ![r][t] = v] = [l EXCEPT ![r] = u]
    OBVIOUS
  <2> HIDE DEF u
  <2> QED
    BY <1>4, <1>5, <2>2, <2>3
<1> QED
  BY <1>1, <1>2, <1>3, <1>4, <1>5

-----------------------------------------------------------------------------
(* What the parts of the invariant say together. *)

LEMMA NoPieceIsPacked == \A z, g : Packed(z, g, <<>>)
  BY DEF Packed

LEMMA BucketFields ==
  ASSUME NEW s \in Seq(Bucket)
  PROVE  /\ Len(s) \in Nat /\ (s = <<>> <=> Len(s) = 0)
         /\ \A k \in 1..Len(s) : s[k].meta \in Seq(Entry) /\ s[k].is_last \in BOOLEAN
<1>1. Len(s) \in Nat /\ (s = <<>> <=> Len(s) = 0) /\ \A k \in 1..Len(s) : s[k] \in Bucket
  <2> HIDE DEF Bucket
  <2> QED
    OBVIOUS
<1>2. \A x \in Bucket : x.meta \in Seq(Entry) /\ x.is_last \in BOOLEAN
  BY DEF Bucket
<1> QED
  BY <1>1, <1>2

LEMMA Counters ==
  ASSUME Types, Ledger, Pace, NEW r \in Ranks
  PROVE  /\ r \in Nat /\ r >= 1 /\ r <= R /\ r \in 0..R /\ r - 1 \in 0..R
         /\ Len(sent) \in Nat /\ round \in Nat /\ round >= 1
         /\ have[r] \in 0..Len(sent) /\ moved[r] \in Nat /\ moved[r] <= Len(sent)
         /\ yielded[r] \in Nat /\ offered[r] \in Nat /\ returned[r] \in Nat
         /\ Meta(r) \in Seq(Entry) /\ Packed(sizes, engine, Meta(r))
         /\ yielded[r] \in 0..Len(Meta(r))
         /\ have[r] > 0 => have[r] \in 1..Len(sent) /\ Meta(r) = sent[have[r]].meta
         /\ have[r] = 0 => Meta(r) = <<>> /\ yielded[r] = 0
<1>1. r \in Nat /\ r >= 1 /\ r <= R /\ r \in 0..R /\ r - 1 \in 0..R
  BY Constants DEF Ranks
<1>2. /\ Len(sent) \in Nat /\ \A k \in 1..Len(sent) : sent[k].meta \in Seq(Entry)
  BY BucketFields DEF Types
<1>3. round \in Nat /\ round >= 1
  BY Constants DEF Types
<1>4. /\ have[r] \in Nat /\ moved[r] \in Nat /\ yielded[r] \in Nat /\ offered[r] \in Nat
      /\ returned[r] \in Nat
  BY DEF Types
<1>5. have[r] <= moved[r] /\ moved[r] <= Len(sent) /\ yielded[r] <= Len(Meta(r))
  BY DEF Pace
<1>6. have[r] \in 0..Len(sent)
  BY <1>2, <1>4, <1>5
<1>7. CASE have[r] = 0
  <2>1. Meta(r) = <<>> /\ Len(Meta(r)) = 0
    BY <1>7 DEF Meta
  <2>2. yielded[r] = 0
    BY <2>1, <1>4, <1>5
  <2>3. <<>> \in Seq(Entry)
    <3> HIDE DEF Entry
    <3> QED
      OBVIOUS
  <2> QED
    BY <1>1, <1>2, <1>3, <1>4, <1>5, <1>6, <1>7, <2>1, <2>2, <2>3, NoPieceIsPacked
<1>8. CASE have[r] > 0
  <2>1. have[r] \in 1..Len(sent) /\ have[r] # 0
    BY <1>2, <1>6, <1>8
  <2>2. Meta(r) = sent[have[r]].meta /\ Meta(r) \in Seq(Entry)
    BY <1>2, <2>1 DEF Meta
  <2>3. Packed(sizes, engine, Meta(r))
    BY <2>1, <2>2 DEF Ledger
  <2>4. yielded[r] \in 0..Len(Meta(r))
    BY <2>2, <1>4, <1>5, EntryFields
  <2> QED
    BY <1>1, <1>2, <1>3, <1>4, <1>5, <1>6, <1>8, <2>1, <2>2, <2>3, <2>4
<1> QED
  BY <1>4, <1>7, <1>8

LEMMA CounterTypes ==
  ASSUME Types
  PROVE  /\ have \in [Ranks -> Nat] /\ moved \in [Ranks -> Nat] /\ reading \in [Ranks -> BOOLEAN]
         /\ yielded \in [Ranks -> Nat] /\ offered \in [Ranks -> Nat]
         /\ returned \in [Ranks -> Nat] /\ BufferShape(buf)
  BY DEF Types

\* The setup stays, and with it everything derived from it.
LEMMA SetupKept ==
  ASSUME setup' = setup
  PROVE  engine' = engine /\ sizes' = sizes /\ Names' = Names /\ Chunks' = Chunks
<1>1. engine' = engine /\ sizes' = sizes
  BY DEF engine, sizes
<1>2. Names' = Names
  BY <1>1 DEF Names
<1>3. Chunks' = Chunks
  BY <1>1, <1>2 DEF Chunks, ChunksOf
<1> QED
  BY <1>1, <1>2, <1>3

\* A step that leaves the bookkeeping of rank 0 alone, or stops the job.
LEMMA SenderKept ==
  ASSUME Ledger, Marks, UNCHANGED <<setup, next, bucket_meta, sent, reclaim>>,
         trainer' = trainer \/ trainer' = "raised"
  PROVE  Ledger' /\ Marks'
<1>1. sizes' = sizes /\ engine' = engine /\ Chunks' = Chunks
  BY SetupKept
<1>2. Ledger'
  BY <1>1 DEF Ledger
<1>3. Marks'
  BY <1>1 DEF Marks
<1> QED
  BY <1>2, <1>3

\* A wider set of damaged tensors asks less.
LEMMA DamageGrows ==
  ASSUME NEW z, NEW rd, NEW x, NEW y, x \subseteq y,
         NEW im, NEW ib, NEW pd, NEW p, NEW it, NEW ld, NEW dn
  PROVE  /\ IpcOK(z, rd, x, im, ib, pd) => IpcOK(z, rd, y, im, ib, pd)
         /\ LoadedOK(z, rd, x, p, it, im, ld, dn) => LoadedOK(z, rd, y, p, it, im, ld, dn)
<1>1. IpcOK(z, rd, x, im, ib, pd) => IpcOK(z, rd, y, im, ib, pd)
  BY DEF IpcOK
<1>2. LoadedOK(z, rd, x, p, it, im, ld, dn) => LoadedOK(z, rd, y, p, it, im, ld, dn)
  BY DEF LoadedOK
<1> QED
  BY <1>1, <1>2

\* What is sent only grows.
SentGrows ==
    Len(sent') \in Nat /\ Len(sent) <= Len(sent') /\ \A k \in 1..Len(sent) : sent'[k] = sent[k]

LEMMA DamagedGrows ==
  ASSUME Types, SentGrows, setup' = setup, NEW r \in Ranks
  PROVE  Damaged(r) \subseteq Damaged(r)'
<1>1. Len(sent) \in Nat
  BY BucketFields DEF Types
<1>2. engine' = engine
  BY SetupKept
<1>3. \A k \in 1..Len(sent) : k \in 1..Len(sent') /\ sent'[k] = sent[k]
  BY <1>1 DEF SentGrows
<1> QED
  BY <1>2, <1>3 DEF Damaged

LEMMA PositionKept ==
  ASSUME Types, Ledger, Pace, SentGrows, setup' = setup, NEW r \in Ranks,
         have'[r] = have[r], yielded'[r] = yielded[r]
  PROVE  Meta(r)' = Meta(r) /\ Pos(r)' = Pos(r)
<1>1. /\ have[r] \in 0..Len(sent) /\ Len(sent) \in Nat
      /\ have[r] > 0 => have[r] \in 1..Len(sent)
  BY Counters
<1>2. sizes' = sizes
  BY SetupKept
<1>3. Meta(r)' = Meta(r)
  BY <1>1 DEF Meta, SentGrows
<1>4. ASSUME have[r] > 0 PROVE After(sizes, sent', have[r] - 1) = After(sizes, sent, have[r] - 1)
  <2>1. have[r] - 1 < 1 \/ have[r] - 1 \in 1..Len(sent)
    BY <1>1
  <2> QED
    BY <2>1 DEF After, SentGrows
<1>5. have[r] > 0 => sent'[have[r]] = sent[have[r]]
  BY <1>1 DEF SentGrows
<1>6. Pos(r)' = Position(sizes, sent', have[r], yielded[r])
  BY <1>2 DEF Pos
<1>7. have[r] = 0 \/ have[r] > 0
  BY <1>1
<1>8. Pos(r)' = Pos(r)
  BY <1>4, <1>5, <1>6, <1>7 DEF Pos, Position
<1> QED
  BY <1>3, <1>8

\* A rank that does nothing keeps what it has in hand.
LEMMA HandKept ==
  ASSUME Types, Ledger, Pace, SentGrows, setup' = setup, round' = round,
         NEW r \in Ranks, Hand(r),
         have'[r] = have[r], yielded'[r] = yielded[r], merge'[r] = merge[r], item'[r] = item[r],
         pending'[r] = pending[r], ipc_meta'[r] = ipc_meta[r], ipc_buf'[r] = ipc_buf[r],
         loaded'[r] = loaded[r], done'[r] = done[r]
  PROVE  Hand(r)'
<1>1. Meta(r)' = Meta(r) /\ Pos(r)' = Pos(r) /\ Damaged(r) \subseteq Damaged(r)'
  BY PositionKept, DamagedGrows
<1>2. sizes' = sizes
  BY SetupKept
<1>3. IpcOK(sizes, round, Damaged(r)', ipc_meta[r], ipc_buf[r], pending[r])
      /\ LoadedOK(sizes, round, Damaged(r)', Pos(r), item[r], ipc_meta[r], loaded[r], done[r])
  <2>1. IpcOK(sizes, round, Damaged(r), ipc_meta[r], ipc_buf[r], pending[r])
        /\ LoadedOK(sizes, round, Damaged(r), Pos(r), item[r], ipc_meta[r], loaded[r], done[r])
    BY DEF Hand
  <2>2. \A x, y : x \subseteq y =>
          /\ IpcOK(sizes, round, x, ipc_meta[r], ipc_buf[r], pending[r])
             => IpcOK(sizes, round, y, ipc_meta[r], ipc_buf[r], pending[r])
          /\ LoadedOK(sizes, round, x, Pos(r), item[r], ipc_meta[r], loaded[r], done[r])
             => LoadedOK(sizes, round, y, Pos(r), item[r], ipc_meta[r], loaded[r], done[r])
    BY DamageGrows
  <2> QED
    BY <1>1, <2>1, <2>2
<1> QED
  BY <1>1, <1>2, <1>3 DEF Hand

-----------------------------------------------------------------------------
(* The steps of rank 0. *)

LEMMA ConsumerKept ==
  ASSUME Types, Ledger, Pace, Hands, SentGrows, setup' = setup, round' = round,
         have' = have, yielded' = yielded, consumer' = consumer
  PROVE  Hands'
<1>1. \A r \in Ranks : Hand(r)
  BY DEF Hands
<1>2. \A r \in Ranks : Hand(r)'
  BY <1>1, HandKept DEF consumer
<1> QED
  BY <1>2 DEF Hands

LEMMA PackChunkStep == IInv /\ PackChunk => IInv'
<1> SUFFICES ASSUME IInv, PackChunk PROVE IInv'
  OBVIOUS
<1> DEFINE L == Len(sent)
           c == Chunks[next]
           o == Filled(bucket_meta)
           e == [name |-> c.name, at |-> c.at, size |-> c.size, offset |-> o]
           s == Slot(L + 1)
           v == [i \in Bytes |-> IF i \in o .. o + c.size - 1 THEN Byte(c.name, c.at + i - o)
                                 ELSE buf[0][s][i]]
<1>1. Types /\ Ledger /\ Marks /\ Pace /\ Buffers /\ Hands
  BY DEF IInv
<1>2. /\ trainer = "sending" /\ ~reclaim
      /\ next <= Len(Chunks) /\ o + c.size <= bucket_size
      /\ bucket_meta' = Append(bucket_meta, e)
      /\ buf' = [buf EXCEPT ![0][s] = v]
      /\ next' = next + 1
      /\ UNCHANGED <<setup, round, sent, trainer, reclaim, receiver, consumer>>
  BY DEF PackChunk, MayFill, Fits
<1>3. /\ have' = have /\ moved' = moved /\ reading' = reading /\ yielded' = yielded
      /\ offered' = offered /\ returned' = returned
      /\ UNCHANGED <<merge, item, pending, ipc_meta, ipc_buf, loaded, done>>
  BY <1>2 DEF receiver, consumer
<1>4. /\ engine' = engine /\ sizes' = sizes /\ Names' = Names /\ Chunks' = Chunks
  BY <1>2, SetupKept
<1>5. /\ L \in Nat /\ bucket_meta \in Seq(Entry) /\ setup \in Setups /\ sizes \in Seq(Nat \ {0})
      /\ Len(Chunks) \in Nat /\ next \in 1..Len(Chunks) /\ round \in Nat
  BY <1>1, <1>2, BucketFields, SetupFacts, ChunkFacts, Constants DEF Types
<1>6. /\ IsChunk(sizes, c) /\ c \in [name : Nat, at : Nat, size : Nat]
      /\ engine = "mooncake" => c.size = sizes[c.name]
      /\ Follow(sizes, c) = Due(sizes, Chunks, next + 1)
  BY <1>5, ChunkFacts
<1>7. Due(sizes, Chunks, next) = Place(c)
  BY <1>2 DEF Due
<1>8. Packed(sizes, engine, bucket_meta) /\ (bucket_meta # <<>> => Place(c) = Follow(sizes, bucket_meta[Len(bucket_meta)]))
      /\ (bucket_meta = <<>> => Place(c) = After(sizes, sent, L))
  BY <1>1, <1>7 DEF Ledger
<1>9. /\ bucket_meta' \in Seq(Entry) /\ bucket_meta' # <<>>
      /\ Len(bucket_meta') = Len(bucket_meta) + 1 /\ Packed(sizes, engine, bucket_meta')
      /\ bucket_meta'[Len(bucket_meta) + 1] = e
      /\ bucket_meta # <<>> => bucket_meta'[1] = bucket_meta[1]
      /\ bucket_meta = <<>> => bucket_meta'[1] = e
  <2>1. e = Piece(c, Filled(bucket_meta))
    BY DEF Piece
  <2>2. Filled(bucket_meta) + c.size <= bucket_size /\ bucket_meta' = Append(bucket_meta, e)
    BY <1>2
  <2> HIDE DEF c, e, o
  <2> QED
    BY <2>1, <2>2, <1>5, <1>6, <1>8, PackedAppend
<1>10. e \in Entry /\ e.offset = o /\ e.size = c.size /\ e.name = c.name /\ e.at = c.at
  BY <1>5, <1>6, <1>8, FilledFacts DEF Entry
<1>11. Place(e) = Place(c) /\ Follow(sizes, e) = Follow(sizes, c)
  BY <1>10 DEF Place, Follow
<1>12. /\ BufferShape(buf') /\ buf'[0][s] = v
       /\ \A q \in 0..R : \A t \in {0, 1} : q # 0 \/ t # s => buf'[q][t] = buf[q][t]
  <2>1. Contents(v)
    BY DEF Contents
  <2>2. BufferShape(buf) /\ 0 \in 0..R /\ s \in {0, 1}
    BY <1>1, <1>5, Constants, Slots DEF Types
  <2>3. buf' = Put(buf, 0, s, v)
    BY <1>2 DEF Put
  <2> HIDE DEF v, s
  <2> QED
    BY <2>1, <2>2, <2>3, BufferUpdate
<1> HIDE DEF v, e, o, c
<1>13. Types'
  <2>1. next' \in 1..Len(Chunks) + 1
    BY <1>2, <1>5
  <2> QED
    BY <1>1, <1>2, <1>3, <1>4, <1>9, <1>12, <2>1 DEF Types, Ranks
<1>14. Ledger'
  <2>1. bucket_meta'[Len(bucket_meta')] = e
    BY <1>9
  <2>2. Due(sizes, Chunks, next') = Follow(sizes, bucket_meta'[Len(bucket_meta')])
    BY <1>2, <1>6, <1>11, <2>1
  <2>3. Place(bucket_meta'[1]) = After(sizes, sent, L)
    BY <1>1, <1>8, <1>9, <1>11 DEF Ledger
  <2> QED
    BY <1>1, <1>2, <1>4, <1>9, <2>2, <2>3 DEF Ledger
<1>15. Marks'
  <2>1. ASSUME NEW k \in 1..Len(sent) PROVE ~sent[k].is_last /\ sent[k].meta # <<>>
    <3>1. ~sent[k].is_last
      BY <1>1, <1>2 DEF Marks
    <3>2. ASSUME sent[k].meta = <<>> PROVE FALSE
      <4>1. bucket_meta = <<>> /\ next = 1 /\ (Len(Chunks) = 0 \/ Chunks[1].size > bucket_size)
        BY <1>1, <3>2 DEF Marks
      <4>2. Chunks[1].size > bucket_size /\ c = Chunks[1]
        BY <4>1, <1>5 DEF c
      <4>3. o = 0 /\ c.size \in Nat
        BY <4>1, <1>6, <1>8, <1>5, FilledFacts DEF o
      <4> QED
        BY <4>2, <4>3, <1>2, Constants
    <3> QED
      BY <3>1, <3>2
  <2> QED
    BY <1>1, <1>2, <1>4, <1>9, <2>1 DEF Marks
<1>16. Pace'
  BY <1>1, <1>2, <1>3, <1>4 DEF Pace, Meta, Offered, Source
<1>17. Buffers'
  <2>1. Intact(v, bucket_meta', round)
    <3>1. Intact(buf[0][s], bucket_meta, round)
      BY <1>1 DEF Buffers
    <3>2. PICK b, w : b = buf[0][s] /\ w = v
      OBVIOUS
    <3>3. \A i \in 0..bucket_size - 1 :
            w[i] = IF i \in e.offset .. e.offset + e.size - 1
                   THEN <<round, e.name, e.at + i - e.offset>> ELSE b[i]
      BY <1>10, <3>2 DEF v, Byte, Bytes
    <3>4. e.offset + e.size <= bucket_size
      BY <1>2, <1>10
    <3> HIDE DEF s
    <3>5. Intact(w, Append(bucket_meta, e), round)
      BY <3>1, <3>2, <3>3, <3>4, <1>2, <1>5, <1>8, <1>10, IntactAppend DEF o
    <3> QED
      BY <1>2, <1>5, <1>8, <1>10, <3>2, <3>5
  <2>2. \A r \in Ranks : \A t \in {0, 1} : buf'[r][t] = buf[r][t]
    <3>1. \A r \in Ranks : r \in 0..R /\ r # 0
      BY Constants DEF Ranks
    <3> QED
      BY <1>12, <3>1
  <2>3. L > 0 => buf'[0][Slot(L)] = buf[0][Slot(L)]
    <3>1. Slot(L) \in {0, 1} /\ Slot(L) # s
      BY <1>5, Slots
    <3>2. 0 \in 0..R
      BY Constants
    <3> QED
      BY <1>12, <3>1, <3>2
  <2>4. Intact(buf'[0][Slot(Len(sent') + 1)], bucket_meta', round')
    BY <1>2, <1>12, <2>1
  <2>5. \A r \in Ranks : have[r] \in 0..Len(sent) /\ moved[r] \in Nat
    BY <1>1, Counters
  <2>6. \A k \in Nat : Slot(k) \in {0, 1}
    BY Slots
  <2>7. CASE engine # "mooncake"
    <3>1. sent # <<>> => Intact(buf'[0][Slot(L)], sent[L].meta, round)
      <4>1. sent # <<>> => L > 0
        BY <1>1, <1>5, BucketFields DEF Types
      <4> QED
        BY <1>1, <2>3, <2>7, <4>1 DEF Buffers
    <3>2. ASSUME NEW r \in Ranks
          PROVE  /\ have[r] > 0 => Intact(buf'[r][Slot(have[r])], Meta(r), round)
                 /\ moved[r] > have[r] =>
                      Intact(buf'[r][Slot(moved[r])], sent[moved[r]].meta, round)
      BY <1>1, <2>2, <2>5, <2>6, <2>7 DEF Buffers
    <3> QED
      BY <2>4, <2>7, <3>1, <3>2, <1>2, <1>3, <1>4 DEF Buffers, Meta
  <2>8. CASE engine = "mooncake"
    <3>1. ASSUME NEW k \in 1..L, returned[1] < k
          PROVE  Intact(buf'[0][Slot(k)], sent[k].meta, round)
      <4>1. returned[1] >= L - 1 /\ returned[1] \in Nat
        <5>1. 1 \in Ranks
          BY Constants DEF Ranks
        <5> QED
          BY <5>1, <1>1, <1>2, <2>8, Counters DEF Pace
      <4>2. k = L /\ L > 0
        BY <3>1, <4>1, <1>5
      <4> QED
        BY <1>1, <2>3, <2>8, <3>1, <4>2 DEF Buffers
    <3>2. ASSUME NEW r \in Ranks, r < R, NEW k \in 1..have[r], returned[r + 1] < k
          PROVE  Intact(buf'[r][Slot(k)], sent[k].meta, round)
      <4>1. k \in Nat
        BY <2>5
      <4> QED
        BY <1>1, <2>2, <2>6, <2>8, <3>2, <4>1 DEF Buffers
    <3>3. ASSUME NEW r \in Ranks, have[r] > 0
          PROVE  IF r < R THEN IntactBut(buf'[r][Slot(have[r])], Meta(r), round)
                 ELSE Intact(buf'[r][Slot(have[r])], Meta(r), round)
      <4>1. have[r] \in Nat
        BY <2>5
      <4> QED
        BY <1>1, <2>2, <2>6, <2>8, <3>3, <4>1 DEF Buffers
    <3> QED
      BY <2>4, <2>8, <3>1, <3>2, <3>3, <1>2, <1>3, <1>4 DEF Buffers, Meta
  <2> QED
    BY <2>7, <2>8
<1>18. Hands'
  BY <1>1, <1>2, <1>3, <1>5, ConsumerKept DEF SentGrows
<1> QED
  BY <1>13, <1>14, <1>15, <1>16, <1>17, <1>18 DEF IInv

\* A bucket goes out: what follows it is what comes next.
LEMMA HandOverLedger ==
  ASSUME Types, Ledger, Marks, UNCHANGED <<setup, next>>, NEW l \in BOOLEAN,
         bucket_meta = <<>> => sent = <<>>,
         sent' = Append(sent, [meta |-> bucket_meta, is_last |-> l]), bucket_meta' = <<>>
  PROVE  /\ Ledger' /\ sent' \in Seq(Bucket) /\ bucket_meta' \in Seq(Entry)
         /\ Len(sent) \in Nat /\ Len(sent') = Len(sent) + 1 /\ sent' # <<>> /\ SentGrows
         /\ sent'[Len(sent) + 1].meta = bucket_meta /\ sent'[Len(sent) + 1].is_last = l
         /\ After(sizes, sent', Len(sent) + 1) = Due(sizes, Chunks, next)
<1> DEFINE L == Len(sent)
           x == [meta |-> bucket_meta, is_last |-> l]
<1>1. x \in Bucket /\ x.meta = bucket_meta /\ x.is_last = l
  BY DEF Bucket, Types
<1>2. /\ L \in Nat /\ sent' \in Seq(Bucket) /\ Len(sent') = L + 1 /\ sent' # <<>>
      /\ sent'[L + 1] = x /\ \A k \in 1..L : sent'[k] = sent[k]
      /\ sent = <<>> => L = 0
  <2>1. sent \in Seq(Bucket) /\ sent' = Append(sent, x)
    BY DEF Types
  <2> HIDE DEF Bucket, x
  <2> QED
    BY <1>1, <2>1
<1>3. SentGrows
  BY <1>2 DEF SentGrows
<1>4. sizes' = sizes /\ engine' = engine /\ Chunks' = Chunks
  BY SetupKept
<1>5. bucket_meta' \in Seq(Entry)
  <2> HIDE DEF Entry
  <2> QED
    OBVIOUS
<1> HIDE DEF x, L
<1>6. \A k \in Int : k <= L => After(sizes, sent', k) = After(sizes, sent, k)
  <2> SUFFICES ASSUME NEW k \in Int, k <= L PROVE After(sizes, sent', k) = After(sizes, sent, k)
    OBVIOUS
  <2>1. k < 1 \/ k \in 1..L
    BY <1>2
  <2> QED
    BY <1>2, <2>1 DEF After
<1>7. After(sizes, sent', L + 1) = Due(sizes, Chunks, next)
  <2>1. ~(L + 1 < 1) /\ sent'[L + 1].meta = bucket_meta
    BY <1>1, <1>2
  <2>2. CASE bucket_meta = <<>>
    <3>1. After(sizes, sent', L + 1) = First
      BY <2>1, <2>2 DEF After
    <3>2. After(sizes, sent, L) = First
      BY <2>2, <1>2 DEF After
    <3> QED
      BY <2>2, <3>1, <3>2 DEF Ledger, L
  <2>3. CASE bucket_meta # <<>>
    <3>1. After(sizes, sent', L + 1) = Follow(sizes, bucket_meta[Len(bucket_meta)])
      BY <2>1, <2>3 DEF After
    <3> QED
      BY <2>3, <3>1 DEF Ledger
  <2> QED
    BY <2>2, <2>3
<1>8. Ledger'
  <2>1. ASSUME NEW k \in 1..L + 1
        PROVE  /\ Packed(sizes, engine, sent'[k].meta)
               /\ sent'[k].meta # <<>> => Place(sent'[k].meta[1]) = After(sizes, sent', k - 1)
    <3>1. CASE k \in 1..L
      <4>1. k - 1 \in Int /\ k - 1 <= L
        BY <1>2
      <4>2. After(sizes, sent', k - 1) = After(sizes, sent, k - 1)
        BY <1>6, <4>1
      <4> QED
        BY <1>2, <3>1, <4>2 DEF Ledger, L
    <3>2. CASE k = L + 1
      <4>1. k - 1 = L /\ L \in Int /\ L <= L
        BY <1>2, <3>2
      <4>2. After(sizes, sent', k - 1) = After(sizes, sent, L)
        BY <1>6, <4>1
      <4>3. sent'[k].meta = bucket_meta
        BY <1>1, <1>2, <3>2
      <4> QED
        BY <4>2, <4>3 DEF Ledger, L
    <3> QED
      BY <1>2, <3>1, <3>2
  <2>2. Len(sent') = L + 1
    BY <1>2
  <2>3. Due(sizes, Chunks, next') = After(sizes, sent', Len(sent'))
    BY <1>7, <2>2
  <2> QED
    BY <1>4, <2>1, <2>2, <2>3, NoPieceIsPacked DEF Ledger
<1> QED
  BY <1>1, <1>2, <1>3, <1>5, <1>7, <1>8 DEF L

LEMMA HandOverBuffers ==
  ASSUME Types, Ledger, Pace, Buffers, setup' = setup, round' = round, buf' = buf,
         have' = have, moved' = moved, returned' = returned,
         SentGrows, Len(sent') = Len(sent) + 1, sent'[Len(sent) + 1].meta = bucket_meta,
         bucket_meta' = <<>>
  PROVE  Buffers'
<1> DEFINE L == Len(sent)
<1>1. L \in Nat /\ \A k \in 1..L : sent'[k] = sent[k]
  BY BucketFields DEF Types, SentGrows
<1>2. \A r \in Ranks : have[r] \in 0..L /\ moved[r] \in 0..L
  BY Counters
<1>3. \A r \in Ranks : have[r] > 0 => Meta(r)' = Meta(r)
  BY <1>1, <1>2 DEF Meta
<1>4. engine' = engine
  BY SetupKept
<1>5. Intact(buf[0][Slot(L + 1)], sent'[L + 1].meta, round)
  BY DEF Buffers
<1> HIDE DEF L
<1>6. CASE engine # "mooncake"
  <2>1. \A r \in Ranks :
          /\ have[r] > 0 => Intact(buf[r][Slot(have[r])], Meta(r)', round)
          /\ moved[r] > have[r] => Intact(buf[r][Slot(moved[r])], sent'[moved[r]].meta, round)
    <3> TAKE r \in Ranks
    <3>1. moved[r] > have[r] => moved[r] \in 1..L
      BY <1>1, <1>2
    <3> QED
      BY <1>1, <1>3, <1>6, <3>1 DEF Buffers
  <2> QED
    BY <1>4, <1>5, <1>6, <2>1, NoPieces DEF Buffers, L
<1>7. CASE engine = "mooncake"
  <2>1. \A k \in 1..L + 1 : returned[1] < k => Intact(buf[0][Slot(k)], sent'[k].meta, round)
    <3> TAKE k \in 1..L + 1
    <3>1. k \in 1..L \/ k = L + 1
      BY <1>1
    <3> QED
      BY <1>1, <1>5, <1>7, <3>1 DEF Buffers, L
  <2>2. \A r \in Ranks : r < R => \A k \in 1..have[r] :
          returned[r + 1] < k => Intact(buf[r][Slot(k)], sent'[k].meta, round)
    <3> TAKE r \in Ranks
    <3>1. \A k \in 1..have[r] : k \in 1..L
      BY <1>1, <1>2
    <3> QED
      BY <1>1, <1>7, <3>1 DEF Buffers
  <2>3. \A r \in Ranks : have[r] > 0 =>
          IF r < R THEN IntactBut(buf[r][Slot(have[r])], Meta(r)', round)
          ELSE Intact(buf[r][Slot(have[r])], Meta(r)', round)
    BY <1>3, <1>7 DEF Buffers
  <2> QED
    BY <1>4, <1>7, <2>1, <2>2, <2>3, NoPieces DEF Buffers, L
<1> QED
  BY <1>6, <1>7

LEMMA SendBucketStep == IInv /\ SendBucket => IInv'
<1> SUFFICES ASSUME IInv, SendBucket PROVE IInv'
  OBVIOUS
<1> DEFINE L == Len(sent)
<1>1. Types /\ Ledger /\ Marks /\ Pace /\ Buffers /\ Hands
  BY DEF IInv
<1>2. /\ trainer = "sending" /\ ~reclaim /\ next <= Len(Chunks)
      /\ ~Fits
      /\ bucket_meta # <<>> \/ sent = <<>>
      /\ engine # "mooncake" => Taken(L)
      /\ reclaim' = (engine = "mooncake" /\ sent # <<>>)
      /\ sent' = Append(sent, [meta |-> bucket_meta, is_last |-> FALSE])
      /\ bucket_meta' = <<>>
      /\ UNCHANGED <<setup, round, next, trainer, buf, receiver, consumer>>
  BY DEF SendBucket, MayFill, HandOver, PreviousOver
<1>3. /\ have' = have /\ moved' = moved /\ reading' = reading /\ yielded' = yielded
      /\ offered' = offered /\ returned' = returned
      /\ UNCHANGED <<merge, item, pending, ipc_meta, ipc_buf, loaded, done>>
  BY <1>2 DEF receiver, consumer
<1>4. /\ engine' = engine /\ sizes' = sizes /\ Names' = Names /\ Chunks' = Chunks
  BY <1>2, SetupKept
<1>5. /\ Ledger' /\ sent' \in Seq(Bucket) /\ bucket_meta' \in Seq(Entry)
      /\ L \in Nat /\ Len(sent') = L + 1 /\ sent' # <<>> /\ SentGrows
      /\ sent'[L + 1].meta = bucket_meta /\ sent'[L + 1].is_last = FALSE
      /\ sent = <<>> <=> L = 0
  <2>1. sent = <<>> <=> L = 0
    BY <1>1, BucketFields DEF Types
  <2>2. FALSE \in BOOLEAN /\ UNCHANGED <<setup, next>>
    BY <1>2
  <2> QED
    BY <1>1, <1>2, <2>1, <2>2, HandOverLedger
<1>6. Types'
  BY <1>1, <1>2, <1>3, <1>4, <1>5 DEF Types, Ranks
<1>7. Marks'
  <2>1. ASSUME NEW k \in 1..L + 1
        PROVE  /\ ~sent'[k].is_last
               /\ sent'[k].meta = <<>> =>
                    /\ L + 1 = 1 /\ next = 1
                    /\ Len(Chunks) = 0 \/ Chunks[1].size > bucket_size
    <3>1. CASE k \in 1..L
      <4>1. sent'[k] = sent[k]
        BY <1>5, <3>1 DEF SentGrows
      <4>2. ~sent[k].is_last /\ sent[k].meta # <<>>
        BY <1>1, <1>2, <1>5, <3>1 DEF Marks
      <4> QED
        BY <4>1, <4>2
    <3>2. CASE k = L + 1
      <4>1. ASSUME bucket_meta = <<>>
            PROVE  L = 0 /\ next = 1 /\ Chunks[1].size > bucket_size
        <5>1. L = 0 /\ next = 1
          BY <1>1, <1>2, <1>5, <4>1 DEF Marks
        <5>2. Filled(bucket_meta) = 0
          BY <4>1 DEF Filled
        <5>3. Chunks[1].size \in Nat
          <6>1. Chunks[1] \in [name : Nat, at : Nat, size : Nat]
            <7>1. 1 \in 1..Len(Chunks)
              BY <1>1, <1>2, <5>1, ChunkFacts DEF Types
            <7> QED
              BY <1>1, <7>1, ChunkFacts DEF Types
          <6> QED
            BY <6>1
        <5> QED
          BY <1>2, <5>1, <5>2, <5>3, Constants DEF Fits
      <4> QED
        BY <1>5, <3>2, <4>1
    <3> QED
      BY <1>5, <3>1, <3>2
  <2> QED
    BY <1>2, <1>4, <1>5, <2>1 DEF Marks
<1>8. \A r \in Ranks : have[r] \in 0..L /\ moved[r] \in 0..L /\ Meta(r)' = Meta(r)
  <2>1. \A r \in Ranks : have[r] \in 0..L /\ moved[r] \in 0..L /\ yielded[r] \in Nat
    BY <1>1, Counters
  <2>2. \A r \in Ranks : Meta(r)' = Meta(r)
    BY <1>1, <1>2, <1>3, <1>5, PositionKept
  <2> QED
    BY <2>1, <2>2
<1>9. Pace'
  <2>1. \A r \in Ranks :
         /\ have[r] <= moved[r] /\ moved[r] <= have[r] + 1 /\ moved[r] <= L + 1
         /\ offered[r] = have[r] /\ yielded[r] <= Len(Meta(r)')
    BY <1>1, <1>5, <1>8 DEF Pace
  <2>2. engine \in {"nccl", "hccl"} => \A r \in Ranks : moved[r] >= (L + 1) - 1
    BY <1>2, <1>5, <1>8 DEF Taken
  <2>3. engine = "nixl" =>
          /\ moved[1] >= (L + 1) - 1
          /\ \A r \in Ranks : reading[r] => Offered(r)' > have[r]
          /\ \A r \in 2..R : moved[r] <= have[r - 1] /\ moved[r] >= have[r - 1] - 1
    <3> SUFFICES ASSUME engine = "nixl"
                 PROVE  /\ moved[1] >= (L + 1) - 1
                        /\ \A r \in Ranks : reading[r] => Offered(r)' > have[r]
                        /\ \A r \in 2..R : moved[r] <= have[r - 1] /\ moved[r] >= have[r - 1] - 1
      OBVIOUS
    <3>1. moved[1] >= (L + 1) - 1
      <4>1. 1 \in Ranks
        BY Constants DEF Ranks
      <4> QED
        BY <1>2, <1>5, <1>8, <4>1 DEF Taken
    <3>2. ASSUME NEW r \in Ranks, reading[r] PROVE Offered(r)' > have[r]
      <4>1. Offered(r) > have[r]
        BY <1>1, <3>2 DEF Pace
      <4>2. Offered(r)' = Offered(r) \/ (Offered(r) = L /\ Offered(r)' = L + 1)
        BY <1>3, <1>4, <1>5 DEF Offered, Source
      <4> QED
        BY <4>1, <4>2, <1>5, <1>8
    <3> QED
      BY <1>1, <3>1, <3>2 DEF Pace
  <2>4. engine = "mooncake" =>
          /\ returned[1] >= (L + 1) - 2
          /\ ~reclaim' => returned[1] >= (L + 1) - 1
    <3>1. 1 \in Ranks
      BY Constants DEF Ranks
    <3>2. returned[1] \in Nat
      BY <1>1, <3>1, Counters
    <3>3. engine = "mooncake" => returned[1] >= L - 1
      BY <1>1, <1>2 DEF Pace
    <3>4. engine = "mooncake" /\ ~reclaim' => sent = <<>>
      BY <1>2
    <3> QED
      BY <1>5, <3>2, <3>3, <3>4
  <2>5. IF engine = "mooncake"
        THEN /\ \A r \in Ranks : /\ moved[r] = have[r]
                                 /\ returned[r] <= have[r] /\ have[r] <= returned[r] + 1
             /\ \A r \in 2..R : have[r] <= have[r - 1] /\ returned[r] >= have[r - 1] - 2
        ELSE \A r \in Ranks : returned[r] = 0
    BY <1>1 DEF Pace
  <2> QED
    BY <1>2, <1>3, <1>4, <1>5, <2>1, <2>2, <2>3, <2>4, <2>5 DEF Pace
<1>10. Buffers'
  BY <1>1, <1>2, <1>3, <1>5, HandOverBuffers
<1>11. Hands'
  BY <1>1, <1>2, <1>3, <1>5, ConsumerKept
<1> QED
  BY <1>5, <1>6, <1>7, <1>9, <1>10, <1>11 DEF IInv

LEMMA SendLastStep == IInv /\ SendLast => IInv'
<1> SUFFICES ASSUME IInv, SendLast PROVE IInv'
  OBVIOUS
<1> DEFINE L == Len(sent)
<1>1. Types /\ Ledger /\ Marks /\ Pace /\ Buffers /\ Hands
  BY DEF IInv
<1>2. /\ trainer = "sending" /\ ~reclaim /\ next > Len(Chunks)
      /\ engine # "mooncake" => Taken(L)
      /\ reclaim' = reclaim /\ trainer' = "waiting"
      /\ sent' = Append(sent, [meta |-> bucket_meta, is_last |-> TRUE])
      /\ bucket_meta' = <<>>
      /\ UNCHANGED <<setup, round, next, buf, receiver, consumer>>
  BY DEF SendLast, MayFill, HandOver, PreviousOver
<1>3. /\ have' = have /\ moved' = moved /\ reading' = reading /\ yielded' = yielded
      /\ offered' = offered /\ returned' = returned
      /\ UNCHANGED <<merge, item, pending, ipc_meta, ipc_buf, loaded, done>>
  BY <1>2 DEF receiver, consumer
<1>4. /\ engine' = engine /\ sizes' = sizes /\ Names' = Names /\ Chunks' = Chunks
  BY <1>2, SetupKept
<1>5. Len(Chunks) \in Nat /\ ~(next <= Len(Chunks)) /\ next \in Nat /\ next <= Len(Chunks) + 1
  BY <1>1, <1>2, ChunkFacts DEF Types
<1>6. bucket_meta = <<>> => sent = <<>>
  BY <1>1, <1>2, <1>5 DEF Marks
<1>7. /\ Ledger' /\ sent' \in Seq(Bucket) /\ bucket_meta' \in Seq(Entry)
      /\ L \in Nat /\ Len(sent') = L + 1 /\ sent' # <<>> /\ SentGrows
      /\ sent'[L + 1].meta = bucket_meta /\ sent'[L + 1].is_last = TRUE
      /\ After(sizes, sent', L + 1) = Due(sizes, Chunks, next)
      /\ sent = <<>> <=> L = 0
  <2>1. sent = <<>> <=> L = 0
    BY <1>1, BucketFields DEF Types
  <2>2. TRUE \in BOOLEAN /\ UNCHANGED <<setup, next>>
    BY <1>2
  <2> QED
    BY <1>1, <1>2, <1>6, <2>1, <2>2, HandOverLedger
<1>8. Types'
  BY <1>1, <1>2, <1>3, <1>4, <1>7 DEF Types, Ranks
<1>9. Marks'
  <2>1. ASSUME NEW k \in 1..L + 1
        PROVE  /\ sent'[k].is_last => k = L + 1 /\ After(sizes, sent', k) = End(sizes)
               /\ sent'[k].meta = <<>> => L + 1 = 1 /\ next = 1 /\ Len(Chunks) = 0
    <3>1. CASE k \in 1..L
      <4>1. sent'[k] = sent[k]
        BY <1>7, <3>1 DEF SentGrows
      <4>2. ~sent[k].is_last
        BY <1>1, <1>2, <3>1 DEF Marks
      <4>3. sent[k].meta = <<>> => bucket_meta = <<>>
        BY <1>1, <3>1 DEF Marks
      <4>4. sent # <<>>
        BY <1>7, <3>1
      <4> QED
        BY <4>1, <4>2, <4>3, <4>4, <1>6
    <3>2. CASE k = L + 1
      <4>1. ASSUME bucket_meta = <<>> PROVE L = 0 /\ next = 1
        BY <1>1, <1>6, <1>7, <4>1 DEF Marks
      <4>2. next = 1 => Len(Chunks) = 0
        BY <1>5
      <4>3. After(sizes, sent', k) = End(sizes)
        BY <1>5, <1>7, <3>2 DEF Due
      <4> QED
        BY <1>7, <3>2, <4>1, <4>2, <4>3
    <3> QED
      BY <1>7, <3>1, <3>2
  <2>2. sent'[Len(sent')].is_last
    BY <1>7
  <2> QED
    BY <1>2, <1>4, <1>7, <2>1, <2>2 DEF Marks
<1>10. \A r \in Ranks : have[r] \in 0..L /\ moved[r] \in 0..L /\ Meta(r)' = Meta(r)
  <2>1. \A r \in Ranks : have[r] \in 0..L /\ moved[r] \in 0..L /\ yielded[r] \in Nat
    BY <1>1, Counters
  <2>2. \A r \in Ranks : Meta(r)' = Meta(r)
    BY <1>1, <1>2, <1>3, <1>7, PositionKept
  <2> QED
    BY <2>1, <2>2
<1>11. Pace'
  <2>1. \A r \in Ranks :
         /\ have[r] <= moved[r] /\ moved[r] <= have[r] + 1 /\ moved[r] <= L + 1
         /\ offered[r] = have[r] /\ yielded[r] <= Len(Meta(r)')
    BY <1>1, <1>7, <1>10 DEF Pace
  <2>2. engine \in {"nccl", "hccl"} => \A r \in Ranks : moved[r] >= (L + 1) - 1
    BY <1>2, <1>7, <1>10 DEF Taken
  <2>3. engine = "nixl" =>
          /\ moved[1] >= (L + 1) - 1
          /\ \A r \in Ranks : reading[r] => Offered(r)' > have[r]
          /\ \A r \in 2..R : moved[r] <= have[r - 1] /\ moved[r] >= have[r - 1] - 1
    <3> SUFFICES ASSUME engine = "nixl"
                 PROVE  /\ moved[1] >= (L + 1) - 1
                        /\ \A r \in Ranks : reading[r] => Offered(r)' > have[r]
                        /\ \A r \in 2..R : moved[r] <= have[r - 1] /\ moved[r] >= have[r - 1] - 1
      OBVIOUS
    <3>1. moved[1] >= (L + 1) - 1
      <4>1. 1 \in Ranks
        BY Constants DEF Ranks
      <4> QED
        BY <1>2, <1>7, <1>10, <4>1 DEF Taken
    <3>2. ASSUME NEW r \in Ranks, reading[r] PROVE Offered(r)' > have[r]
      <4>1. Offered(r) > have[r]
        BY <1>1, <3>2 DEF Pace
      <4>2. Offered(r)' = Offered(r) \/ (Offered(r) = L /\ Offered(r)' = L + 1)
        BY <1>3, <1>4, <1>7 DEF Offered, Source
      <4> QED
        BY <4>1, <4>2, <1>7, <1>10
    <3> QED
      BY <1>1, <3>1, <3>2 DEF Pace
  <2>4. engine = "mooncake" => returned[1] >= (L + 1) - 2
    <3>1. 1 \in Ranks
      BY Constants DEF Ranks
    <3>2. returned[1] \in Nat
      BY <1>1, <3>1, Counters
    <3>3. engine = "mooncake" => returned[1] >= L - 1
      BY <1>1, <1>2 DEF Pace
    <3> QED
      BY <1>7, <3>2, <3>3
  <2>5. IF engine = "mooncake"
        THEN /\ \A r \in Ranks : /\ moved[r] = have[r]
                                 /\ returned[r] <= have[r] /\ have[r] <= returned[r] + 1
             /\ \A r \in 2..R : have[r] <= have[r - 1] /\ returned[r] >= have[r - 1] - 2
        ELSE \A r \in Ranks : returned[r] = 0
    BY <1>1 DEF Pace
  <2> QED
    BY <1>2, <1>3, <1>4, <1>7, <2>1, <2>2, <2>3, <2>4, <2>5 DEF Pace
<1>12. Buffers'
  BY <1>1, <1>2, <1>3, <1>7, HandOverBuffers
<1>13. Hands'
  BY <1>1, <1>2, <1>3, <1>7, ConsumerKept
<1> QED
  BY <1>7, <1>8, <1>9, <1>11, <1>12, <1>13 DEF IInv

\* The magic word says that the bucket before the last is returned.
LEMMA ReclaimStep == IInv /\ Reclaim => IInv'
<1> SUFFICES ASSUME IInv, Reclaim PROVE IInv'
  OBVIOUS
<1> DEFINE L == Len(sent)
<1>1. Types /\ Ledger /\ Marks /\ Pace /\ Buffers /\ Hands
  BY DEF IInv
<1>2. /\ reclaim /\ buf[0][Slot(L + 1)][0] = Magic /\ reclaim' = FALSE
      /\ UNCHANGED <<setup, round, next, bucket_meta, sent, trainer, buf, receiver, consumer>>
  BY DEF Reclaim
<1>3. /\ have' = have /\ moved' = moved /\ reading' = reading /\ yielded' = yielded
      /\ offered' = offered /\ returned' = returned
      /\ UNCHANGED <<merge, item, pending, ipc_meta, ipc_buf, loaded, done>>
  BY <1>2 DEF receiver, consumer
<1>4. /\ engine' = engine /\ sizes' = sizes /\ Names' = Names /\ Chunks' = Chunks
  BY <1>2, SetupKept
<1>5. /\ L \in Nat /\ \A k \in 1..L : sent[k].meta \in Seq(Entry)
  BY <1>1, BucketFields DEF Types
<1>6. engine = "mooncake" /\ returned[1] \in Nat /\ round \in Nat
  <2>1. 1 \in Ranks
    BY Constants DEF Ranks
  <2> QED
    BY <1>1, <1>2, <2>1, Counters DEF Marks
<1>7. returned[1] >= L - 1
  <2> SUFFICES ASSUME returned[1] < L - 1 PROVE FALSE
    BY <1>5, <1>6
  <2>1. L - 1 \in 1..L /\ L # 1 /\ L - 1 \in Int
    BY <1>5, <1>6
  <2>2. Intact(buf[0][Slot(L - 1)], sent[L - 1].meta, round)
    BY <1>1, <1>6, <2>1 DEF Buffers
  <2>3. sent[L - 1].meta # <<>> /\ sent[L - 1].meta \in Seq(Entry)
        /\ Packed(sizes, engine, sent[L - 1].meta)
    BY <1>1, <1>5, <2>1 DEF Marks, Ledger
  <2>4. buf[0][Slot(L - 1)][0] # Magic
    BY <2>2, <2>3, <1>6, MagicSeen
  <2>5. Slot(L - 1) = Slot(L + 1)
    BY <1>5, Slots
  <2> QED
    BY <1>2, <2>4, <2>5
<1>8. Types'
  BY <1>1, <1>2, <1>3, <1>4 DEF Types, Ranks
<1>9. Ledger' /\ Marks'
  BY <1>1, <1>2, <1>4 DEF Ledger, Marks
<1>10. Pace'
  BY <1>1, <1>2, <1>3, <1>4, <1>7 DEF Pace, Meta, Offered, Source
<1>11. Buffers'
  BY <1>1, <1>2, <1>3, <1>4 DEF Buffers, Meta
<1>12. Hands'
  BY <1>1, <1>2, <1>3, <1>5, ConsumerKept DEF SentGrows
<1> QED
  BY <1>8, <1>9, <1>10, <1>11, <1>12 DEF IInv

\* At most the state of rank 0 changes: it is done, or the job is stopped.
LEMMA TrainerStep ==
  ASSUME IInv,
         \/ trainer = "waiting" /\ trainer' = "done"
         \/ trainer' = "raised"
         \/ trainer' = trainer,
         UNCHANGED <<setup, round, next, bucket_meta, sent, reclaim, buf, receiver, consumer>>
  PROVE  IInv'
<1>1. Types /\ Ledger /\ Marks /\ Pace /\ Buffers /\ Hands
  BY DEF IInv
<1>2. /\ have' = have /\ moved' = moved /\ reading' = reading /\ yielded' = yielded
      /\ offered' = offered /\ returned' = returned
      /\ UNCHANGED <<merge, item, pending, ipc_meta, ipc_buf, loaded, done>>
  BY DEF receiver, consumer
<1>3. /\ engine' = engine /\ sizes' = sizes /\ Names' = Names /\ Chunks' = Chunks
  BY SetupKept
<1>4. Types'
  BY <1>1, <1>2, <1>3 DEF Types, Ranks
<1>5. Ledger' /\ Marks'
  BY <1>1, <1>3 DEF Ledger, Marks
<1>6. Pace'
  BY <1>1, <1>2, <1>3 DEF Pace, Meta, Offered, Source
<1>7. Buffers'
  BY <1>1, <1>2, <1>3 DEF Buffers, Meta
<1>8. Len(sent) \in Nat
  BY <1>1, BucketFields DEF Types
<1>9. Hands'
  BY <1>1, <1>2, <1>8, ConsumerKept DEF SentGrows
<1> QED
  BY <1>4, <1>5, <1>6, <1>7, <1>9 DEF IInv

-----------------------------------------------------------------------------
(* The steps of a rank of the rollout. *)

\* The ranks that take no part in a step keep what they have in hand.
LEMMA OthersKept ==
  ASSUME Types, Ledger, Pace, Hands, UNCHANGED <<setup, round, sent>>, NEW r \in Ranks, Hand(r)',
         \A q \in Ranks : q # r =>
           /\ have'[q] = have[q] /\ yielded'[q] = yielded[q] /\ merge'[q] = merge[q]
           /\ item'[q] = item[q] /\ pending'[q] = pending[q] /\ ipc_meta'[q] = ipc_meta[q]
           /\ ipc_buf'[q] = ipc_buf[q] /\ loaded'[q] = loaded[q] /\ done'[q] = done[q]
  PROVE  Hands'
<1>1. SentGrows
  BY BucketFields DEF Types, SentGrows
<1>2. \A q \in Ranks : Hand(q)
  BY DEF Hands
<1>3. \A q \in Ranks : q # r => Hand(q)'
  BY <1>1, <1>2, HandKept
<1>4. \A q \in Ranks : Hand(q)'
  BY <1>3
<1> QED
  BY <1>4 DEF Hands

LEMMA BeginReadStep ==
  ASSUME IInv, NEW r \in Ranks, BeginRead(r)
  PROVE  IInv'
<1>1. Types /\ Ledger /\ Marks /\ Pace /\ Buffers /\ Hands
  BY DEF IInv
<1>2. /\ engine = "nixl" /\ Offered(r) > have[r] /\ reading' = [reading EXCEPT ![r] = TRUE]
      /\ UNCHANGED <<setup, round, sender, buf, have, moved, yielded, offered, returned, consumer>>
  BY DEF BeginRead
<1>3. UNCHANGED <<next, bucket_meta, sent, trainer, reclaim,
                  merge, item, pending, ipc_meta, ipc_buf, loaded, done>>
  BY <1>2 DEF sender, consumer
<1>4. /\ engine' = engine /\ sizes' = sizes /\ Names' = Names /\ Chunks' = Chunks
  BY <1>2, SetupKept
<1>5. Types'
  BY <1>1, <1>2, <1>3, <1>4 DEF Types, Ranks
<1>6. Ledger' /\ Marks'
  BY <1>1, <1>2, <1>3, SenderKept
<1>7. Pace'
  <2>1. \A q \in Ranks : reading'[q] => Offered(q) > have[q]
    BY <1>1, <1>2 DEF Pace, Types
  <2>2. \A q \in Ranks : Offered(q)' = Offered(q) /\ Meta(q)' = Meta(q)
    BY <1>2, <1>3, <1>4 DEF Offered, Source, Meta
  <2> QED
    BY <1>1, <1>2, <1>3, <1>4, <2>1, <2>2 DEF Pace
<1>8. Buffers'
  BY <1>1, <1>2, <1>3, <1>4 DEF Buffers, Meta
<1>9. Len(sent) \in Nat
  BY <1>1, BucketFields DEF Types
<1>10. Hands'
  BY <1>1, <1>2, <1>3, <1>9, ConsumerKept DEF SentGrows
<1> QED
  BY <1>5, <1>6, <1>7, <1>8, <1>10 DEF IInv

\* What the source holds when a bucket is transferred.
LEMMA SourceIntact ==
  ASSUME IInv, NEW r \in Ranks, engine # "mooncake", moved[r] = have[r],
         IF engine = "nixl" THEN reading[r] ELSE Offered(r) > have[r]
  PROVE  /\ have[r] + 1 \in 1..Len(sent) /\ Source(r) \in 0..R /\ Source(r) # r
         /\ Intact(buf[Source(r)][Slot(have[r] + 1)], sent[have[r] + 1].meta, round)
         /\ engine = "nixl" /\ r \in 2..R => have[r] + 1 <= have[r - 1]
<1> DEFINE L == Len(sent)
           h == have[r]
<1>1. Types /\ Ledger /\ Pace /\ Buffers
  BY DEF IInv
<1>2. /\ L \in Nat /\ h \in 0..L /\ r \in Nat /\ r >= 1 /\ r <= R /\ r \in 0..R /\ r - 1 \in 0..R
  BY <1>1, Counters
<1>3. sent = <<>> <=> L = 0
  BY <1>1, BucketFields DEF Types
<1>4. Offered(r) > h
  BY <1>1 DEF Pace
<1>5. engine \in Engines
  BY <1>1, SetupFacts DEF Types
<1>6. CASE engine \in {"nccl", "hccl"} \/ r = 1
  <2>1. Source(r) = 0
    BY <1>6 DEF Source
  <2>2. L > h
    BY <2>1, <1>4 DEF Offered
  <2>3. h >= L - 1
    BY <1>1, <1>5, <1>6 DEF Pace, Engines
  <2>4. h + 1 = L
    BY <2>2, <2>3, <1>2
  <2>5. Intact(buf[0][Slot(L)], sent[L].meta, round)
    BY <1>1, <1>2, <1>3, <2>4 DEF Buffers
  <2>6. ~(engine = "nixl" /\ r \in 2..R)
    BY <1>6
  <2>7. Intact(buf[0][Slot(h + 1)], sent[h + 1].meta, round)
    BY <2>4, <2>5
  <2>8. 0 \in 0..R /\ 0 # r /\ h + 1 \in 1..L
    BY <1>2, <2>4, Constants
  <2> QED
    BY <2>1, <2>6, <2>7, <2>8
<1>7. CASE engine = "nixl" /\ r # 1
  <2>1. Source(r) = r - 1 /\ r - 1 # 0
    BY <1>2, <1>7 DEF Source
  <2>2. r - 1 \in Ranks /\ r \in 2..R
    BY <1>2, <1>7 DEF Ranks
  <2>3. have[r - 1] > h
    BY <1>1, <1>4, <2>1, <2>2 DEF Offered, Pace
  <2>4. h >= have[r - 1] - 1
    BY <1>1, <1>7, <2>2 DEF Pace
  <2>5. have[r - 1] \in 0..L
    BY <1>1, <2>2, Counters
  <2>6. have[r - 1] = h + 1
    BY <2>3, <2>4, <2>5, <1>2
  <2>7. Intact(buf[r - 1][Slot(h + 1)], sent[h + 1].meta, round)
    BY <1>1, <1>2, <1>7, <2>2, <2>6 DEF Buffers, Meta
  <2>8. r - 1 # r /\ h + 1 \in 1..L
    BY <1>2, <2>5, <2>6
  <2> QED
    BY <1>2, <2>1, <2>6, <2>7, <2>8
<1> QED
  BY <1>5, <1>6, <1>7 DEF Engines

LEMMA TransferStep ==
  ASSUME IInv, NEW r \in Ranks, Transfer(r)
  PROVE  IInv'
<1> DEFINE L == Len(sent)
           k == have[r] + 1
           s == Slot(k)
           v == buf[Source(r)][s]
<1>1. Types /\ Ledger /\ Marks /\ Pace /\ Buffers /\ Hands
  BY DEF IInv
<1>2. /\ engine # "mooncake" /\ moved[r] = have[r]
      /\ IF engine = "nixl" THEN reading[r] ELSE Offered(r) > have[r]
      /\ moved' = [moved EXCEPT ![r] = @ + 1]
      /\ UNCHANGED <<setup, round, sender, have, reading, yielded, offered, returned, consumer>>
  BY DEF Transfer
<1>3. UNCHANGED <<next, bucket_meta, sent, trainer, reclaim,
                  merge, item, pending, ipc_meta, ipc_buf, loaded, done>>
  BY <1>2 DEF sender, consumer
<1>4. /\ engine' = engine /\ sizes' = sizes /\ Names' = Names /\ Chunks' = Chunks
  BY <1>2, SetupKept
<1>5. /\ k \in 1..L /\ Source(r) \in 0..R /\ Source(r) # r
      /\ Intact(v, sent[k].meta, round)
      /\ engine = "nixl" /\ r \in 2..R => k <= have[r - 1]
  BY <1>2, SourceIntact
<1>6. /\ L \in Nat /\ have[r] \in 0..L /\ r \in Nat /\ r >= 1 /\ r \in 0..R /\ r # 0
  BY <1>1, Counters
<1>7. s \in {0, 1} /\ Slot(have[r]) \in {0, 1} /\ Slot(have[r]) # s
  <2>1. have[r] \in Int /\ have[r] + 1 \in Int
    BY <1>6
  <2> QED
    BY <2>1, Slots
<1>8. buf' = Put(buf, r, s, v)
  BY DEF Transfer, Put
<1>9. Contents(v)
  BY <1>1, <1>5, <1>7, BufferContents DEF Types
<1>10. /\ BufferShape(buf') /\ buf'[r][s] = v
       /\ \A q \in 0..R : \A t \in {0, 1} : q # r \/ t # s => buf'[q][t] = buf[q][t]
  <2> HIDE DEF v, s, k, L
  <2>1. r \in 0..R /\ s \in {0, 1} /\ BufferShape(buf) /\ Contents(v) /\ buf' = Put(buf, r, s, v)
    BY <1>1, <1>6, <1>7, <1>8, <1>9, CounterTypes
  <2> QED
    BY <2>1, BufferUpdate
<1>11. moved' \in [Ranks -> Nat] /\ moved'[r] = k /\ \A q \in Ranks : q # r => moved'[q] = moved[q]
  <2>1. moved \in [Ranks -> Nat]
    BY <1>1, CounterTypes
  <2> QED
    BY <1>2, <1>6, <2>1
<1> HIDE DEF v
<1>12. Types'
  BY <1>1, <1>2, <1>3, <1>4, <1>10, <1>11 DEF Types, Ranks
<1>13. Ledger' /\ Marks'
  BY <1>1, <1>2, <1>3, SenderKept
<1>14. \A q \in Ranks : moved[q] \in Nat /\ moved'[q] \in Nat /\ moved'[q] >= moved[q]
  <2>1. moved \in [Ranks -> Nat] /\ \A q \in Ranks : moved[q] \in Nat
    BY <1>1, CounterTypes
  <2>2. k \in Nat /\ k >= moved[r]
    BY <1>2, <1>6
  <2> QED
    BY <1>11, <2>1, <2>2
<1>15. Pace'
  <2>1. \A q \in Ranks : Offered(q)' = Offered(q) /\ Meta(q)' = Meta(q)
    BY <1>2, <1>3, <1>4 DEF Offered, Source, Meta
  <2>2. \A q \in Ranks : have[q] <= moved'[q] /\ moved'[q] <= have[q] + 1 /\ moved'[q] <= L
    BY <1>1, <1>5, <1>6, <1>11 DEF Pace
  <2>3. \A q \in Ranks : \A x \in Int : moved[q] >= x => moved'[q] >= x
    BY <1>14
  <2>4. \A q \in 2..R : q \in Ranks /\ q - 1 \in Ranks
    BY Constants DEF Ranks
  <2>5. engine = "nixl" => \A q \in 2..R : moved'[q] <= have[q - 1] /\ moved'[q] >= have[q - 1] - 1
    <3>1. \A q \in Ranks : have[q] - 1 \in Int
      BY <1>1, CounterTypes
    <3> QED
      BY <1>1, <1>5, <1>11, <2>3, <2>4, <3>1 DEF Pace
  <2>6. /\ engine \in {"nccl", "hccl"} => \A q \in Ranks : moved'[q] >= L - 1
        /\ engine = "nixl" => moved'[1] >= L - 1
    <3>1. L - 1 \in Int /\ 1 \in Ranks
      BY <1>6, Constants DEF Ranks
    <3> QED
      BY <1>1, <2>3, <3>1 DEF Pace
  <2> QED
    BY <1>1, <1>2, <1>3, <1>4, <2>1, <2>2, <2>5, <2>6 DEF Pace
<1>16. Buffers'
  <2>1. \A t \in {0, 1} : buf'[0][t] = buf[0][t]
    <3>1. 0 \in 0..R /\ r # 0
      BY <1>6, Constants
    <3> QED
      BY <1>10, <3>1
  <2>2. Slot(L) \in {0, 1} /\ Slot(L + 1) \in {0, 1}
    BY <1>6, Slots
  <2>3. Intact(buf'[0][Slot(L + 1)], bucket_meta, round)
        /\ (sent # <<>> => Intact(buf'[0][Slot(L)], sent[L].meta, round))
    BY <1>1, <1>2, <2>1, <2>2 DEF Buffers
  <2>4. ASSUME NEW q \in Ranks
        PROVE  /\ have[q] > 0 => Intact(buf'[q][Slot(have[q])], Meta(q), round)
               /\ moved'[q] > have[q] =>
                      Intact(buf'[q][Slot(moved'[q])], sent[moved'[q]].meta, round)
    <3>1. q \in 0..R /\ have[q] \in Nat /\ moved[q] \in Nat
      BY <1>1, Counters
    <3>2. Slot(have[q]) \in {0, 1} /\ Slot(moved[q]) \in {0, 1}
      BY <3>1, Slots
    <3>3. CASE q = r
      <4>1. buf'[r][Slot(have[r])] = buf[r][Slot(have[r])]
        BY <1>6, <1>7, <1>10
      <4> QED
        BY <1>1, <1>2, <1>5, <1>10, <1>11, <3>3, <4>1 DEF Buffers
    <3>4. CASE q # r
      <4>1. \A t \in {0, 1} : buf'[q][t] = buf[q][t]
        BY <1>10, <3>1, <3>4
      <4> QED
        BY <1>1, <1>2, <1>11, <3>2, <3>4, <4>1 DEF Buffers
    <3> QED
      BY <3>3, <3>4
  <2> QED
    BY <1>2, <1>3, <1>4, <2>3, <2>4 DEF Buffers, Meta
<1>17. Hands'
  BY <1>1, <1>2, <1>3, <1>6, ConsumerKept DEF SentGrows
<1> QED
  BY <1>12, <1>13, <1>15, <1>16, <1>17 DEF IInv

\* A rank that has used up a bucket turns to the next one.
LEMMA HandMoved ==
  ASSUME IInv, UNCHANGED <<setup, round, sent>>, NEW r \in Ranks,
         Used(r), pending[r] = <<>>, have[r] + 1 <= Len(sent),
         have'[r] = have[r] + 1, yielded'[r] = 0, merge'[r] = merge[r], item'[r] = item[r],
         pending'[r] = pending[r], ipc_meta'[r] = ipc_meta[r], ipc_buf'[r] = ipc_buf[r],
         loaded'[r] = loaded[r], done'[r] = done[r]
  PROVE  Hand(r)'
<1> DEFINE h == have[r]
           m == Meta(r)
<1>1. Types /\ Ledger /\ Marks /\ Pace /\ Hand(r)
  BY DEF IInv, Hands
<1>2. /\ Len(sent) \in Nat /\ h \in 0..Len(sent) /\ yielded[r] \in 0..Len(m) /\ m \in Seq(Entry)
      /\ h > 0 => h \in 1..Len(sent) /\ m = sent[h].meta
      /\ h = 0 => m = <<>>
  BY <1>1, Counters
<1>3. item[r] = NoItem /\ yielded[r] = Len(m)
  BY DEF Used
<1>4. sizes' = sizes /\ engine' = engine
  BY SetupKept
<1>5. Damaged(r)' = Damaged(r)
  BY <1>4 DEF Damaged
<1> HIDE DEF h, m
<1>6. Position(sizes, sent, h + 1, 0) = After(sizes, sent, h)
  <2>1. h + 1 # 0 /\ (h + 1) - 1 = h
    BY <1>2
  <2> QED
    BY <2>1 DEF Position
<1>7. Pos(r) = After(sizes, sent, h)
  <2>1. CASE h = 0
    <3>1. Pos(r) = First
      BY <2>1 DEF Pos, Position, h
    <3>2. After(sizes, sent, h) = First
      BY <2>1 DEF After
    <3> QED
      BY <3>1, <3>2
  <2>2. CASE h > 0
    <3>1. m # <<>>
      <4> SUFFICES ASSUME m = <<>> PROVE FALSE
        OBVIOUS
      <4>1. Len(sent) = 1
        BY <1>1, <1>2, <2>2 DEF Marks
      <4> QED
        BY <4>1, <1>2, <2>2 DEF h
    <3>2. yielded[r] # 0 /\ h # 0 /\ ~(h < 1)
      BY <1>2, <1>3, <2>2, <3>1, EntryFields
    <3>3. Pos(r) = Follow(sizes, m[Len(m)])
      BY <1>2, <1>3, <2>2, <3>2 DEF Pos, Position, h
    <3> QED
      BY <1>2, <2>2, <3>1, <3>2, <3>3 DEF After
  <2> QED
    BY <1>2, <2>1, <2>2
<1>8. Pos(r)' = Pos(r)
  BY <1>4, <1>6, <1>7 DEF Pos, h
<1>9. /\ ItemOK(sizes, Meta(r)', have'[r], yielded'[r], item[r])
      /\ \A j \in 1..Len(pending[r]) :
           CopyOK(sizes, Meta(r)', have'[r], yielded'[r], merge[r], ipc_meta[r], pending[r][j])
  <2>1. Len(pending[r]) = 0
    OBVIOUS
  <2> QED
    BY <1>3, <2>1 DEF ItemOK
<1> QED
  BY <1>1, <1>4, <1>5, <1>8, <1>9 DEF Hand

LEMMA AdvanceStep ==
  ASSUME IInv, NEW r \in Ranks, Advance(r)
  PROVE  IInv'
<1> DEFINE L == Len(sent)
           k == have[r] + 1
<1>1. Types /\ Ledger /\ Marks /\ Pace /\ Buffers /\ Hands
  BY DEF IInv
<1>2. /\ engine # "mooncake" /\ Used(r) /\ moved[r] = have[r] + 1
      /\ NextHasRead(r) /\ pending[r] = <<>>
      /\ have' = [have EXCEPT ![r] = @ + 1]
      /\ yielded' = [yielded EXCEPT ![r] = 0]
      /\ reading' = [reading EXCEPT ![r] = FALSE]
      /\ offered' = [offered EXCEPT ![r] = @ + 1]
      /\ UNCHANGED <<setup, round, sender, buf, moved, returned, consumer>>
  BY DEF Advance, Synchronized
<1>3. UNCHANGED <<next, bucket_meta, sent, trainer, reclaim,
                  merge, item, pending, ipc_meta, ipc_buf, loaded, done>>
  BY <1>2 DEF sender, consumer
<1>4. /\ engine' = engine /\ sizes' = sizes /\ Names' = Names /\ Chunks' = Chunks
  BY <1>2, SetupKept
<1>5. /\ L \in Nat /\ have[r] \in 0..L /\ r \in Nat /\ r >= 1 /\ r <= R /\ k \in 1..L
  <2>1. L \in Nat /\ have[r] \in 0..L /\ r \in Nat /\ r >= 1 /\ r <= R /\ moved[r] <= L
    BY <1>1, Counters
  <2> QED
    BY <1>2, <2>1
<1>6. /\ have' \in [Ranks -> Nat] /\ have'[r] = k /\ \A q \in Ranks : q # r => have'[q] = have[q]
      /\ yielded' \in [Ranks -> Nat] /\ yielded'[r] = 0
      /\ \A q \in Ranks : q # r => yielded'[q] = yielded[q]
      /\ reading' \in [Ranks -> BOOLEAN] /\ ~reading'[r]
      /\ \A q \in Ranks : q # r => reading'[q] = reading[q]
      /\ offered' \in [Ranks -> Nat] /\ offered'[r] = offered[r] + 1
      /\ \A q \in Ranks : q # r => offered'[q] = offered[q]
  BY <1>1, <1>2 DEF Types
<1>7. Types'
  BY <1>1, <1>2, <1>3, <1>4, <1>6 DEF Types, Ranks
<1>8. Ledger' /\ Marks'
  BY <1>1, <1>2, <1>3, SenderKept
<1>9. \A q \in Ranks : have[q] \in Nat /\ have[q] <= have'[q] /\ offered'[q] = have'[q]
  <2>1. \A q \in Ranks : have[q] \in Nat /\ offered[q] = have[q]
    BY <1>1 DEF Types, Pace
  <2> QED
    BY <1>6, <2>1
<1>10. Pace'
  <2>1. ASSUME NEW q \in Ranks
        PROVE  /\ have'[q] <= moved[q] /\ moved[q] <= have'[q] + 1 /\ moved[q] <= L
               /\ offered'[q] = have'[q] /\ yielded'[q] <= Len(Meta(q)')
    <3>1. CASE q = r
      <4>1. k # 0 /\ Meta(r)' = sent[k].meta
        BY <1>3, <1>5, <1>6 DEF Meta
      <4>2. Len(Meta(r)') \in Nat
        BY <1>1, <1>5, <4>1, BucketFields, EntryFields DEF Types
      <4> QED
        BY <1>2, <1>5, <1>6, <1>9, <3>1, <4>2
    <3>2. CASE q # r
      <4>1. Meta(q)' = Meta(q)
        BY <1>3, <1>6, <3>2 DEF Meta
      <4> QED
        BY <1>1, <1>6, <1>9, <3>2, <4>1 DEF Pace
    <3> QED
      BY <3>1, <3>2
  <2>2. \A q \in 2..R : q \in Ranks /\ q - 1 \in Ranks /\ q - 1 # q
    BY Constants DEF Ranks
  <2>3. ASSUME engine = "nixl"
        PROVE  /\ \A q \in Ranks : reading'[q] => Offered(q)' > have'[q]
               /\ \A q \in 2..R : moved[q] <= have'[q - 1] /\ moved[q] >= have'[q - 1] - 1
    <3>1. ASSUME NEW q \in Ranks, reading'[q] PROVE Offered(q)' > have'[q]
      <4>1. q # r /\ reading[q] /\ have'[q] = have[q]
        BY <1>6, <3>1
      <4>2. Offered(q) > have[q]
        BY <1>1, <2>3, <4>1 DEF Pace
      <4>3. CASE q = 1
        BY <1>3, <1>4, <2>3, <4>1, <4>2, <4>3 DEF Offered, Source
      <4>4. CASE q # 1
        <5>1. q \in 2..R /\ q - 1 # 0 /\ q - 1 \in Ranks
          BY <4>4, Constants DEF Ranks
        <5>2. Offered(q) = offered[q - 1] /\ Offered(q)' = offered'[q - 1]
          BY <1>4, <2>3, <5>1 DEF Offered, Source
        <5>3. offered[q - 1] <= offered'[q - 1] /\ offered[q - 1] \in Nat /\ offered'[q - 1] \in Nat
          <6>1. offered[q - 1] = have[q - 1] /\ offered'[q - 1] = have'[q - 1]
            BY <1>1, <1>9, <5>1 DEF Pace
          <6> QED
            BY <1>6, <1>9, <5>1, <6>1
        <5> QED
          BY <1>9, <4>1, <4>2, <5>2, <5>3
      <4> QED
        BY <4>3, <4>4
    <3>2. ASSUME NEW q \in 2..R
          PROVE  moved[q] <= have'[q - 1] /\ moved[q] >= have'[q - 1] - 1
      <4>1. moved[q] <= have[q - 1] /\ moved[q] >= have[q - 1] - 1
        BY <1>1, <2>3 DEF Pace
      <4>2. q \in Ranks /\ q - 1 \in Ranks /\ moved[q] \in Nat
        BY <1>1, <2>2 DEF Types
      <4>3. CASE q - 1 = r
        <5>1. r < R /\ q = r + 1
          BY <1>5, <4>3, Constants
        <5>2. moved[q] >= have[r]
          BY <1>2, <2>3, <5>1 DEF NextHasRead
        <5> QED
          BY <1>5, <1>6, <4>1, <4>2, <4>3, <5>2
      <4>4. CASE q - 1 # r
        BY <1>6, <4>1, <4>2, <4>4
      <4> QED
        BY <4>3, <4>4
    <3> QED
      BY <3>1, <3>2
  <2> QED
    BY <1>1, <1>2, <1>3, <1>4, <2>1, <2>3 DEF Pace
<1>11. Buffers'
  <2>1. ASSUME NEW q \in Ranks
        PROVE  /\ have'[q] > 0 => Intact(buf[q][Slot(have'[q])], Meta(q)', round)
               /\ moved[q] > have'[q] =>
                      Intact(buf[q][Slot(moved[q])], sent[moved[q]].meta, round)
    <3>1. CASE q = r
      <4>1. Meta(r)' = sent[k].meta
        BY <1>3, <1>5, <1>6 DEF Meta
      <4>2. moved[r] > have[r] /\ moved[r] = k /\ ~(moved[r] > have'[r])
        BY <1>2, <1>5, <1>6
      <4> QED
        BY <1>1, <1>2, <1>6, <3>1, <4>1, <4>2 DEF Buffers
    <3>2. CASE q # r
      <4>1. Meta(q)' = Meta(q)
        BY <1>3, <1>6, <3>2 DEF Meta
      <4> QED
        BY <1>1, <1>2, <1>6, <3>2, <4>1 DEF Buffers
    <3> QED
      BY <3>1, <3>2
  <2>2. /\ Intact(buf[0][Slot(L + 1)], bucket_meta, round)
        /\ sent # <<>> => Intact(buf[0][Slot(L)], sent[L].meta, round)
    BY <1>1, <1>2 DEF Buffers
  <2> QED
    BY <1>2, <1>3, <1>4, <2>1, <2>2 DEF Buffers
<1>12. Hand(r)'
  BY <1>2, <1>3, <1>5, <1>6, HandMoved
<1>13. Hands'
  BY <1>1, <1>2, <1>3, <1>6, <1>12, OthersKept
<1> QED
  BY <1>7, <1>8, <1>10, <1>11, <1>13 DEF IInv

LEMMA ReadBucketStep ==
  ASSUME IInv, NEW r \in Ranks, ReadBucket(r)
  PROVE  IInv'
<1> DEFINE L == Len(sent)
           k == have[r] + 1
           s == Slot(k)
           b == buf[r - 1][s]
           a == buf[r][s]
           v == [i \in Bytes |-> IF i < Filled(sent[k].meta) THEN b[i] ELSE a[i]]
<1>1. Types /\ Ledger /\ Marks /\ Pace /\ Buffers /\ Hands
  BY DEF IInv
<1>2. /\ engine = "mooncake" /\ Used(r) /\ returned[r] = have[r]
      /\ pending[r] = <<>> /\ Offered(r) > have[r] /\ ReadByNext(r)
      /\ buf' = Put(buf, r, s, v)
      /\ have' = [have EXCEPT ![r] = @ + 1] /\ moved' = [moved EXCEPT ![r] = @ + 1]
      /\ offered' = [offered EXCEPT ![r] = @ + 1]
      /\ yielded' = [yielded EXCEPT ![r] = 0]
      /\ UNCHANGED <<setup, round, sender, reading, returned, consumer>>
  BY DEF ReadBucket, Synchronized, Put
<1>3. UNCHANGED <<next, bucket_meta, sent, trainer, reclaim,
                  merge, item, pending, ipc_meta, ipc_buf, loaded, done>>
  BY <1>2 DEF sender, consumer
<1>4. /\ engine' = engine /\ sizes' = sizes /\ Names' = Names /\ Chunks' = Chunks
  BY <1>2, SetupKept
<1>5. /\ L \in Nat /\ have[r] \in 0..L /\ r \in Nat /\ r >= 1 /\ r <= R /\ r \in 0..R
      /\ r - 1 \in 0..R /\ moved[r] = have[r] /\ offered[r] = have[r] /\ r - 1 # r
  BY <1>1, <1>2, Counters DEF Pace
<1>6. k \in 1..L /\ (r > 1 => r - 1 \in Ranks /\ k <= have[r - 1])
  <2>1. CASE r = 1
    <3>1. Offered(r) = L
      BY <1>2, <2>1 DEF Offered, Source
    <3> QED
      BY <1>2, <1>5, <2>1, <3>1
  <2>2. CASE r # 1
    <3>1. r - 1 \in Ranks /\ r - 1 # 0
      BY <1>5, <2>2, Constants DEF Ranks
    <3>2. Offered(r) = have[r - 1]
      BY <1>1, <1>2, <3>1 DEF Offered, Source, Pace
    <3>3. have[r - 1] \in 0..L
      BY <1>1, <3>1, Counters
    <3> QED
      BY <1>2, <1>5, <3>1, <3>2, <3>3
  <2> QED
    BY <2>1, <2>2
<1>7. s \in {0, 1} /\ Slot(have[r]) \in {0, 1} /\ Slot(have[r]) # s
  <2>1. have[r] \in Int /\ have[r] + 1 \in Int
    BY <1>5
  <2> QED
    BY <2>1, Slots
<1>8. \A j \in 1..L : sent[j].meta \in Seq(Entry) /\ Packed(sizes, engine, sent[j].meta)
  BY <1>1, BucketFields DEF Types, Ledger
<1>9. Intact(b, sent[k].meta, round)
  <2>1. returned[r] < k
    BY <1>2, <1>5
  <2>2. CASE r = 1
    BY <1>1, <1>2, <1>6, <2>1, <2>2 DEF Buffers
  <2>3. CASE r # 1
    <3>1. r - 1 \in Ranks /\ k \in 1..have[r - 1]
      BY <1>1, <1>5, <1>6, <2>3 DEF Types
    <3>2. r - 1 < R /\ (r - 1) + 1 = r
      BY <1>5, Constants
    <3> QED
      BY <1>1, <1>2, <2>1, <3>1, <3>2 DEF Buffers
  <2> QED
    BY <2>2, <2>3
<1>10. Intact(v, sent[k].meta, round)
  BY <1>6, <1>8, <1>9, IntactCopy
<1>11. /\ BufferShape(buf') /\ buf'[r][s] = v
       /\ \A q \in 0..R : \A t \in {0, 1} : q # r \/ t # s => buf'[q][t] = buf[q][t]
  <2>1. Contents(v)
    BY DEF Contents
  <2>2. buf' = Put(buf, r, s, v)
    BY <1>2
  <2> HIDE DEF v, s, k, L, a, b
  <2>3. r \in 0..R /\ s \in {0, 1} /\ BufferShape(buf)
    BY <1>1, <1>5, <1>7, CounterTypes
  <2>4. Updated(buf, r, s, v, Put(buf, r, s, v))
    BY <2>1, <2>3, BufferWrite
  <2>5. Updated(buf, r, s, v, buf')
    BY <2>2, <2>4
  <2> QED
    BY <2>5 DEF Updated
<1>12. /\ have' \in [Ranks -> Nat] /\ have'[r] = k /\ \A q \in Ranks : q # r => have'[q] = have[q]
       /\ moved' \in [Ranks -> Nat] /\ moved'[r] = k
       /\ \A q \in Ranks : q # r => moved'[q] = moved[q]
       /\ yielded' \in [Ranks -> Nat] /\ yielded'[r] = 0
       /\ \A q \in Ranks : q # r => yielded'[q] = yielded[q]
       /\ offered' \in [Ranks -> Nat] /\ offered'[r] = k
       /\ \A q \in Ranks : q # r => offered'[q] = offered[q]
  <2>1. have \in [Ranks -> Nat] /\ moved \in [Ranks -> Nat] /\ yielded \in [Ranks -> Nat]
        /\ offered \in [Ranks -> Nat]
    BY <1>1, CounterTypes
  <2> HIDE DEF v
  <2>2. have' \in [Ranks -> Nat] /\ have'[r] = k /\ \A q \in Ranks : q # r => have'[q] = have[q]
    BY <1>2, <1>5, <2>1
  <2>3. moved' \in [Ranks -> Nat] /\ moved'[r] = k
        /\ \A q \in Ranks : q # r => moved'[q] = moved[q]
    BY <1>2, <1>5, <2>1
  <2>4. yielded' \in [Ranks -> Nat] /\ yielded'[r] = 0
        /\ \A q \in Ranks : q # r => yielded'[q] = yielded[q]
    BY <1>2, <2>1
  <2>5. offered' \in [Ranks -> Nat] /\ offered'[r] = k
        /\ \A q \in Ranks : q # r => offered'[q] = offered[q]
    BY <1>2, <1>5, <2>1
  <2> QED
    BY <2>2, <2>3, <2>4, <2>5
<1> HIDE DEF v
\* The successor has returned the bucket that is overwritten.
<1>13. r < R => returned[r + 1] >= have[r] - 1 /\ r + 1 \in Ranks /\ returned[r + 1] \in Nat
  <2> SUFFICES ASSUME r < R
               PROVE  returned[r + 1] >= have[r] - 1 /\ r + 1 \in Ranks /\ returned[r + 1] \in Nat
    OBVIOUS
  <2>1. r + 1 \in Ranks
    BY <1>5, Constants DEF Ranks
  <2>2. returned[r + 1] \in Nat
    BY <1>1, <2>1, Counters
  <2>3. ASSUME returned[r + 1] < have[r] - 1 PROVE FALSE
    <3>1. have[r] >= 2 /\ have[r] - 1 \in 1..have[r] /\ have[r] - 1 \in 1..L /\ L # 1
      <4>1. \A x, y, l \in Nat : x <= l /\ y < x - 1 =>
              x >= 2 /\ x - 1 \in 1..x /\ x - 1 \in 1..l /\ l # 1
        OBVIOUS
      <4>2. have[r] \in Nat /\ have[r] <= L /\ L \in Nat
        BY <1>5
      <4> QED
        BY <4>1, <4>2, <2>2, <2>3
    <3>2. Intact(buf[r][Slot(have[r] - 1)], sent[have[r] - 1].meta, round)
      BY <1>1, <1>2, <2>3, <3>1 DEF Buffers
    <3>3. sent[have[r] - 1].meta # <<>>
      BY <1>1, <3>1 DEF Marks
    <3>4. buf[r][Slot(have[r] - 1)][0] # Magic
      <4>1. round \in Nat
        BY <1>1, Counters
      <4> QED
        BY <1>8, <3>1, <3>2, <3>3, <4>1, MagicSeen
    <3>5. Slot(have[r] - 1) = Slot(have[r] + 1)
      <4>1. have[r] \in Int
        BY <1>5
      <4> QED
        BY <4>1, Slots
    <3> QED
      BY <1>2, <3>1, <3>4, <3>5 DEF ReadByNext
  <2> QED
    BY <1>5, <2>1, <2>2, <2>3
<1>14. Types'
  BY <1>1, <1>2, <1>3, <1>4, <1>11, <1>12 DEF Types, Ranks
<1>15. Ledger' /\ Marks'
  BY <1>1, <1>2, <1>3, SenderKept
<1>16. Pace'
  <2>1. ASSUME NEW q \in Ranks
        PROVE  /\ have'[q] = moved'[q] /\ moved'[q] <= have'[q] + 1 /\ moved'[q] <= L
               /\ offered'[q] = have'[q] /\ yielded'[q] <= Len(Meta(q)')
               /\ returned[q] <= have'[q] /\ have'[q] <= returned[q] + 1
    <3>1. CASE q = r
      <4>1. k # 0 /\ Meta(r)' = sent[k].meta
        BY <1>3, <1>6, <1>12 DEF Meta
      <4>2. Len(Meta(r)') \in Nat
        BY <1>6, <1>8, <4>1, EntryFields
      <4> QED
        BY <1>2, <1>5, <1>6, <1>12, <3>1, <4>2
    <3>2. CASE q # r
      <4>1. Meta(q)' = Meta(q)
        BY <1>3, <1>12, <3>2 DEF Meta
      <4> QED
        BY <1>1, <1>2, <1>12, <3>2, <4>1 DEF Pace
    <3> QED
      BY <3>1, <3>2
  <2>2. \A q \in 2..R : q \in Ranks /\ q - 1 \in Ranks /\ q - 1 # q
    BY Constants DEF Ranks
  <2>3. ASSUME NEW q \in 2..R
        PROVE  have'[q] <= have'[q - 1] /\ returned[q] >= have'[q - 1] - 2
    <3>1. have[q] <= have[q - 1] /\ returned[q] >= have[q - 1] - 2
      BY <1>1, <1>2 DEF Pace
    <3>2. have[q] \in Nat /\ have[q - 1] \in Nat /\ returned[q] \in Nat
      BY <1>1, <2>2 DEF Types
    <3>3. CASE q = r
      <4>1. r > 1 /\ r - 1 # r
        BY <3>3
      <4>2. have'[q] = k /\ have'[q - 1] = have[q - 1]
        BY <1>6, <1>12, <3>3, <4>1
      <4> QED
        BY <1>6, <3>1, <3>3, <4>1, <4>2
    <3>4. CASE q - 1 = r
      <4>1. r < R /\ q = r + 1 /\ q # r
        BY <1>5, <3>4, Constants
      <4>2. have'[q] = have[q] /\ have'[q - 1] = k
        BY <1>12, <2>2, <3>4, <4>1
      <4>3. returned[q] >= have[r] - 1
        BY <1>13, <4>1
      <4> QED
        BY <1>5, <3>1, <3>2, <3>4, <4>2, <4>3
    <3>5. CASE q # r /\ q - 1 # r
      BY <1>12, <2>2, <3>1, <3>5
    <3> QED
      BY <3>3, <3>4, <3>5
  <2>4. /\ returned[1] >= L - 2
        /\ ~reclaim /\ trainer = "sending" => returned[1] >= L - 1
    BY <1>1, <1>2 DEF Pace
  <2>5. \A q \in Ranks : have'[q] <= moved'[q]
    BY <1>12, <2>1
  <2> QED
    BY <1>2, <1>3, <1>4, <2>1, <2>3, <2>4, <2>5 DEF Pace
<1>17. Buffers'
  <2>1. \A t \in {0, 1} : buf'[0][t] = buf[0][t]
    <3>1. 0 \in 0..R /\ r # 0
      BY <1>5, Constants
    <3> QED
      BY <1>11, <3>1
  <2>2. \A j \in Nat : Slot(j) \in {0, 1}
    BY Slots
  <2>3. /\ Intact(buf'[0][Slot(L + 1)], bucket_meta, round)
        /\ \A j \in 1..L : returned[1] < j => Intact(buf'[0][Slot(j)], sent[j].meta, round)
    <3>1. Slot(L + 1) \in {0, 1} /\ \A j \in 1..L : Slot(j) \in {0, 1}
      BY <1>5, <2>2
    <3> QED
      BY <1>1, <1>2, <2>1, <3>1 DEF Buffers
  <2>4. ASSUME NEW q \in Ranks, q < R, NEW j \in 1..have'[q], returned[q + 1] < j
        PROVE  Intact(buf'[q][Slot(j)], sent[j].meta, round)
    <3>1. q \in 0..R /\ have'[q] \in Nat /\ Slot(j) \in {0, 1}
      <4>1. q \in 0..R
        BY <1>1, Counters
      <4>2. have'[q] \in Nat
        BY <1>12
      <4> QED
        BY <4>1, <4>2, <2>2
    <3>2. CASE q = r
      <4>1. j = k \/ j = have[r]
        <5>1. returned[r + 1] \in Nat /\ returned[r + 1] >= have[r] - 1
          BY <1>13, <2>4, <3>2
        <5> QED
          BY <1>5, <1>12, <2>4, <3>2, <5>1
      <4>2. CASE j = k
        BY <1>10, <1>11, <3>2, <4>2
      <4>3. CASE j = have[r]
        <5>1. buf'[r][Slot(j)] = buf[r][Slot(j)]
          BY <1>5, <1>7, <1>11, <4>3
        <5>2. j \in 1..have[r]
          BY <1>5, <4>3, <3>1
        <5> QED
          BY <1>1, <1>2, <2>4, <3>2, <5>1, <5>2 DEF Buffers
      <4> QED
        BY <4>1, <4>2, <4>3
    <3>3. CASE q # r
      <4>1. buf'[q][Slot(j)] = buf[q][Slot(j)] /\ have'[q] = have[q]
        BY <1>11, <1>12, <3>1, <3>3
      <4> QED
        BY <1>1, <1>2, <2>4, <4>1 DEF Buffers
    <3> QED
      BY <3>2, <3>3
  <2>5. ASSUME NEW q \in Ranks, have'[q] > 0
        PROVE  IF q < R THEN IntactBut(buf'[q][Slot(have'[q])], Meta(q)', round)
               ELSE Intact(buf'[q][Slot(have'[q])], Meta(q)', round)
    <3>1. CASE q = r
      <4>1. k # 0 /\ Meta(r)' = sent[k].meta
        BY <1>3, <1>6, <1>12 DEF Meta
      <4>2. Intact(buf'[r][Slot(have'[r])], Meta(r)', round)
        BY <1>10, <1>11, <1>12, <4>1
      <4> QED
        BY <3>1, <4>2, IntactAll
    <3>2. CASE q # r
      <4>1. Meta(q)' = Meta(q) /\ have'[q] = have[q]
        BY <1>3, <1>12, <3>2 DEF Meta
      <4>2. q \in 0..R /\ have[q] \in Nat
        BY <1>1, Counters
      <4>3. buf'[q][Slot(have[q])] = buf[q][Slot(have[q])]
        BY <1>11, <2>2, <3>2, <4>2
      <4> QED
        BY <1>1, <1>2, <2>5, <4>1, <4>3 DEF Buffers
    <3> QED
      BY <3>1, <3>2
  <2> QED
    BY <1>2, <1>3, <1>4, <2>3, <2>4, <2>5 DEF Buffers
<1>18. Hand(r)'
  <2>1. have[r] + 1 <= L
    BY <1>6
  <2> QED
    BY <1>2, <1>3, <1>12, <2>1, HandMoved
<1>19. Hands'
  BY <1>1, <1>2, <1>3, <1>12, <1>18, OthersKept
<1> QED
  BY <1>14, <1>15, <1>16, <1>17, <1>19 DEF IInv

LEMMA WriteMagicStep ==
  ASSUME IInv, NEW r \in Ranks, WriteMagic(r), trainer # "raised"
  PROVE  IInv'
<1> DEFINE L == Len(sent)
           h == have[r]
           s == Slot(h)
           b == buf[r - 1][s]
           v == [b EXCEPT ![0] = Magic]
<1>1. Types /\ Ledger /\ Marks /\ Pace /\ Buffers /\ Hands
  BY DEF IInv
<1>2. /\ engine = "mooncake" /\ Used(r) /\ returned[r] < h
      /\ buf' = Put(buf, r - 1, s, v)
      /\ returned' = [returned EXCEPT ![r] = h]
      /\ UNCHANGED <<setup, round, sender, have, moved, reading, yielded, offered, consumer>>
  BY DEF WriteMagic, Put
<1>3. UNCHANGED <<next, bucket_meta, sent, trainer, reclaim,
                  merge, item, pending, ipc_meta, ipc_buf, loaded, done>>
  BY <1>2 DEF sender, consumer
<1>4. /\ engine' = engine /\ sizes' = sizes /\ Names' = Names /\ Chunks' = Chunks
  BY <1>2, SetupKept
<1>5. /\ L \in Nat /\ h \in 0..L /\ r \in Nat /\ r >= 1 /\ r <= R /\ r \in 0..R
      /\ r - 1 \in 0..R /\ r - 1 # r /\ returned[r] \in Nat /\ h <= returned[r] + 1
  BY <1>1, <1>2, Counters DEF Pace
<1>6. h >= 1 /\ h = returned[r] + 1
  BY <1>2, <1>5
<1>7. /\ s \in {0, 1} /\ Slot(h + 1) \in {0, 1} /\ Slot(h + 1) # s
      /\ \A k \in Nat : Slot(k) \in {0, 1}
  <2>1. h \in Int /\ h + 1 \in Int
    BY <1>5
  <2> QED
    BY <2>1, Slots
<1>8. /\ BufferShape(buf') /\ buf'[r - 1][s] = v
      /\ \A q \in 0..R : \A t \in {0, 1} : q # r - 1 \/ t # s => buf'[q][t] = buf[q][t]
  <2>1. BufferShape(buf)
    BY <1>1 DEF Types
  <2>2. Contents(v)
    <3>1. Contents(b)
      BY <1>5, <1>7, <2>1, BufferContents
    <3> HIDE DEF b
    <3> QED
      BY <3>1 DEF Contents
  <2>3. PICK p \in 0..R : p = r - 1
    BY <1>5
  <2>4. buf' = Put(buf, p, s, v) /\ s \in {0, 1}
    BY <1>2, <1>7, <2>3
  <2> HIDE DEF v, s
  <2>5. /\ BufferShape(buf') /\ buf'[p][s] = v
        /\ \A q \in 0..R : \A t \in {0, 1} : q # p \/ t # s => buf'[q][t] = buf[q][t]
    BY <2>1, <2>2, <2>4, BufferUpdate
  <2> QED
    BY <2>3, <2>5
<1>9. /\ returned' \in [Ranks -> Nat] /\ returned'[r] = h
      /\ \A q \in Ranks : q # r => returned'[q] = returned[q]
  <2>1. returned \in [Ranks -> Nat]
    BY <1>1, CounterTypes
  <2> HIDE DEF v
  <2> QED
    BY <1>2, <1>5, <2>1
<1> HIDE DEF v
<1>10. \A q \in Ranks : returned[q] \in Nat /\ returned'[q] >= returned[q]
  <2>1. \A q \in Ranks : returned[q] \in Nat
    BY <1>1, CounterTypes
  <2> QED
    BY <1>5, <1>6, <1>9, <2>1
<1>11. Types'
  BY <1>1, <1>2, <1>3, <1>4, <1>8, <1>9 DEF Types, Ranks
<1>12. Ledger' /\ Marks'
  BY <1>1, <1>2, <1>3, SenderKept
<1>13. Pace'
  <2>1. \A q \in Ranks : returned'[q] <= have[q] /\ have[q] <= returned'[q] + 1
    BY <1>1, <1>2, <1>5, <1>9 DEF Pace
  <2>2. \A q \in Ranks : \A x \in Int : returned[q] >= x => returned'[q] >= x
    BY <1>9, <1>10
  <2>3. /\ returned'[1] >= L - 2
        /\ ~reclaim /\ trainer = "sending" => returned'[1] >= L - 1
    <3>1. 1 \in Ranks /\ L - 1 \in Int /\ L - 2 \in Int
      BY <1>5, Constants DEF Ranks
    <3> QED
      BY <1>1, <1>2, <2>2, <3>1 DEF Pace
  <2>4. \A q \in 2..R : returned'[q] >= have[q - 1] - 2
    <3>1. \A q \in 2..R : q \in Ranks /\ q - 1 \in Ranks
      BY Constants DEF Ranks
    <3>2. \A q \in Ranks : have[q] - 2 \in Int
      BY <1>1, CounterTypes
    <3>3. \A q \in 2..R : returned[q] >= have[q - 1] - 2
      BY <1>1, <1>2 DEF Pace
    <3> QED
      BY <2>2, <3>1, <3>2, <3>3
  <2>5. \A q \in Ranks : Meta(q)' = Meta(q)
    BY <1>2, <1>3 DEF Meta
  <2> QED
    BY <1>1, <1>2, <1>3, <1>4, <2>1, <2>3, <2>4, <2>5 DEF Pace
\* No later bucket of the previous rank lies in that buffer.
<1>14. Buffers'
  <2>1. r = 1 => returned[1] >= L - 2 /\ (bucket_meta # <<>> => returned[1] >= L - 1)
    BY <1>1, <1>2 DEF Pace, Marks
  <2>2. r > 1 => /\ r - 1 \in Ranks /\ have[r - 1] \in 0..L /\ have[r - 1] <= h + 1
                 /\ h <= have[r - 1]
    <3> SUFFICES ASSUME r > 1
                 PROVE  /\ r - 1 \in Ranks /\ have[r - 1] \in 0..L /\ have[r - 1] <= h + 1
                        /\ h <= have[r - 1]
      OBVIOUS
    <3>1. r - 1 \in Ranks /\ r \in 2..R
      BY <1>5, Constants DEF Ranks
    <3>2. have[r - 1] \in 0..L
      BY <1>1, <3>1, Counters
    <3>3. returned[r] >= have[r - 1] - 2 /\ h <= have[r - 1]
      BY <1>1, <1>2, <3>1 DEF Pace
    <3>4. have[r - 1] \in Nat /\ have[r - 1] <= h + 1
      BY <1>5, <1>6, <3>2, <3>3
    <3> QED
      BY <3>1, <3>2, <3>3, <3>4
  <2>3. r = 1 => L <= h + 1 /\ (bucket_meta # <<>> => L = h)
    BY <1>5, <1>6, <2>1
  <2>4. Intact(buf'[0][Slot(L + 1)], bucket_meta, round)
    <3>1. Slot(L + 1) \in {0, 1} /\ 0 \in 0..R
      BY <1>5, <1>7, Constants
    <3>2. CASE bucket_meta = <<>>
      BY <3>2, NoPieces
    <3>3. CASE bucket_meta # <<>>
      <4>1. r = 1 => Slot(L + 1) # s
        BY <1>7, <2>3, <3>3
      <4>2. r # 1 => 0 # r - 1
        BY <1>5
      <4>3. buf'[0][Slot(L + 1)] = buf[0][Slot(L + 1)]
        BY <1>8, <3>1, <4>1, <4>2
      <4> QED
        BY <1>1, <4>3 DEF Buffers
    <3> QED
      BY <3>2, <3>3
  <2>5. ASSUME NEW k \in 1..L, returned'[1] < k
        PROVE  Intact(buf'[0][Slot(k)], sent[k].meta, round)
    <3>1. Slot(k) \in {0, 1} /\ 0 \in 0..R /\ 1 \in Ranks /\ k \in Nat
      BY <1>5, <1>7, Constants DEF Ranks
    <3>2. returned[1] < k
      BY <1>9, <1>10, <2>5, <3>1
    <3>3. r = 1 => Slot(k) # s
      <4>1. r = 1 => k = h + 1
        BY <1>5, <1>9, <2>3, <2>5
      <4> QED
        BY <1>7, <4>1
    <3>4. r # 1 => 0 # r - 1
      BY <1>5
    <3>5. buf'[0][Slot(k)] = buf[0][Slot(k)]
      BY <1>8, <3>1, <3>3, <3>4
    <3> QED
      BY <1>1, <1>2, <3>2, <3>5 DEF Buffers
  <2>6. ASSUME NEW q \in Ranks, q < R, NEW k \in 1..have[q], returned'[q + 1] < k
        PROVE  Intact(buf'[q][Slot(k)], sent[k].meta, round)
    <3>1. q \in Nat /\ q \in 0..R /\ have[q] \in 0..L /\ q >= 1
      BY <1>1, Counters
    <3>2. q + 1 \in Ranks /\ k \in Nat
      BY <2>6, <3>1, Constants DEF Ranks
    <3>3. returned[q + 1] < k
      BY <1>9, <1>10, <2>6, <3>2
    <3>4. q = r - 1 => Slot(k) # s
      <4>1. q = r - 1 => q + 1 = r /\ r > 1
        BY <3>1, <1>5
      <4>2. q = r - 1 => k = h + 1
        BY <1>5, <1>9, <2>2, <2>6, <3>2, <4>1
      <4> QED
        BY <1>7, <4>2
    <3>5. buf'[q][Slot(k)] = buf[q][Slot(k)]
      BY <1>7, <1>8, <3>1, <3>2, <3>4
    <3> QED
      BY <1>1, <1>2, <2>6, <3>3, <3>5 DEF Buffers
  <2>7. ASSUME NEW q \in Ranks, have[q] > 0
        PROVE  IF q < R THEN IntactBut(buf'[q][Slot(have[q])], Meta(q), round)
               ELSE Intact(buf'[q][Slot(have[q])], Meta(q), round)
    <3>1. q \in Nat /\ q \in 0..R /\ have[q] \in 0..L /\ Meta(q) \in Seq(Entry)
      BY <1>1, Counters
    <3>2. Slot(have[q]) \in {0, 1}
      BY <1>7, <3>1
    <3>3. CASE q = r - 1 /\ Slot(have[q]) = s
      <4>1. q < R
        BY <1>5, <3>3, Constants
      <4>2. IntactBut(b, Meta(q), round)
        BY <1>1, <1>2, <2>7, <3>3, <4>1 DEF Buffers
      <4>3. IntactBut(v, Meta(q), round)
        <5> HIDE DEF b
        <5> QED
          BY <3>1, <4>2, MagicDamage DEF v
      <4> QED
        BY <1>8, <3>3, <4>1, <4>3
    <3>4. CASE ~(q = r - 1 /\ Slot(have[q]) = s)
      <4>1. buf'[q][Slot(have[q])] = buf[q][Slot(have[q])]
        BY <1>8, <3>1, <3>2, <3>4
      <4> QED
        BY <1>1, <1>2, <2>7, <4>1 DEF Buffers
    <3> QED
      BY <3>3, <3>4
  <2> QED
    BY <1>2, <1>3, <1>4, <2>4, <2>5, <2>6, <2>7 DEF Buffers, Meta
<1>15. Hands'
  BY <1>1, <1>2, <1>3, <1>5, ConsumerKept DEF SentGrows
<1> QED
  BY <1>11, <1>12, <1>13, <1>14, <1>15 DEF IInv

-----------------------------------------------------------------------------
(* Taking the tensors out of the buckets. *)

\* A step of the consumer touches nothing else.
LEMMA ConsumerStep ==
  ASSUME IInv, UNCHANGED <<setup, round, sender, buf, have, moved, reading, offered, returned>>,
         Types', Hands', \A r \in Ranks : yielded'[r] <= Len(Meta(r))
  PROVE  IInv'
<1>1. Types /\ Ledger /\ Marks /\ Pace /\ Buffers /\ Hands
  BY DEF IInv
<1>2. UNCHANGED <<next, bucket_meta, sent, trainer, reclaim>>
  BY DEF sender
<1>3. /\ engine' = engine /\ sizes' = sizes
  BY SetupKept
<1>4. Ledger' /\ Marks'
  BY <1>1, <1>2, SenderKept
<1>5. \A r \in Ranks : Meta(r)' = Meta(r) /\ Offered(r)' = Offered(r)
  BY <1>2, <1>3 DEF Meta, Offered, Source
<1>6. Pace'
  BY <1>1, <1>2, <1>3, <1>5 DEF Pace
<1>7. Buffers'
  BY <1>1, <1>2, <1>3, <1>5 DEF Buffers
<1> QED
  BY <1>4, <1>6, <1>7 DEF IInv

\* The piece that is yielded next is the one that is due.
LEMMA NextPiece ==
  ASSUME IInv, NEW r \in Ranks, yielded[r] < Len(Meta(r))
  PROVE  LET y == yielded[r] + 1
             c == Meta(r)[y]
         IN  /\ have[r] > 0 /\ y \in 1..Len(Meta(r)) /\ Place(c) = Pos(r) /\ c \in Entry
             /\ IsChunk(sizes, c) /\ c.offset + c.size <= bucket_size
             /\ Position(sizes, sent, have[r], y) = Follow(sizes, c)
<1> DEFINE m == Meta(r)
           h == have[r]
           y == yielded[r]
           c == m[y + 1]
<1>1. Types /\ Ledger /\ Marks /\ Pace
  BY DEF IInv
<1>2. /\ Len(sent) \in Nat /\ h \in 0..Len(sent) /\ y \in 0..Len(m) /\ m \in Seq(Entry)
      /\ Packed(sizes, engine, m) /\ Len(m) \in Nat
      /\ h > 0 => h \in 1..Len(sent) /\ m = sent[h].meta
      /\ h = 0 => m = <<>>
  BY <1>1, Counters, EntryFields
<1>3. y < Len(m)
  OBVIOUS
<1>4. h > 0 /\ m # <<>>
  BY <1>2, <1>3, EntryFields
<1>5. y + 1 \in 1..Len(m)
  BY <1>2, <1>3
<1>6. c \in Entry
  <2> HIDE DEF Entry, m, y
  <2> QED
    BY <1>2, <1>5
<1>7. IsChunk(sizes, c) /\ c.offset + c.size <= bucket_size
  BY <1>2, <1>5 DEF Packed
<1>8. Place(c) = Pos(r)
  <2>1. CASE y = 0
    <3>1. Pos(r) = After(sizes, sent, h - 1)
      BY <1>2, <1>4, <2>1 DEF Pos, Position
    <3>2. Place(m[1]) = After(sizes, sent, h - 1)
      BY <1>1, <1>2, <1>4 DEF Ledger
    <3> QED
      BY <2>1, <3>1, <3>2
  <2>2. CASE y # 0
    <3>1. y \in 1..Len(m) - 1
      BY <1>2, <1>3, <2>2
    <3>2. Follow(sizes, m[y]) = Place(m[y + 1])
      BY <1>2, <3>1, PackedNext
    <3>3. Pos(r) = Follow(sizes, m[y])
      BY <1>2, <1>4, <2>2 DEF Pos, Position
    <3> QED
      BY <3>2, <3>3
  <2> QED
    BY <2>1, <2>2
<1>9. Position(sizes, sent, h, y + 1) = Follow(sizes, c)
  <2>1. h # 0 /\ y + 1 # 0 /\ m = sent[h].meta
    BY <1>2, <1>4
  <2> QED
    BY <2>1 DEF Position
<1> QED
  BY <1>4, <1>5, <1>6, <1>7, <1>8, <1>9

\* More copies in the stream ask nothing more of the IPC buffer.
LEMMA IpcIssue ==
  ASSUME NEW z, NEW rd, NEW x, NEW im, NEW ib, NEW pd, NEW qd,
         IpcOK(z, rd, x, im, ib, pd), Len(pd) \in Nat, Len(qd) \in Nat, Len(pd) <= Len(qd),
         \A j \in 1..Len(pd) : qd[j] = pd[j]
  PROVE  IpcOK(z, rd, x, im, ib, qd)
<1>1. \A a : (\E j \in 1..Len(pd) : pd[j].to = "ipc" /\ pd[j].at = a)
             => \E j \in 1..Len(qd) : qd[j].to = "ipc" /\ qd[j].at = a
  <2>1. \A j \in 1..Len(pd) : j \in 1..Len(qd) /\ qd[j] = pd[j]
    OBVIOUS
  <2> QED
    BY <2>1
<1> QED
  BY <1>1 DEF IpcOK

LEMMA PendingFields ==
  ASSUME NEW p \in Seq(Copy)
  PROVE  /\ Len(p) \in Nat
         /\ \A j \in 1..Len(p) :
              /\ p[j] \in Copy /\ p[j].to \in {"merge", "ipc"} /\ p[j].slot \in {0, 1}
              /\ p[j].offset \in Nat /\ p[j].at \in Nat /\ p[j].size \in Nat
         /\ p # <<>> => /\ 1 \in 1..Len(p) /\ Head(p) = p[1]
                        /\ Tail(p) \in Seq(Copy) /\ Len(Tail(p)) = Len(p) - 1
                        /\ \A j \in 1..Len(p) - 1 : Tail(p)[j] = p[j + 1]
<1>1. /\ Len(p) \in Nat /\ \A j \in 1..Len(p) : p[j] \in Copy
      /\ p # <<>> => /\ 1 \in 1..Len(p) /\ Head(p) = p[1]
                     /\ Tail(p) \in Seq(Copy) /\ Len(Tail(p)) = Len(p) - 1
                     /\ \A j \in 1..Len(p) - 1 : Tail(p)[j] = p[j + 1]
  <2> HIDE DEF Copy
  <2> QED
    OBVIOUS
<1>2. \A c \in Copy : /\ c.to \in {"merge", "ipc"} /\ c.slot \in {0, 1}
                      /\ c.offset \in Nat /\ c.at \in Nat /\ c.size \in Nat
  BY DEF Copy
<1> QED
  BY <1>1, <1>2

\* A tensor that fits in a bucket is taken over as it is.
LEMMA YieldWhole ==
  ASSUME IInv, NEW r \in Ranks, item[r] = NoItem, yielded[r] < Len(Meta(r)),
         NEW c, c = Meta(r)[yielded[r] + 1], sizes[c.name] <= bucket_size,
         NEW w, w = [name |-> c.name, slot |-> Slot(have[r]), offset |-> c.offset],
         NEW y, y = yielded[r] + 1
  PROVE  Holding(r, y, w, merge[r], pending[r], ipc_meta[r], ipc_buf[r], loaded[r], done[r])
<1> DEFINE p == Position(sizes, sent, have[r], y)
<1>1. /\ have[r] > 0 /\ y \in 1..Len(Meta(r)) /\ Place(c) = Pos(r) /\ c \in Entry
      /\ IsChunk(sizes, c) /\ c.offset + c.size <= bucket_size
      /\ p = Follow(sizes, c) /\ c = Meta(r)[y]
  BY NextPiece
<1>2. /\ ItemOK(sizes, Meta(r), have[r], yielded[r], item[r])
      /\ MergeOK(sizes, round, Pos(r), item[r], merge[r], pending[r])
      /\ \A j \in 1..Len(pending[r]) :
           CopyOK(sizes, Meta(r), have[r], yielded[r], merge[r], ipc_meta[r], pending[r][j])
      /\ IpcOK(sizes, round, Damaged(r), ipc_meta[r], ipc_buf[r], pending[r])
      /\ LoadedOK(sizes, round, Damaged(r), Pos(r), item[r], ipc_meta[r], loaded[r], done[r])
  BY DEF IInv, Hands, Hand
<1>3. yielded[r] \in Nat /\ sizes \in Seq(Nat \ {0})
  BY Counters, SetupFacts DEF IInv, Types
<1>4. c.at = 0 /\ c.size = sizes[c.name] /\ c.name \in DOMAIN sizes
  BY <1>1 DEF IsChunk
<1>5. Pos(r) = <<c.name, 0>> /\ p = <<c.name + 1, 0>> /\ c.name \in Nat /\ c.name >= 1
  <2>1. c.name \in Nat /\ c.name >= 1 /\ sizes[c.name] \in Nat
    BY <1>3, <1>4
  <2>2. c.at + c.size = sizes[c.name]
    BY <1>4, <2>1
  <2> HIDE DEF p
  <2> QED
    BY <1>1, <1>4, <2>1, <2>2 DEF Place, Follow
<1>6. w.name = c.name /\ w.offset = c.offset /\ w.slot = Slot(have[r])
  OBVIOUS
<1>7. ItemOK(sizes, Meta(r), have[r], y, w)
  BY <1>1, <1>4, <1>6, <1>3 DEF ItemOK
<1>8. MergeOK(sizes, round, p, w, merge[r], pending[r])
  <2>1. merge[r] = NoMerge
    BY <1>2, <1>5 DEF MergeOK, Open
  <2>2. Open(sizes, p, w) = <<0, 0>>
    <3>1. sizes[c.name] \in Nat
      BY <1>3, <1>4
    <3>2. ~(sizes[w.name] > bucket_size)
      BY <1>6, <3>1, Constants
    <3> QED
      BY <1>5, <3>2 DEF Open
  <2> QED
    BY <1>5, <2>1, <2>2 DEF MergeOK
<1>9. \A j \in 1..Len(pending[r]) :
        CopyOK(sizes, Meta(r), have[r], y, merge[r], ipc_meta[r], pending[r][j])
  <2>1. \A i \in 1..yielded[r] : i \in 1..y
    BY <1>3
  <2> QED
    BY <1>2, <2>1 DEF CopyOK
<1>10. LoadedOK(sizes, round, Damaged(r), p, w, ipc_meta[r], loaded[r], done[r])
  <2>3. \A t \in DOMAIN sizes : t \in Nat /\ t >= 1
    BY <1>3
  <2>4. p[1] = c.name + 1 /\ Pos(r)[1] = c.name
    BY <1>5
  <2> HIDE DEF p
  <2>1. \A t \in DOMAIN sizes : t \in Nat /\ t >= 1 /\ (t < p[1] => t < Pos(r)[1] \/ t = w.name)
    BY <1>5, <1>6, <2>3, <2>4
  <2>2. \A t \in DOMAIN sizes : item[r].name # t
    BY <2>1 DEF NoItem
  <2> QED
    BY <1>2, <2>1, <2>2 DEF LoadedOK
<1> QED
  BY <1>2, <1>7, <1>8, <1>9, <1>10 DEF Holding

\* A part of a larger tensor is copied to the tensor being put together.
LEMMA YieldPart ==
  ASSUME IInv, NEW r \in Ranks, item[r] = NoItem, yielded[r] < Len(Meta(r)),
         NEW y, y = yielded[r] + 1, NEW w, NEW g, NEW q,
         LET c == Meta(r)[y]
             l == Len(pending[r])
         IN  /\ sizes[c.name] > bucket_size
             /\ c.at + c.size = sizes[c.name] =>
                  w.name = c.name /\ w.offset = c.offset /\ w.slot = Slot(have[r])
             /\ c.at + c.size # sizes[c.name] => w = NoItem
             /\ g.name = c.name /\ g.offset = c.at + c.size
             /\ merge[r] = NoMerge => Spans(g.bytes, sizes[c.name])
             /\ merge[r] # NoMerge => g.bytes = merge[r].bytes
             /\ Len(q) = l + 1 /\ \A j \in 1..l : q[j] = pending[r][j]
             /\ q[l + 1] = [to |-> "merge", slot |-> Slot(have[r]), offset |-> c.offset,
                            at |-> c.at, size |-> c.size]
  PROVE  Holding(r, y, w, g, q, ipc_meta[r], ipc_buf[r], loaded[r], done[r])
<1> PICK c, l, d : c = Meta(r)[y] /\ l = Len(pending[r]) /\ d = q[l + 1]
  OBVIOUS
<1>0. /\ sizes[c.name] > bucket_size
      /\ c.at + c.size = sizes[c.name] =>
           w.name = c.name /\ w.offset = c.offset /\ w.slot = Slot(have[r])
      /\ c.at + c.size # sizes[c.name] => w = NoItem
      /\ g.name = c.name /\ g.offset = c.at + c.size
      /\ merge[r] = NoMerge => Spans(g.bytes, sizes[c.name])
      /\ merge[r] # NoMerge => g.bytes = merge[r].bytes
      /\ Len(q) = l + 1 /\ \A j \in 1..l : q[j] = pending[r][j]
      /\ d.to = "merge" /\ d.slot = Slot(have[r]) /\ d.offset = c.offset
      /\ d.at = c.at /\ d.size = c.size
  OBVIOUS
<1> DEFINE z == sizes[c.name]
           p == Position(sizes, sent, have[r], y)
<1>1. /\ have[r] > 0 /\ y \in 1..Len(Meta(r)) /\ Place(c) = Pos(r) /\ c \in Entry
      /\ IsChunk(sizes, c) /\ c.offset + c.size <= bucket_size
      /\ p = Follow(sizes, c) /\ c = Meta(r)[y]
  BY NextPiece
<1>2. /\ ItemOK(sizes, Meta(r), have[r], yielded[r], item[r])
      /\ MergeOK(sizes, round, Pos(r), item[r], merge[r], pending[r])
      /\ \A j \in 1..l :
           CopyOK(sizes, Meta(r), have[r], yielded[r], merge[r], ipc_meta[r], pending[r][j])
      /\ IpcOK(sizes, round, Damaged(r), ipc_meta[r], ipc_buf[r], pending[r])
      /\ LoadedOK(sizes, round, Damaged(r), Pos(r), item[r], ipc_meta[r], loaded[r], done[r])
  BY DEF IInv, Hands, Hand
<1>3. yielded[r] \in Nat /\ have[r] \in Nat /\ sizes \in Seq(Nat \ {0})
      /\ pending[r] \in Seq(Copy)
  BY Counters, SetupFacts DEF IInv, Types
<1>4. /\ c.name \in DOMAIN sizes /\ c.at \in Nat /\ c.size \in Nat /\ c.size >= 1
      /\ c.at + c.size <= z /\ c.offset \in Nat /\ c.name \in Nat /\ c.name >= 1
      /\ z \in Nat /\ z > bucket_size
  <2>1. /\ c.name \in DOMAIN sizes /\ c.at \in Nat /\ c.size \in Nat \ {0}
        /\ c.at + c.size <= sizes[c.name]
    BY <1>1 DEF IsChunk
  <2>2. c.offset \in Nat
    BY <1>1 DEF Entry
  <2>3. \A t \in DOMAIN sizes : t \in Nat /\ t >= 1 /\ sizes[t] \in Nat
    BY <1>3
  <2>4. c.size >= 1
    BY <2>1
  <2> QED
    BY <1>0, <2>1, <2>2, <2>3, <2>4
<1>5. Pos(r) = <<c.name, c.at>>
  BY <1>1 DEF Place
<1>6. d.to = "merge" /\ d.slot = Slot(have[r]) /\ d.offset = c.offset
      /\ d.at = c.at /\ d.size = c.size
  OBVIOUS
<1>7. /\ l \in Nat /\ Len(q) = l + 1 /\ q[l + 1] = d
      /\ \A j \in 1..l : q[j] = pending[r][j]
  BY <1>3, PendingFields
<1>8. \A j \in 1..l + 1 : j \in 1..l \/ j = l + 1
  BY <1>7
<1>9. c.at = 0 => merge[r] = NoMerge
  BY <1>2, <1>5 DEF MergeOK, Open
<1>10. c.at > 0 => PartOK(round, c.name, c.at, z, merge[r], pending[r])
  <2> SUFFICES ASSUME c.at > 0 PROVE PartOK(round, c.name, c.at, z, merge[r], pending[r])
    OBVIOUS
  <2>1. Open(sizes, Pos(r), item[r]) = <<c.name, c.at>>
    BY <1>5 DEF Open
  <2>2. c.name # 0
    BY <1>4
  <2>3. <<c.name, c.at>>[1] = c.name /\ <<c.name, c.at>>[2] = c.at
    OBVIOUS
  <2> QED
    BY <1>2, <2>1, <2>2, <2>3 DEF MergeOK
<1>11. merge[r] # NoMerge => c.at > 0 /\ merge[r].name = c.name
  BY <1>4, <1>9, <1>10 DEF PartOK
<1>12. /\ g.name = c.name /\ g.offset = c.at + c.size /\ g # NoMerge
       /\ merge[r] = NoMerge => Spans(g.bytes, z)
       /\ merge[r] # NoMerge => g.bytes = merge[r].bytes
  BY <1>4 DEF NoMerge
<1>13. Spans(g.bytes, z)
  <2>1. CASE merge[r] = NoMerge
    BY <1>12, <2>1 DEF Spans
  <2>2. CASE merge[r] # NoMerge
    BY <1>10, <1>11, <1>12, <2>2 DEF PartOK
  <2> QED
    BY <2>1, <2>2
<1>14. PartOK(round, c.name, c.at + c.size, z, g, q)
  <2>1. c.at > 0 => PartOK(round, c.name, c.at, z, merge[r], pending[r])
                    /\ g.bytes = merge[r].bytes
    <3>1. c.at > 0 => merge[r].name # 0
      BY <1>4, <1>10 DEF PartOK
    <3> QED
      BY <1>10, <1>12, <3>1 DEF NoMerge
  <2>2. \A j \in 1..l : j \in 1..Len(q) /\ q[j] = pending[r][j]
    BY <1>7
  <2>3. l + 1 \in 1..Len(q) /\ q[l + 1].to = "merge" /\ q[l + 1].at = c.at
        /\ q[l + 1].size = c.size
    BY <1>6, <1>7
  <2> HIDE DEF z
  <2>5. PICK o \in Nat : o = c.at + c.size
    BY <1>4
  <2>4. ASSUME NEW i \in 0..o - 1
        PROVE  \/ g.bytes[i] = <<round, c.name, i>>
               \/ \E j \in 1..Len(q) :
                    q[j].to = "merge" /\ i \in q[j].at..q[j].at + q[j].size - 1
    <3>1. CASE i < c.at
      <4>1. c.at > 0 /\ i \in 0..c.at - 1
        <5>1. PICK a \in Nat : a = c.at
          BY <1>4
        <5>2. i \in Nat /\ i < a
          BY <2>5, <3>1, <5>1
        <5>3. a > 0 /\ i \in 0..a - 1
          BY <5>2
        <5> QED
          BY <5>1, <5>3
      <4>2. \/ g.bytes[i] = <<round, c.name, i>>
            \/ \E j \in 1..l : /\ pending[r][j].to = "merge"
                                /\ i \in pending[r][j].at..pending[r][j].at + pending[r][j].size - 1
        BY <2>1, <4>1 DEF PartOK
      <4>3. ASSUME NEW j \in 1..l, pending[r][j].to = "merge",
                   i \in pending[r][j].at..pending[r][j].at + pending[r][j].size - 1
            PROVE  \E k \in 1..Len(q) :
                     q[k].to = "merge" /\ i \in q[k].at..q[k].at + q[k].size - 1
        <5>1. j \in 1..Len(q) /\ q[j] = pending[r][j]
          BY <2>2
        <5>2. q[j].to = "merge" /\ i \in q[j].at..q[j].at + q[j].size - 1
          BY <4>3, <5>1
        <5> QED
          BY <5>1, <5>2
      <4> QED
        BY <4>2, <4>3
    <3>2. CASE i >= c.at
      <4>1. i \in c.at..c.at + c.size - 1
        <5>1. PICK a \in Nat, n \in Nat : a = c.at /\ n = c.size
          BY <1>4
        <5>2. i \in Nat /\ i >= a /\ i <= (a + n) - 1
          BY <2>5, <3>2, <5>1
        <5>3. i \in a..a + n - 1
          BY <5>2
        <5> QED
          BY <5>1, <5>3
      <4> QED
        BY <2>3, <4>1
    <3>3. i < c.at \/ i >= c.at
      BY <1>4
    <3> QED
      BY <3>1, <3>2, <3>3
  <2>6. g.name = c.name /\ g.offset = o
    BY <1>12, <2>5
  <2>7. PartOK(round, c.name, o, z, g, q)
    BY <1>13, <2>4, <2>6, Zenon DEF PartOK
  <2> QED
    BY <2>5, <2>7
<1>15. ASSUME c.at + c.size = z
       PROVE  /\ p = <<c.name + 1, 0>> /\ w # NoItem /\ w.name = c.name
              /\ w.offset = c.offset /\ w.slot = Slot(have[r])
  BY <1>1, <1>4, <1>15 DEF Follow, NoItem
<1>16. ASSUME c.at + c.size # z
       PROVE  p = <<c.name, c.at + c.size>> /\ w = NoItem
  BY <1>1, <1>16 DEF Follow
<1> HIDE DEF z
<1>17. ItemOK(sizes, Meta(r), have[r], y, w)
  BY <1>1, <1>3, <1>15, <1>16 DEF ItemOK, z
<1>18. Open(sizes, p, w) = <<c.name, c.at + c.size>>
  <2>1. CASE c.at + c.size = z
    <3>1. sizes[w.name] > bucket_size /\ sizes[w.name] = z
      BY <1>4, <1>15, <2>1 DEF z
    <3> QED
      BY <1>15, <2>1, <3>1 DEF Open
  <2>2. CASE c.at + c.size # z
    <3>1. p[2] > 0
      BY <1>4, <1>16, <2>2
    <3> QED
      BY <1>16, <2>2, <3>1 DEF Open
  <2> QED
    BY <2>1, <2>2
<1>19. p[2] > 0 => w = NoItem /\ p[1] \in DOMAIN sizes /\ sizes[p[1]] > bucket_size
                   /\ p[2] <= sizes[p[1]]
  BY <1>4, <1>15, <1>16 DEF z
<1>20. MergeOK(sizes, round, p, w, g, q)
  <2>1. c.name # 0 /\ <<c.name, c.at + c.size>>[1] = c.name
        /\ <<c.name, c.at + c.size>>[2] = c.at + c.size
    BY <1>4
  <2> QED
    BY <1>14, <1>18, <1>19, <2>1 DEF MergeOK, z
<1>21. ASSUME NEW j \in 1..Len(q)
       PROVE  CopyOK(sizes, Meta(r), have[r], y, g, ipc_meta[r], q[j])
  <2>1. \A i \in 1..yielded[r] : i \in 1..y
    BY <1>3
  <2>2. CASE j \in 1..l
    <3>1. q[j] = pending[r][j]
          /\ CopyOK(sizes, Meta(r), have[r], yielded[r], merge[r], ipc_meta[r], pending[r][j])
      BY <1>2, <1>7, <2>2
    <3>2. merge[r] # NoMerge => g # NoMerge /\ g.name = merge[r].name
      BY <1>11, <1>12
    <3> QED
      BY <2>1, <3>1, <3>2 DEF CopyOK
  <2>3. CASE j = l + 1
    <3>1. y \in 1..y
      BY <1>3
    <3>2. q[j] = d /\ c = Meta(r)[y] /\ have[r] > 0
      BY <1>1, <1>7, <2>3
    <3> QED
      BY <1>6, <1>12, <3>1, <3>2 DEF CopyOK
  <2> QED
    BY <1>7, <1>8, <2>2, <2>3
<1>22. IpcOK(sizes, round, Damaged(r), ipc_meta[r], ipc_buf[r], q)
  <2>1. l \in Nat /\ Len(q) \in Nat /\ l <= Len(q)
    BY <1>7
  <2> QED
    BY <1>2, <1>7, <2>1, IpcIssue
<1>23. LoadedOK(sizes, round, Damaged(r), p, w, ipc_meta[r], loaded[r], done[r])
  <2>1. \A t \in DOMAIN sizes : t \in Nat /\ t >= 1
    BY <1>3
  <2>2. \A t \in DOMAIN sizes : t < p[1] => t < Pos(r)[1] \/ t = w.name
    <3>1. CASE c.at + c.size = z
      BY <1>4, <1>5, <1>15, <2>1, <3>1
    <3>2. CASE c.at + c.size # z
      BY <1>5, <1>16, <3>2
    <3> QED
      BY <3>1, <3>2
  <2>3. \A t \in DOMAIN sizes : item[r].name # t
    BY <2>1 DEF NoItem
  <2> QED
    BY <1>2, <2>2, <2>3 DEF LoadedOK
<1> QED
  BY <1>17, <1>20, <1>21, <1>22, <1>23 DEF Holding

\* A step in which a rank handles what it has at hand.
LEMMA HandStep ==
  ASSUME IInv, NEW r \in Ranks, Types', yielded'[r] <= Len(Meta(r)),
         UNCHANGED <<setup, round, sender, buf, have, moved, reading, offered, returned>>,
         \A q \in Ranks : q # r =>
           /\ yielded'[q] = yielded[q] /\ merge'[q] = merge[q] /\ item'[q] = item[q]
           /\ pending'[q] = pending[q] /\ ipc_meta'[q] = ipc_meta[q] /\ ipc_buf'[q] = ipc_buf[q]
           /\ loaded'[q] = loaded[q] /\ done'[q] = done[q],
         Holding(r, yielded'[r], item'[r], merge'[r], pending'[r], ipc_meta'[r], ipc_buf'[r],
                 loaded'[r], done'[r])
  PROVE  IInv'
<1>1. Types /\ Ledger /\ Marks /\ Pace /\ Buffers /\ Hands
  BY DEF IInv
<1>2. UNCHANGED <<next, bucket_meta, sent, trainer, reclaim>>
  BY DEF sender
<1>3. engine' = engine /\ sizes' = sizes
  BY SetupKept
<1>4. Meta(r)' = Meta(r) /\ Damaged(r)' = Damaged(r)
      /\ Pos(r)' = Position(sizes, sent, have[r], yielded'[r])
  BY <1>2, <1>3 DEF Meta, Damaged, Pos
<1>5. Hand(r)'
  BY <1>2, <1>3, <1>4 DEF Hand, Holding
<1>6. \A q \in Ranks : q # r => have'[q] = have[q]
  OBVIOUS
<1>7. UNCHANGED <<setup, round, sent>>
  BY <1>2
<1>8. Hands'
  BY <1>1, <1>5, <1>6, <1>7, OthersKept
<1>9. \A q \in Ranks : yielded'[q] <= Len(Meta(q))
  BY <1>1 DEF Pace
<1> QED
  BY <1>8, <1>9, ConsumerStep

LEMMA Issued ==
  ASSUME NEW o \in Seq(Copy), NEW d \in Copy, NEW b, b = Append(o, d)
  PROVE  /\ b \in Seq(Copy) /\ Len(b) = Len(o) + 1 /\ b[Len(o) + 1] = d
         /\ \A j \in 1..Len(o) : b[j] = o[j]
<1> HIDE DEF Copy
<1> QED
  OBVIOUS

LEMMA YieldChunkStep ==
  ASSUME IInv, NEW r \in Ranks, YieldChunk(r)
  PROVE  IInv'
<1>1. Types /\ Ledger /\ Marks /\ Pace /\ Buffers /\ Hands
  BY DEF IInv
<1>2. PICK c : c = Meta(r)[yielded[r] + 1]
  OBVIOUS
<1>3. item[r] = NoItem /\ yielded[r] < Len(Meta(r))
  BY DEF YieldChunk
<1>4. /\ have[r] > 0 /\ c \in Entry /\ IsChunk(sizes, c)
  BY <1>2, <1>3, NextPiece
<1>5. /\ UNCHANGED <<setup, round, sender, buf, have, moved, reading, offered, returned,
                     ipc_meta, ipc_buf, loaded, done>>
      /\ yielded' = [yielded EXCEPT ![r] = @ + 1]
  BY DEF YieldChunk
<1>6. PICK whole : whole = [name |-> c.name, slot |-> Slot(have[r]), offset |-> c.offset]
  OBVIOUS
<1>7. PICK d : d = [to |-> "merge", slot |-> Slot(have[r]), offset |-> c.offset,
                    at |-> c.at, size |-> c.size]
  OBVIOUS
<1>8. PICK g : g = [name |-> c.name, offset |-> c.at + c.size,
                    bytes |-> IF merge[r] = NoMerge THEN [i \in 0..sizes[c.name] - 1 |-> Zero]
                              ELSE merge[r].bytes]
  OBVIOUS
<1>9. PICK w : w = IF c.at + c.size = sizes[c.name] THEN whole ELSE NoItem
  OBVIOUS
<1>10. sizes[c.name] > bucket_size =>
         /\ merge' = [merge EXCEPT ![r] = g]
         /\ pending' = [pending EXCEPT ![r] = Append(@, d)]
         /\ item' = [item EXCEPT ![r] = w]
  BY <1>2, <1>6, <1>7, <1>8, <1>9 DEF YieldChunk, Issue
<1>11. ~(sizes[c.name] > bucket_size) =>
         item' = [item EXCEPT ![r] = whole] /\ UNCHANGED <<merge, pending>>
  BY <1>2, <1>6 DEF YieldChunk
<1>12. /\ c.name \in Nat /\ c.at \in Nat /\ c.size \in Nat /\ c.offset \in Nat
       /\ yielded[r] \in Nat /\ Len(Meta(r)) \in Nat /\ Slot(have[r]) \in {0, 1}
       /\ sizes[c.name] \in Nat
  <2>1. Meta(r) \in Seq(Entry) /\ have[r] \in Int /\ yielded[r] \in Nat
    BY <1>1, Counters
  <2>2. c.name \in DOMAIN sizes
    BY <1>4 DEF IsChunk
  <2> QED
    BY <1>1, <1>4, <2>1, <2>2, EntryFields, Slots, SetupFacts DEF Entry, Types, Names
<1>13. whole \in Item /\ NoItem \in Item /\ w \in Item /\ d \in Copy
  BY <1>6, <1>7, <1>9, <1>12 DEF Item, NoItem, Copy
<1>14. PICK y \in Nat : y = yielded[r] + 1 /\ y <= Len(Meta(r))
  BY <1>3, <1>12
<1>15. /\ yielded' \in [Ranks -> Nat] /\ yielded'[r] = y
       /\ \A q \in Ranks : q # r => yielded'[q] = yielded[q]
  BY <1>1, <1>5, <1>14 DEF Types
<1>16. engine' = engine /\ sizes' = sizes /\ Names' = Names /\ Chunks' = Chunks
  BY <1>5, SetupKept
<1>17. UNCHANGED <<next, bucket_meta, sent, trainer, reclaim>>
  BY <1>5 DEF sender
<1>20. CASE sizes[c.name] > bucket_size
  <2>1. /\ item' \in [Ranks -> Item] /\ item'[r] = w
        /\ \A q \in Ranks : q # r => item'[q] = item[q]
    BY <1>1, <1>10, <1>13, <1>20 DEF Types
  <2>2. PICK o \in Seq(Copy) : o = pending[r]
    BY <1>1 DEF Types
  <2>10. PICK b : b = Append(o, d)
    OBVIOUS
  <2>3. /\ b \in Seq(Copy) /\ Len(b) = Len(o) + 1 /\ b[Len(o) + 1] = d
        /\ \A j \in 1..Len(o) : b[j] = o[j]
    BY <1>13, <2>10, Issued
  <2>4. /\ pending' \in [Ranks -> Seq(Copy)] /\ pending'[r] = b
        /\ \A q \in Ranks : q # r => pending'[q] = pending[q]
    <3>1. pending' = [pending EXCEPT ![r] = b]
      BY <1>10, <1>20, <2>2, <2>10
    <3> QED
      BY <1>1, <2>3, <3>1 DEF Types
  <2>5. /\ MergeShape(merge') /\ merge'[r] = g
        /\ \A q \in Ranks : q # r => merge'[q] = merge[q]
    <3>1. g = [name |-> g.name, offset |-> g.offset, bytes |-> g.bytes]
      BY <1>8
    <3>2. MergeShape(merge)
      BY <1>1 DEF Types
    <3>3. MergeShape([merge EXCEPT ![r] = g])
      BY <3>1, <3>2, ShapeUpdates
    <3>4. r \in DOMAIN merge /\ Ranks = DOMAIN merge
      BY <3>2 DEF MergeShape
    <3> QED
      BY <1>10, <1>20, <3>3, <3>4
  <2>6. Types'
    BY <1>1, <1>5, <1>15, <1>16, <1>17, <2>1, <2>4, <2>5 DEF Types, Ranks
  <2>7. /\ g.name = c.name /\ g.offset = c.at + c.size
        /\ merge[r] = NoMerge => Spans(g.bytes, sizes[c.name])
        /\ merge[r] # NoMerge => g.bytes = merge[r].bytes
    BY <1>8 DEF Spans
  <2>8. Holding(r, y, w, g, b, ipc_meta[r], ipc_buf[r], loaded[r], done[r])
    <3>1. y = yielded[r] + 1 /\ c = Meta(r)[y]
      BY <1>2, <1>14
    <3>2. /\ c.at + c.size = sizes[c.name] =>
               w.name = c.name /\ w.offset = c.offset /\ w.slot = Slot(have[r])
          /\ c.at + c.size # sizes[c.name] => w = NoItem
      BY <1>6, <1>9
    <3>3. /\ Len(b) = Len(pending[r]) + 1 /\ b[Len(pending[r]) + 1] = d
          /\ \A j \in 1..Len(pending[r]) : b[j] = pending[r][j]
      BY <2>2, <2>3
    <3> QED
      BY <1>3, <1>7, <1>20, <2>7, <3>1, <3>2, <3>3, YieldPart
  <2>9. /\ ipc_meta' = ipc_meta /\ ipc_buf' = ipc_buf /\ loaded' = loaded /\ done' = done
    BY <1>5
  <2> QED
    BY <1>5, <1>14, <1>15, <2>1, <2>4, <2>5, <2>6, <2>8, <2>9, HandStep
<1>21. CASE ~(sizes[c.name] > bucket_size)
  <2>1. /\ item' \in [Ranks -> Item] /\ item'[r] = whole
        /\ \A q \in Ranks : q # r => item'[q] = item[q]
    BY <1>1, <1>11, <1>13, <1>21 DEF Types
  <2>2. merge' = merge /\ pending' = pending /\ ipc_meta' = ipc_meta /\ ipc_buf' = ipc_buf
        /\ loaded' = loaded /\ done' = done
    BY <1>5, <1>11, <1>21
  <2>3. Types'
    BY <1>1, <1>5, <1>15, <1>16, <1>17, <2>1, <2>2 DEF Types, Ranks
  <2>4. sizes[c.name] <= bucket_size
    BY <1>12, <1>21, Constants
  <2>5. Holding(r, y, whole, merge[r], pending[r], ipc_meta[r], ipc_buf[r], loaded[r], done[r])
    BY <1>2, <1>3, <1>6, <1>14, <2>4, YieldWhole
  <2> QED
    BY <1>5, <1>14, <1>15, <2>1, <2>2, <2>3, <2>5, HandStep
<1> QED
  BY <1>20, <1>21

-----------------------------------------------------------------------------
(* The copies on the stream. *)

\* What a copy c from buffer s makes of the bytes b.
Overlaid(b, c, s) ==
    [i \in DOMAIN b |-> IF i \in c.at..c.at + c.size - 1 THEN s[c.offset + i - c.at] ELSE b[i]]

LEMMA TailCopies ==
  ASSUME NEW pd \in Seq(Copy), pd # <<>>
  PROVE  /\ Tail(pd) \in Seq(Copy) /\ Len(Tail(pd)) \in Nat
         /\ \A j \in 1..Len(pd) : j = 1 \/ \E i \in 1..Len(Tail(pd)) : Tail(pd)[i] = pd[j]
         /\ \A j \in 1..Len(Tail(pd)) : \E i \in 1..Len(pd) : Tail(pd)[j] = pd[i]
<1> PICK q : q = Tail(pd)
  OBVIOUS
<1>1. /\ Len(pd) \in Nat /\ q \in Seq(Copy) /\ Len(q) = Len(pd) - 1 /\ Len(q) \in Nat
      /\ \A j \in 1..Len(pd) - 1 : q[j] = pd[j + 1]
  BY PendingFields
<1>2. ASSUME NEW j \in 1..Len(pd), j # 1 PROVE \E i \in 1..Len(q) : q[i] = pd[j]
  <2>1. PICK i \in Nat : i = j - 1 /\ j = i + 1 /\ i >= 1 /\ i <= Len(pd) - 1
    BY <1>1, <1>2
  <2> QED
    BY <1>1, <2>1
<1>3. \A j \in 1..Len(q) : j \in 1..Len(pd) - 1 /\ j + 1 \in 1..Len(pd)
  BY <1>1
<1> QED
  BY <1>1, <1>2, <1>3

\* The copy of a part into the tensor being put together.
LEMMA PartCopied ==
  ASSUME NEW rd, NEW t, NEW o \in Nat, NEW n \in Nat, o <= n, NEW mg, NEW g,
         NEW pd \in Seq(Copy), pd # <<>>, NEW c, c = pd[1], NEW s,
         PartOK(rd, t, o, n, mg, pd),
         g.name = mg.name, g.offset = mg.offset, g.bytes = Overlaid(mg.bytes, c, s),
         \A x \in 0..c.size - 1 : s[c.offset + x] = <<rd, t, c.at + x>>,
         NEW q, q = Tail(pd)
  PROVE  PartOK(rd, t, o, n, g, q)
<1>1. /\ Len(q) \in Nat
      /\ \A j \in 1..Len(pd) : j = 1 \/ \E i \in 1..Len(q) : q[i] = pd[j]
  <2>1. pd \in Seq(Copy) /\ pd # <<>> /\ q = Tail(pd)
    OBVIOUS
  <2> QED
    BY <2>1, TailCopies
<1>2. c.at \in Nat /\ c.size \in Nat /\ c.offset \in Nat
  BY PendingFields
<1>3. DOMAIN mg.bytes = 0..n - 1
  BY DEF PartOK, Spans
<1>4. /\ Spans(g.bytes, n)
      /\ \A i \in 0..n - 1 :
           g.bytes[i] = IF i \in c.at..c.at + c.size - 1 THEN s[c.offset + i - c.at]
                        ELSE mg.bytes[i]
  BY <1>3 DEF Overlaid, Spans
<1>5. ASSUME NEW i \in 0..n - 1, i \in c.at..c.at + c.size - 1
      PROVE  g.bytes[i] = <<rd, t, i>>
  <2>1. PICK x \in 0..c.size - 1 : x = i - c.at /\ c.at + x = i /\ c.offset + i - c.at = c.offset + x
    <3>1. PICK a \in Nat, z \in Nat, f \in Nat : a = c.at /\ z = c.size /\ f = c.offset
      BY <1>2
    <3>2. i \in Nat /\ i >= a /\ i <= a + z - 1
      BY <1>5, <3>1
    <3>3. i - a \in 0..z - 1 /\ a + (i - a) = i /\ f + i - a = f + (i - a)
      BY <3>2
    <3> QED
      BY <3>1, <3>3
  <2> QED
    BY <1>4, <1>5, <2>1
<1>6. ASSUME NEW i \in 0..o - 1
      PROVE  \/ g.bytes[i] = <<rd, t, i>>
             \/ \E j \in 1..Len(q) : q[j].to = "merge" /\ i \in q[j].at..q[j].at + q[j].size - 1
  <2>1. i \in 0..n - 1
    OBVIOUS
  <2>2. CASE i \in c.at..c.at + c.size - 1
    BY <1>5, <2>1, <2>2
  <2>3. CASE ~(i \in c.at..c.at + c.size - 1)
    <3>1. g.bytes[i] = mg.bytes[i]
      BY <1>4, <2>1, <2>3
    <3>2. \/ mg.bytes[i] = <<rd, t, i>>
          \/ \E j \in 1..Len(pd) :
               pd[j].to = "merge" /\ i \in pd[j].at..pd[j].at + pd[j].size - 1
      BY DEF PartOK
    <3>3. ASSUME NEW j \in 1..Len(pd), pd[j].to = "merge",
                 i \in pd[j].at..pd[j].at + pd[j].size - 1
          PROVE  \E k \in 1..Len(q) : q[k].to = "merge" /\ i \in q[k].at..q[k].at + q[k].size - 1
      <4>1. j # 1
        BY <2>3, <3>3
      <4>2. PICK k \in 1..Len(q) : q[k] = pd[j]
        BY <1>1, <4>1
      <4>3. q[k].to = "merge" /\ i \in q[k].at..q[k].at + q[k].size - 1
        BY <3>3, <4>2
      <4> QED
        BY <4>3
    <3> QED
      BY <3>1, <3>2, <3>3
  <2> QED
    BY <2>2, <2>3
<1>7. g.name = t /\ g.offset = o
  BY DEF PartOK
<1> QED
  BY <1>4, <1>6, <1>7 DEF PartOK

LEMMA IpcFields ==
  ASSUME NEW im \in Seq(Ipc)
  PROVE  /\ Len(im) \in Nat
         /\ \A k \in 1..Len(im) : /\ im[k] \in Ipc /\ im[k].name \in Nat
                                  /\ im[k].offset \in Nat /\ im[k].size \in Nat
<1>1. Len(im) \in Nat /\ \A k \in 1..Len(im) : im[k] \in Ipc
  <2> HIDE DEF Ipc
  <2> QED
    OBVIOUS
<1>2. \A e \in Ipc : e.name \in Nat /\ e.offset \in Nat /\ e.size \in Nat
  BY DEF Ipc
<1> QED
  BY <1>1, <1>2

\* The tensors in the IPC buffer do not overlap.
LEMMA IpcApart ==
  ASSUME NEW z \in Seq(Nat \ {0}), NEW rd, NEW x, NEW im \in Seq(Ipc), NEW ib, NEW pd,
         IpcOK(z, rd, x, im, ib, pd),
         NEW k \in 1..Len(im), NEW l \in 1..Len(im), k # l,
         NEW i \in im[l].offset..im[l].offset + im[l].size - 1
  PROVE  i \notin im[k].offset..im[k].offset + im[k].size - 1 /\ im[k].offset # im[l].offset
<1>1. /\ im[k].offset \in Nat /\ im[k].size \in Nat /\ im[l].offset \in Nat /\ im[l].size \in Nat
      /\ k \in Nat /\ l \in Nat
  BY IpcFields
<1>2. k < l \/ l < k
  BY <1>1
<1>3. /\ k < l => im[k].offset + im[k].size <= im[l].offset
      /\ l < k => im[l].offset + im[l].size <= im[k].offset
      /\ im[k].size = z[im[k].name] /\ im[k].name \in DOMAIN z
  BY DEF IpcOK
<1>4. im[k].size >= 1
  BY <1>3
<1>5. PICK f \in Nat, y \in Nat, g \in Nat, w \in Nat :
        f = im[k].offset /\ y = im[k].size /\ g = im[l].offset /\ w = im[l].size
  BY <1>1
<1>6. y >= 1 /\ (f + y <= g \/ g + w <= f) /\ i >= g /\ i <= g + w - 1 /\ i \in Int
  BY <1>2, <1>3, <1>4, <1>5
<1>7. i \notin f..f + y - 1 /\ f # g
  BY <1>6
<1> QED
  BY <1>5, <1>7

\* The copy of a tensor into the IPC buffer.
LEMMA IpcCopied ==
  ASSUME NEW z \in Seq(Nat \ {0}), NEW rd, NEW x, NEW im \in Seq(Ipc), NEW ib,
         DOMAIN ib = Bytes, NEW pd \in Seq(Copy), pd # <<>>, NEW c, c = pd[1], NEW s,
         IpcOK(z, rd, x, im, ib, pd),
         NEW k \in 1..Len(im), im[k].offset = c.at, im[k].size = c.size,
         \/ im[k].name \in x
         \/ \A b \in 0..c.size - 1 : s[c.offset + b] = <<rd, im[k].name, b>>
  PROVE  IpcOK(z, rd, x, im, Overlaid(ib, c, s), Tail(pd))
<1> DEFINE q == Tail(pd)
           ob == Overlaid(ib, c, s)
<1>1. /\ Len(q) \in Nat
      /\ \A j \in 1..Len(pd) : j = 1 \/ \E i \in 1..Len(q) : q[i] = pd[j]
  BY TailCopies
<1>2. c.at \in Nat /\ c.size \in Nat /\ c.offset \in Nat
  BY PendingFields
<1>3. \A i \in 0..bucket_size - 1 :
        ob[i] = IF i \in c.at..c.at + c.size - 1 THEN s[c.offset + i - c.at] ELSE ib[i]
  BY DEF Overlaid, Bytes
<1> HIDE DEF q, ob
<1>4. ASSUME NEW l \in 1..Len(im)
      PROVE  \/ im[l].name \in x
             \/ \A i \in 0..im[l].size - 1 : ob[im[l].offset + i] = <<rd, im[l].name, i>>
             \/ \E j \in 1..Len(q) : q[j].to = "ipc" /\ q[j].at = im[l].offset
  <2>1. PICK f \in Nat, y \in Nat : f = im[l].offset /\ y = im[l].size /\ f + y <= bucket_size
    BY IpcFields DEF IpcOK
  <2>2. \A i \in 0..y - 1 : i \in Nat /\ f + i \in 0..bucket_size - 1 /\ f + i \in f..f + y - 1
    <3> TAKE i \in 0..y - 1
    <3>1. i \in Nat /\ i <= y - 1 /\ f \in Nat /\ y \in Nat /\ 0 \in Nat /\ f + y <= bucket_size
      BY <2>1
    <3> QED
      BY <3>1, Offsets
  <2>3. CASE l = k
    <3>1. CASE im[k].name \in x
      BY <2>3, <3>1
    <3>2. CASE \A b \in 0..c.size - 1 : s[c.offset + b] = <<rd, im[k].name, b>>
      <4>1. PICK o \in Nat : o = c.offset
        BY <1>2
      <4>2. f = c.at /\ y = c.size
        BY <2>1, <2>3
      <4>3. ASSUME NEW i \in 0..y - 1 PROVE ob[f + i] = <<rd, im[l].name, i>>
        <5>1. o + (f + i) - f = o + i
          OBVIOUS
        <5>2. ob[f + i] = s[o + (f + i) - f]
          BY <1>3, <2>2, <4>1, <4>2
        <5> QED
          BY <2>3, <3>2, <4>1, <4>2, <5>1, <5>2
      <4> QED
        BY <2>1, <4>3
    <3> QED
      BY <3>1, <3>2
  <2>4. CASE l # k
    <3>1. \A i \in 0..y - 1 : ob[f + i] = ib[f + i]
      <4> TAKE i \in 0..y - 1
      <4>1. f + i \in im[l].offset..im[l].offset + im[l].size - 1
        BY <2>1, <2>2
      <4>2. f + i \notin im[k].offset..im[k].offset + im[k].size - 1
        BY <2>4, <4>1, IpcApart
      <4>3. f + i \notin c.at..c.at + c.size - 1
        BY <4>2
      <4> QED
        BY <1>3, <2>2, <4>3
    <3>2. \/ im[l].name \in x
          \/ \A i \in 0..y - 1 : ib[f + i] = <<rd, im[l].name, i>>
          \/ \E j \in 1..Len(pd) : pd[j].to = "ipc" /\ pd[j].at = f
      BY <2>1 DEF IpcOK
    <3>3. ASSUME NEW j \in 1..Len(pd), pd[j].to = "ipc", pd[j].at = f
          PROVE  \E i \in 1..Len(q) : q[i].to = "ipc" /\ q[i].at = f
      <4>1. im[k].offset # im[l].offset
        <5>1. y >= 1
          <6>1. im[l].size = z[im[l].name] /\ im[l].name \in DOMAIN z
            BY DEF IpcOK
          <6>2. \A t \in DOMAIN z : z[t] \in Nat \ {0}
            OBVIOUS
          <6> QED
            BY <2>1, <6>1, <6>2
        <5>2. f \in im[l].offset..im[l].offset + im[l].size - 1
          BY <2>1, <5>1
        <5> QED
          BY <2>4, <5>2, IpcApart
      <4>2. j # 1
        BY <2>1, <3>3, <4>1
      <4> QED
        BY <1>1, <3>3, <4>2
    <3> QED
      BY <2>1, <3>1, <3>2, <3>3
  <2> QED
    BY <2>3, <2>4
<1>5. IpcOK(z, rd, x, im, ob, q)
  BY <1>4 DEF IpcOK
<1> QED
  BY <1>5 DEF q, ob

\* A piece that has been yielded is still in its buffer.
LEMMA SourceByte ==
  ASSUME IInv, NEW r \in Ranks, have[r] > 0, NEW i \in 1..yielded[r],
         NEW x \in 0..Meta(r)[i].size - 1
  PROVE  \/ buf[r][Slot(have[r])][Meta(r)[i].offset + x]
              = <<round, Meta(r)[i].name, Meta(r)[i].at + x>>
         \/ engine = "mooncake" /\ Meta(r)[i].name \in Damaged(r)
<1> DEFINE m == Meta(r)
<1>1. Types /\ Ledger /\ Marks /\ Pace /\ Buffers
  BY DEF IInv
<1>2. /\ Len(sent) \in Nat /\ have[r] \in 1..Len(sent) /\ m = sent[have[r]].meta
      /\ m \in Seq(Entry) /\ Packed(sizes, engine, m) /\ yielded[r] \in 0..Len(m)
      /\ r \in Nat /\ r <= R
  BY <1>1, Counters
<1>3. i \in 1..Len(m) /\ m[i].offset \in Nat /\ m[i].size \in Nat
  <2>1. i \in 1..Len(m)
    BY <1>2, EntryFields
  <2> QED
    BY <1>2, <2>1, EntryFields
<1> HIDE DEF m
<1>4. CASE engine = "mooncake" /\ r < R
  <2>1. IntactBut(buf[r][Slot(have[r])], m, round)
    BY <1>1, <1>2, <1>4 DEF Buffers, m
  <2>2. x \in 0..m[i].size - 1
    BY DEF m
  <2>3. \/ m[i].offset + x = 0
        \/ buf[r][Slot(have[r])][m[i].offset + x] = <<round, m[i].name, m[i].at + x>>
    BY <1>3, <2>1, <2>2 DEF IntactBut
  <2>4. CASE m[i].offset + x = 0
    <3>1. x \in Nat /\ m[i].offset = 0
      BY <1>3, <2>4
    <3>2. i = 1
      <4>1. 1 \in 1..Len(m) /\ Len(m) \in Nat /\ m[1].size \in Nat /\ m[1].offset \in Nat
        BY <1>2, <1>3, EntryFields
      <4>2. m[1].size >= 1
        BY <1>2, <4>1 DEF Packed, IsChunk
      <4>3. 1 < i => m[1].offset + m[1].size <= m[i].offset
        BY <1>2, <1>3, <4>1 DEF Packed
      <4> QED
        BY <1>3, <3>1, <4>1, <4>2, <4>3
    <3>3. m # <<>>
      BY <1>2, <1>3, EntryFields
    <3>4. m[1].name \in Damaged(r)
      BY <1>2, <1>4, <3>3 DEF Damaged
    <3> QED
      BY <1>4, <3>2, <3>4 DEF m
  <2> QED
    BY <2>3, <2>4 DEF m
<1>5. CASE ~(engine = "mooncake" /\ r < R)
  <2>1. Intact(buf[r][Slot(have[r])], m, round)
    BY <1>1, <1>2, <1>5 DEF Buffers, m
  <2>2. x \in 0..m[i].size - 1
    BY DEF m
  <2> QED
    BY <1>3, <2>1, <2>2 DEF Intact, m
<1> QED
  BY <1>4, <1>5

\* The tensor that is being put together is larger than a bucket.
LEMMA PartAtHand ==
  ASSUME NEW z \in Seq(Nat \ {0}), NEW rd, NEW p, p[1] \in Nat, p[2] \in Nat,
         NEW it, NEW mg, NEW pd, MergeOK(z, rd, p, it, mg, pd),
         mg # NoMerge, it # NoItem => it.name \in DOMAIN z
  PROVE  \E t \in DOMAIN z : \E o \in Nat :
           /\ t = Open(z, p, it)[1] /\ o = Open(z, p, it)[2]
           /\ t # 0 /\ o <= z[t] /\ z[t] > bucket_size
           /\ mg.name = t /\ PartOK(rd, t, o, z[t], mg, pd)
<1>1. /\ Open(z, p, it)[1] # 0
      /\ PartOK(rd, Open(z, p, it)[1], Open(z, p, it)[2], z[Open(z, p, it)[1]], mg, pd)
      /\ p[2] > 0 => p[1] \in DOMAIN z /\ z[p[1]] > bucket_size /\ p[2] <= z[p[1]]
  BY DEF MergeOK
<1>2. \A t \in DOMAIN z : t \in Nat /\ t # 0 /\ z[t] \in Nat
  OBVIOUS
<1>3. CASE p[2] > 0
  <2>1. Open(z, p, it) = p
    BY <1>3 DEF Open
  <2>2. PICK t, o : t = p[1] /\ o = p[2]
    OBVIOUS
  <2>3. /\ t \in DOMAIN z /\ o \in Nat /\ t # 0 /\ o <= z[t] /\ z[t] > bucket_size
        /\ PartOK(rd, t, o, z[t], mg, pd)
    BY <1>1, <1>3, <2>1, <2>2
  <2>4. mg.name = t
    BY <2>3 DEF PartOK
  <2> QED
    BY <2>1, <2>2, <2>3, <2>4
<1>4. CASE ~(p[2] > 0)
  <2>1. it # NoItem /\ z[it.name] > bucket_size /\ Open(z, p, it) = <<it.name, z[it.name]>>
    BY <1>1, <1>4 DEF Open
  <2>2. PICK t, o : t = it.name /\ o = z[it.name]
    OBVIOUS
  <2>3. Open(z, p, it)[1] = t /\ Open(z, p, it)[2] = o
    BY <2>1, <2>2
  <2>4. /\ t \in DOMAIN z /\ o \in Nat /\ t # 0 /\ o <= z[t] /\ z[t] > bucket_size
    BY <1>2, <2>1, <2>2
  <2>5. PartOK(rd, t, o, z[t], mg, pd)
    BY <1>1, <2>3
  <2>6. mg.name = t
    BY <2>5 DEF PartOK
  <2> QED
    BY <2>3, <2>4, <2>5, <2>6
<1> QED
  BY <1>3, <1>4

LEMMA PosFields ==
  ASSUME Types, Ledger, Pace, NEW r \in Ranks
  PROVE  Pos(r)[1] \in Nat /\ Pos(r)[2] \in Nat
<1>1. \A e \in Entry : Follow(sizes, e)[1] \in Nat /\ Follow(sizes, e)[2] \in Nat
  BY DEF Follow, Entry
<1>2. First[1] \in Nat /\ First[2] \in Nat
  BY DEF First
<1>3. \A m \in Seq(Entry) : \A i \in 1..Len(m) : m[i] \in Entry
  <2> HIDE DEF Entry
  <2> QED
    OBVIOUS
<1>4. /\ Len(sent) \in Nat /\ have[r] \in 0..Len(sent) /\ yielded[r] \in 0..Len(Meta(r))
      /\ Meta(r) \in Seq(Entry) /\ Len(Meta(r)) \in Nat
      /\ have[r] > 0 => Meta(r) = sent[have[r]].meta
  BY Counters, EntryFields
<1>5. CASE have[r] = 0
  BY <1>2, <1>5 DEF Pos, Position
<1>6. CASE have[r] # 0 /\ yielded[r] = 0
  <2>1. Pos(r) = After(sizes, sent, have[r] - 1)
    BY <1>6 DEF Pos, Position
  <2>2. PICK k \in Int : k = have[r] - 1
    BY <1>4
  <2>3. CASE k < 1 \/ sent[k].meta = <<>>
    BY <1>2, <2>1, <2>2, <2>3 DEF After
  <2>4. CASE ~(k < 1 \/ sent[k].meta = <<>>)
    <3>1. k \in 1..Len(sent)
      BY <1>4, <2>2, <2>4
    <3>2. sent[k].meta \in Seq(Entry)
      BY <3>1, BucketFields DEF Types
    <3>3. sent[k].meta[Len(sent[k].meta)] \in Entry
      BY <1>3, <2>4, <3>2, EntryFields
    <3>4. Pos(r) = Follow(sizes, sent[k].meta[Len(sent[k].meta)])
      BY <2>1, <2>2, <2>4 DEF After
    <3> QED
      BY <1>1, <3>3, <3>4
  <2> QED
    BY <2>3, <2>4
<1>7. CASE have[r] # 0 /\ yielded[r] # 0
  <2>1. Pos(r) = Follow(sizes, Meta(r)[yielded[r]])
    BY <1>4, <1>7 DEF Pos, Position
  <2>2. yielded[r] \in 1..Len(Meta(r))
    BY <1>4, <1>7
  <2> QED
    BY <1>1, <1>3, <1>4, <2>1, <2>2
<1> QED
  BY <1>5, <1>6, <1>7

\* What rank r has at hand.
LEMMA AtHand ==
  ASSUME IInv, NEW r \in Ranks
  PROVE  /\ ItemOK(sizes, Meta(r), have[r], yielded[r], item[r])
         /\ MergeOK(sizes, round, Pos(r), item[r], merge[r], pending[r])
         /\ \A j \in 1..Len(pending[r]) :
              CopyOK(sizes, Meta(r), have[r], yielded[r], merge[r], ipc_meta[r], pending[r][j])
         /\ IpcOK(sizes, round, Damaged(r), ipc_meta[r], ipc_buf[r], pending[r])
         /\ LoadedOK(sizes, round, Damaged(r), Pos(r), item[r], ipc_meta[r], loaded[r], done[r])
         /\ pending[r] \in Seq(Copy) /\ ipc_meta[r] \in Seq(Ipc) /\ item[r] \in Item
         /\ sizes \in Seq(Nat \ {0}) /\ round \in Nat
         /\ Pos(r)[1] \in Nat /\ Pos(r)[2] \in Nat
         /\ item[r] # NoItem =>
              /\ item[r].name \in DOMAIN sizes /\ have[r] > 0 /\ yielded[r] \in 1..Len(Meta(r))
              /\ Meta(r)[yielded[r]].name = item[r].name
<1>1. Types /\ Ledger /\ Pace /\ Hand(r)
  BY DEF IInv, Hands
<1>2. pending[r] \in Seq(Copy) /\ ipc_meta[r] \in Seq(Ipc) /\ item[r] \in Item
      /\ sizes \in Seq(Nat \ {0}) /\ round \in Nat
  BY <1>1, SetupFacts, Constants DEF Types
<1>3. ASSUME item[r] # NoItem
      PROVE  /\ item[r].name \in DOMAIN sizes /\ have[r] > 0 /\ yielded[r] \in 1..Len(Meta(r))
             /\ Meta(r)[yielded[r]].name = item[r].name
  <2>1. yielded[r] > 0 /\ have[r] > 0 /\ item[r].name = Meta(r)[yielded[r]].name
    BY <1>1, <1>3 DEF Hand, ItemOK
  <2>2. yielded[r] \in 1..Len(Meta(r)) /\ Packed(sizes, engine, Meta(r))
    <3>1. yielded[r] \in 0..Len(Meta(r)) /\ Packed(sizes, engine, Meta(r))
          /\ Meta(r) \in Seq(Entry)
      BY <1>1, Counters
    <3>2. Len(Meta(r)) \in Nat
      BY <3>1, EntryFields
    <3> QED
      BY <2>1, <3>1, <3>2
  <2> QED
    BY <2>1, <2>2 DEF Packed, IsChunk
<1> QED
  BY <1>1, <1>2, <1>3, PosFields DEF Hand

\* The copies that are left are as they were.
LEMMA CopiesLeft ==
  ASSUME NEW z, NEW m, NEW h, NEW y, NEW mg, NEW g, NEW im, NEW pd \in Seq(Copy), pd # <<>>,
         \A j \in 1..Len(pd) : CopyOK(z, m, h, y, mg, im, pd[j]),
         mg # NoMerge => g # NoMerge /\ g.name = mg.name
  PROVE  \A j \in 1..Len(Tail(pd)) : CopyOK(z, m, h, y, g, im, Tail(pd)[j])
<1>1. \A j \in 1..Len(Tail(pd)) : \E i \in 1..Len(pd) : Tail(pd)[j] = pd[i]
  BY TailCopies
<1>2. \A i \in 1..Len(pd) : CopyOK(z, m, h, y, g, im, pd[i])
  BY DEF CopyOK
<1> QED
  BY <1>1, <1>2

LEMMA StreamCopyMerge ==
  ASSUME IInv, NEW r \in Ranks, pending[r] # <<>>, pending[r][1].to = "merge",
         NEW g, g.name = merge[r].name, g.offset = merge[r].offset,
         g.bytes = Overlaid(merge[r].bytes, pending[r][1], buf[r][pending[r][1].slot])
  PROVE  Holding(r, yielded[r], item[r], g, Tail(pending[r]), ipc_meta[r], ipc_buf[r],
                 loaded[r], done[r])
<1> PICK c : c = pending[r][1]
  OBVIOUS
<1>1. /\ ItemOK(sizes, Meta(r), have[r], yielded[r], item[r])
      /\ MergeOK(sizes, round, Pos(r), item[r], merge[r], pending[r])
      /\ \A j \in 1..Len(pending[r]) :
           CopyOK(sizes, Meta(r), have[r], yielded[r], merge[r], ipc_meta[r], pending[r][j])
      /\ IpcOK(sizes, round, Damaged(r), ipc_meta[r], ipc_buf[r], pending[r])
      /\ LoadedOK(sizes, round, Damaged(r), Pos(r), item[r], ipc_meta[r], loaded[r], done[r])
      /\ pending[r] \in Seq(Copy) /\ sizes \in Seq(Nat \ {0})
      /\ Pos(r)[1] \in Nat /\ Pos(r)[2] \in Nat
      /\ item[r] # NoItem => item[r].name \in DOMAIN sizes
  BY AtHand
<1>2. /\ 1 \in 1..Len(pending[r]) /\ c.offset \in Nat /\ c.at \in Nat /\ c.size \in Nat
      /\ CopyOK(sizes, Meta(r), have[r], yielded[r], merge[r], ipc_meta[r], c)
  BY <1>1, PendingFields
<1>3. have[r] > 0 /\ c.slot = Slot(have[r]) /\ merge[r] # NoMerge
  BY <1>2 DEF CopyOK
<1>4. PICK i \in 1..yielded[r] :
        /\ Meta(r)[i].offset = c.offset /\ Meta(r)[i].size = c.size
        /\ merge[r].name = Meta(r)[i].name /\ Meta(r)[i].at = c.at
  BY <1>2 DEF CopyOK
<1>5. PICK t \in DOMAIN sizes, o \in Nat :
        /\ t = Open(sizes, Pos(r), item[r])[1] /\ o = Open(sizes, Pos(r), item[r])[2]
        /\ t # 0 /\ o <= sizes[t] /\ sizes[t] > bucket_size
        /\ merge[r].name = t /\ PartOK(round, t, o, sizes[t], merge[r], pending[r])
  <2>1. \E t \in DOMAIN sizes : \E o \in Nat :
        /\ t = Open(sizes, Pos(r), item[r])[1] /\ o = Open(sizes, Pos(r), item[r])[2]
        /\ t # 0 /\ o <= sizes[t] /\ sizes[t] > bucket_size
        /\ merge[r].name = t /\ PartOK(round, t, o, sizes[t], merge[r], pending[r])
    BY <1>1, <1>3, PartAtHand
  <2> QED
    BY <2>1
<1>6. engine # "mooncake"
  <2>1. i \in 1..Len(Meta(r)) /\ Packed(sizes, engine, Meta(r))
    <3>1. yielded[r] \in 0..Len(Meta(r)) /\ Packed(sizes, engine, Meta(r))
          /\ Meta(r) \in Seq(Entry)
      BY Counters DEF IInv
    <3>2. Len(Meta(r)) \in Nat
      BY <3>1, EntryFields
    <3> QED
      BY <3>1, <3>2
  <2>2. sizes[t] \in Nat /\ ~(sizes[t] <= bucket_size)
    BY <1>1, <1>5, Constants
  <2> QED
    BY <1>4, <1>5, <2>1, <2>2 DEF Packed
<1>7. \A x \in 0..c.size - 1 :
        buf[r][c.slot][c.offset + x] = <<round, t, c.at + x>>
  <2> TAKE x \in 0..c.size - 1
  <2>1. x \in 0..Meta(r)[i].size - 1
    BY <1>4
  <2>2. buf[r][Slot(have[r])][Meta(r)[i].offset + x]
          = <<round, Meta(r)[i].name, Meta(r)[i].at + x>>
    BY <1>3, <1>6, <2>1, SourceByte
  <2> QED
    BY <1>3, <1>4, <1>5, <2>2
<1>8. PartOK(round, t, o, sizes[t], g, Tail(pending[r]))
  <2>1. PICK n \in Nat : n = sizes[t]
    BY <1>1
  <2>2. PICK s : s = buf[r][c.slot]
    OBVIOUS
  <2>3. PICK pd \in Seq(Copy) : pd = pending[r]
    BY <1>1
  <2>4. PICK mg : mg = merge[r]
    OBVIOUS
  <2>5. /\ pd # <<>> /\ c = pd[1] /\ PartOK(round, t, o, n, mg, pd) /\ o <= n
        /\ g.name = mg.name /\ g.offset = mg.offset /\ g.bytes = Overlaid(mg.bytes, c, s)
        /\ \A x \in 0..c.size - 1 : s[c.offset + x] = <<round, t, c.at + x>>
    BY <1>5, <1>7, <2>1, <2>2, <2>3, <2>4
  <2>6. PartOK(round, t, o, n, g, Tail(pd))
    BY <2>5, PartCopied
  <2> QED
    BY <2>1, <2>3, <2>6
<1>9. g # NoMerge
  BY <1>5 DEF NoMerge
<1>10. MergeOK(sizes, round, Pos(r), item[r], g, Tail(pending[r]))
  BY <1>1, <1>5, <1>8 DEF MergeOK
<1>11. \A j \in 1..Len(Tail(pending[r])) :
         CopyOK(sizes, Meta(r), have[r], yielded[r], g, ipc_meta[r], Tail(pending[r])[j])
  BY <1>1, <1>9, CopiesLeft
<1>12. IpcOK(sizes, round, Damaged(r), ipc_meta[r], ipc_buf[r], Tail(pending[r]))
  <2>1. \A j \in 1..Len(pending[r]) :
          j = 1 \/ \E l \in 1..Len(Tail(pending[r])) : Tail(pending[r])[l] = pending[r][j]
    BY <1>1, TailCopies
  <2>2. pending[r][1].to # "ipc"
    OBVIOUS
  <2>3. \A a : (\E j \in 1..Len(pending[r]) : pending[r][j].to = "ipc" /\ pending[r][j].at = a)
          => \E l \in 1..Len(Tail(pending[r])) :
               Tail(pending[r])[l].to = "ipc" /\ Tail(pending[r])[l].at = a
    BY <2>1, <2>2
  <2> QED
    BY <1>1, <2>3 DEF IpcOK
<1> QED
  BY <1>1, <1>10, <1>11, <1>12 DEF Holding, Pos

LEMMA StreamCopyIpc ==
  ASSUME IInv, NEW r \in Ranks, pending[r] # <<>>, pending[r][1].to = "ipc"
  PROVE  Holding(r, yielded[r], item[r], merge[r], Tail(pending[r]), ipc_meta[r],
                 Overlaid(ipc_buf[r], pending[r][1], buf[r][pending[r][1].slot]),
                 loaded[r], done[r])
<1> PICK c : c = pending[r][1]
  OBVIOUS
<1>1. /\ ItemOK(sizes, Meta(r), have[r], yielded[r], item[r])
      /\ MergeOK(sizes, round, Pos(r), item[r], merge[r], pending[r])
      /\ \A j \in 1..Len(pending[r]) :
           CopyOK(sizes, Meta(r), have[r], yielded[r], merge[r], ipc_meta[r], pending[r][j])
      /\ IpcOK(sizes, round, Damaged(r), ipc_meta[r], ipc_buf[r], pending[r])
      /\ LoadedOK(sizes, round, Damaged(r), Pos(r), item[r], ipc_meta[r], loaded[r], done[r])
      /\ pending[r] \in Seq(Copy) /\ ipc_meta[r] \in Seq(Ipc) /\ sizes \in Seq(Nat \ {0})
  BY AtHand
<1>2. /\ 1 \in 1..Len(pending[r]) /\ c.offset \in Nat /\ c.at \in Nat /\ c.size \in Nat
      /\ CopyOK(sizes, Meta(r), have[r], yielded[r], merge[r], ipc_meta[r], c)
  BY <1>1, PendingFields
<1>3. have[r] > 0 /\ c.slot = Slot(have[r])
  BY <1>2 DEF CopyOK
<1>4. PICK i \in 1..yielded[r] :
        /\ Meta(r)[i].offset = c.offset /\ Meta(r)[i].size = c.size /\ Meta(r)[i].at = 0
        /\ \E k \in 1..Len(ipc_meta[r]) :
             /\ ipc_meta[r][k].name = Meta(r)[i].name /\ ipc_meta[r][k].offset = c.at
             /\ ipc_meta[r][k].size = c.size
  BY <1>2 DEF CopyOK
<1>5. PICK k \in 1..Len(ipc_meta[r]) :
        /\ ipc_meta[r][k].name = Meta(r)[i].name /\ ipc_meta[r][k].offset = c.at
        /\ ipc_meta[r][k].size = c.size
  BY <1>4
<1>6. PICK t : t = ipc_meta[r][k].name
  OBVIOUS
<1>7. t \in Damaged(r) \/ \A x \in 0..c.size - 1 :
        buf[r][c.slot][c.offset + x] = <<round, t, x>>
  <2> SUFFICES ASSUME t \notin Damaged(r), NEW x \in 0..c.size - 1
               PROVE  buf[r][c.slot][c.offset + x] = <<round, t, x>>
    OBVIOUS
  <2>1. x \in 0..Meta(r)[i].size - 1
    BY <1>4
  <2>2. buf[r][Slot(have[r])][Meta(r)[i].offset + x]
          = <<round, Meta(r)[i].name, Meta(r)[i].at + x>>
    BY <1>3, <1>5, <1>6, <2>1, SourceByte
  <2>3. 0 + x = x
    BY <1>2
  <2> QED
    BY <1>3, <1>4, <1>5, <1>6, <2>2, <2>3
<1>8. DOMAIN ipc_buf[r] = Bytes
  BY DEF IInv, Types, IpcShape
<1>9. IpcOK(sizes, round, Damaged(r), ipc_meta[r],
            Overlaid(ipc_buf[r], c, buf[r][c.slot]), Tail(pending[r]))
  <2>1. PICK im \in Seq(Ipc), pd \in Seq(Copy) : im = ipc_meta[r] /\ pd = pending[r]
    BY <1>1
  <2>2. PICK z \in Seq(Nat \ {0}) : z = sizes
    BY <1>1
  <2>5. PICK x, ib, s : x = Damaged(r) /\ ib = ipc_buf[r] /\ s = buf[r][c.slot]
    OBVIOUS
  <2>3. /\ DOMAIN ib = Bytes /\ pd # <<>> /\ c = pd[1] /\ IpcOK(z, round, x, im, ib, pd)
        /\ k \in 1..Len(im) /\ im[k].offset = c.at /\ im[k].size = c.size
        /\ im[k].name \in x \/ \A b \in 0..c.size - 1 : s[c.offset + b] = <<round, im[k].name, b>>
    BY <1>1, <1>5, <1>6, <1>7, <1>8, <2>1, <2>2, <2>5
  <2>4. IpcOK(z, round, x, im, Overlaid(ib, c, s), Tail(pd))
    BY <2>3, IpcCopied
  <2> QED
    BY <2>1, <2>2, <2>4, <2>5
<1>10. MergeOK(sizes, round, Pos(r), item[r], merge[r], Tail(pending[r]))
  <2>1. \A j \in 1..Len(pending[r]) :
          j = 1 \/ \E l \in 1..Len(Tail(pending[r])) : Tail(pending[r])[l] = pending[r][j]
    BY <1>1, TailCopies
  <2>2. pending[r][1].to # "merge"
    OBVIOUS
  <2>3. \A a : (\E j \in 1..Len(pending[r]) :
                  /\ pending[r][j].to = "merge"
                  /\ a \in pending[r][j].at..pending[r][j].at + pending[r][j].size - 1)
          => \E l \in 1..Len(Tail(pending[r])) :
               /\ Tail(pending[r])[l].to = "merge"
               /\ a \in Tail(pending[r])[l].at
                          ..Tail(pending[r])[l].at + Tail(pending[r])[l].size - 1
    BY <2>1, <2>2
  <2>4. \A t_, o, n : PartOK(round, t_, o, n, merge[r], pending[r])
          => PartOK(round, t_, o, n, merge[r], Tail(pending[r]))
    BY <2>3 DEF PartOK
  <2> QED
    BY <1>1, <2>4 DEF MergeOK
<1>11. \A j \in 1..Len(Tail(pending[r])) :
         CopyOK(sizes, Meta(r), have[r], yielded[r], merge[r], ipc_meta[r], Tail(pending[r])[j])
  BY <1>1, CopiesLeft
<1> QED
  BY <1>1, <1>9, <1>10, <1>11 DEF Holding, Pos

LEMMA StreamCopyStep ==
  ASSUME IInv, NEW r \in Ranks, StreamCopy(r)
  PROVE  IInv'
<1>1. Types /\ Ledger /\ Marks /\ Pace
  BY DEF IInv
<1>2. PICK c, s : c = pending[r][1] /\ s = buf[r][c.slot]
  OBVIOUS
<1>3. /\ pending[r] # <<>> /\ pending[r] \in Seq(Copy)
      /\ Head(pending[r]) = c /\ Tail(pending[r]) \in Seq(Copy)
      /\ c.to \in {"merge", "ipc"}
  <2>1. pending[r] # <<>> /\ pending[r] \in Seq(Copy)
    BY <1>1 DEF StreamCopy, Types
  <2> QED
    BY <1>2, <2>1, PendingFields
<1>4. /\ pending' = [pending EXCEPT ![r] = Tail(@)]
      /\ UNCHANGED <<setup, round, sender, buf, receiver, item, ipc_meta, loaded, done>>
  BY DEF StreamCopy
<1>5. UNCHANGED <<have, moved, reading, yielded, offered, returned,
                  next, bucket_meta, sent, trainer, reclaim>>
  BY <1>4 DEF sender, receiver
<1>6. engine' = engine /\ sizes' = sizes /\ Names' = Names /\ Chunks' = Chunks
  BY <1>4, SetupKept
<1>7. /\ pending' \in [Ranks -> Seq(Copy)] /\ pending'[r] = Tail(pending[r])
      /\ \A q \in Ranks : q # r => pending'[q] = pending[q]
  BY <1>1, <1>3, <1>4 DEF Types
<1>8. yielded'[r] <= Len(Meta(r))
  BY <1>1, <1>5 DEF Pace
<1>9. CASE c.to = "merge"
  <2>1. PICK b : b = Overlaid(merge[r].bytes, c, s)
    OBVIOUS
  <2>2. ipc_buf' = ipc_buf /\ merge' = [merge EXCEPT ![r].bytes = b]
    BY <1>2, <1>3, <1>9, <2>1 DEF StreamCopy, Overlaid
  <2>3. MergeShape(merge) /\ DOMAIN merge = Ranks
        /\ merge[r] = [name |-> merge[r].name, offset |-> merge[r].offset,
                       bytes |-> merge[r].bytes]
    BY <1>1 DEF Types, MergeShape
  <2>4. MergeShape(merge')
    BY <2>2, <2>3, ShapeUpdates
  <2>5. PICK g : g = merge'[r]
    OBVIOUS
  <2>6. g.name = merge[r].name /\ g.offset = merge[r].offset /\ g.bytes = b
    BY <2>2, <2>3, <2>5
  <2>7. \A q \in Ranks : q # r => merge'[q] = merge[q]
    BY <2>2, <2>3
  <2>8. Types'
    BY <1>1, <1>4, <1>5, <1>6, <1>7, <2>2, <2>4 DEF Types, Ranks
  <2>9. Holding(r, yielded[r], item[r], g, Tail(pending[r]), ipc_meta[r], ipc_buf[r],
                loaded[r], done[r])
    BY <1>2, <1>3, <1>9, <2>1, <2>6, StreamCopyMerge
  <2> QED
    BY <1>4, <1>5, <1>7, <1>8, <2>2, <2>5, <2>7, <2>8, <2>9, HandStep
<1>10. CASE c.to = "ipc"
  <2>1. PICK b : b = Overlaid(ipc_buf[r], c, s)
    OBVIOUS
  <2>2. merge' = merge /\ ipc_buf' = [ipc_buf EXCEPT ![r] = b]
    BY <1>2, <1>3, <1>10, <2>1 DEF StreamCopy, Overlaid
  <2>3. IpcShape(ipc_buf) /\ DOMAIN ipc_buf = Ranks /\ DOMAIN ipc_buf[r] = Bytes
    BY <1>1 DEF Types, IpcShape
  <2>4. b = [i \in Bytes |-> b[i]]
    BY <2>1, <2>3 DEF Overlaid
  <2>5. IpcShape(ipc_buf')
    BY <2>2, <2>3, <2>4, ShapeUpdates
  <2>6. ipc_buf'[r] = b /\ \A q \in Ranks : q # r => ipc_buf'[q] = ipc_buf[q]
    BY <2>2, <2>3
  <2>7. Types'
    BY <1>1, <1>4, <1>5, <1>6, <1>7, <2>2, <2>5 DEF Types, Ranks
  <2>8. Holding(r, yielded[r], item[r], merge[r], Tail(pending[r]), ipc_meta[r], b,
                loaded[r], done[r])
    BY <1>2, <1>3, <1>10, <2>1, StreamCopyIpc
  <2> QED
    BY <1>4, <1>5, <1>7, <1>8, <2>2, <2>6, <2>7, <2>8, HandStep
<1> QED
  BY <1>3, <1>9, <1>10

-----------------------------------------------------------------------------
(* The worker loads what is in its IPC buffer. *)

\* What is loaded of tensor t, and a tensor whose every byte is right.
Unpacked(im, ib, l, t) ==
    IF \E i \in DOMAIN im : im[i].name = t
    THEN LET m == im[CHOOSE i \in DOMAIN im : im[i].name = t]
         IN  [i \in 0..m.size - 1 |-> ib[m.offset + i]]
    ELSE l
Faultless(rd, t, n) == [i \in 0..n - 1 |-> <<rd, t, i>>]

LEMMA Unpacking ==
  ASSUME NEW z \in Seq(Nat \ {0}), NEW rd, NEW x, NEW im \in Seq(Ipc), NEW ib, NEW pd,
         Len(pd) = 0, IpcOK(z, rd, x, im, ib, pd), NEW t \in DOMAIN z, NEW l
  PROVE  IF \E k \in 1..Len(im) : im[k].name = t
         THEN /\ Unpacked(im, ib, l, t) # <<>>
              /\ t \in x \/ Unpacked(im, ib, l, t) = Faultless(rd, t, z[t])
         ELSE Unpacked(im, ib, l, t) = l
<1>1. Len(im) \in Nat /\ DOMAIN im = 1..Len(im)
  BY IpcFields
<1>2. CASE \E k \in 1..Len(im) : im[k].name = t
  <2>1. PICK k \in 1..Len(im) :
          /\ im[k].name = t
          /\ Unpacked(im, ib, l, t) = [i \in 0..im[k].size - 1 |-> ib[im[k].offset + i]]
    BY <1>1, <1>2 DEF Unpacked
  <2>2. PICK n \in Nat : n = im[k].size /\ n = z[t] /\ n >= 1
    <3>1. im[k].size = z[t]
      BY <2>1 DEF IpcOK
    <3>2. z[t] \in Nat /\ z[t] >= 1
      OBVIOUS
    <3> QED
      BY <3>1, <3>2
  <2>3. PICK o : o = im[k].offset
    OBVIOUS
  <2>4. Unpacked(im, ib, l, t) = [i \in 0..n - 1 |-> ib[o + i]]
    BY <2>1, <2>2, <2>3
  <2>5. Unpacked(im, ib, l, t) # <<>>
    <3>1. 0 \in 0..n - 1
      BY <2>2
    <3>2. 0 \in DOMAIN Unpacked(im, ib, l, t)
      BY <2>4, <3>1
    <3>3. 0 \notin DOMAIN <<>>
      OBVIOUS
    <3> QED
      BY <3>2, <3>3
  <2>6. t \in x \/ \A i \in 0..n - 1 : ib[o + i] = <<rd, t, i>>
    <3>1. ~(\E j \in 1..Len(pd) : pd[j].to = "ipc" /\ pd[j].at = im[k].offset)
      OBVIOUS
    <3>2. \/ im[k].name \in x
          \/ \A i \in 0..im[k].size - 1 : ib[im[k].offset + i] = <<rd, im[k].name, i>>
      BY <3>1 DEF IpcOK
    <3> QED
      BY <2>1, <2>2, <2>3, <3>2
  <2>7. (\A i \in 0..n - 1 : ib[o + i] = <<rd, t, i>>)
        => [i \in 0..n - 1 |-> ib[o + i]] = Faultless(rd, t, n)
    BY DEF Faultless
  <2> QED
    BY <1>2, <2>2, <2>4, <2>5, <2>6, <2>7
<1>3. CASE ~(\E k \in 1..Len(im) : im[k].name = t)
  BY <1>1, <1>3 DEF Unpacked
<1> QED
  BY <1>2, <1>3

\* All is loaded once nothing is left to unpack and every name has been passed.
LEMMA LoadedAll ==
  ASSUME NEW z, NEW rd, NEW x, NEW p, NEW it, NEW l, NEW dn,
         LoadedOK(z, rd, x, p, it, <<>>, l, dn),
         \A t \in DOMAIN z : t < p[1] /\ it.name # t
  PROVE  LoadedOK(z, rd, x, p, it, <<>>, l, TRUE)
<1>1. ASSUME NEW t \in DOMAIN z
      PROVE  l[t] # <<>>
  <2>1. t < p[1] => l[t] # <<>> \/ it.name = t \/ \E k \in 1..Len(<<>>) : <<>>[k].name = t
    BY DEF LoadedOK
  <2>2. ~ \E k \in 1..Len(<<>>) : <<>>[k].name = t
    OBVIOUS
  <2>3. t < p[1] /\ it.name # t
    OBVIOUS
  <2> QED
    BY <2>1, <2>2, <2>3
<1> QED
  BY <1>1 DEF LoadedOK

LEMMA LoadingOK ==
  ASSUME NEW z \in Seq(Nat \ {0}), NEW rd, NEW x, NEW im \in Seq(Ipc), NEW ib, NEW pd,
         Len(pd) = 0, IpcOK(z, rd, x, im, ib, pd), NEW p, NEW it, NEW ld, NEW dn,
         LoadedOK(z, rd, x, p, it, im, ld, dn), NEW l,
         \A t \in DOMAIN z : l[t] = Unpacked(im, ib, ld[t], t)
  PROVE  /\ LoadedOK(z, rd, x, p, it, <<>>, l, dn)
         /\ (\A t \in DOMAIN z : t < p[1] /\ it.name # t)
            => LoadedOK(z, rd, x, p, it, <<>>, l, TRUE)
<1>1. ASSUME NEW t \in DOMAIN z
      PROVE  /\ l[t] = <<>> \/ t \in x \/ l[t] = [i \in 0..z[t] - 1 |-> <<rd, t, i>>]
             /\ t < p[1] => l[t] # <<>> \/ it.name = t
             /\ dn => l[t] # <<>>
  <2>1. /\ ld[t] = <<>> \/ t \in x \/ ld[t] = Faultless(rd, t, z[t])
        /\ t < p[1] => ld[t] # <<>> \/ it.name = t \/ \E k \in 1..Len(im) : im[k].name = t
        /\ dn => ld[t] # <<>>
    BY DEF LoadedOK, Faultless
  <2>2. IF \E k \in 1..Len(im) : im[k].name = t
        THEN l[t] # <<>> /\ (t \in x \/ l[t] = Faultless(rd, t, z[t]))
        ELSE l[t] = ld[t]
    <3>1. l[t] = Unpacked(im, ib, ld[t], t)
      OBVIOUS
    <3> QED
      BY <3>1, Unpacking
  <2>3. l[t] = <<>> \/ t \in x \/ l[t] = Faultless(rd, t, z[t])
    BY <2>1, <2>2
  <2>4. t < p[1] => l[t] # <<>> \/ it.name = t
    BY <2>1, <2>2
  <2>5. dn => l[t] # <<>>
    BY <2>1, <2>2
  <2> QED
    BY <2>3, <2>4, <2>5 DEF Faultless
<1> QED
  BY <1>1 DEF LoadedOK

\* The effect of LoadIpc on the state of rank r.
LEMMA LoadIpcState ==
  ASSUME IInv, NEW r \in Ranks, LoadIpc(r)
  PROVE  /\ pending[r] = <<>> /\ Len(pending[r]) = 0
         /\ ipc_meta' \in [Ranks -> Seq(Ipc)] /\ ipc_meta'[r] = <<>>
         /\ LoadedShape(sizes, loaded')
         /\ \A t \in DOMAIN sizes : loaded'[r][t] = Unpacked(ipc_meta[r], ipc_buf[r], loaded[r][t], t)
         /\ \A q \in Ranks : q # r => ipc_meta'[q] = ipc_meta[q] /\ loaded'[q] = loaded[q]
<1>1. /\ ipc_meta \in [Ranks -> Seq(Ipc)] /\ LoadedShape(sizes, loaded)
  BY DEF IInv, Types
<1>2. pending[r] = <<>> /\ ipc_meta' = [ipc_meta EXCEPT ![r] = <<>>]
  BY DEF LoadIpc
<1>3. <<>> \in Seq(Ipc)
  <2> HIDE DEF Ipc
  <2> QED
    OBVIOUS
<1>4. ipc_meta' \in [Ranks -> Seq(Ipc)] /\ ipc_meta'[r] = <<>>
      /\ \A q \in Ranks : q # r => ipc_meta'[q] = ipc_meta[q]
  BY <1>1, <1>2, <1>3
<1>5. PICK l : l = [t \in DOMAIN sizes |-> Unpacked(ipc_meta[r], ipc_buf[r], loaded[r][t], t)]
  OBVIOUS
<1>6. loaded' = [loaded EXCEPT ![r] = l]
  BY <1>5 DEF LoadIpc, Unpacked, Names
<1>7. l = [t \in DOMAIN sizes |-> l[t]]
  BY <1>5
<1>8. LoadedShape(sizes, loaded')
  BY <1>1, <1>6, <1>7, ShapeUpdates
<1>9. DOMAIN loaded = Ranks
  BY <1>1 DEF LoadedShape
<1>10. loaded'[r] = l /\ \A q \in Ranks : q # r => loaded'[q] = loaded[q]
  BY <1>6, <1>9
<1>11. \A t \in DOMAIN sizes :
         loaded'[r][t] = Unpacked(ipc_meta[r], ipc_buf[r], loaded[r][t], t)
  BY <1>5, <1>10
<1> QED
  BY <1>2, <1>4, <1>8, <1>10, <1>11

\* Without copies to be executed the rest of what a rank has at hand stays true.
LEMMA LoadIpcStep ==
  ASSUME IInv, NEW r \in Ranks, LoadIpc(r), NEW d \in BOOLEAN,
         \/ d = done[r]
         \/ \A t \in DOMAIN sizes : t < Pos(r)[1] /\ item[r].name # t
  PROVE  Holding(r, yielded[r], item[r], merge[r], pending[r], ipc_meta'[r], ipc_buf[r],
                 loaded'[r], d)
<1>1. /\ ItemOK(sizes, Meta(r), have[r], yielded[r], item[r])
      /\ MergeOK(sizes, round, Pos(r), item[r], merge[r], pending[r])
      /\ IpcOK(sizes, round, Damaged(r), ipc_meta[r], ipc_buf[r], pending[r])
      /\ LoadedOK(sizes, round, Damaged(r), Pos(r), item[r], ipc_meta[r], loaded[r], done[r])
      /\ ipc_meta[r] \in Seq(Ipc) /\ sizes \in Seq(Nat \ {0})
  BY AtHand
<1>2. /\ pending[r] = <<>> /\ Len(pending[r]) = 0 /\ ipc_meta'[r] = <<>>
      /\ \A t \in DOMAIN sizes :
           loaded'[r][t] = Unpacked(ipc_meta[r], ipc_buf[r], loaded[r][t], t)
  BY LoadIpcState
<1>3. PICK z \in Seq(Nat \ {0}), im \in Seq(Ipc) : z = sizes /\ im = ipc_meta[r]
  BY <1>1
<1>4. PICK x, ib, pd, p, it, ld, dn, l :
        /\ x = Damaged(r) /\ ib = ipc_buf[r] /\ pd = pending[r] /\ p = Pos(r)
        /\ it = item[r] /\ ld = loaded[r] /\ dn = done[r] /\ l = loaded'[r]
  OBVIOUS
<1>5. /\ Len(pd) = 0 /\ IpcOK(z, round, x, im, ib, pd)
      /\ LoadedOK(z, round, x, p, it, im, ld, dn)
      /\ \A t \in DOMAIN z : l[t] = Unpacked(im, ib, ld[t], t)
  BY <1>1, <1>2, <1>3, <1>4
<1> HIDE DEF Ipc
<1>6. /\ LoadedOK(z, round, x, p, it, <<>>, l, dn)
      /\ (\A t \in DOMAIN z : t < p[1] /\ it.name # t)
            => LoadedOK(z, round, x, p, it, <<>>, l, TRUE)
  <2>1. im \in Seq(Ipc) /\ z \in Seq(Nat \ {0})
    OBVIOUS
  <2>2. LoadedOK(z, round, x, p, it, <<>>, l, dn)
    BY <1>5, <2>1, LoadingOK
  <2>3. ASSUME \A t \in DOMAIN z : t < p[1] /\ it.name # t
        PROVE  LoadedOK(z, round, x, p, it, <<>>, l, TRUE)
    BY <2>2, <2>3, LoadedAll
  <2> QED
    BY <2>2, <2>3
<1>7. LoadedOK(sizes, round, Damaged(r), Pos(r), item[r], ipc_meta'[r], loaded'[r], d)
  <2>1. CASE d = done[r]
    BY <1>2, <1>3, <1>4, <1>6, <2>1
  <2>2. CASE \A t \in DOMAIN sizes : t < Pos(r)[1] /\ item[r].name # t
    <3>1. LoadedOK(sizes, round, Damaged(r), Pos(r), item[r], ipc_meta'[r], loaded'[r], TRUE)
      BY <1>2, <1>3, <1>4, <1>6, <2>2
    <3> QED
      BY <3>1 DEF LoadedOK
  <2> QED
    BY <2>1, <2>2
<1>8. IpcOK(sizes, round, Damaged(r), ipc_meta'[r], ipc_buf[r], pending[r])
  <2>1. Len(ipc_meta'[r]) = 0
    BY <1>2
  <2> QED
    BY <2>1 DEF IpcOK
<1>9. \A j \in 1..Len(pending[r]) :
        CopyOK(sizes, Meta(r), have[r], yielded[r], merge[r], ipc_meta'[r], pending[r][j])
  BY <1>2
<1> QED
  BY <1>1, <1>7, <1>8, <1>9 DEF Holding, Pos

LEMMA SendIpcStep ==
  ASSUME IInv, NEW r \in Ranks, SendIpc(r)
  PROVE  IInv'
<1>1. Types /\ Pace
  BY DEF IInv
<1>2. /\ UNCHANGED <<setup, round, sender, buf, receiver, merge, item, pending, ipc_buf, done>>
      /\ LoadIpc(r)
  BY DEF SendIpc
<1>3. UNCHANGED <<have, moved, reading, yielded, offered, returned,
                  next, bucket_meta, sent, trainer, reclaim>>
  BY <1>2 DEF sender, receiver
<1>4. engine' = engine /\ sizes' = sizes /\ Names' = Names /\ Chunks' = Chunks
  BY <1>2, SetupKept
<1>5. /\ ipc_meta' \in [Ranks -> Seq(Ipc)] /\ LoadedShape(sizes, loaded')
      /\ \A q \in Ranks : q # r => ipc_meta'[q] = ipc_meta[q] /\ loaded'[q] = loaded[q]
  BY <1>2, LoadIpcState
<1>6. Types'
  BY <1>1, <1>2, <1>3, <1>4, <1>5 DEF Types, Ranks
<1>7. yielded'[r] <= Len(Meta(r))
  BY <1>1, <1>3 DEF Pace
<1>8. Holding(r, yielded[r], item[r], merge[r], pending[r], ipc_meta'[r], ipc_buf[r],
              loaded'[r], done[r])
  <2>1. done[r] \in BOOLEAN
    BY <1>1 DEF Types
  <2> QED
    BY <1>2, <2>1, LoadIpcStep
<1> QED
  BY <1>2, <1>3, <1>5, <1>6, <1>7, <1>8, HandStep

\* When the last bucket is used up every tensor has been yielded.
LEMMA AllYielded ==
  ASSUME IInv, NEW r \in Ranks, AtLast(r), Used(r), NEW t \in DOMAIN sizes
  PROVE  t < Pos(r)[1] /\ item[r].name # t
<1> DEFINE h == have[r]
           m == Meta(r)
<1>1. Types /\ Ledger /\ Marks /\ Pace
  BY DEF IInv
<1>2. /\ Len(sent) \in Nat /\ h \in 0..Len(sent) /\ yielded[r] \in 0..Len(m) /\ m \in Seq(Entry)
      /\ h > 0 => h \in 1..Len(sent) /\ m = sent[h].meta
  BY <1>1, Counters
<1>3. item[r] = NoItem /\ yielded[r] = Len(m) /\ h > 0 /\ sent[h].is_last
  BY DEF Used, AtLast
<1>4. After(sizes, sent, h) = End(sizes) /\ h = Len(sent)
  BY <1>1, <1>2, <1>3 DEF Marks
<1>5. sizes \in Seq(Nat \ {0}) /\ Len(sizes) \in Nat /\ DOMAIN sizes = 1..Len(sizes)
  BY <1>1, SetupFacts DEF Types
<1>6. t \in Nat /\ t >= 1 /\ t <= Len(sizes)
  BY <1>5
<1>7. item[r].name # t
  BY <1>3, <1>6 DEF NoItem
<1> HIDE DEF h, m
<1>8. m # <<>>
  <2> SUFFICES ASSUME m = <<>> PROVE FALSE
    OBVIOUS
  <2>1. After(sizes, sent, h) = First
    BY <1>2, <1>3 DEF After
  <2> QED
    BY <1>4, <1>5, <1>6, <2>1 DEF First, End
<1>9. Pos(r) = Follow(sizes, m[Len(m)])
  <2>1. yielded[r] # 0 /\ h # 0
    BY <1>2, <1>3, <1>8, EntryFields
  <2> QED
    BY <1>2, <1>3, <2>1 DEF Pos, Position, h
<1>10. Pos(r) = End(sizes)
  BY <1>2, <1>3, <1>4, <1>8, <1>9 DEF After
<1> QED
  BY <1>5, <1>6, <1>7, <1>10 DEF End

LEMMA ReceiveDoneStep ==
  ASSUME IInv, NEW r \in Ranks, ReceiveDone(r)
  PROVE  IInv'
<1>1. Types /\ Pace
  BY DEF IInv
<1>2. /\ UNCHANGED <<setup, round, sender, buf, receiver, merge, item, pending, ipc_buf>>
      /\ LoadIpc(r) /\ AtLast(r) /\ Used(r) /\ done' = [done EXCEPT ![r] = TRUE]
  BY DEF ReceiveDone
<1>3. UNCHANGED <<have, moved, reading, yielded, offered, returned,
                  next, bucket_meta, sent, trainer, reclaim>>
  BY <1>2 DEF sender, receiver
<1>4. engine' = engine /\ sizes' = sizes /\ Names' = Names /\ Chunks' = Chunks
  BY <1>2, SetupKept
<1>5. /\ ipc_meta' \in [Ranks -> Seq(Ipc)] /\ LoadedShape(sizes, loaded')
      /\ \A q \in Ranks : q # r => ipc_meta'[q] = ipc_meta[q] /\ loaded'[q] = loaded[q]
  BY <1>2, LoadIpcState
<1>6. /\ done' \in [Ranks -> BOOLEAN] /\ done'[r] = TRUE
      /\ \A q \in Ranks : q # r => done'[q] = done[q]
  BY <1>1, <1>2 DEF Types
<1>7. Types'
  BY <1>1, <1>2, <1>3, <1>4, <1>5, <1>6 DEF Types, Ranks
<1>8. yielded'[r] <= Len(Meta(r))
  BY <1>1, <1>3 DEF Pace
<1>9. Holding(r, yielded[r], item[r], merge[r], pending[r], ipc_meta'[r], ipc_buf[r],
              loaded'[r], TRUE)
  <2>1. \A t \in DOMAIN sizes : t < Pos(r)[1] /\ item[r].name # t
    BY <1>2, AllYielded
  <2> QED
    BY <1>2, <2>1, LoadIpcStep
<1> QED
  BY <1>2, <1>3, <1>5, <1>6, <1>7, <1>8, <1>9, HandStep

-----------------------------------------------------------------------------
(* A tensor goes to the IPC buffer, or by itself. *)

LEMMA IpcAppended ==
  ASSUME NEW im \in Seq(Ipc), NEW e \in Ipc, NEW b, b = Append(im, e)
  PROVE  /\ b \in Seq(Ipc) /\ Len(b) = Len(im) + 1 /\ b[Len(im) + 1] = e
         /\ \A k \in 1..Len(im) : b[k] = im[k]
<1> HIDE DEF Ipc
<1> QED
  OBVIOUS

\* The IPC buffer is filled up to the end of the last tensor.
LEMMA IpcFilled ==
  ASSUME NEW z, NEW rd, NEW x, NEW im \in Seq(Ipc), NEW ib, NEW pd,
         IpcOK(z, rd, x, im, ib, pd)
  PROVE  /\ Filled(im) \in Nat /\ Filled(im) <= bucket_size
         /\ \A k \in 1..Len(im) : im[k].offset + im[k].size <= Filled(im)
<1>1. /\ Len(im) \in Nat /\ (im = <<>> <=> Len(im) = 0)
      /\ \A k \in 1..Len(im) : im[k].offset \in Nat /\ im[k].size \in Nat
  <2>1. im = <<>> <=> Len(im) = 0
    <3> HIDE DEF Ipc
    <3> QED
      OBVIOUS
  <2> QED
    BY <2>1, IpcFields
<1>2. CASE im = <<>>
  BY <1>1, <1>2, Constants DEF Filled
<1>3. CASE im # <<>>
  <2>1. Filled(im) = im[Len(im)].offset + im[Len(im)].size /\ Len(im) \in 1..Len(im)
    BY <1>1, <1>3 DEF Filled
  <2>2. Filled(im) \in Nat /\ Filled(im) <= bucket_size
    BY <1>1, <2>1 DEF IpcOK
  <2>3. ASSUME NEW k \in 1..Len(im) PROVE im[k].offset + im[k].size <= Filled(im)
    <3>1. CASE k = Len(im)
      BY <1>1, <2>1, <3>1
    <3>2. CASE k # Len(im)
      <4>1. k < Len(im)
        BY <1>1, <3>2
      <4>2. im[k].offset + im[k].size <= im[Len(im)].offset
        BY <2>1, <4>1 DEF IpcOK
      <4> QED
        BY <1>1, <2>1, <4>2
    <3> QED
      BY <3>1, <3>2
  <2> QED
    BY <2>2, <2>3
<1> QED
  BY <1>2, <1>3

\* The next tensor goes behind the others, and its copy is on its way.
LEMMA IpcPacked ==
  ASSUME NEW z, NEW rd, NEW x, NEW im \in Seq(Ipc), NEW ib, NEW pd \in Seq(Copy),
         IpcOK(z, rd, x, im, ib, pd), NEW e \in Ipc, NEW d \in Copy,
         e.name \in DOMAIN z, e.size = z[e.name], e.offset = Filled(im),
         Filled(im) + e.size <= bucket_size, d.to = "ipc", d.at = e.offset
  PROVE  IpcOK(z, rd, x, Append(im, e), ib, Append(pd, d))
<1> PICK jm : jm = Append(im, e)
  OBVIOUS
<1> PICK qd : qd = Append(pd, d)
  OBVIOUS
<1>1. /\ jm \in Seq(Ipc) /\ Len(jm) = Len(im) + 1 /\ jm[Len(im) + 1] = e
      /\ \A k \in 1..Len(im) : jm[k] = im[k]
  BY IpcAppended
<1>2. /\ qd \in Seq(Copy) /\ Len(qd) = Len(pd) + 1 /\ qd[Len(pd) + 1] = d
      /\ \A j \in 1..Len(pd) : qd[j] = pd[j]
  BY Issued
<1>3. Len(im) \in Nat /\ Len(pd) \in Nat
  BY IpcFields, PendingFields
<1>4. IpcOK(z, rd, x, im, ib, qd)
  <2>1. Len(qd) \in Nat /\ Len(pd) <= Len(qd)
    BY <1>2, <1>3
  <2> QED
    BY <1>2, <1>3, <2>1, IpcIssue
<1>5. \A k \in 1..Len(im) : im[k].offset + im[k].size <= Filled(im)
  BY IpcFilled
<1>6. \A k \in 1..Len(jm) : k \in 1..Len(im) \/ k = Len(im) + 1
  BY <1>1, <1>3
<1>7. ASSUME NEW k \in 1..Len(jm)
      PROVE  /\ jm[k].name \in DOMAIN z /\ jm[k].size = z[jm[k].name]
             /\ jm[k].offset + jm[k].size <= bucket_size
             /\ \A l \in 1..Len(jm) : k < l => jm[k].offset + jm[k].size <= jm[l].offset
             /\ \/ jm[k].name \in x
                \/ \A i \in 0..jm[k].size - 1 : ib[jm[k].offset + i] = <<rd, jm[k].name, i>>
                \/ \E j \in 1..Len(qd) : qd[j].to = "ipc" /\ qd[j].at = jm[k].offset
  <2>1. CASE k \in 1..Len(im)
    <3>1. jm[k] = im[k]
      BY <1>1, <2>1
    <3>2. /\ im[k].name \in DOMAIN z /\ im[k].size = z[im[k].name]
          /\ im[k].offset + im[k].size <= bucket_size
          /\ \A l \in 1..Len(im) : k < l => im[k].offset + im[k].size <= im[l].offset
          /\ \/ im[k].name \in x
             \/ \A i \in 0..im[k].size - 1 : ib[im[k].offset + i] = <<rd, im[k].name, i>>
             \/ \E j \in 1..Len(qd) : qd[j].to = "ipc" /\ qd[j].at = im[k].offset
      BY <1>4, <2>1 DEF IpcOK
    <3>3. \A l \in 1..Len(jm) : k < l => jm[k].offset + jm[k].size <= jm[l].offset
      BY <1>1, <1>5, <1>6, <2>1, <3>1, <3>2
    <3> QED
      BY <3>1, <3>2, <3>3
  <2>2. CASE k = Len(im) + 1
    <3>1. jm[k] = e
      BY <1>1, <2>2
    <3>2. \A l \in 1..Len(jm) : ~(k < l)
      BY <1>1, <1>3, <2>2
    <3>3. Len(pd) + 1 \in 1..Len(qd) /\ qd[Len(pd) + 1].to = "ipc"
          /\ qd[Len(pd) + 1].at = jm[k].offset
      BY <1>2, <1>3, <3>1
    <3> QED
      BY <3>1, <3>2, <3>3
  <2> QED
    BY <1>6, <2>1, <2>2
<1>8. IpcOK(z, rd, x, jm, ib, qd)
  BY <1>7 DEF IpcOK
<1> QED
  BY <1>8

\* The piece that ends the tensor at hand.
LEMMA ItemPiece ==
  ASSUME IInv, NEW r \in Ranks, item[r] # NoItem
  PROVE  LET c == Meta(r)[yielded[r]]
             t == item[r].name
         IN  /\ t \in DOMAIN sizes /\ t \in Nat /\ t >= 1 /\ sizes[t] \in Nat /\ sizes[t] >= 1
             /\ have[r] > 0 /\ yielded[r] \in 1..Len(Meta(r))
             /\ c.name = t /\ c.offset = item[r].offset /\ item[r].slot = Slot(have[r])
             /\ sizes[t] <= bucket_size => c.at = 0 /\ c.size = sizes[t]
             /\ engine = "mooncake" => sizes[t] <= bucket_size
             /\ Pos(r) = <<t + 1, 0>>
<1> DEFINE c == Meta(r)[yielded[r]]
           t == item[r].name
<1>1. /\ t \in DOMAIN sizes /\ have[r] > 0 /\ yielded[r] \in 1..Len(Meta(r)) /\ c.name = t
      /\ sizes \in Seq(Nat \ {0}) /\ ItemOK(sizes, Meta(r), have[r], yielded[r], item[r])
  BY AtHand
<1>2. /\ c.offset = item[r].offset /\ item[r].slot = Slot(have[r]) /\ c.at + c.size = sizes[t]
  BY <1>1 DEF ItemOK
<1>3. /\ Packed(sizes, engine, Meta(r)) /\ have[r] \in Nat
      /\ Meta(r) = sent[have[r]].meta
  BY <1>1, Counters DEF IInv
<1>4. /\ IsChunk(sizes, c)
      /\ engine = "mooncake" => sizes[t] <= bucket_size
  BY <1>1, <1>3 DEF Packed
<1>5. t \in Nat /\ t >= 1 /\ sizes[t] \in Nat /\ sizes[t] >= 1
  BY <1>1
<1>6. Pos(r) = Follow(sizes, c)
  <2>1. have[r] # 0 /\ yielded[r] # 0
    BY <1>1
  <2> QED
    BY <1>3, <2>1 DEF Pos, Position
<1>7. Pos(r) = <<t + 1, 0>>
  BY <1>1, <1>2, <1>6 DEF Follow
<1>8. sizes[t] <= bucket_size => c.at = 0 /\ c.size = sizes[t]
  BY <1>1, <1>4 DEF IsChunk
<1> QED
  BY <1>1, <1>2, <1>4, <1>5, <1>7, <1>8

LEMMA PackIpcHolding ==
  ASSUME IInv, NEW r \in Ranks, item[r] # NoItem, IpcFits(r), NEW e, NEW d,
         e = [name |-> item[r].name, offset |-> Filled(ipc_meta[r]),
              size |-> sizes[item[r].name]],
         d = [to |-> "ipc", slot |-> item[r].slot, offset |-> item[r].offset,
              at |-> Filled(ipc_meta[r]), size |-> sizes[item[r].name]]
  PROVE  /\ e \in Ipc /\ d \in Copy
         /\ Holding(r, yielded[r], NoItem, merge[r], Append(pending[r], d),
                    Append(ipc_meta[r], e), ipc_buf[r], loaded[r], done[r])
<1>1. /\ MergeOK(sizes, round, Pos(r), item[r], merge[r], pending[r])
      /\ \A j \in 1..Len(pending[r]) :
           CopyOK(sizes, Meta(r), have[r], yielded[r], merge[r], ipc_meta[r], pending[r][j])
      /\ IpcOK(sizes, round, Damaged(r), ipc_meta[r], ipc_buf[r], pending[r])
      /\ LoadedOK(sizes, round, Damaged(r), Pos(r), item[r], ipc_meta[r], loaded[r], done[r])
      /\ pending[r] \in Seq(Copy) /\ ipc_meta[r] \in Seq(Ipc) /\ item[r] \in Item
  BY AtHand
<1>2. PICK t \in Nat, n \in Nat, f \in Nat :
        /\ t = item[r].name /\ n = sizes[t] /\ f = Filled(ipc_meta[r])
        /\ t \in DOMAIN sizes /\ t >= 1 /\ f + n <= bucket_size
  <2>1. item[r].name \in Nat /\ item[r].name >= 1 /\ item[r].name \in DOMAIN sizes
        /\ sizes[item[r].name] \in Nat
    BY ItemPiece
  <2>2. Filled(ipc_meta[r]) \in Nat
    BY <1>1, IpcFilled
  <2> QED
    BY <2>1, <2>2 DEF IpcFits
<1>3. n <= bucket_size
  BY <1>2, Constants
<1>4. PICK c : c = Meta(r)[yielded[r]]
  OBVIOUS
<1>5. /\ have[r] > 0 /\ yielded[r] \in 1..Len(Meta(r)) /\ Pos(r) = <<t + 1, 0>>
      /\ c.name = t /\ c.offset = item[r].offset /\ item[r].slot = Slot(have[r])
      /\ c.at = 0 /\ c.size = n
  BY <1>2, <1>3, <1>4, ItemPiece
<1>6. /\ e.name = t /\ e.offset = f /\ e.size = n
      /\ d.to = "ipc" /\ d.slot = item[r].slot /\ d.offset = item[r].offset
      /\ d.at = f /\ d.size = n
  BY <1>2
<1>7. e \in Ipc /\ d \in Copy
  BY <1>1, <1>2 DEF Ipc, Copy, Item
<1>8. PICK im \in Seq(Ipc), pd \in Seq(Copy) : im = ipc_meta[r] /\ pd = pending[r]
  BY <1>1
<1>9. PICK jm : jm = Append(im, e)
  OBVIOUS
<1>10. PICK qd : qd = Append(pd, d)
  OBVIOUS
<1>11. /\ jm \in Seq(Ipc) /\ Len(jm) = Len(im) + 1 /\ jm[Len(im) + 1] = e
       /\ \A k \in 1..Len(im) : jm[k] = im[k]
       /\ Len(im) \in Nat
  BY <1>7, <1>9, IpcAppended, IpcFields
<1>12. /\ qd \in Seq(Copy) /\ Len(qd) = Len(pd) + 1 /\ qd[Len(pd) + 1] = d
       /\ \A j \in 1..Len(pd) : qd[j] = pd[j]
       /\ Len(pd) \in Nat
  BY <1>7, <1>10, Issued, PendingFields
<1>13. /\ \A k \in 1..Len(im) : k \in 1..Len(jm) /\ jm[k] = im[k]
       /\ Len(im) + 1 \in 1..Len(jm) /\ jm[Len(im) + 1] = e
       /\ \A j \in 1..Len(qd) : j \in 1..Len(pd) \/ j = Len(pd) + 1
  BY <1>11, <1>12
<1>14. IpcOK(sizes, round, Damaged(r), jm, ipc_buf[r], qd)
  <2>1. PICK x : x = Damaged(r)
    OBVIOUS
  <2>2. PICK ib : ib = ipc_buf[r]
    OBVIOUS
  <2>3. /\ IpcOK(sizes, round, x, im, ib, pd)
        /\ e.name \in DOMAIN sizes /\ e.size = sizes[e.name] /\ e.offset = Filled(im)
        /\ Filled(im) + e.size <= bucket_size /\ d.to = "ipc" /\ d.at = e.offset
    BY <1>1, <1>2, <1>6, <1>8, <2>1, <2>2
  <2>4. IpcOK(sizes, round, x, Append(im, e), ib, Append(pd, d))
    BY <1>7, <2>3, IpcPacked
  <2> QED
    BY <1>9, <1>10, <2>1, <2>2, <2>4
<1>15. MergeOK(sizes, round, Pos(r), NoItem, merge[r], qd)
  <2>1. ~(Pos(r)[2] > 0) /\ ~(sizes[item[r].name] > bucket_size)
    BY <1>2, <1>3, <1>5, Constants
  <2>2. merge[r] = NoMerge
    BY <1>1, <2>1 DEF MergeOK, Open
  <2> QED
    BY <2>1, <2>2 DEF MergeOK, Open
<1>16. ASSUME NEW j \in 1..Len(qd)
       PROVE  CopyOK(sizes, Meta(r), have[r], yielded[r], merge[r], jm, qd[j])
  <2>1. CASE j \in 1..Len(pd)
    <3>1. CopyOK(sizes, Meta(r), have[r], yielded[r], merge[r], im, pd[j])
      BY <1>1, <1>8, <2>1
    <3>2. qd[j] = pd[j]
      BY <1>12, <2>1
    <3> QED
      BY <1>13, <3>1, <3>2 DEF CopyOK
  <2>2. CASE j = Len(pd) + 1
    <3>1. qd[j] = d
      BY <1>12, <2>2
    <3>2. yielded[r] \in 1..yielded[r]
      BY <1>5
    <3>3. /\ Meta(r)[yielded[r]].offset = d.offset /\ Meta(r)[yielded[r]].size = d.size
          /\ d.to # "merge" /\ Meta(r)[yielded[r]].at = 0
          /\ jm[Len(im) + 1].name = Meta(r)[yielded[r]].name
          /\ jm[Len(im) + 1].offset = d.at /\ jm[Len(im) + 1].size = d.size
      BY <1>4, <1>5, <1>6, <1>13
    <3> QED
      BY <1>5, <1>6, <1>13, <3>1, <3>2, <3>3 DEF CopyOK
  <2> QED
    BY <1>13, <2>1, <2>2
<1>17. LoadedOK(sizes, round, Damaged(r), Pos(r), NoItem, jm, loaded[r], done[r])
  <2>1. \A x : item[r].name = x \/ (\E k \in 1..Len(im) : im[k].name = x)
               => \E k \in 1..Len(jm) : jm[k].name = x
    BY <1>2, <1>6, <1>13
  <2> QED
    BY <1>1, <1>8, <2>1 DEF LoadedOK
<1>18. ItemOK(sizes, Meta(r), have[r], yielded[r], NoItem)
  BY DEF ItemOK
<1>19. Holding(r, yielded[r], NoItem, merge[r], qd, jm, ipc_buf[r], loaded[r], done[r])
  BY <1>14, <1>15, <1>16, <1>17, <1>18 DEF Holding, Pos
<1> QED
  BY <1>7, <1>8, <1>9, <1>10, <1>19

LEMMA PackIpcStep ==
  ASSUME IInv, NEW r \in Ranks, PackIpc(r)
  PROVE  IInv'
<1>1. Types /\ Pace
  BY DEF IInv
<1>2. PICK e : e = [name |-> item[r].name, offset |-> Filled(ipc_meta[r]),
                    size |-> sizes[item[r].name]]
  OBVIOUS
<1>3. PICK d : d = [to |-> "ipc", slot |-> item[r].slot, offset |-> item[r].offset,
                    at |-> Filled(ipc_meta[r]), size |-> sizes[item[r].name]]
  OBVIOUS
<1>4. /\ item[r] # NoItem /\ IpcFits(r)
      /\ ipc_meta' = [ipc_meta EXCEPT ![r] = Append(@, e)]
      /\ pending' = [pending EXCEPT ![r] = Append(@, d)]
      /\ item' = [item EXCEPT ![r] = NoItem]
      /\ UNCHANGED <<setup, round, sender, buf, receiver, merge, ipc_buf, loaded, done>>
  BY <1>2, <1>3 DEF PackIpc, Issue
<1>5. UNCHANGED <<have, moved, reading, yielded, offered, returned,
                  next, bucket_meta, sent, trainer, reclaim>>
  BY <1>4 DEF sender, receiver
<1>6. engine' = engine /\ sizes' = sizes /\ Names' = Names /\ Chunks' = Chunks
  BY <1>4, SetupKept
<1>7. /\ e \in Ipc /\ d \in Copy
      /\ Holding(r, yielded[r], NoItem, merge[r], Append(pending[r], d),
                 Append(ipc_meta[r], e), ipc_buf[r], loaded[r], done[r])
  BY <1>2, <1>3, <1>4, PackIpcHolding
<1>8. PICK jm : jm = Append(ipc_meta[r], e)
  OBVIOUS
<1>9. PICK qd : qd = Append(pending[r], d)
  OBVIOUS
<1>10. /\ pending \in [Ranks -> Seq(Copy)] /\ ipc_meta \in [Ranks -> Seq(Ipc)]
       /\ item \in [Ranks -> Item]
  BY <1>1 DEF Types
<1>11. jm \in Seq(Ipc) /\ qd \in Seq(Copy) /\ NoItem \in Item
  <2>1. pending[r] \in Seq(Copy) /\ ipc_meta[r] \in Seq(Ipc)
    BY <1>10
  <2>2. NoItem \in Item
    BY DEF NoItem, Item
  <2> QED
    BY <1>7, <1>8, <1>9, <2>1, <2>2, Issued, IpcAppended
<1>12. /\ ipc_meta' \in [Ranks -> Seq(Ipc)] /\ ipc_meta'[r] = jm
       /\ pending' \in [Ranks -> Seq(Copy)] /\ pending'[r] = qd
       /\ item' \in [Ranks -> Item] /\ item'[r] = NoItem
       /\ \A q \in Ranks : q # r => /\ ipc_meta'[q] = ipc_meta[q] /\ pending'[q] = pending[q]
                                    /\ item'[q] = item[q]
  <2>1. ipc_meta' = [ipc_meta EXCEPT ![r] = jm] /\ pending' = [pending EXCEPT ![r] = qd]
    BY <1>4, <1>8, <1>9
  <2> QED
    BY <1>4, <1>10, <1>11, <2>1
<1>13. Types'
  BY <1>1, <1>4, <1>5, <1>6, <1>12 DEF Types, Ranks
<1>14. yielded'[r] <= Len(Meta(r))
  BY <1>1, <1>5 DEF Pace
<1>15. Holding(r, yielded[r], NoItem, merge[r], qd, jm, ipc_buf[r], loaded[r], done[r])
  BY <1>7, <1>8, <1>9
<1> QED
  BY <1>4, <1>5, <1>12, <1>13, <1>14, <1>15, HandStep

\* A tensor larger than the IPC buffer has been put together when it is sent by itself.
LEMMA SendLargeHolding ==
  ASSUME IInv, NEW r \in Ranks, item[r] # NoItem, ~IpcFits(r), ipc_meta[r] = <<>>,
         pending[r] = <<>>, NEW l, l[item[r].name] = merge[r].bytes,
         \A x \in DOMAIN sizes : x # item[r].name => l[x] = loaded[r][x]
  PROVE  Holding(r, yielded[r], NoItem, NoMerge, pending[r], ipc_meta[r], ipc_buf[r], l, done[r])
<1>1. /\ MergeOK(sizes, round, Pos(r), item[r], merge[r], pending[r])
      /\ LoadedOK(sizes, round, Damaged(r), Pos(r), item[r], ipc_meta[r], loaded[r], done[r])
  BY AtHand
<1>2. PICK t \in Nat, n \in Nat :
        /\ t = item[r].name /\ n = sizes[t] /\ t \in DOMAIN sizes /\ t >= 1 /\ n >= 1
        /\ Pos(r) = <<t + 1, 0>>
  BY ItemPiece
<1>3. n > bucket_size
  <2>1. Filled(ipc_meta[r]) = 0
    BY DEF Filled
  <2> QED
    BY <1>2, <2>1, Constants DEF IpcFits
<1>4. Open(sizes, Pos(r), item[r]) = <<t, n>>
  <2>1. ~(Pos(r)[2] > 0)
    BY <1>2
  <2> QED
    BY <1>2, <1>3, <2>1 DEF Open
<1>5. Len(pending[r]) = 0 /\ Len(ipc_meta[r]) = 0
  OBVIOUS
<1>6. PartOK(round, t, n, n, merge[r], pending[r])
  BY <1>1, <1>2, <1>4 DEF MergeOK
<1>7. merge[r].bytes = Faultless(round, t, n)
  <2>1. Spans(merge[r].bytes, n) /\ \A i \in 0..n - 1 : merge[r].bytes[i] = <<round, t, i>>
    BY <1>5, <1>6 DEF PartOK
  <2>2. PICK b : b = merge[r].bytes
    OBVIOUS
  <2>3. Spans(b, n) /\ \A i \in 0..n - 1 : b[i] = <<round, t, i>>
    BY <2>1, <2>2
  <2>4. [i \in 0..n - 1 |-> b[i]] = [i \in 0..n - 1 |-> <<round, t, i>>]
    BY <2>3
  <2> QED
    BY <2>2, <2>3, <2>4 DEF Spans, Faultless
<1>8. Faultless(round, t, n) # <<>>
  <2>1. 0 \in DOMAIN Faultless(round, t, n)
    BY <1>2 DEF Faultless
  <2>2. 0 \notin DOMAIN <<>>
    OBVIOUS
  <2> QED
    BY <2>1, <2>2
<1>9. ASSUME NEW x \in DOMAIN sizes
      PROVE  /\ l[x] = <<>> \/ x \in Damaged(r) \/ l[x] = Faultless(round, x, sizes[x])
             /\ x < Pos(r)[1] => l[x] # <<>>
             /\ done[r] => l[x] # <<>>
  <2>1. CASE x = t
    BY <1>2, <1>7, <1>8, <2>1
  <2>2. CASE x # t
    <3>1. l[x] = loaded[r][x] /\ item[r].name # x
      BY <1>2, <2>2
    <3>2. ~(\E k \in 1..Len(ipc_meta[r]) : ipc_meta[r][k].name = x)
      BY <1>5
    <3>3. /\ l[x] = <<>> \/ x \in Damaged(r) \/ l[x] = Faultless(round, x, sizes[x])
          /\ done[r] => l[x] # <<>>
      BY <1>1, <3>1 DEF LoadedOK, Faultless
    <3>4. x < Pos(r)[1] => l[x] # <<>>
      BY <1>1, <3>1, <3>2 DEF LoadedOK
    <3> QED
      BY <3>3, <3>4
  <2> QED
    BY <2>1, <2>2
<1>10. LoadedOK(sizes, round, Damaged(r), Pos(r), NoItem, ipc_meta[r], l, done[r])
  BY <1>9 DEF LoadedOK, Faultless
<1>11. IpcOK(sizes, round, Damaged(r), ipc_meta[r], ipc_buf[r], pending[r])
  BY <1>5 DEF IpcOK
<1>12. MergeOK(sizes, round, Pos(r), NoItem, NoMerge, pending[r])
  <2>1. ~(Pos(r)[2] > 0)
    BY <1>2
  <2> QED
    BY <2>1 DEF MergeOK, Open
<1>13. \A j \in 1..Len(pending[r]) :
         CopyOK(sizes, Meta(r), have[r], yielded[r], NoMerge, ipc_meta[r], pending[r][j])
  BY <1>5
<1>14. ItemOK(sizes, Meta(r), have[r], yielded[r], NoItem)
  BY DEF ItemOK
<1> QED
  BY <1>10, <1>11, <1>12, <1>13, <1>14 DEF Holding, Pos

LEMMA SendLargeStep ==
  ASSUME IInv, NEW r \in Ranks, SendLarge(r)
  PROVE  IInv'
<1>1. Types /\ Pace
  BY DEF IInv
<1>2. /\ item[r] # NoItem /\ ~IpcFits(r) /\ ipc_meta[r] = <<>> /\ pending[r] = <<>>
      /\ loaded' = [loaded EXCEPT ![r][item[r].name] = merge[r].bytes]
      /\ item' = [item EXCEPT ![r] = NoItem] /\ merge' = [merge EXCEPT ![r] = NoMerge]
      /\ UNCHANGED <<setup, round, sender, buf, receiver, pending, ipc_meta, ipc_buf, done>>
  BY DEF SendLarge
<1>3. UNCHANGED <<have, moved, reading, yielded, offered, returned,
                  next, bucket_meta, sent, trainer, reclaim>>
  BY <1>2 DEF sender, receiver
<1>4. engine' = engine /\ sizes' = sizes /\ Names' = Names /\ Chunks' = Chunks
  BY <1>2, SetupKept
<1>5. item[r].name \in DOMAIN sizes
  BY <1>2, ItemPiece
<1>6. /\ item \in [Ranks -> Item] /\ MergeShape(merge) /\ LoadedShape(sizes, loaded)
      /\ DOMAIN merge = Ranks /\ DOMAIN loaded = Ranks /\ DOMAIN loaded[r] = DOMAIN sizes
  BY <1>1 DEF Types, MergeShape, LoadedShape
<1>7. /\ item' \in [Ranks -> Item] /\ item'[r] = NoItem
      /\ \A q \in Ranks : q # r => item'[q] = item[q]
  <2>1. NoItem \in Item
    BY DEF NoItem, Item
  <2> QED
    BY <1>2, <1>6, <2>1
<1>8. /\ MergeShape(merge') /\ merge'[r] = NoMerge
      /\ \A q \in Ranks : q # r => merge'[q] = merge[q]
  <2>1. NoMerge = [name |-> NoMerge.name, offset |-> NoMerge.offset, bytes |-> NoMerge.bytes]
    BY DEF NoMerge
  <2>2. MergeShape(merge')
    BY <1>2, <1>6, <2>1, ShapeUpdates
  <2> QED
    BY <1>2, <1>6, <2>2
<1>9. LoadedShape(sizes, loaded')
  BY <1>2, <1>6, ShapeUpdates
<1>10. /\ loaded'[r][item[r].name] = merge[r].bytes
       /\ \A x \in DOMAIN sizes : x # item[r].name => loaded'[r][x] = loaded[r][x]
       /\ \A q \in Ranks : q # r => loaded'[q] = loaded[q]
  BY <1>2, <1>5, <1>6
<1>11. Types'
  BY <1>1, <1>2, <1>3, <1>4, <1>7, <1>8, <1>9 DEF Types, Ranks
<1>12. yielded'[r] <= Len(Meta(r))
  BY <1>1, <1>3 DEF Pace
<1>13. PICK l : l = loaded'[r]
  OBVIOUS
<1>14. Holding(r, yielded[r], NoItem, NoMerge, pending[r], ipc_meta[r], ipc_buf[r], l, done[r])
  BY <1>2, <1>10, <1>13, SendLargeHolding
<1> QED
  BY <1>2, <1>3, <1>7, <1>8, <1>10, <1>11, <1>12, <1>13, <1>14, HandStep

-----------------------------------------------------------------------------
(* The beginning of an update. *)

Start ==
    /\ setup \in Setups /\ round \in 1..MaxRounds /\ BufferShape(buf)
    /\ next = 1 /\ bucket_meta = <<>> /\ sent = <<>> /\ trainer = "sending" /\ reclaim = FALSE
    /\ have = Of(0) /\ moved = Of(0) /\ reading = Of(FALSE)
    /\ yielded = Of(0) /\ offered = Of(0) /\ returned = Of(0)
    /\ merge = Of(NoMerge) /\ item = Of(NoItem) /\ pending = Of(<<>>)
    /\ ipc_meta = Of(<<>>) /\ ipc_buf = Of(Empty)
    /\ loaded = NothingLoaded /\ done = Of(FALSE)

LEMMA Starting == Start => IInv
<1> SUFFICES ASSUME Start PROVE IInv
  OBVIOUS
<1>0. setup \in Setups /\ round \in 1..MaxRounds /\ BufferShape(buf)
  BY DEF Start
<1>1. /\ next = 1 /\ bucket_meta = <<>> /\ sent = <<>> /\ trainer = "sending" /\ reclaim = FALSE
      /\ loaded = NothingLoaded
      /\ \A r \in Ranks : /\ have[r] = 0 /\ moved[r] = 0 /\ reading[r] = FALSE /\ yielded[r] = 0
                          /\ offered[r] = 0 /\ returned[r] = 0 /\ merge[r] = NoMerge
                          /\ item[r] = NoItem /\ pending[r] = <<>> /\ ipc_meta[r] = <<>>
                          /\ ipc_buf[r] = Empty /\ done[r] = FALSE
  BY DEF Start, Of
<1>2. /\ sizes \in Seq(Nat \ {0}) /\ DOMAIN sizes = Names
      /\ \A t \in Names : t \in Nat /\ t >= 1
  <2>1. sizes \in Seq(Nat \ {0}) /\ Names = 1..Len(sizes) /\ Len(sizes) \in Nat
    BY <1>0, SetupFacts
  <2> QED
    BY <2>1
<1>3. Len(Chunks) \in Nat /\ Due(sizes, Chunks, 1) = First
  BY <1>0, ChunkFacts
<1>4. /\ have \in [Ranks -> Nat] /\ moved \in [Ranks -> Nat] /\ reading \in [Ranks -> BOOLEAN]
      /\ yielded \in [Ranks -> Nat] /\ offered \in [Ranks -> Nat] /\ returned \in [Ranks -> Nat]
      /\ done \in [Ranks -> BOOLEAN]
  BY DEF Start, Of
<1>5. item \in [Ranks -> Item]
  BY DEF Start, Of, Item, NoItem
<1>6. /\ pending \in [Ranks -> Seq(Copy)] /\ ipc_meta \in [Ranks -> Seq(Ipc)]
      /\ bucket_meta \in Seq(Entry) /\ sent \in Seq(Bucket)
  <2>1. <<>> \in Seq(Copy) /\ <<>> \in Seq(Ipc) /\ <<>> \in Seq(Entry) /\ <<>> \in Seq(Bucket)
    <3> HIDE DEF Copy, Ipc, Entry, Bucket
    <3> QED
      OBVIOUS
  <2> QED
    BY <1>1, <2>1 DEF Start, Of
<1>7. MergeShape(merge)
  BY DEF Start, Of, MergeShape, NoMerge
<1>8. IpcShape(ipc_buf)
  BY DEF Start, Of, IpcShape, Empty
<1>9. LoadedShape(sizes, loaded)
  BY DEF Start, NothingLoaded, Of, LoadedShape, Names
<1>10. next \in 1..Len(Chunks) + 1
  BY <1>1, <1>3
<1>11. Types
  BY <1>0, <1>1, <1>4, <1>5, <1>6, <1>7, <1>8, <1>9, <1>10 DEF Types
<1>12. Len(sent) = 0 /\ Len(bucket_meta) = 0
  BY <1>1
<1>13. \A k \in Int : k < 1 => After(sizes, sent, k) = First
  BY DEF After
<1>14. Ledger
  BY <1>1, <1>3, <1>12, <1>13, NoPieceIsPacked DEF Ledger
<1>15. Marks
  BY <1>1, <1>12 DEF Marks
<1>16. \A r \in Ranks : Meta(r) = <<>> /\ Len(Meta(r)) = 0
  <2>1. \A r \in Ranks : Meta(r) = <<>>
    BY <1>1 DEF Meta
  <2> QED
    BY <2>1
<1>17. Pace
  BY <1>1, <1>12, <1>16, Constants DEF Pace, Ranks
<1>18. Buffers
  BY <1>1, <1>12, NoPieces, Constants DEF Buffers, Ranks
<1>19. ASSUME NEW r \in Ranks PROVE Hand(r)
  <2>1. Pos(r) = First
    BY <1>1 DEF Pos, Position
  <2>2. /\ have[r] = 0 /\ yielded[r] = 0 /\ item[r] = NoItem /\ merge[r] = NoMerge
        /\ Len(pending[r]) = 0 /\ Len(ipc_meta[r]) = 0 /\ done[r] = FALSE
        /\ \A t \in DOMAIN sizes : loaded[r][t] = <<>>
    BY <1>1, <1>2 DEF NothingLoaded, Of
  <2>3. ItemOK(sizes, Meta(r), have[r], yielded[r], item[r])
    BY <2>2 DEF ItemOK
  <2>4. MergeOK(sizes, round, Pos(r), item[r], merge[r], pending[r])
    BY <2>1, <2>2 DEF MergeOK, Open, First
  <2>5. IpcOK(sizes, round, Damaged(r), ipc_meta[r], ipc_buf[r], pending[r])
    BY <2>2 DEF IpcOK
  <2>6. LoadedOK(sizes, round, Damaged(r), Pos(r), item[r], ipc_meta[r], loaded[r], done[r])
    <3>1. \A t \in DOMAIN sizes : ~(t < First[1])
      BY <1>2 DEF First
    <3> QED
      BY <2>1, <2>2, <3>1 DEF LoadedOK
  <2> QED
    BY <2>2, <2>3, <2>4, <2>5, <2>6 DEF Hand
<1>20. Hands
  BY <1>19 DEF Hands
<1> QED
  BY <1>11, <1>14, <1>15, <1>17, <1>18, <1>20 DEF IInv

LEMMA StartingNext == Start' => IInv'
  BY Starting, PTL

\* Every buffer is new in the first update.
LEMMA NewShape == BufferShape(NewBuffers)
  BY DEF BufferShape, NewBuffers, Empty

LEMMA InitStart == Init => Start
<1> SUFFICES ASSUME Init PROVE Start
  OBVIOUS
<1>1. 1 \in 1..MaxRounds
  BY Constants
<1> QED
  BY <1>1, NewShape DEF Init, Start

LEMMA NextRoundStep == IInv /\ NextRound => IInv'
<1> SUFFICES ASSUME IInv, NextRound PROVE IInv'
  OBVIOUS
<1>1. setup' = setup /\ setup \in Setups /\ round \in 1..MaxRounds /\ BufferShape(buf)
  BY DEF NextRound, IInv, Types
<1>2. round' \in 1..MaxRounds
  BY <1>1, Constants DEF NextRound
<1>3. BufferShape(buf')
  BY <1>1, NewShape DEF NextRound
<1>4. BufferShape(buf)'
  BY <1>3 DEF BufferShape
<1>5. NothingLoaded' = NothingLoaded
  BY <1>1, SetupKept DEF NothingLoaded, Of
<1>6. Start'
  BY <1>1, <1>2, <1>4, <1>5 DEF NextRound, Start, Of, NoMerge, NoItem, Empty
<1> QED
  BY <1>6, StartingNext

-----------------------------------------------------------------------------
(* Every step, and what the invariant says. *)

LEMMA SendStep == IInv /\ trainer # "raised" /\ Send => IInv'
<1> SUFFICES ASSUME IInv, Send PROVE IInv'
  OBVIOUS
<1>1. CASE PackChunk
  BY <1>1, PackChunkStep
<1>2. CASE SendBucket
  BY <1>2, SendBucketStep
<1>3. CASE Reclaim
  BY <1>3, ReclaimStep
<1>4. CASE TooLarge
  BY <1>4, TrainerStep DEF TooLarge
<1>5. CASE SendLast
  BY <1>5, SendLastStep
<1>6. CASE SendDone
  BY <1>6, TrainerStep DEF SendDone
<1> QED
  BY <1>1, <1>2, <1>3, <1>4, <1>5, <1>6 DEF Send

LEMMA ReceiveStep ==
  ASSUME IInv, trainer # "raised", NEW r \in Ranks, Receive(r)
  PROVE  IInv'
<1>1. CASE BeginRead(r)
  BY <1>1, BeginReadStep
<1>2. CASE Transfer(r)
  BY <1>2, TransferStep
<1>3. CASE Advance(r)
  BY <1>3, AdvanceStep
<1>4. CASE ReadBucket(r)
  BY <1>4, ReadBucketStep
<1>5. CASE WriteMagic(r)
  BY <1>5, WriteMagicStep
<1>6. CASE YieldChunk(r)
  BY <1>6, YieldChunkStep
<1>7. CASE StreamCopy(r)
  BY <1>7, StreamCopyStep
<1>8. CASE SendIpc(r)
  BY <1>8, SendIpcStep
<1>9. CASE PackIpc(r)
  BY <1>9, PackIpcStep
<1>10. CASE SendLarge(r)
  BY <1>10, SendLargeStep
<1>11. CASE SendLargeRaises(r)
  BY <1>11, TrainerStep DEF SendLargeRaises
<1>12. CASE ReceiveDone(r)
  BY <1>12, ReceiveDoneStep
<1> QED
  BY <1>1, <1>2, <1>3, <1>4, <1>5, <1>6, <1>7, <1>8, <1>9, <1>10, <1>11, <1>12 DEF Receive

LEMMA Invariance == IInv /\ [Next]_vars => IInv'
<1> SUFFICES ASSUME IInv, [Next]_vars PROVE IInv'
  OBVIOUS
<1>1. CASE trainer # "raised" /\ Send
  BY <1>1, SendStep
<1>2. CASE trainer # "raised" /\ \E r \in Ranks : Receive(r)
  BY <1>2, ReceiveStep
<1>3. CASE NextRound
  BY <1>3, NextRoundStep
<1>4. CASE UNCHANGED vars
  <2>1. /\ UNCHANGED <<setup, round, next, bucket_meta, sent, reclaim, buf, receiver, consumer>>
        /\ trainer' = trainer
    BY <1>4 DEF vars, sender
  <2> QED
    BY <2>1, TrainerStep
<1> QED
  BY <1>1, <1>2, <1>3, <1>4 DEF Next

LEMMA InvTyped == IInv => TypeOK
<1> SUFFICES ASSUME IInv PROVE TypeOK
  OBVIOUS
<1>1. Types /\ Ledger /\ Marks /\ Pace
  BY DEF IInv
<1>2. Filled(bucket_meta) <= bucket_size
  <2>1. bucket_meta \in Seq(Entry) /\ Packed(sizes, engine, bucket_meta)
    BY <1>1 DEF Types, Ledger
  <2> QED
    BY <2>1, FilledFacts
<1>3. \A r \in 0..R : \A s \in {0, 1} : DOMAIN buf[r][s] = Bytes
  BY <1>1 DEF Types, BufferShape
<1>4. ASSUME NEW r \in Ranks
      PROVE  /\ have[r] \in 0..Len(sent) /\ moved[r] \in have[r]..have[r] + 1
             /\ moved[r] <= Len(sent) /\ yielded[r] \in 0..Len(Meta(r))
             /\ reading[r] \in BOOLEAN /\ done[r] \in BOOLEAN
             /\ offered[r] <= have[r] /\ returned[r] <= have[r]
  <2>1. /\ have[r] \in 0..Len(sent) /\ Len(sent) \in Nat /\ moved[r] \in Nat
        /\ moved[r] <= Len(sent) /\ yielded[r] \in 0..Len(Meta(r)) /\ returned[r] \in Nat
    BY <1>1, Counters
  <2>2. /\ have[r] <= moved[r] /\ moved[r] <= have[r] + 1 /\ offered[r] = have[r]
        /\ returned[r] <= have[r]
    BY <1>1, <2>1 DEF Pace
  <2> QED
    BY <1>1, <2>1, <2>2 DEF Types
<1>5. ASSUME NEW r \in Ranks
      PROVE  /\ Filled(ipc_meta[r]) <= bucket_size
             /\ item[r].name \in Names \cup {0} /\ merge[r].name \in Names \cup {0}
  <2>1. /\ MergeOK(sizes, round, Pos(r), item[r], merge[r], pending[r])
        /\ IpcOK(sizes, round, Damaged(r), ipc_meta[r], ipc_buf[r], pending[r])
        /\ ipc_meta[r] \in Seq(Ipc) /\ sizes \in Seq(Nat \ {0})
        /\ Pos(r)[1] \in Nat /\ Pos(r)[2] \in Nat
        /\ item[r] # NoItem => item[r].name \in DOMAIN sizes
    BY AtHand
  <2>2. Filled(ipc_meta[r]) <= bucket_size
    BY <2>1, IpcFilled
  <2>3. item[r].name \in Names \cup {0}
    BY <2>1 DEF Names, NoItem
  <2>4. merge[r] # NoMerge => merge[r].name \in DOMAIN sizes
    BY <2>1, PartAtHand
  <2>5. merge[r].name \in Names \cup {0}
    BY <2>4 DEF Names, NoMerge
  <2> QED
    BY <2>2, <2>3, <2>5
<1> QED
  BY <1>1, <1>2, <1>3, <1>4, <1>5 DEF TypeOK, Types

LEMMA InvArrived == IInv => WeightsArriveButMagic
<1> SUFFICES ASSUME IInv, NEW r \in Ranks, NEW t \in Names,
                    ~(engine = "mooncake" /\ r < R /\ FirstInBucket(t))
             PROVE  Sound(r, t)
  BY DEF WeightsArriveButMagic
<1>1. LoadedOK(sizes, round, Damaged(r), Pos(r), item[r], ipc_meta[r], loaded[r], done[r])
  BY AtHand
<1>2. t \notin Damaged(r)
  <2>1. DOMAIN sent = 1..Len(sent)
    <3>1. sent \in Seq(Bucket)
      BY DEF IInv, Types
    <3> HIDE DEF Bucket
    <3> QED
      BY <3>1
  <2> QED
    BY <2>1 DEF Damaged, FirstInBucket
<1>3. /\ loaded[r][t] = <<>> \/ loaded[r][t] = [i \in 0..sizes[t] - 1 |-> <<round, t, i>>]
      /\ done[r] => loaded[r][t] # <<>>
  BY <1>1, <1>2 DEF LoadedOK, Names
<1> QED
  BY <1>3 DEF Sound, Byte

LEMMA InvAssertions == IInv => AssertionsHold
<1> SUFFICES ASSUME IInv PROVE AssertionsHold
  OBVIOUS
<1>1. \A i, j \in DOMAIN bucket_meta : bucket_meta[i].name = bucket_meta[j].name => i = j
  <2>1. bucket_meta \in Seq(Entry) /\ Packed(sizes, engine, bucket_meta)
    BY DEF IInv, Types, Ledger
  <2>2. DOMAIN bucket_meta = 1..Len(bucket_meta)
    <3> HIDE DEF Entry
    <3> QED
      BY <2>1
  <2> QED
    BY <2>1, <2>2, PackedNames
<1>2. ASSUME NEW r \in Ranks, item[r] = NoItem, yielded[r] < Len(Meta(r)),
             NEW c, c = Meta(r)[yielded[r] + 1]
      PROVE  IF sizes[c.name] <= bucket_size THEN merge[r] = NoMerge
             ELSE IF merge[r] = NoMerge THEN c.at = 0
             ELSE merge[r].name = c.name /\ merge[r].offset = c.at
  <2>1. Place(c) = Pos(r) /\ IsChunk(sizes, c)
    BY <1>2, NextPiece
  <2>2. MergeOK(sizes, round, Pos(r), item[r], merge[r], pending[r]) /\ sizes \in Seq(Nat \ {0})
    BY AtHand
  <2>3. /\ c.name \in DOMAIN sizes /\ c.at \in Nat /\ c.name # 0
        /\ sizes[c.name] <= bucket_size => c.at = 0
    BY <2>1, <2>2 DEF IsChunk
  <2>4. Pos(r)[1] = c.name /\ Pos(r)[2] = c.at
    BY <2>1 DEF Place
  <2>5. CASE c.at = 0
    <3>1. Open(sizes, Pos(r), item[r]) = <<0, 0>>
      BY <1>2, <2>4, <2>5 DEF Open
    <3>2. merge[r] = NoMerge
      BY <2>2, <3>1 DEF MergeOK
    <3> QED
      BY <2>5, <3>2
  <2>6. CASE c.at # 0
    <3>1. Open(sizes, Pos(r), item[r]) = Pos(r)
      BY <2>3, <2>4, <2>6 DEF Open
    <3>2. merge[r].name = c.name /\ merge[r].offset = c.at
      BY <2>2, <2>3, <2>4, <3>1 DEF MergeOK, PartOK
    <3>3. merge[r] # NoMerge
      BY <2>3, <3>2 DEF NoMerge
    <3> QED
      BY <2>3, <2>6, <3>2, <3>3
  <2> QED
    BY <2>5, <2>6
<1> QED
  BY <1>1, <1>2 DEF AssertionsHold

-----------------------------------------------------------------------------
\* An update delivers the weights: in every run of a checkpoint engine, for any
\* number of ranks, bucket size and sizes of the tensors, a worker that has loaded a
\* tensor has loaded the bytes that rank 0 sends in this update, and a worker that is
\* done has loaded all of them, although both buffers of every rank are refilled while
\* others read them; the first tensor of a bucket in a mooncake rank with a successor is
\* the exception. Neither a bucket nor the IPC buffer is overfilled, and no assertion of
\* send_weights or merge_weight_chunks fails.
THEOREM Delivered == Spec => []WeightsDelivered
<1>1. Init => IInv
  BY InitStart, Starting
<1>2. IInv /\ [Next]_vars => IInv'
  BY Invariance
<1>3. IInv => WeightsDelivered
  BY InvTyped, InvArrived, InvAssertions DEF WeightsDelivered
<1> QED
  BY <1>1, <1>2, <1>3, PTL DEF Spec
=============================================================================
