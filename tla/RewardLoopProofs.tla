--------------------------- MODULE RewardLoopProofs ---------------------------
(***************************************************************************)
(* Proofs about the reward loop, for all numbers of sessions, workers,     *)
(* threads and attempts, all rates, costs and shapes of a session.         *)
(***************************************************************************)
EXTENDS RewardLoop, FiniteSetTheorems, SequenceTheorems, WellFoundedInduction, TLAPS

-----------------------------------------------------------------------------
(* The inductive invariant. *)

Pc == {"new", "decode", "rpm", "tpm", "sem", "call", "running", "post", "forward",
       "done", "put", "raised"}
KeyName == {"acc", "score", "error", "timeout"}
ScoreType == {Zero} \cup (Row \X Nat)

\* Every variable has its type.
Types ==
    /\ setup \in Setups /\ shape \in [Row -> setup.shapes]
    /\ now \in 0..MaxNow
    /\ bucket \in [Worker -> [Limiter -> [tokens : Int, last_update : Int]]]
    /\ granted \in [Worker -> [Limiter -> Nat]]
    /\ first \in [Worker -> [Limiter -> Int]]
    /\ at \in [Row -> 0..setup.workers]
    /\ pc \in [Row -> Pc]
    /\ wake \in [Row -> Int]
    /\ queue \in [Worker -> Seq(Row)]
    /\ threads \subseteq Row
    /\ attempt \in [Row -> Nat \X Nat]
    /\ server \in [Row -> 0..2]
    /\ counts \in [Server -> Nat]
    /\ awake \in BOOLEAN
    /\ result \in [Row -> [score : ScoreType, keys : SUBSET KeyName]]
    /\ batch \in {"open", "assembled", "raised"}

\* A session that was sent is at a worker, and only one that waits for tokens sleeps.
Placed ==
    \A r \in Row : /\ pc[r] # "new" => at[r] \in Worker
                   /\ pc[r] \notin Limiter => wake[r] = Awake
                   /\ wake[r] >= Awake
                   /\ pc[r] \in {"rpm", "tpm", "sem"} => Limited

\* A worker's queue holds sessions of its own that wait for the semaphore, each once.
Queued ==
    \A w \in Worker : \A i \in DOMAIN queue[w] :
        /\ at[queue[w][i]] = w /\ pc[queue[w][i]] = "sem"
        /\ \A j \in DOMAIN queue[w] : queue[w][i] = queue[w][j] => i = j

SemaphoreKept == \A w \in Worker : Cardinality(Holders(w)) <= setup.max_concurrent

\* A thread is a running scorer's or was left behind by a timeout.
ThreadsKept ==
    /\ \A w \in Worker : Cardinality(Busy(w)) <= PoolSize
    /\ \A r \in threads : /\ setup.sync
                          /\ pc[r] \in {"running", "done", "put", "raised"}
                          /\ pc[r] = "running" \/ "timeout" \in result[r].keys

\* Attempts, and what the router knows of the requests in flight.
Routed ==
    /\ \A r \in Row : /\ pc[r] = "forward" => server[r] \in Server
                      /\ attempt[r][1] <= max_retries /\ attempt[r][2] < max_attempts
                      /\ pc[r] \in {"new", "post", "forward"} => attempt[r][1] < max_retries
    /\ RouterCounts
    /\ Standalone => awake
    /\ Disrm /\ setup.mode = "batch" /\ (\E r \in Row : pc[r] \in {"post", "forward"}) => awake

\* The sessions that sleep in a limiter of a worker, and those that are past it.
Sleepers(w, k) == {r \in Row : at[r] = w /\ pc[r] = k /\ wake[r] # Awake}
Past(k) == {"sem", "call", "running", "done", "put", "raised"} \cup (IF k = "rpm" THEN {"tpm"} ELSE {})
Beyond(w, k) == {r \in Row : at[r] = w /\ pc[r] \in Past(k)}

\* A request of cost c within the capacity: what was granted and what is left never
\* exceed a bucket plus the time; a sleeper is due when the balance covers its cost.
SmallLimit(c, S, wk, t, u, g, f, nw) ==
    /\ 0 <= t
    /\ g * c + t <= Second + u - f
    /\ \A r \in S : wk[r] <= u - t + c

\* A request above the capacity: the sleepers have paid already, are due at the
\* latest when the debt is refilled, and are due one cost after the other.
Turn(S, wk, r) == {q \in S : wk[q] <= wk[r]}
Later(a, b) == IF a >= b THEN a ELSE b
LargeLimit(c, S, wk, t, u, g, f, nw) ==
    /\ (g + Cardinality(S)) * c + t <= Second + u - f
    /\ Second - (g + Cardinality(S)) * c <= t
    /\ \A r \in S : wk[r] <= u - t
    /\ \A r \in S : (g + Cardinality(Turn(S, wk, r))) * c <= Second + Later(wk[r], nw) - f
    /\ g * c <= Second + nw - f

LimitKept(c, S, wk, t, u, g, f, nw) ==
    /\ t <= Second
    /\ IF u = Never THEN f = Never /\ t = Second /\ g = 0 /\ S = {}
       ELSE /\ 0 <= f /\ f <= u /\ u <= nw
            /\ c <= Second => SmallLimit(c, S, wk, t, u, g, f, nw)
            /\ c > Second => LargeLimit(c, S, wk, t, u, g, f, nw)

LimitAt(w, k) ==
    /\ LimitKept(Cost(k), Sleepers(w, k), wake, bucket[w][k].tokens, bucket[w][k].last_update,
                 granted[w][k], first[w][k], now)
    /\ granted[w][k] <= Cardinality(Beyond(w, k))
LimitsKept == \A w \in Worker, k \in Limiter : LimitAt(w, k)

\* A score is of the session it belongs to, every answer of the limited manager has the
\* key "acc" but for those of a scorer that returns a dictionary, and an assembled or lost batch stays as it is.
ScoredByDict(r) == r \notin setup.scalar /\ result[r].keys = {"score"}
Scored ==
    /\ \A r \in Row : result[r].score \in {Zero, <<r, ScoredTokens(shape[r])>>}
    /\ Limited => \A r \in Row : pc[r] = "done" => "acc" \in result[r].keys \/ ScoredByDict(r)
    /\ Limited /\ setup.mode # "queue" => \A r \in Row : pc[r] # "raised"
    /\ batch # "open" => setup.mode # "queue"
    /\ batch = "assembled" => AllDone /\ ScoreInPlace
    /\ batch = "raised" /\ Limited => AllDone
    /\ setup.mode # "queue" => \A r \in Row : pc[r] # "put"
    /\ \A r \in Row : pc[r] \in {"post", "forward"} => Disrm
    /\ LostByFirstRow

IInv ==
    /\ Types /\ Placed /\ Queued /\ SemaphoreKept /\ ThreadsKept /\ Routed
    /\ LimitsKept /\ Scored

-----------------------------------------------------------------------------
(* Least elements, and the maximum and minimum of a set. *)

LEMMA LeastElement ==
  ASSUME NEW T \in SUBSET Nat, T # {}
  PROVE  \E x \in T : \A y \in T : x <= y
<1> DEFINE R == OpToRel(<, Nat)
<1>1. IsWellFoundedOn(R, Nat)
  BY NatLessThanWellFounded
<1>2. PICK x \in T : \A y \in T : ~(<<y, x>> \in R)
  <2> HIDE DEF R
  <2> QED
    BY <1>1, WFMin
<1>3. \A y \in T : ~(y < x)
  BY <1>2 DEF OpToRel
<1> QED
  BY <1>3

LEMMA MaxOfBounded ==
  ASSUME NEW S \in SUBSET Int, NEW b \in Int, S # {}, \A x \in S : x <= b
  PROVE  Max(S) \in S /\ \A x \in S : x <= Max(S)
<1> DEFINE T == {n \in Nat : b - n \in S}
<1>1. T # {}
  <2>1. PICK x \in S : TRUE
    OBVIOUS
  <2>2. b - x \in Nat /\ b - (b - x) = x
    BY <2>1
  <2> QED
    BY <2>2
<1>2. PICK m \in T : \A y \in T : m <= y
  BY <1>1, LeastElement
<1>3. b - m \in S
  BY <1>2
<1>4. \A y \in S : b - m >= y
  <2> TAKE y \in S
  <2>1. b - y \in T /\ b - y \in Nat
    OBVIOUS
  <2>2. m <= b - y
    BY <2>1, <1>2
  <2> QED
    BY <2>1, <2>2
<1> QED
  BY <1>3, <1>4 DEF Max

LEMMA MinPair ==
  ASSUME NEW a \in Int, NEW b \in Int
  PROVE  /\ Min({a, b}) \in Int /\ Min({a, b}) <= a /\ Min({a, b}) <= b
         /\ Min({a, b}) = a \/ Min({a, b}) = b
<1>1. \E x \in {a, b} : \A y \in {a, b} : x =< y
  OBVIOUS
<1> QED
  BY <1>1 DEF Min

LEMMA MaxPair ==
  ASSUME NEW a \in Int, NEW b \in Int
  PROVE  /\ Max({a, b}) \in Int /\ Max({a, b}) >= a /\ Max({a, b}) >= b
         /\ Max({a, b}) = a \/ Max({a, b}) = b
<1>1. \E x \in {a, b} : \A y \in {a, b} : x >= y
  OBVIOUS
<1> QED
  BY <1>1 DEF Max

LEMMA MaxSingle ==
  ASSUME NEW a \in Int
  PROVE  Max({a}) = a
BY DEF Max

-----------------------------------------------------------------------------
(* One limiter: what a request does to it. *)

\* The time the bucket refills for, and a balance R that Refilled may return.
Idle(u, nw) == IF u = Never THEN 0 ELSE nw - u
IsRefill(R, t, u, nw) ==
    /\ R \in Int /\ R <= Second /\ R <= t + Idle(u, nw)
    /\ R = Second \/ R = t + Idle(u, nw)
FirstUse(f, nw) == IF f = Never THEN nw ELSE f

LEMMA SecondType == Second \in Nat /\ Second > 0
BY RewardConstants

LEMMA LimitTicks ==
  ASSUME NEW c \in Nat, NEW S, NEW wk, \A q \in S : wk[q] \in Int, IsFiniteSet(S),
         NEW t \in Int, NEW u \in Int, NEW g \in Nat, NEW f \in Int, NEW nw \in Nat,
         LimitKept(c, S, wk, t, u, g, f, nw)
  PROVE  LimitKept(c, S, wk, t, u, g, f, nw + 1)
<1>1. CASE u = Never
  BY <1>1 DEF LimitKept
<1>2. CASE u # Never
  <2>1. t <= Second /\ 0 <= f /\ f <= u /\ u <= nw + 1
    BY <1>2, SecondType DEF LimitKept
  <2>2. c <= Second => SmallLimit(c, S, wk, t, u, g, f, nw + 1)
    BY <1>2 DEF LimitKept, SmallLimit
  <2>3. ASSUME c > Second PROVE LargeLimit(c, S, wk, t, u, g, f, nw + 1)
    <3>0. LargeLimit(c, S, wk, t, u, g, f, nw)
      BY <1>2, <2>3 DEF LimitKept
    <3> DEFINE G == g * c
    <3>1. G \in Nat
      OBVIOUS
    <3>2. G <= Second + nw - f
      BY <3>0 DEF LargeLimit
    <3>3. G <= Second + (nw + 1) - f
      <4> HIDE DEF G
      <4> QED
        BY <3>1, <3>2, SecondType
    <3>4. ASSUME NEW r \in S
          PROVE  (g + Cardinality(Turn(S, wk, r))) * c <= Second + Later(wk[r], nw + 1) - f
      <4> DEFINE T == (g + Cardinality(Turn(S, wk, r))) * c
      <4>1. Turn(S, wk, r) \subseteq S
        BY DEF Turn
      <4>2. Cardinality(Turn(S, wk, r)) \in Nat
        BY <4>1, FS_Subset, FS_CardinalityType
      <4>3. T \in Nat
        BY <4>2
      <4>4. T <= Second + Later(wk[r], nw) - f
        BY <3>0 DEF LargeLimit
      <4>5. Later(wk[r], nw) <= Later(wk[r], nw + 1) /\ Later(wk[r], nw) \in Int /\ Later(wk[r], nw + 1) \in Int
        BY DEF Later
      <4> HIDE DEF T
      <4>6. T <= Second + Later(wk[r], nw + 1) - f
        BY <4>3, <4>4, <4>5, SecondType
      <4> QED
        BY <4>6 DEF T
    <3> QED
      BY <3>0, <3>3, <3>4 DEF LargeLimit
  <2> QED
    BY <1>2, <2>1, <2>2, <2>3 DEF LimitKept
<1> QED
  BY <1>1, <1>2

\* AsyncTokenBucket.acquire lets a request through at once.
LEMMA SmallGranted ==
  ASSUME NEW c \in Nat, c <= Second, NEW S, NEW S2 \in SUBSET S, NEW wk, NEW wk2,
         \A q \in S : wk[q] \in Int, \A q \in S2 : wk2[q] = wk[q],
         NEW t \in Int, NEW u \in Int, NEW g \in Nat, NEW f \in Int, NEW nw \in Nat, NEW R,
         IsRefill(R, t, u, nw), R >= c,
         LimitKept(c, S, wk, t, u, g, f, nw)
  PROVE  LimitKept(c, S2, wk2, R - c, nw, g + 1, FirstUse(f, nw), nw)
<1> DEFINE G == g * c
<1>1. G \in Nat /\ (g + 1) * c = G + c
  OBVIOUS
<1>2. R \in Int /\ R <= Second
  BY DEF IsRefill
<1>3. CASE u = Never
  <2>1. f = Never /\ g = 0 /\ S2 = {}
    BY <1>3 DEF LimitKept
  <2>2. SmallLimit(c, S2, wk2, R - c, nw, g + 1, nw, nw)
    BY <2>1, <1>2, SecondType DEF SmallLimit
  <2> QED
    BY <2>1, <2>2, <1>2, SecondType DEF LimitKept, FirstUse, Never
<1>4. CASE u # Never
  <2>1. 0 <= f /\ f <= u /\ u <= nw /\ f # Never
    BY <1>4 DEF LimitKept, Never
  <2>2. 0 <= t /\ G + t <= Second + u - f /\ \A r \in S : wk[r] <= u - t + c
    BY <1>4 DEF LimitKept, SmallLimit
  <2>3. R <= t + nw - u
    BY <1>4 DEF IsRefill, Idle
  <2>4. G + c + (R - c) <= Second + nw - f
    <3> HIDE DEF G
    <3> QED
      BY <1>1, <1>2, <2>2, <2>3, SecondType
  <2>5. \A r \in S2 : wk2[r] <= nw - (R - c) + c
    BY <1>2, <2>2, <2>3, SecondType
  <2>6. SmallLimit(c, S2, wk2, R - c, nw, g + 1, f, nw)
    BY <1>1, <1>2, <2>4, <2>5 DEF SmallLimit
  <2> QED
    BY <2>1, <2>6, <1>2, SecondType DEF LimitKept, FirstUse, Never
<1> QED
  BY <1>3, <1>4

\* AsyncTokenBucket.acquire makes a request wait for what the balance is short of.
LEMMA SmallWaits ==
  ASSUME NEW c \in Nat, c <= Second, NEW S, NEW r, NEW wk, NEW wk2,
         \A q \in S : wk[q] \in Int, \A q \in S \ {r} : wk2[q] = wk[q],
         NEW t \in Int, NEW u \in Int, NEW g \in Nat, NEW f \in Int, NEW nw \in Nat, NEW R,
         IsRefill(R, t, u, nw), R < c, wk2[r] = nw + (c - R),
         LimitKept(c, S, wk, t, u, g, f, nw)
  PROVE  LimitKept(c, S \cup {r}, wk2, R, nw, g, FirstUse(f, nw), nw)
<1> DEFINE G == g * c
<1>1. G \in Nat
  OBVIOUS
<1>2. R \in Int /\ R <= Second
  BY DEF IsRefill
<1>3. u # Never
  <2> SUFFICES ASSUME u = Never PROVE FALSE
    OBVIOUS
  <2>1. t = Second
    BY DEF LimitKept
  <2>2. R = Second
    BY <2>1, SecondType DEF IsRefill, Idle
  <2> QED
    BY <2>2, SecondType
<1>4. 0 <= f /\ f <= u /\ u <= nw /\ f # Never
  BY <1>3 DEF LimitKept, Never
<1>5. 0 <= t /\ G + t <= Second + u - f /\ \A q \in S : wk[q] <= u - t + c
  BY <1>3 DEF LimitKept, SmallLimit
<1>6. R <= t + nw - u
  BY <1>3 DEF IsRefill, Idle
<1>7. 0 <= R
  BY <1>3, <1>4, <1>5, SecondType DEF IsRefill, Idle
<1>8. G + R <= Second + nw - f
  <2> HIDE DEF G
  <2> QED
    BY <1>1, <1>2, <1>5, <1>6, SecondType
<1>9. \A q \in S \cup {r} : wk2[q] <= nw - R + c
  <2>1. wk2[r] <= nw - R + c
    BY <1>2
  <2>2. \A q \in S \ {r} : wk2[q] <= nw - R + c
    BY <1>2, <1>5, <1>6
  <2> QED
    BY <2>1, <2>2
<1>10. SmallLimit(c, S \cup {r}, wk2, R, nw, g, f, nw)
  BY <1>7, <1>8, <1>9 DEF SmallLimit
<1> QED
  BY <1>2, <1>4, <1>10, SecondType DEF LimitKept, FirstUse, Never

LEMMA MoreCosts ==
  ASSUME NEW a \in Nat, NEW b \in Nat, NEW c \in Nat, a <= b
  PROVE  a * c <= b * c /\ a * c \in Nat /\ b * c \in Nat
<1>1. PICK d \in Nat : b = a + d
  <2>1. b - a \in Nat /\ b = a + (b - a)
    OBVIOUS
  <2> QED
    BY <2>1
<1>2. b * c = a * c + d * c
  BY <1>1
<1>3. a * c \in Nat /\ d * c \in Nat /\ b * c \in Nat
  OBVIOUS
<1> HIDE <1>1
<1> QED
  BY <1>2, <1>3

LEMMA TurnSize ==
  ASSUME NEW S, IsFiniteSet(S), NEW wk, NEW r
  PROVE  /\ IsFiniteSet(Turn(S, wk, r)) /\ Cardinality(Turn(S, wk, r)) \in Nat
         /\ Cardinality(S) \in Nat
         /\ Cardinality(Turn(S, wk, r)) <= Cardinality(S)
<1>1. Turn(S, wk, r) \subseteq S
  BY DEF Turn
<1> QED
  BY <1>1, FS_Subset, FS_CardinalityType

\* AsyncTokenBucket.acquire of a request above the capacity: paid at once.
LEMMA LargePays ==
  ASSUME NEW c \in Nat, c > Second, NEW S, IsFiniteSet(S), NEW r, r \notin S, NEW wk, NEW wk2,
         \A q \in S : wk[q] \in Int, \A q \in S : wk2[q] = wk[q],
         NEW t \in Int, NEW u \in Int, NEW g \in Nat, NEW f \in Int, NEW nw \in Nat, NEW R,
         IsRefill(R, t, u, nw), wk2[r] = nw + (c - R),
         LimitKept(c, S, wk, t, u, g, f, nw)
  PROVE  LimitKept(c, S \cup {r}, wk2, R - c, nw, g, FirstUse(f, nw), nw)
<1> DEFINE m == Cardinality(S)
           G == g * c
           P == (g + m) * c
           F == FirstUse(f, nw)
<1>1. m \in Nat /\ Cardinality(S \cup {r}) = m + 1 /\ IsFiniteSet(S \cup {r})
  BY FS_CardinalityType, FS_AddElement
<1>2. P \in Nat /\ G \in Nat /\ (g + (m + 1)) * c = P + c
  BY <1>1
<1>3. R \in Int /\ R <= Second
  BY DEF IsRefill
<1>4. /\ P + R <= Second + nw - F
      /\ G <= Second + nw - F
      /\ Second - P <= R
      /\ 0 <= F /\ F <= nw
  <2>1. CASE u = Never
    <3>1. f = Never /\ t = Second /\ g = 0 /\ S = {}
      BY <2>1 DEF LimitKept
    <3>2. m = 0 /\ R = Second /\ F = nw
      BY <2>1, <3>1, FS_EmptySet, SecondType DEF IsRefill, Idle, FirstUse
    <3>3. P = 0 /\ G = 0
      BY <3>1, <3>2
    <3> QED
      BY <3>2, <3>3, SecondType
  <2>2. CASE u # Never
    <3>1. 0 <= f /\ f <= u /\ u <= nw /\ F = f
      BY <2>2 DEF LimitKept, Never, FirstUse
    <3>2. P + t <= Second + u - f /\ Second - P <= t /\ G <= Second + nw - f
      BY <2>2, SecondType DEF LimitKept, LargeLimit
    <3>3. R = Second \/ R = t + nw - u
      BY <2>2 DEF IsRefill, Idle
    <3>4. R <= t + nw - u
      BY <2>2 DEF IsRefill, Idle
    <3> HIDE DEF P, G, F
    <3>5. P + R <= Second + nw - F
      BY <1>2, <1>3, <3>1, <3>2, <3>4, SecondType
    <3>6. Second - P <= R
      BY <1>2, <1>3, <3>1, <3>2, <3>3, SecondType
    <3> QED
      BY <3>1, <3>2, <3>5, <3>6
  <2> QED
    BY <2>1, <2>2
<1>5. \A q \in S : wk[q] <= nw - R
  <2>1. CASE u = Never
    BY <2>1 DEF LimitKept
  <2>2. CASE u # Never
    <3>1. \A q \in S : wk[q] <= u - t
      BY <2>2, SecondType DEF LimitKept, LargeLimit
    <3>2. R <= t + nw - u
      BY <2>2 DEF IsRefill, Idle
    <3> QED
      BY <3>1, <3>2, <1>3
  <2> QED
    BY <2>1, <2>2
<1>6. \A q \in S \cup {r} : wk2[q] <= nw - (R - c)
  BY <1>3, <1>5, SecondType
<1>7. (g + Cardinality(Turn(S \cup {r}, wk2, r))) * c <= Second + Later(wk2[r], nw) - F
  <2> DEFINE T == (g + Cardinality(Turn(S \cup {r}, wk2, r))) * c
  <2>1. Cardinality(Turn(S \cup {r}, wk2, r)) \in Nat /\ Cardinality(Turn(S \cup {r}, wk2, r)) <= m + 1
    BY <1>1, TurnSize
  <2>2. T <= (g + (m + 1)) * c /\ T \in Nat
    BY <2>1, <1>1, MoreCosts
  <2>3. Later(wk2[r], nw) = nw + (c - R)
    BY <1>3, SecondType DEF Later
  <2>4. F \in Int
    BY DEF FirstUse
  <2> HIDE DEF P, T, F
  <2>5. T <= Second + (nw + (c - R)) - F
    BY <2>2, <1>2, <1>3, <1>4, <2>4, SecondType
  <2> QED
    BY <2>5, <2>3 DEF T
<1>8. ASSUME NEW q \in S
      PROVE  (g + Cardinality(Turn(S \cup {r}, wk2, q))) * c <= Second + Later(wk2[q], nw) - F
  <2>1. u # Never
    BY DEF LimitKept
  <2>2. f # Never
    BY <2>1 DEF LimitKept, Never
  <2>3. Turn(S \cup {r}, wk2, q) = Turn(S, wk, q)
    <3>1. ~(wk2[r] <= wk2[q])
      BY <1>3, <1>5, SecondType
    <3> QED
      BY <3>1 DEF Turn
  <2>4. (g + Cardinality(Turn(S, wk, q))) * c <= Second + Later(wk[q], nw) - f
    BY <2>1, SecondType DEF LimitKept, LargeLimit
  <2>5. wk2[q] = wk[q] /\ F = f
    BY <2>2 DEF FirstUse
  <2> QED
    BY <2>3, <2>4, <2>5
<1>9. \A q \in S \cup {r} :
         (g + Cardinality(Turn(S \cup {r}, wk2, q))) * c <= Second + Later(wk2[q], nw) - F
  BY <1>7, <1>8
<1>10. (g + Cardinality(S \cup {r})) * c + (R - c) <= Second + nw - F
  <2>1. F \in Int
    BY DEF FirstUse
  <2>2. P + c + (R - c) <= Second + nw - F
    <3> HIDE DEF P, F
    <3> QED
      BY <1>2, <1>3, <1>4, <2>1, SecondType
  <2> QED
    BY <1>1, <1>2, <2>2
<1>11. Second - (g + Cardinality(S \cup {r})) * c <= R - c
  <2>1. Second - (P + c) <= R - c
    <3> HIDE DEF P, F
    <3> QED
      BY <1>2, <1>3, <1>4, SecondType
  <2> QED
    BY <1>1, <1>2, <2>1
<1>12. LargeLimit(c, S \cup {r}, wk2, R - c, nw, g, F, nw)
  BY <1>4, <1>6, <1>9, <1>10, <1>11 DEF LargeLimit
<1>13. R - c <= Second /\ nw # Never
  BY <1>3, SecondType DEF Never
<1> HIDE DEF F
<1> QED
  BY <1>4, <1>12, <1>13, SecondType DEF LimitKept, F

\* A sleeper that paid for a request above the capacity goes on.
LEMMA LargeWakes ==
  ASSUME NEW c \in Nat, c > Second, NEW S, IsFiniteSet(S), NEW r \in S, NEW wk, NEW wk2,
         \A q \in S : wk[q] \in Int, \A q \in S \ {r} : wk2[q] = wk[q],
         NEW t \in Int, NEW u \in Int, NEW g \in Nat, NEW f \in Int, NEW nw \in Nat,
         nw >= wk[r],
         LimitKept(c, S, wk, t, u, g, f, nw)
  PROVE  LimitKept(c, S \ {r}, wk2, t, u, g + 1, f, nw)
<1> DEFINE m == Cardinality(S)
           S2 == S \ {r}
<1>1. m \in Nat /\ m > 0 /\ Cardinality(S2) = m - 1 /\ IsFiniteSet(S2)
  BY FS_CardinalityType, FS_RemoveElement, FS_EmptySet
<1>2. u # Never
  BY DEF LimitKept
<1>3. 0 <= f /\ f <= u /\ u <= nw /\ t <= Second
  BY <1>2 DEF LimitKept
<1>4. LargeLimit(c, S, wk, t, u, g, f, nw)
  BY <1>2 DEF LimitKept
<1>5. (g + 1) + Cardinality(S2) = g + m
  BY <1>1
<1>6. ((g + 1) + Cardinality(S2)) * c + t <= Second + u - f
  BY <1>4, <1>5 DEF LargeLimit
<1>7. Second - ((g + 1) + Cardinality(S2)) * c <= t
  BY <1>4, <1>5 DEF LargeLimit
<1>8. \A q \in S2 : wk2[q] <= u - t
  BY <1>4 DEF LargeLimit
<1>9. r \in Turn(S, wk, r)
  BY DEF Turn
<1>10. Cardinality(Turn(S, wk, r)) \in Nat /\ Cardinality(Turn(S, wk, r)) > 0
       /\ IsFiniteSet(Turn(S, wk, r))
  BY <1>9, TurnSize, FS_EmptySet
<1>11. (g + Cardinality(Turn(S, wk, r))) * c <= Second + nw - f
  <2>1. Later(wk[r], nw) = nw
    BY DEF Later
  <2> QED
    BY <2>1, <1>4 DEF LargeLimit
<1>12. (g + 1) * c <= Second + nw - f
  <2> DEFINE A == (g + 1) * c
             B == (g + Cardinality(Turn(S, wk, r))) * c
  <2>1. A <= B /\ A \in Nat /\ B \in Nat
    BY <1>10, MoreCosts
  <2>2. B <= Second + nw - f
    BY <1>11
  <2> HIDE DEF A, B
  <2>3. A <= Second + nw - f
    BY <2>1, <2>2, SecondType
  <2> QED
    BY <2>3 DEF A
<1>13. ASSUME NEW q \in S2
       PROVE  ((g + 1) + Cardinality(Turn(S2, wk2, q))) * c <= Second + Later(wk2[q], nw) - f
  <2>1. Turn(S2, wk2, q) = Turn(S, wk, q) \ {r}
    BY DEF Turn
  <2>2. IsFiniteSet(Turn(S, wk, q)) /\ Cardinality(Turn(S, wk, q)) \in Nat
    BY TurnSize
  <2>3. CASE wk[r] <= wk[q]
    <3>1. r \in Turn(S, wk, q)
      BY <2>3 DEF Turn
    <3>2. Cardinality(Turn(S2, wk2, q)) = Cardinality(Turn(S, wk, q)) - 1
      <4>1. Cardinality(Turn(S, wk, q) \ {r}) = Cardinality(Turn(S, wk, q)) - 1
        BY <2>2, <3>1, FS_RemoveElement
      <4> QED
        BY <4>1, <2>1
    <3>3. (g + 1) + Cardinality(Turn(S2, wk2, q)) = g + Cardinality(Turn(S, wk, q))
      BY <2>2, <3>2
    <3> QED
      BY <3>3, <1>4 DEF LargeLimit
  <2>4. CASE ~(wk[r] <= wk[q])
    <3>1. Turn(S2, wk2, q) \subseteq Turn(S, wk, r) \ {r}
      BY <2>1, <2>4 DEF Turn
    <3>2. Cardinality(Turn(S, wk, r) \ {r}) = Cardinality(Turn(S, wk, r)) - 1
          /\ IsFiniteSet(Turn(S, wk, r) \ {r})
      BY <1>9, <1>10, FS_RemoveElement
    <3>3. Cardinality(Turn(S2, wk2, q)) <= Cardinality(Turn(S, wk, r)) - 1
          /\ Cardinality(Turn(S2, wk2, q)) \in Nat
      <4> DEFINE A == Turn(S2, wk2, q)
                 B == Turn(S, wk, r) \ {r}
      <4>1. A \subseteq B /\ IsFiniteSet(B)
        BY <3>1, <3>2
      <4> HIDE DEF A, B
      <4>2. Cardinality(A) <= Cardinality(B) /\ Cardinality(A) \in Nat
        BY <4>1, FS_Subset, FS_CardinalityType
      <4> QED
        BY <4>2, <3>2 DEF A, B
    <3> DEFINE A == ((g + 1) + Cardinality(Turn(S2, wk2, q))) * c
               B == (g + Cardinality(Turn(S, wk, r))) * c
    <3>4. A <= B /\ A \in Nat /\ B \in Nat
      BY <1>10, <3>3, MoreCosts
    <3>5. B <= Second + nw - f
      BY <1>11
    <3>6. nw <= Later(wk2[q], nw) /\ Later(wk2[q], nw) \in Int
      BY DEF Later
    <3> HIDE DEF A, B
    <3>7. A <= Second + Later(wk2[q], nw) - f
      BY <3>4, <3>5, <3>6, SecondType
    <3> QED
      BY <3>7 DEF A
  <2> QED
    BY <2>3, <2>4
<1>14. LargeLimit(c, S2, wk2, t, u, g + 1, f, nw)
  BY <1>6, <1>7, <1>8, <1>12, <1>13 DEF LargeLimit
<1> HIDE DEF S2
<1> QED
  BY <1>2, <1>3, <1>14, SecondType DEF LimitKept, S2

-----------------------------------------------------------------------------
(* What a session is scored on. *)

LEMMA BoundedValues ==
  ASSUME NEW n \in Nat, NEW h, \A i \in 1 .. n : h[i] \in Nat
  PROVE  \E b \in Nat : \A i \in 1 .. n : h[i] <= b
<1> DEFINE Bad == {m \in 0 .. n : ~\E b \in Nat : \A i \in 1 .. m : h[i] <= b}
<1> SUFFICES ASSUME Bad # {} PROVE FALSE
  <2>1. n \in 0 .. n
    OBVIOUS
  <2> QED
    BY <2>1
<1>1. Bad \in SUBSET Nat
  OBVIOUS
<1>2. PICK m \in Bad : \A y \in Bad : m <= y
  <2> HIDE DEF Bad
  <2> QED
    BY <1>1, LeastElement
<1>3. m # 0
  <2>1. \A i \in 1 .. 0 : h[i] <= 0
    OBVIOUS
  <2> QED
    BY <2>1, <1>2
<1>4. m - 1 \in 0 .. n /\ m \in 1 .. n
  BY <1>2, <1>3
<1>5. PICK b \in Nat : \A i \in 1 .. m - 1 : h[i] <= b
  <2>1. ~(m <= m - 1)
    BY <1>4
  <2>2. m - 1 \notin Bad
    BY <1>2, <2>1
  <2> QED
    BY <1>4, <2>2
<1>6. PICK d \in Nat : b <= d /\ h[m] <= d
  <2>1. h[m] \in Nat
    BY <1>4
  <2>2. b <= b + h[m] /\ h[m] <= b + h[m] /\ b + h[m] \in Nat
    BY <2>1
  <2> QED
    BY <2>2
<1>7. \A i \in 1 .. m : h[i] <= d
  <2> TAKE i \in 1 .. m
  <2>1. CASE i = m
    BY <2>1, <1>6
  <2>2. CASE i # m
    <3>1. i \in 1 .. m - 1 /\ i \in 1 .. n
      BY <2>2, <1>4
    <3>2. h[i] <= b /\ h[i] \in Nat
      BY <3>1, <1>5
    <3> QED
      BY <3>2, <1>6
  <2> QED
    BY <2>1, <2>2
<1> QED
  BY <1>2, <1>7

LEMMA MaxOfValues ==
  ASSUME NEW n \in Nat \ {0}, NEW h, \A i \in 1 .. n : h[i] \in Nat
  PROVE  Max({h[i] : i \in 1 .. n}) \in Nat
<1> DEFINE S == {h[i] : i \in 1 .. n}
<1>1. PICK b \in Nat : \A i \in 1 .. n : h[i] <= b
  BY BoundedValues
<1>2. S \in SUBSET Int /\ S # {} /\ b \in Int /\ \A x \in S : x <= b /\ x \in Nat
  <2>1. 1 \in 1 .. n
    OBVIOUS
  <2> QED
    BY <1>1, <2>1
<1>3. Max(S) \in S
  <2> HIDE DEF S
  <2> QED
    BY <1>2, MaxOfBounded
<1> QED
  BY <1>2, <1>3

\* The outputs of a session.
IsShape(sh) == sh \in Seq(Nat \X Nat) /\ sh # <<>>

LEMMA LastOutput ==
  ASSUME NEW sh, IsShape(sh)
  PROVE  /\ Len(sh) \in Nat \ {0} /\ DOMAIN sh = 1 .. Len(sh)
         /\ \A i \in 1 .. Len(sh) : sh[i] \in Nat \X Nat /\ Total(sh[i]) \in Nat /\ ResponseOf(sh[i]) \in Nat
         /\ ResponseOf(sh[Len(sh)]) \in Nat /\ Total(sh[Len(sh)]) \in Nat
<1>1. Len(sh) \in Nat \ {0} /\ DOMAIN sh = 1 .. Len(sh)
  BY DEF IsShape
<1>2. \A i \in 1 .. Len(sh) : sh[i] \in Nat \X Nat
  BY DEF IsShape
<1>3. \A i \in 1 .. Len(sh) : Total(sh[i]) \in Nat /\ ResponseOf(sh[i]) \in Nat
  BY <1>2 DEF Total, ResponseOf
<1>4. Len(sh) \in 1 .. Len(sh)
  BY <1>1
<1> QED
  BY <1>1, <1>2, <1>3, <1>4

LEMMA ScoredTokensType ==
  ASSUME NEW sh, IsShape(sh)
  PROVE  ScoredTokens(sh) \in Nat
<1> DEFINE n == Len(sh)
           tot == [i \in 1 .. n |-> Total(sh[i])]
           res == [i \in 1 .. n |-> ResponseOf(sh[i])]
<1>1. /\ n \in Nat \ {0} /\ DOMAIN sh = 1 .. n
      /\ \A i \in 1 .. n : Total(sh[i]) \in Nat /\ ResponseOf(sh[i]) \in Nat
      /\ ResponseOf(sh[n]) \in Nat /\ Total(sh[n]) \in Nat
  BY LastOutput
<1>2. Max({Total(sh[i]) : i \in DOMAIN sh}) \in Nat
  <2>1. \A i \in 1 .. n : tot[i] \in Nat
    BY <1>1
  <2>2. {Total(sh[i]) : i \in DOMAIN sh} = {tot[i] : i \in 1 .. n}
    BY <1>1
  <2> HIDE DEF n, tot
  <2>3. Max({tot[i] : i \in 1 .. n}) \in Nat
    BY <1>1, <2>1, MaxOfValues
  <2> QED
    BY <2>2, <2>3
<1>3. Max({ResponseOf(sh[i]) : i \in DOMAIN sh}) \in Nat
  <2>1. \A i \in 1 .. n : res[i] \in Nat
    BY <1>1
  <2>2. {ResponseOf(sh[i]) : i \in DOMAIN sh} = {res[i] : i \in 1 .. n}
    BY <1>1
  <2> HIDE DEF n, res
  <2>3. Max({res[i] : i \in 1 .. n}) \in Nat
    BY <1>1, <2>1, MaxOfValues
  <2> QED
    BY <2>2, <2>3
<1> DEFINE x == Total(sh[n]) - (Max({Total(sh[i]) : i \in DOMAIN sh})
                                  - Max({ResponseOf(sh[i]) : i \in DOMAIN sh}))
<1>4. x \in Int
  BY <1>1, <1>2, <1>3
<1>5. Max({0, x}) \in Nat
  <2> HIDE DEF x
  <2> QED
    BY <1>4, MaxPair
<1> QED
  BY <1>1, <1>5 DEF ScoredTokens

\* A session of one output is scored on its response.
LEMMA OneOutput ==
  ASSUME NEW sh, IsShape(sh), Len(sh) = 1
  PROVE  ScoredTokens(sh) = ResponseOf(sh[Len(sh)])
<1>1. DOMAIN sh = {1} /\ Total(sh[1]) \in Nat /\ ResponseOf(sh[1]) \in Nat
  BY LastOutput
<1>2. {Total(sh[i]) : i \in DOMAIN sh} = {Total(sh[1])}
  BY <1>1
<1>3. {ResponseOf(sh[i]) : i \in DOMAIN sh} = {ResponseOf(sh[1])}
  BY <1>1
<1>4. Total(sh[1]) - (Total(sh[1]) - ResponseOf(sh[1])) = ResponseOf(sh[1])
  BY <1>1
<1>5. Max({0, ResponseOf(sh[1])}) = ResponseOf(sh[1])
  <2> DEFINE x == ResponseOf(sh[1])
  <2>1. x \in Int /\ x >= 0 /\ 0 \in Int
    BY <1>1
  <2> HIDE DEF x
  <2>2. Max({0, x}) \in Int /\ Max({0, x}) >= 0 /\ Max({0, x}) >= x
        /\ (Max({0, x}) = 0 \/ Max({0, x}) = x)
    BY <2>1, MaxPair
  <2>3. Max({0, x}) = x
    BY <2>1, <2>2
  <2> QED
    BY <2>3 DEF x
<1>6. Max({Total(sh[1])}) = Total(sh[1]) /\ Max({ResponseOf(sh[1])}) = ResponseOf(sh[1])
  BY <1>1, MaxSingle
<1>7. Total(sh[Len(sh)]) - (Max({Total(sh[i]) : i \in DOMAIN sh})
         - Max({ResponseOf(sh[i]) : i \in DOMAIN sh})) = ResponseOf(sh[1])
  BY <1>2, <1>3, <1>4, <1>6
<1> QED
  BY <1>5, <1>7 DEF ScoredTokens

-----------------------------------------------------------------------------
(* The answers of the workers, flattened, are the rows in their order. *)

\* The first i runs of res, each of the given size, and the i-th of them.
Runs(res, size, i) == [j \in 1 .. i * size |-> res[j]]
RunOf(res, size, i) == [j \in 1 .. size |-> res[(i - 1) * size + j]]

LEMMA NextRun ==
  ASSUME NEW size \in Nat, NEW i \in Nat \ {0}, NEW res
  PROVE  Runs(res, size, i - 1) \o RunOf(res, size, i) = Runs(res, size, i)
<1> DEFINE k == (i - 1) * size
           R == {res[j] : j \in 1 .. k + size}
           a == [j \in 1 .. k |-> res[j]]
           b == [j \in 1 .. size |-> res[k + j]]
<1>1. k \in Nat /\ i * size = k + size
  OBVIOUS
<1>2. a = Runs(res, size, i - 1) /\ b = RunOf(res, size, i)
  BY DEF Runs, RunOf
<1> HIDE DEF k
<1>3. a \in Seq(R) /\ b \in Seq(R)
  BY <1>1
<1>4. Len(a) = k /\ Len(b) = size
  BY <1>1
<1>5. a \o b = [j \in 1 .. k + size |-> res[j]]
  <2>1. DOMAIN (a \o b) = 1 .. k + size /\ a \o b \in Seq(R)
    BY <1>1, <1>3, <1>4
  <2>2. ASSUME NEW j \in 1 .. k + size PROVE (a \o b)[j] = res[j]
    <3>1. CASE j <= k
      BY <1>1, <1>3, <1>4, <3>1
    <3>2. CASE j > k
      <4>1. j - k \in 1 .. size /\ k + (j - k) = j
        BY <1>1, <3>2
      <4>2. (a \o b)[j] = b[j - k]
        BY <1>1, <1>3, <1>4, <3>2
      <4>3. b[j - k] = res[k + (j - k)]
        BY <4>1
      <4> QED
        BY <4>1, <4>2, <4>3
    <3> QED
      BY <1>1, <3>1, <3>2
  <2>3. [j \in 1 .. k + size |-> res[j]] \in Seq(R)
        /\ Len([j \in 1 .. k + size |-> res[j]]) = k + size
    BY <1>1
  <2>4. Len(a \o b) = k + size
    BY <1>3, <1>4, <1>1
  <2>5. \A j \in 1 .. k + size : (a \o b)[j] = [x \in 1 .. k + size |-> res[x]][j]
    BY <2>2
  <2> DEFINE c == a \o b
             d == [j \in 1 .. k + size |-> res[j]]
  <2> HIDE DEF R, a, b, c, d
  <2>6. c \in Seq(R) /\ d \in Seq(R) /\ Len(c) = k + size /\ Len(d) = k + size
        /\ \A j \in 1 .. k + size : c[j] = d[j]
    BY <2>1, <2>3, <2>4, <2>5 DEF c, d
  <2>7. c = d
    BY <2>6, SeqEqual
  <2> QED
    BY <2>7 DEF c, d
<1> QED
  BY <1>1, <1>2, <1>5 DEF Runs

LEMMA FlattenedRuns ==
  ASSUME NEW n \in Nat \ {0}, NEW size \in Nat, NEW res
  PROVE  FlattenSeq([w \in 1 .. n |-> RunOf(res, size, w)]) = Runs(res, size, n)
<1> DEFINE seqs == [w \in 1 .. n |-> RunOf(res, size, w)]
           Equation(f) == f = [i \in 1 .. n |-> IF i = 1 THEN seqs[i] ELSE f[i - 1] \o seqs[i]]
           flat == CHOOSE f : Equation(f)
           g == [i \in 1 .. n |-> Runs(res, size, i)]
<1>1. Len(seqs) = n
  OBVIOUS
<1>2. FlattenSeq(seqs) = flat[n]
  BY <1>1 DEF FlattenSeq
<1>3. RunOf(res, size, 1) = Runs(res, size, 1)
  BY DEF Runs, RunOf
<1>4. Equation(g)
  <2>1. ASSUME NEW i \in 1 .. n
        PROVE  g[i] = IF i = 1 THEN seqs[i] ELSE g[i - 1] \o seqs[i]
    <3>1. CASE i = 1
      BY <3>1, <1>3
    <3>2. CASE i # 1
      <4>1. i - 1 \in 1 .. n /\ i \in Nat \ {0}
        BY <3>2
      <4>2. Runs(res, size, i - 1) \o RunOf(res, size, i) = Runs(res, size, i)
        BY <4>1, NextRun
      <4> QED
        BY <3>2, <4>1, <4>2
    <3> QED
      BY <3>1, <3>2
  <2> QED
    BY <2>1
<1>5. Equation(flat)
  <2> HIDE DEF Equation
  <2> QED
    BY <1>4
<1> HIDE DEF flat
<1>6. \A i \in 1 .. n : flat[i] = IF i = 1 THEN seqs[i] ELSE flat[i - 1] \o seqs[i]
  BY <1>5
<1> DEFINE Bad == {i \in 1 .. n : flat[i] # g[i]}
<1>7. Bad = {}
  <2> SUFFICES ASSUME Bad # {} PROVE FALSE
    OBVIOUS
  <2>1. Bad \in SUBSET Nat
    OBVIOUS
  <2>2. PICK m \in Bad : \A y \in Bad : m <= y
    <3> HIDE DEF Bad
    <3> QED
      BY <2>1, LeastElement
  <2>3. m \in 1 .. n /\ flat[m] # g[m]
    BY <2>2
  <2>4. m # 1
    <3>1. flat[1] = RunOf(res, size, 1)
      BY <1>6
    <3> QED
      BY <3>1, <2>3, <1>3
  <2>5. m - 1 \in 1 .. n /\ ~(m <= m - 1)
    BY <2>3, <2>4
  <2>6. flat[m - 1] = g[m - 1]
    BY <2>2, <2>5
  <2>7. flat[m] = flat[m - 1] \o seqs[m]
    BY <1>6, <2>3, <2>4
  <2>8. g[m] = g[m - 1] \o seqs[m]
    BY <1>4, <2>3, <2>4
  <2> QED
    BY <2>3, <2>6, <2>7, <2>8
<1>8. flat[n] = Runs(res, size, n)
  <2>1. n \in 1 .. n
    OBVIOUS
  <2>2. n \notin Bad
    BY <1>7
  <2> QED
    BY <2>1, <2>2
<1> QED
  BY <1>2, <1>8

LEMMA FlatRows ==
  ASSUME setup \in Setups
  PROVE  \A r \in Row : Flat[r] = result[r]
<1>1. CASE setup.mode = "batch"
  <2> DEFINE W == setup.workers
             N == setup.rows
             size == N \div W
  <2>1. W \in Nat \ {0} /\ N \in Nat \ {0} /\ N % W = 0
    BY <1>1, RewardConstants
  <2>2. \A a, d \in Nat : d > 0 => a = d * (a \div d) + (a % d) /\ a \div d \in Nat
    OBVIOUS
  <2>3. size \in Nat /\ W * size = N
    BY <2>1, <2>2
  <2>4. Flat = FlattenSeq([w \in 1 .. W |-> RunOf(result, size, w)])
    BY <1>1 DEF Flat, RunOf, Worker
  <2>5. Row = 1 .. N
    BY DEF Row
  <2> HIDE DEF W, N, size
  <2>6. Flat = [j \in 1 .. W * size |-> result[j]]
    BY <2>1, <2>3, <2>4, FlattenedRuns DEF Runs
  <2> QED
    BY <2>3, <2>5, <2>6
<1>2. CASE setup.mode # "batch"
  BY <1>2 DEF Flat
<1> QED
  BY <1>1, <1>2

-----------------------------------------------------------------------------
(* Every step keeps the types. *)

LEMMA SetupTypes ==
  ASSUME NEW s \in Setups
  PROVE  /\ s.rows \in Nat \ {0} /\ s.workers \in Nat \ {0} /\ s.max_concurrent \in Nat \ {0}
         /\ s.rpm \in Nat /\ s.tpm \in Nat /\ s.sync \in BOOLEAN /\ s.standalone \in BOOLEAN
         /\ s.shapes \subseteq Seq(Nat \X Nat) \ {<<>>}
         /\ s.mode \in {"stream", "batch", "queue"}
BY RewardConstants

LEMMA BoundTypes ==
  /\ PoolSize \in Nat \ {0} /\ max_retries \in Nat \ {0}
  /\ max_attempts \in Nat \ {0} /\ MaxNow \in Nat \ {0}
BY RewardConstants

LEMMA SetupFixed ==
  ASSUME [Next]_vars
  PROVE  setup' = setup /\ shape' = shape
<1>1. ASSUME NEW r \in Row, Send(r) PROVE setup' = setup /\ shape' = shape
  BY <1>1 DEF Send, vars
<1>2. ASSUME NEW r \in Row, Decode(r) PROVE setup' = setup /\ shape' = shape
  BY <1>2 DEF Decode, vars
<1>3. ASSUME NEW r \in Row, NEW k \in Limiter, AcquireNow(r, k) PROVE setup' = setup /\ shape' = shape
  BY <1>3 DEF AcquireNow, vars
<1>4. ASSUME NEW r \in Row, NEW k \in Limiter, AcquireWait(r, k) PROVE setup' = setup /\ shape' = shape
  BY <1>4 DEF AcquireWait, vars
<1>5. ASSUME NEW r \in Row, NEW k \in Limiter, AcquireLarge(r, k) PROVE setup' = setup /\ shape' = shape
  BY <1>5 DEF AcquireLarge, vars
<1>6. ASSUME NEW r \in Row, NEW k \in Limiter, WakeLarge(r, k) PROVE setup' = setup /\ shape' = shape
  BY <1>6 DEF WakeLarge, vars
<1>7. ASSUME NEW r \in Row, StartScorer(r) PROVE setup' = setup /\ shape' = shape
  BY <1>7 DEF StartScorer, vars
<1>8. ASSUME NEW r \in Row, ScorerReturns(r) PROVE setup' = setup /\ shape' = shape
  BY <1>8 DEF ScorerReturns, vars
<1>9. ASSUME NEW r \in Row, ScorerRaises(r) PROVE setup' = setup /\ shape' = shape
  BY <1>9 DEF ScorerRaises, vars
<1>10. ASSUME NEW r \in Row, CallTimesOut(r) PROVE setup' = setup /\ shape' = shape
  BY <1>10 DEF CallTimesOut, vars
<1>11. ASSUME NEW r \in Row, Post(r) PROVE setup' = setup /\ shape' = shape
  BY <1>11 DEF Post, vars
<1>12. ASSUME NEW r \in Row, ServerAnswers(r) PROVE setup' = setup /\ shape' = shape
  BY <1>12 DEF ServerAnswers, vars
<1>13. ASSUME NEW r \in Row, ServerUnreachable(r) PROVE setup' = setup /\ shape' = shape
  BY <1>13 DEF ServerUnreachable, vars
<1>14. ASSUME NEW r \in Row, RouterRaises(r) PROVE setup' = setup /\ shape' = shape
  BY <1>14 DEF RouterRaises, vars
<1>15. ASSUME NEW r \in Row, PutSession(r) PROVE setup' = setup /\ shape' = shape
  BY <1>15 DEF PutSession, vars
<1>16. ASSUME NEW r \in Row, PutRaises(r) PROVE setup' = setup /\ shape' = shape
  BY <1>16 DEF PutRaises, vars
<1>17. ASSUME NEW r \in Row, AbandonedEnds(r) PROVE setup' = setup /\ shape' = shape
  BY <1>17 DEF AbandonedEnds, vars
<1>18. ASSUME NEW w \in Worker, EnterSemaphore(w) PROVE setup' = setup /\ shape' = shape
  BY <1>18 DEF EnterSemaphore, vars
<1>19. ASSUME Tick PROVE setup' = setup /\ shape' = shape
  BY <1>19 DEF Tick, vars
<1>20. ASSUME Assemble PROVE setup' = setup /\ shape' = shape
  BY <1>20 DEF Assemble, vars
<1>21. ASSUME AssembleRaises PROVE setup' = setup /\ shape' = shape
  BY <1>21 DEF AssembleRaises, vars
<1>22. ASSUME UNCHANGED vars PROVE setup' = setup /\ shape' = shape
  BY <1>22 DEF vars
<1> QED
  BY <1>1, <1>2, <1>3, <1>4, <1>5, <1>6, <1>7, <1>8, <1>9, <1>10, <1>11, <1>12,
     <1>13, <1>14, <1>15, <1>16, <1>17, <1>18, <1>19, <1>20, <1>21, <1>22 DEF Next,
     RowStep, Acquire, Score, Ask, Done

LEMMA SameNames ==
  ASSUME setup' = setup
  PROVE  /\ Row' = Row /\ Worker' = Worker /\ Limited' = Limited /\ Disrm' = Disrm
         /\ Standalone' = Standalone
         /\ \A k : Cost(k)' = Cost(k)
         /\ ScoreType' = ScoreType
BY DEF Row, Worker, Limited, Disrm, Standalone, Cost, ScoreType, Zero

LEMMA TokensType ==
  ASSUME Types, NEW r \in Row
  PROVE  IsShape(shape[r]) /\ ScoredTokens(shape[r]) \in Nat
<1>1. IsShape(shape[r])
  BY SetupTypes DEF Types, IsShape
<1> QED
  BY <1>1, ScoredTokensType

LEMMA CostType ==
  ASSUME Types, NEW k \in Limiter
  PROVE  Cost(k) \in Nat
BY SetupTypes DEF Types, Cost

LEMMA RefillType ==
  ASSUME Types, NEW w \in Worker, NEW k \in Limiter
  PROVE  /\ bucket[w][k].tokens \in Int /\ bucket[w][k].last_update \in Int
         /\ IsRefill(Refilled(bucket[w][k]), bucket[w][k].tokens, bucket[w][k].last_update, now)
         /\ Refilled(bucket[w][k]) \in Int
<1> DEFINE b == bucket[w][k]
<1>1. b.tokens \in Int /\ b.last_update \in Int /\ now \in Int
  BY DEF Types
<1>2. Elapsed(b) \in Int /\ Elapsed(b) = Idle(b.last_update, now)
  BY <1>1 DEF Elapsed, Idle
<1> DEFINE x == b.tokens + Elapsed(b)
<1>3. x \in Int /\ Second \in Int
  BY <1>1, <1>2, SecondType
<1>4. /\ Min({Second, x}) \in Int /\ Min({Second, x}) <= Second /\ Min({Second, x}) <= x
      /\ Min({Second, x}) = Second \/ Min({Second, x}) = x
  <2> HIDE DEF x
  <2> QED
    BY <1>3, MinPair
<1>5. Refilled(b) = Min({Second, x}) /\ x = b.tokens + Idle(b.last_update, now)
  BY <1>2 DEF Refilled
<1> QED
  BY <1>1, <1>4, <1>5 DEF IsRefill

\* A session in a limiter is at a worker.
LEMMA AtLimiter ==
  ASSUME Types, Placed, NEW r \in Row, NEW k \in Limiter, pc[r] = k
  PROVE  /\ at[r] \in Worker /\ Cost(k) \in Nat /\ now \in Nat
         /\ Refilled(bucket[at[r]][k]) \in Int /\ Refilled(bucket[at[r]][k]) <= Second
<1>1. at[r] \in Worker
  <2>1. pc[r] # "new"
    BY DEF Limiter
  <2> QED
    BY <2>1 DEF Placed
<1>2. now \in Nat /\ Cost(k) \in Nat
  BY CostType DEF Types
<1>3. Refilled(bucket[at[r]][k]) \in Int /\ Refilled(bucket[at[r]][k]) <= Second
  <2>1. PICK w \in Worker : w = at[r]
    BY <1>1
  <2> QED
    BY <2>1, RefillType DEF IsRefill
<1> QED
  BY <1>1, <1>2, <1>3

LEMMA InitTypes == Init => Types
<1> SUFFICES ASSUME Init PROVE Types
  OBVIOUS
<1>1. setup.rows \in Nat \ {0} /\ setup.workers \in Nat \ {0}
  BY SetupTypes DEF Init
<1>2. shape \in [Row -> setup.shapes] /\ now \in 0..MaxNow
  BY BoundTypes DEF Init, Row
<1>3. bucket \in [Worker -> [Limiter -> [tokens : Int, last_update : Int]]]
  BY SecondType DEF Init, Never
<1>4. /\ granted \in [Worker -> [Limiter -> Nat]] /\ first \in [Worker -> [Limiter -> Int]]
      /\ wake \in [Row -> Int] /\ at \in [Row -> 0..setup.workers] /\ pc \in [Row -> Pc]
  BY <1>1 DEF Init, Never, Awake, Nowhere, Pc
<1>5. queue \in [Worker -> Seq(Row)] /\ threads \subseteq Row
  BY DEF Init
<1>6. attempt \in [Row -> Nat \X Nat] /\ server \in [Row -> 0..2] /\ counts \in [Server -> Nat]
  BY DEF Init, Nowhere
<1>7. awake \in BOOLEAN /\ batch \in {"open", "assembled", "raised"}
  BY DEF Init, Standalone
<1>8. result \in [Row -> [score : ScoreType, keys : SUBSET KeyName]]
  BY DEF Init, NoResult, ScoreType, Zero
<1> QED
  BY <1>2, <1>3, <1>4, <1>5, <1>6, <1>7, <1>8 DEF Types, Init

LEMMA NextStageType ==
  ASSUME NEW k
  PROVE  /\ NextStage(k) \in {"rpm", "tpm", "sem", "call"}
         /\ NextStage(k) = "call" <=> ~Limited
BY DEF NextStage

LEMMA ChosenServer ==
  ASSUME Types
  PROVE  LeastLoaded \in Server
<1>1. counts[1] \in Nat /\ counts[2] \in Nat /\ Server = {1, 2}
  BY DEF Types, Server
<1>2. \E s \in Server : \A t \in Server : counts[s] < counts[t] \/ (counts[s] = counts[t] /\ s <= t)
  <2>1. CASE counts[1] <= counts[2]
    BY <1>1, <2>1
  <2>2. CASE counts[2] < counts[1]
    BY <1>1, <2>2
  <2> QED
    BY <1>1, <2>1, <2>2
<1> QED
  BY <1>2 DEF LeastLoaded

LEMMA ReleaseType ==
  ASSUME Types, NEW s
  PROVE  Release(s) \in [Server -> Nat]
<1>1. counts \in [Server -> Nat]
  BY DEF Types
<1>2. ASSUME s \in Server PROVE Max({0, counts[s] - 1}) \in Nat
  <2>1. counts[s] - 1 \in Int /\ 0 \in Int
    BY <1>1, <1>2
  <2> DEFINE x == counts[s] - 1
  <2>2. Max({0, x}) \in Int /\ Max({0, x}) >= 0
    <3> HIDE DEF x
    <3> QED
      BY <2>1, MaxPair DEF x
  <2> QED
    BY <2>2
<1> QED
  BY <1>1, <1>2 DEF Release

LEMMA AnswerType ==
  ASSUME Types, NEW r \in Row, NEW score \in ScoreType, NEW keys \in SUBSET KeyName,
         Answer(r, score, keys)
  PROVE  /\ result' \in [Row -> [score : ScoreType, keys : SUBSET KeyName]]
         /\ pc' \in [Row -> Pc]
<1>1. result \in [Row -> [score : ScoreType, keys : SUBSET KeyName]] /\ pc \in [Row -> Pc]
  BY DEF Types
<1>2. [score |-> score, keys |-> keys] \in [score : ScoreType, keys : SUBSET KeyName]
  OBVIOUS
<1>3. pc' \in [Row -> Pc]
  BY <1>1 DEF Answer, Pc
<1>4. result' = [result EXCEPT ![r] = [score |-> score, keys |-> keys]]
  BY DEF Answer
<1> QED
  BY <1>1, <1>2, <1>3, <1>4

LEMMA PairExcept ==
  ASSUME NEW a \in Nat \X Nat, NEW x \in Nat
  PROVE  [a EXCEPT ![1] = x] = <<x, a[2]>> /\ [a EXCEPT ![2] = x] = <<a[1], x>>
<1>1. DOMAIN a = {1, 2} /\ a = <<a[1], a[2]>>
  OBVIOUS
<1> QED
  BY <1>1

LEMMA KeysTypes ==
  /\ {} \in SUBSET KeyName /\ {"error", "acc"} \in SUBSET KeyName
  /\ {"timeout", "acc"} \in SUBSET KeyName /\ \A r : ResultKeys(r) \in SUBSET KeyName
BY DEF ResultKeys, KeyName

LEMMA ScoreTypes ==
  ASSUME Types, NEW r \in Row
  PROVE  Zero \in ScoreType /\ <<r, ScoredTokens(shape[r])>> \in ScoreType
<1>1. ScoredTokens(shape[r]) \in Nat
  BY TokensType
<1> HIDE DEF ScoredTokens
<1> QED
  BY <1>1 DEF ScoreType


LEMMA TypesStep ==
  ASSUME IInv, [Next]_vars
  PROVE  Types'
<1>a. setup' = setup /\ shape' = shape
  BY SetupFixed
<1>b. Row' = Row /\ Worker' = Worker /\ ScoreType' = ScoreType
  BY <1>a, SameNames
<1>c. Types
  BY DEF IInv
<1>1. ASSUME NEW r \in Row, Send(r) PROVE Types'
  <2>1. at' \in [Row -> 0..setup.workers]
    BY <1>1, <1>c DEF Send, Types, Worker
  <2>2. pc' \in [Row -> Pc]
    BY <1>1, <1>c DEF Send, Types, Pc
  <2>3. awake' \in BOOLEAN
    BY <1>1, <1>c DEF Send, Types, WokenUp
  <2> QED
    BY <1>1, <1>a, <1>b, <1>c, <2>1, <2>2, <2>3 DEF Send, Types, limits, net
<1>2. ASSUME NEW r \in Row, Decode(r) PROVE Types'
  <2>1. at[r] \in Worker
    BY <1>2, <1>c DEF Decode, IInv, Placed, Types
  <2>2. pc' \in [Row -> Pc] /\ queue' \in [Worker -> Seq(Row)]
    BY <1>2, <1>c, <2>1, NextStageType DEF Decode, Advance, Types, Pc
  <2> QED
    BY <1>2, <1>a, <1>b, <1>c, <2>2 DEF Decode, Types, limits, net, final
<1>3. ASSUME NEW r \in Row, NEW k \in Limiter, AcquireNow(r, k) PROVE Types'
  <2>0. pc[r] = k /\ Placed
    BY <1>3 DEF AcquireNow, IInv
  <2>1. at[r] \in Worker
    BY <1>c, <2>0, AtLimiter
  <2>2. Refilled(bucket[at[r]][k]) \in Int /\ Cost(k) \in Nat /\ now \in Nat
    BY <1>c, <2>0, AtLimiter
  <2>3. bucket' \in [Worker -> [Limiter -> [tokens : Int, last_update : Int]]]
    BY <1>3, <1>c, <2>1, <2>2 DEF AcquireNow, Set, Types
  <2>4. first' \in [Worker -> [Limiter -> Int]]
    BY <1>3, <1>c, <2>1, <2>2 DEF AcquireNow, Started, Types
  <2>5. pc' \in [Row -> Pc] /\ queue' \in [Worker -> Seq(Row)] /\ wake' \in [Row -> Int]
        /\ granted' \in [Worker -> [Limiter -> Nat]]
    <3>1. pc' \in [Row -> Pc]
      BY <1>3, <1>c, NextStageType DEF AcquireNow, Grant, Advance, Types, Pc
    <3>2. queue' \in [Worker -> Seq(Row)]
      BY <1>3, <1>c, <2>1 DEF AcquireNow, Grant, Advance, Types
    <3>3. wake' \in [Row -> Int] /\ granted' \in [Worker -> [Limiter -> Nat]]
      BY <1>3, <1>c, <2>1 DEF AcquireNow, Grant, Types, Awake
    <3> QED
      BY <3>1, <3>2, <3>3
  <2> QED
    BY <1>3, <1>a, <1>b, <1>c, <2>3, <2>4, <2>5 DEF AcquireNow, Types, limits, net, final
<1>4. ASSUME NEW r \in Row, NEW k \in Limiter, AcquireWait(r, k) PROVE Types'
  <2>0. pc[r] = k /\ Placed
    BY <1>4 DEF AcquireWait, IInv
  <2>1. at[r] \in Worker
    BY <1>c, <2>0, AtLimiter
  <2>2. Refilled(bucket[at[r]][k]) \in Int /\ Cost(k) \in Nat /\ now \in Nat
    BY <1>c, <2>0, AtLimiter
  <2>3. bucket' \in [Worker -> [Limiter -> [tokens : Int, last_update : Int]]]
    BY <1>4, <1>c, <2>1, <2>2 DEF AcquireWait, Set, Types
  <2>4. first' \in [Worker -> [Limiter -> Int]]
    BY <1>4, <1>c, <2>1, <2>2 DEF AcquireWait, Started, Types
  <2>5. wake' \in [Row -> Int]
    BY <1>4, <1>c, <2>2 DEF AcquireWait, WaitTime, Types
  <2> QED
    BY <1>4, <1>a, <1>b, <1>c, <2>3, <2>4, <2>5 DEF AcquireWait, Types, limits, net, final
<1>5. ASSUME NEW r \in Row, NEW k \in Limiter, AcquireLarge(r, k) PROVE Types'
  <2>0. pc[r] = k /\ Placed
    BY <1>5 DEF AcquireLarge, IInv
  <2>1. at[r] \in Worker
    BY <1>c, <2>0, AtLimiter
  <2>2. Refilled(bucket[at[r]][k]) \in Int /\ Cost(k) \in Nat /\ now \in Nat
    BY <1>c, <2>0, AtLimiter
  <2>3. bucket' \in [Worker -> [Limiter -> [tokens : Int, last_update : Int]]]
    BY <1>5, <1>c, <2>1, <2>2 DEF AcquireLarge, Set, Types
  <2>4. first' \in [Worker -> [Limiter -> Int]]
    BY <1>5, <1>c, <2>1, <2>2 DEF AcquireLarge, Started, Types
  <2>5. wake' \in [Row -> Int]
    BY <1>5, <1>c, <2>2 DEF AcquireLarge, WaitTime, Types
  <2> QED
    BY <1>5, <1>a, <1>b, <1>c, <2>3, <2>4, <2>5 DEF AcquireLarge, Types, limits, net, final
<1>6. ASSUME NEW r \in Row, NEW k \in Limiter, WakeLarge(r, k) PROVE Types'
  <2>1. at[r] \in Worker
    BY <1>6, <1>c DEF WakeLarge, IInv, Placed, Limiter, Types
  <2>5. pc' \in [Row -> Pc] /\ queue' \in [Worker -> Seq(Row)] /\ wake' \in [Row -> Int]
        /\ granted' \in [Worker -> [Limiter -> Nat]]
    <3>1. pc' \in [Row -> Pc]
      BY <1>6, <1>c, NextStageType DEF WakeLarge, Grant, Advance, Types, Pc
    <3>2. queue' \in [Worker -> Seq(Row)]
      BY <1>6, <1>c, <2>1 DEF WakeLarge, Grant, Advance, Types
    <3>3. wake' \in [Row -> Int] /\ granted' \in [Worker -> [Limiter -> Nat]]
      BY <1>6, <1>c, <2>1 DEF WakeLarge, Grant, Types, Awake
    <3> QED
      BY <3>1, <3>2, <3>3
  <2> QED
    BY <1>6, <1>a, <1>b, <1>c, <2>5 DEF WakeLarge, Types, net, final
<1>7. ASSUME NEW r \in Row, StartScorer(r) PROVE Types'
  <2>1. threads' \subseteq Row /\ pc' \in [Row -> Pc]
    BY <1>7, <1>c DEF StartScorer, Types, Pc
  <2> QED
    BY <1>7, <1>a, <1>b, <1>c, <2>1 DEF StartScorer, Types, limits, net, final
<1>8. ASSUME NEW r \in Row, ScorerReturns(r) PROVE Types'
  <2>1. result' \in [Row -> [score : ScoreType, keys : SUBSET KeyName]] /\ pc' \in [Row -> Pc]
    BY <1>8, <1>c, ScoreTypes, KeysTypes, AnswerType DEF ScorerReturns
  <2>2. threads' \subseteq Row
    BY <1>8, <1>c DEF ScorerReturns, Types
  <2> QED
    BY <1>8, <1>a, <1>b, <1>c, <2>1, <2>2 DEF ScorerReturns, Types, limits, net, final
<1>9. ASSUME NEW r \in Row, ScorerRaises(r) PROVE Types'
  <2>1. result' \in [Row -> [score : ScoreType, keys : SUBSET KeyName]] /\ pc' \in [Row -> Pc]
    <3>1. CASE Limited
      BY <1>9, <3>1, <1>c, ScoreTypes, KeysTypes, AnswerType DEF ScorerRaises
    <3>2. CASE ~Limited
      BY <1>9, <3>2, <1>c DEF ScorerRaises, Types, Pc
    <3> QED
      BY <3>1, <3>2
  <2>2. threads' \subseteq Row
    BY <1>9, <1>c DEF ScorerRaises, Types
  <2> QED
    BY <1>9, <1>a, <1>b, <1>c, <2>1, <2>2 DEF ScorerRaises, Types, limits, net, final
<1>10. ASSUME NEW r \in Row, CallTimesOut(r) PROVE Types'
  <2>1. result' \in [Row -> [score : ScoreType, keys : SUBSET KeyName]] /\ pc' \in [Row -> Pc]
    BY <1>10, <1>c, ScoreTypes, KeysTypes, AnswerType DEF CallTimesOut
  <2> QED
    BY <1>10, <1>a, <1>b, <1>c, <2>1 DEF CallTimesOut, Types, limits, net, final
<1>11. ASSUME NEW r \in Row, Post(r) PROVE Types'
  <2>1. LeastLoaded \in Server
    BY <1>c, ChosenServer
  <2>2. server' \in [Row -> 0..2] /\ counts' \in [Server -> Nat]
    BY <1>11, <1>c, <2>1 DEF Post, Types, Server
  <2>3. attempt' \in [Row -> Nat \X Nat]
    <3>1. attempt[r] \in Nat \X Nat /\ attempt \in [Row -> Nat \X Nat]
      BY <1>c DEF Types
    <3>2. [attempt[r] EXCEPT ![2] = 0] \in Nat \X Nat
      BY <3>1, PairExcept
    <3> QED
      BY <1>11, <3>1, <3>2 DEF Post
  <2>4. pc' \in [Row -> Pc]
    BY <1>11, <1>c DEF Post, Types, Pc
  <2> QED
    BY <1>11, <1>a, <1>b, <1>c, <2>2, <2>3, <2>4 DEF Post, Types, limits, final
<1>12. ASSUME NEW r \in Row, ServerAnswers(r) PROVE Types'
  <2>1. counts' \in [Server -> Nat] /\ server' \in [Row -> 0..2]
    BY <1>12, <1>c, ReleaseType DEF ServerAnswers, Types, Nowhere
  <2>2. result' \in [Row -> [score : ScoreType, keys : SUBSET KeyName]] /\ pc' \in [Row -> Pc]
    <3>1. CASE setup.mode = "batch"
      BY <1>12, <3>1, <1>c, ScoreTypes, KeysTypes, AnswerType DEF ServerAnswers
    <3>2. CASE setup.mode # "batch"
      BY <1>12, <3>2, <1>c DEF ServerAnswers, Types, Pc
    <3> QED
      BY <3>1, <3>2
  <2> QED
    BY <1>12, <1>a, <1>b, <1>c, <2>1, <2>2 DEF ServerAnswers, Types, limits, final
<1>13. ASSUME NEW r \in Row, ServerUnreachable(r) PROVE Types'
  <2>1. attempt' \in [Row -> Nat \X Nat]
    <3>1. attempt[r] \in Nat \X Nat /\ attempt \in [Row -> Nat \X Nat]
      BY <1>c DEF Types
    <3>2. [attempt[r] EXCEPT ![2] = attempt[r][2] + 1] \in Nat \X Nat
      BY <3>1, PairExcept
    <3> QED
      BY <1>13, <3>1, <3>2 DEF ServerUnreachable
  <2>2. counts' = counts
    BY <1>13 DEF ServerUnreachable, Kept
  <2> QED
    BY <1>13, <1>a, <1>b, <1>c, <2>1, <2>2 DEF ServerUnreachable, Types, limits, final
<1>14. ASSUME NEW r \in Row, RouterRaises(r) PROVE Types'
  <2>1. attempt' \in [Row -> Nat \X Nat]
    <3>1. attempt[r] \in Nat \X Nat /\ attempt \in [Row -> Nat \X Nat]
      BY <1>c DEF Types
    <3>2. [attempt[r] EXCEPT ![1] = attempt[r][1] + 1] \in Nat \X Nat
      BY <3>1, PairExcept
    <3> QED
      BY <1>14, <3>1, <3>2 DEF RouterRaises
  <2>2. pc' \in [Row -> Pc] /\ server' \in [Row -> 0..2]
    BY <1>14, <1>c DEF RouterRaises, Types, Pc, Nowhere
  <2> QED
    BY <1>14, <1>a, <1>b, <1>c, <2>1, <2>2 DEF RouterRaises, Types, limits, final
<1>15. ASSUME NEW r \in Row, PutSession(r) PROVE Types'
  <2>1. pc' \in [Row -> Pc]
    BY <1>15, <1>c DEF PutSession, Types, Pc
  <2> QED
    BY <1>15, <1>a, <1>b, <1>c, <2>1 DEF PutSession, Types, limits, net
<1>16. ASSUME NEW r \in Row, PutRaises(r) PROVE Types'
  <2>1. pc' \in [Row -> Pc]
    BY <1>16, <1>c DEF PutRaises, Types, Pc
  <2> QED
    BY <1>16, <1>a, <1>b, <1>c, <2>1 DEF PutRaises, Types, limits, net, final
<1>17. ASSUME NEW r \in Row, AbandonedEnds(r) PROVE Types'
  <2>1. threads' \subseteq Row
    BY <1>17, <1>c DEF AbandonedEnds, Types
  <2> QED
    BY <1>17, <1>a, <1>b, <1>c, <2>1 DEF AbandonedEnds, Types, limits, net, final
<1>18. ASSUME NEW w \in Worker, EnterSemaphore(w) PROVE Types'
  <2>1. queue[w] \in Seq(Row) /\ queue[w] # <<>>
    BY <1>18, <1>c DEF EnterSemaphore, Types
  <2>2. Head(queue[w]) \in Row /\ Tail(queue[w]) \in Seq(Row)
    BY <2>1, HeadTailProperties
  <2>3. pc' \in [Row -> Pc]
    BY <1>18, <1>c, <2>2 DEF EnterSemaphore, Types, Pc
  <2>4. queue' \in [Worker -> Seq(Row)]
    BY <1>18, <1>c, <2>2 DEF EnterSemaphore, Types
  <2> QED
    BY <1>18, <1>a, <1>b, <1>c, <2>3, <2>4 DEF EnterSemaphore, Types, limits, net, final
<1>19. ASSUME Tick PROVE Types'
  <2>1. now' \in 0..MaxNow
    BY <1>19, <1>c, BoundTypes DEF Tick, Types
  <2> QED
    BY <1>19, <1>a, <1>b, <1>c, <2>1 DEF Tick, Types, limits, net, final
<1>20. ASSUME Assemble PROVE Types'
  BY <1>20, <1>a, <1>b, <1>c DEF Assemble, Types, limits, net
<1>21. ASSUME AssembleRaises PROVE Types'
  BY <1>21, <1>a, <1>b, <1>c DEF AssembleRaises, Types, limits, net
<1>22. ASSUME UNCHANGED vars PROVE Types'
  BY <1>22, <1>b, <1>c DEF Types, vars
<1> QED
  BY <1>1, <1>2, <1>3, <1>4, <1>5, <1>6, <1>7, <1>8, <1>9, <1>10, <1>11, <1>12,
     <1>13, <1>14, <1>15, <1>16, <1>17, <1>18, <1>19, <1>20, <1>21, <1>22 DEF Next,
     RowStep, Acquire, Score, Ask, Done

-----------------------------------------------------------------------------
(* Every step keeps sessions, queues, the semaphore and the threads in order. *)

LEMMA HeadQueued ==
  ASSUME Types, Queued, NEW w \in Worker, queue[w] # <<>>
  PROVE  /\ Head(queue[w]) \in Row /\ pc[Head(queue[w])] = "sem" /\ at[Head(queue[w])] = w
         /\ 1 \in DOMAIN queue[w] /\ Head(queue[w]) = queue[w][1]
<1>1. queue[w] \in Seq(Row)
  BY DEF Types
<1>2. 1 \in DOMAIN queue[w] /\ Head(queue[w]) = queue[w][1] /\ Head(queue[w]) \in Row
  BY <1>1
<1> QED
  BY <1>2 DEF Queued

LEMMA PlacedStep ==
  ASSUME IInv, [Next]_vars
  PROVE  Placed'
<1>a. setup' = setup /\ shape' = shape
  BY SetupFixed
<1>b. Row' = Row /\ Worker' = Worker /\ Limited' = Limited
  BY <1>a, SameNames
<1>c. Types /\ Placed /\ Types'
  BY TypesStep DEF IInv
<1>d. Limited \in BOOLEAN
  BY DEF Limited
<1>1. ASSUME NEW r \in Row, Send(r) PROVE Placed'
  BY <1>1, <1>a, <1>b, <1>c DEF Send, Types, Placed, Limiter, Awake, Pc, limits, net, final
<1>2. ASSUME NEW r \in Row, Decode(r) PROVE Placed'
  <2>1. at[r] \in Worker
    BY <1>2, <1>c DEF Decode, Placed, Limiter
  <2>2. pc' = [pc EXCEPT ![r] = NextStage("decode")] /\ at' = at
    BY <1>2 DEF Decode, Advance
  <2>3. /\ NextStage("decode") \in {"rpm", "tpm", "sem", "call"}
        /\ NextStage("decode") = "call" <=> ~Limited
    BY NextStageType
  <2> QED
    BY <1>2, <1>b, <1>c, <2>1, <2>2, <2>3 DEF Decode, Types, Placed, Limiter
<1>3. ASSUME NEW r \in Row, NEW k \in Limiter, AcquireNow(r, k) PROVE Placed'
  <2>1. at[r] \in Worker
    BY <1>3, <1>c DEF AcquireNow, Placed, Limiter
  <2>2. pc' = [pc EXCEPT ![r] = NextStage(k)] /\ at' = at
    BY <1>3 DEF AcquireNow, Grant, Advance
  <2>4. wake' = [wake EXCEPT ![r] = Awake]
    BY <1>3 DEF AcquireNow, Grant
  <2>3. /\ NextStage(k) \in {"rpm", "tpm", "sem", "call"}
        /\ NextStage(k) = "call" <=> ~Limited
    BY NextStageType
  <2>5. pc \in [Row -> Pc] /\ wake \in [Row -> Int]
    BY <1>c DEF Types
  <2>6. ASSUME NEW q \in Row
        PROVE  /\ pc'[q] # "new" => at'[q] \in Worker
               /\ pc'[q] \notin Limiter => wake'[q] = Awake
               /\ wake'[q] >= Awake
               /\ pc'[q] \in {"rpm", "tpm", "sem"} => Limited
    <3>1. CASE q = r
      BY <2>1, <2>2, <2>3, <2>4, <2>5, <3>1 DEF Awake
    <3>2. CASE q # r
      BY <1>c, <2>2, <2>4, <2>5, <3>2 DEF Placed
    <3> QED
      BY <3>1, <3>2
  <2> QED
    BY <1>b, <2>6 DEF Placed
<1>4. ASSUME NEW r \in Row, NEW k \in Limiter, AcquireWait(r, k) PROVE Placed'
  <2>0. pc[r] = k
    BY <1>4 DEF AcquireWait
  <2>1. Cost(k) \in Nat /\ now \in Nat /\ at[r] \in Worker
    BY <1>c, <2>0, AtLimiter
  <2>2. Refilled(bucket[at[r]][k]) \in Int /\ Refilled(bucket[at[r]][k]) <= Second
    BY <1>c, <2>0, AtLimiter
  <2>3. wake' = [wake EXCEPT ![r] = now + (Cost(k) - Refilled(bucket[at[r]][k]))]
    BY <1>4 DEF AcquireWait, WaitTime
  <2>4. now + (Cost(k) - Refilled(bucket[at[r]][k])) >= Awake
    BY <1>4, <2>1, <2>2, SecondType DEF AcquireWait, Large, Awake
  <2>5. pc' = pc /\ at' = at
    BY <1>4 DEF AcquireWait
  <2> QED
    BY <1>b, <1>c, <2>3, <2>4, <2>5, <1>4 DEF AcquireWait, Placed, Types, Limiter
<1>5. ASSUME NEW r \in Row, NEW k \in Limiter, AcquireLarge(r, k) PROVE Placed'
  <2>0. pc[r] = k
    BY <1>5 DEF AcquireLarge
  <2>1. Cost(k) \in Nat /\ now \in Nat /\ at[r] \in Worker
    BY <1>c, <2>0, AtLimiter
  <2>2. Refilled(bucket[at[r]][k]) \in Int /\ Refilled(bucket[at[r]][k]) <= Second
    BY <1>c, <2>0, AtLimiter
  <2>3. wake' = [wake EXCEPT ![r] = now + (Cost(k) - Refilled(bucket[at[r]][k]))]
    BY <1>5 DEF AcquireLarge, WaitTime
  <2>4. now + (Cost(k) - Refilled(bucket[at[r]][k])) >= Awake
    BY <1>5, <2>1, <2>2, SecondType DEF AcquireLarge, Large, Awake
  <2>5. pc' = pc /\ at' = at
    BY <1>5 DEF AcquireLarge
  <2> QED
    BY <1>b, <1>c, <2>3, <2>4, <2>5, <1>5 DEF AcquireLarge, Placed, Types, Limiter
<1>6. ASSUME NEW r \in Row, NEW k \in Limiter, WakeLarge(r, k) PROVE Placed'
  <2>1. at[r] \in Worker
    BY <1>6, <1>c DEF WakeLarge, Placed, Limiter
  <2>2. pc' = [pc EXCEPT ![r] = NextStage(k)] /\ at' = at
    BY <1>6 DEF WakeLarge, Grant, Advance
  <2>4. wake' = [wake EXCEPT ![r] = Awake]
    BY <1>6 DEF WakeLarge, Grant
  <2>3. /\ NextStage(k) \in {"rpm", "tpm", "sem", "call"}
        /\ NextStage(k) = "call" <=> ~Limited
    BY NextStageType
  <2>5. pc \in [Row -> Pc] /\ wake \in [Row -> Int]
    BY <1>c DEF Types
  <2>6. ASSUME NEW q \in Row
        PROVE  /\ pc'[q] # "new" => at'[q] \in Worker
               /\ pc'[q] \notin Limiter => wake'[q] = Awake
               /\ wake'[q] >= Awake
               /\ pc'[q] \in {"rpm", "tpm", "sem"} => Limited
    <3>1. CASE q = r
      BY <2>1, <2>2, <2>3, <2>4, <2>5, <3>1 DEF Awake
    <3>2. CASE q # r
      BY <1>c, <2>2, <2>4, <2>5, <3>2 DEF Placed
    <3> QED
      BY <3>1, <3>2
  <2> QED
    BY <1>b, <2>6 DEF Placed
<1>7. ASSUME NEW r \in Row, StartScorer(r) PROVE Placed'
  BY <1>7, <1>a, <1>b, <1>c DEF StartScorer, Types, Placed, Limiter, Awake, Pc, limits, net, final
<1>8. ASSUME NEW r \in Row, ScorerReturns(r) PROVE Placed'
  BY <1>8, <1>a, <1>b, <1>c DEF ScorerReturns, Types, Placed, Limiter, Awake, Pc, limits, net, final, Answer
<1>9. ASSUME NEW r \in Row, ScorerRaises(r) PROVE Placed'
  <2>1. pc' = [pc EXCEPT ![r] = IF Limited THEN "done" ELSE "raised"] /\ at' = at /\ wake' = wake
    BY <1>9, <1>d DEF ScorerRaises, Answer
  <2> QED
    BY <1>9, <1>b, <1>c, <2>1 DEF ScorerRaises, Types, Placed, Limiter
<1>10. ASSUME NEW r \in Row, CallTimesOut(r) PROVE Placed'
  BY <1>10, <1>a, <1>b, <1>c DEF CallTimesOut, Types, Placed, Limiter, Awake, Pc, limits, net, final, Answer
<1>11. ASSUME NEW r \in Row, Post(r) PROVE Placed'
  BY <1>11, <1>a, <1>b, <1>c DEF Post, Types, Placed, Limiter, Awake, Pc, limits, net, final
<1>12. ASSUME NEW r \in Row, ServerAnswers(r) PROVE Placed'
  <2>1. pc' = [pc EXCEPT ![r] = IF setup.mode = "batch" THEN "done" ELSE "raised"]
        /\ pc[r] = "forward" /\ at' = at /\ wake' = wake
    BY <1>12 DEF ServerAnswers, Answer
  <2>2. pc \in [Row -> Pc]
    BY <1>c DEF Types
  <2> QED
    BY <1>b, <1>c, <2>1, <2>2 DEF Placed, Limiter
<1>13. ASSUME NEW r \in Row, ServerUnreachable(r) PROVE Placed'
  BY <1>13, <1>a, <1>b, <1>c DEF ServerUnreachable, Types, Placed, Limiter, Awake, Pc, limits, net, final
<1>14. ASSUME NEW r \in Row, RouterRaises(r) PROVE Placed'
  BY <1>14, <1>a, <1>b, <1>c DEF RouterRaises, Types, Placed, Limiter, Awake, Pc, limits, net, final
<1>15. ASSUME NEW r \in Row, PutSession(r) PROVE Placed'
  BY <1>15, <1>a, <1>b, <1>c DEF PutSession, Types, Placed, Limiter, Awake, Pc, limits, net, final
<1>16. ASSUME NEW r \in Row, PutRaises(r) PROVE Placed'
  BY <1>16, <1>a, <1>b, <1>c DEF PutRaises, Types, Placed, Limiter, Awake, Pc, limits, net, final
<1>17. ASSUME NEW r \in Row, AbandonedEnds(r) PROVE Placed'
  BY <1>17, <1>a, <1>b, <1>c DEF AbandonedEnds, Types, Placed, Limiter, Awake, Pc, limits, net, final
<1>18. ASSUME NEW w \in Worker, EnterSemaphore(w) PROVE Placed'
  <2>1. queue[w] \in Seq(Row) /\ queue[w] # <<>>
    BY <1>18, <1>c DEF EnterSemaphore, Types
  <2>2. Head(queue[w]) \in Row /\ pc[Head(queue[w])] = "sem"
    BY <2>1, HeadQueued DEF IInv
  <2> QED
    BY <1>18, <1>a, <1>b, <1>c, <2>2 DEF EnterSemaphore, Types, Placed, Limiter, limits, net, final
<1>19. ASSUME Tick PROVE Placed'
  BY <1>19, <1>a, <1>b, <1>c DEF Tick, Types, Placed, Limiter, Awake, Pc, limits, net, final
<1>20. ASSUME Assemble PROVE Placed'
  BY <1>20, <1>a, <1>b, <1>c DEF Assemble, Types, Placed, Limiter, Awake, Pc, limits, net, final
<1>21. ASSUME AssembleRaises PROVE Placed'
  BY <1>21, <1>a, <1>b, <1>c DEF AssembleRaises, Types, Placed, Limiter, Awake, Pc, limits, net, final
<1>22. ASSUME UNCHANGED vars PROVE Placed'
  BY <1>22, <1>b, <1>c DEF Placed, vars
<1> QED
  BY <1>1, <1>2, <1>3, <1>4, <1>5, <1>6, <1>7, <1>8, <1>9, <1>10, <1>11, <1>12,
     <1>13, <1>14, <1>15, <1>16, <1>17, <1>18, <1>19, <1>20, <1>21, <1>22 DEF Next,
     RowStep, Acquire, Score, Ask, Done

LEMMA QueuedFrame ==
  ASSUME Types, Queued, queue' = queue, Worker' = Worker,
         \A r \in Row : pc[r] = "sem" => pc'[r] = "sem" /\ at'[r] = at[r]
  PROVE  Queued'
<1>1. \A w \in Worker : \A i \in DOMAIN queue[w] : queue[w][i] \in Row
  BY DEF Types
<1> QED
  BY <1>1 DEF Queued

\* A session that does not wait yet joins the queue of its worker.
LEMMA QueuedPush ==
  ASSUME Types, Queued, NEW r \in Row, at[r] \in Worker, pc[r] # "sem", Worker' = Worker,
         queue' = [queue EXCEPT ![at[r]] = Append(@, r)],
         pc' = [pc EXCEPT ![r] = "sem"], at' = at
  PROVE  Queued'
<1>1. queue \in [Worker -> Seq(Row)] /\ pc \in [Row -> Pc]
  BY DEF Types
<1> DEFINE v == at[r]
<1>2. ASSUME NEW w \in Worker, NEW i \in DOMAIN queue'[w]
      PROVE  /\ at'[queue'[w][i]] = w /\ pc'[queue'[w][i]] = "sem"
             /\ \A j \in DOMAIN queue'[w] : queue'[w][i] = queue'[w][j] => i = j
  <2>1. CASE w # v
    <3>1. queue'[w] = queue[w]
      BY <2>1, <1>1
    <3>2. \A j \in DOMAIN queue[w] : queue[w][j] \in Row
      BY <1>1
    <3> QED
      BY <3>1, <3>2, <1>1, <1>2 DEF Queued
  <2>2. CASE w = v
    <3> DEFINE q == queue[v]
               n == Len(q)
    <3>1. q \in Seq(Row) /\ n \in Nat /\ DOMAIN q = 1 .. n
      BY <1>1
    <3>2. queue'[w] = Append(q, r)
      BY <2>2, <1>1
    <3>3. /\ DOMAIN Append(q, r) = 1 .. n + 1
          /\ Append(q, r)[n + 1] = r
          /\ \A j \in 1 .. n : Append(q, r)[j] = q[j]
      BY <3>1
    <3>4. \A j \in 1 .. n : q[j] \in Row /\ at[q[j]] = v /\ pc[q[j]] = "sem" /\ q[j] # r
      BY <3>1 DEF Queued
    <3>5. \A j, l \in 1 .. n : q[j] = q[l] => j = l
      BY <3>1 DEF Queued
    <3> HIDE DEF q, n, v
    <3>6. CASE i = n + 1
      <4>1. queue'[w][i] = r
        BY <3>2, <3>3, <3>6
      <4>2. at'[r] = w /\ pc'[r] = "sem"
        BY <2>2, <1>1 DEF v
      <4>3. \A j \in 1 .. n + 1 : Append(q, r)[j] = r => j = n + 1
        <5> TAKE j \in 1 .. n + 1
        <5>1. CASE j \in 1 .. n
          BY <5>1, <3>3, <3>4
        <5>2. CASE j \notin 1 .. n
          BY <5>2, <3>1
        <5> QED
          BY <5>1, <5>2
      <4> QED
        BY <4>1, <4>2, <4>3, <3>2, <3>3, <3>6
    <3>7. CASE i # n + 1
      <4>0. i \in 1 .. n
        BY <3>7, <3>1, <3>2, <3>3
      <4>1. queue'[w][i] = q[i] /\ q[i] \in Row /\ q[i] # r
        BY <4>0, <3>2, <3>3, <3>4
      <4>2. at'[q[i]] = w /\ pc'[q[i]] = "sem"
        BY <4>0, <4>1, <2>2, <1>1, <3>4
      <4>3. ASSUME NEW j \in 1 .. n + 1, q[i] = Append(q, r)[j] PROVE i = j
        <5>1. CASE j \in 1 .. n
          BY <5>1, <4>0, <4>3, <3>3, <3>5
        <5>2. CASE j \notin 1 .. n
          <6>1. j = n + 1
            BY <5>2, <3>1
          <6> QED
            BY <6>1, <4>1, <4>3, <3>3
        <5> QED
          BY <5>1, <5>2
      <4> QED
        BY <4>1, <4>2, <4>3, <3>2, <3>3
    <3> QED
      BY <3>6, <3>7
  <2> QED
    BY <2>1, <2>2
<1> QED
  BY <1>2 DEF Queued

\* The first of a queue leaves it.
LEMMA QueuedPop ==
  ASSUME Types, Queued, NEW v \in Worker, queue[v] # <<>>, Worker' = Worker, at' = at,
         queue' = [queue EXCEPT ![v] = Tail(@)],
         pc' = [pc EXCEPT ![Head(queue[v])] = "call"]
  PROVE  Queued'
<1>1. queue \in [Worker -> Seq(Row)] /\ pc \in [Row -> Pc]
  BY DEF Types
<1> DEFINE q == queue[v]
           n == Len(q)
           h == Head(q)
<1>2. h \in Row /\ at[h] = v /\ h = q[1] /\ 1 \in DOMAIN q
  BY HeadQueued
<1>3. q \in Seq(Row) /\ n \in Nat /\ DOMAIN q = 1 .. n /\ n >= 1
  BY <1>1
<1>4. DOMAIN Tail(q) = 1 .. n - 1 /\ \A j \in 1 .. n - 1 : Tail(q)[j] = q[j + 1]
  BY <1>3
<1>5. \A j \in 1 .. n : q[j] \in Row /\ at[q[j]] = v /\ pc[q[j]] = "sem"
  BY <1>3 DEF Queued
<1>6. \A j, l \in 1 .. n : q[j] = q[l] => j = l
  BY <1>3 DEF Queued
<1>7. ASSUME NEW w \in Worker, NEW i \in DOMAIN queue'[w]
      PROVE  /\ at'[queue'[w][i]] = w /\ pc'[queue'[w][i]] = "sem"
             /\ \A j \in DOMAIN queue'[w] : queue'[w][i] = queue'[w][j] => i = j
  <2>1. CASE w # v
    <3>1. queue'[w] = queue[w]
      BY <2>1, <1>1
    <3>2. \A j \in DOMAIN queue[w] : queue[w][j] \in Row /\ at[queue[w][j]] = w
      BY <1>1 DEF Queued
    <3>3. queue[w][i] # h
      BY <3>1, <3>2, <1>7, <1>2, <2>1
    <3> HIDE DEF q, n
    <3> QED
      BY <3>1, <3>2, <3>3, <1>1, <1>7 DEF Queued
  <2>2. CASE w = v
    <3>1. queue'[w] = Tail(q)
      BY <2>2, <1>1
    <3> HIDE DEF q, n
    <3>2. i \in 1 .. n - 1 /\ i + 1 \in 1 .. n /\ queue'[w][i] = q[i + 1]
      BY <3>1, <1>3, <1>4
    <3>3. q[i + 1] # h
      <4>1. i + 1 # 1 /\ 1 \in 1 .. n
        BY <3>2, <1>3
      <4> QED
        BY <4>1, <3>2, <1>2, <1>6
    <3>4. at'[q[i + 1]] = w /\ pc'[q[i + 1]] = "sem"
      <4>1. pc'[q[i + 1]] = pc[q[i + 1]]
        BY <3>2, <3>3, <1>1, <1>5 DEF q
      <4> QED
        BY <4>1, <3>2, <2>2, <1>5
    <3>5. ASSUME NEW j \in 1 .. n - 1, q[i + 1] = Tail(q)[j] PROVE i = j
      <4>1. j + 1 \in 1 .. n /\ q[i + 1] = q[j + 1]
        BY <3>5, <1>3, <1>4
      <4>2. i + 1 = j + 1
        BY <4>1, <3>2, <1>6
      <4> QED
        BY <4>2, <3>2
    <3> QED
      BY <3>1, <3>2, <3>4, <3>5, <1>4
  <2> QED
    BY <2>1, <2>2
<1> QED
  BY <1>7 DEF Queued

LEMMA QueuedAdvance ==
  ASSUME Types, Queued, NEW r \in Row, NEW k, Advance(r, k), at[r] \in Worker,
         pc[r] # "sem", Worker' = Worker, at' = at
  PROVE  Queued'
<1>1. pc \in [Row -> Pc]
  BY DEF Types
<1>2. CASE NextStage(k) = "sem"
  BY <1>2, QueuedPush DEF Advance
<1>3. CASE NextStage(k) # "sem"
  <2>1. queue' = queue /\ pc' = [pc EXCEPT ![r] = NextStage(k)]
    BY <1>3 DEF Advance
  <2>2. \A q \in Row : pc[q] = "sem" => pc'[q] = "sem" /\ at'[q] = at[q]
    BY <1>1, <2>1
  <2> QED
    BY <2>1, <2>2, QueuedFrame
<1> QED
  BY <1>2, <1>3

LEMMA QueuedStep ==
  ASSUME IInv, [Next]_vars
  PROVE  Queued'
<1>a. setup' = setup /\ shape' = shape
  BY SetupFixed
<1>b. Row' = Row /\ Worker' = Worker /\ Limited' = Limited
  BY <1>a, SameNames
<1>c. Types /\ Queued /\ Placed /\ pc \in [Row -> Pc] /\ at \in [Row -> 0..setup.workers]
  BY DEF IInv, Types
<1>d. Limited \in BOOLEAN
  BY DEF Limited
<1>1. ASSUME NEW r \in Row, Send(r) PROVE Queued'
  <2>1. queue' = queue
    BY <1>1 DEF Send
  <2>2. \A q \in Row : pc[q] = "sem" => pc'[q] = "sem" /\ at'[q] = at[q]
    BY <1>1, <1>c DEF Send, Limiter
  <2> QED
    BY <1>b, <1>c, <2>1, <2>2, QueuedFrame
<1>2. ASSUME NEW r \in Row, Decode(r) PROVE Queued'
  <2>1. at[r] \in Worker /\ pc[r] # "sem" /\ at' = at
    BY <1>2, <1>c DEF Decode, Placed, Limiter
  <2>2. Advance(r, "decode")
    BY <1>2 DEF Decode
  <2> QED
    BY <1>b, <1>c, <2>1, <2>2, QueuedAdvance
<1>3. ASSUME NEW r \in Row, NEW k \in Limiter, AcquireNow(r, k) PROVE Queued'
  <2>1. at[r] \in Worker /\ pc[r] # "sem" /\ at' = at
    BY <1>3, <1>c DEF AcquireNow, Placed, Limiter
  <2>2. Advance(r, k)
    BY <1>3 DEF AcquireNow, Grant
  <2> QED
    BY <1>b, <1>c, <2>1, <2>2, QueuedAdvance
<1>4. ASSUME NEW r \in Row, NEW k \in Limiter, AcquireWait(r, k) PROVE Queued'
  <2>1. queue' = queue
    BY <1>4 DEF AcquireWait
  <2>2. \A q \in Row : pc[q] = "sem" => pc'[q] = "sem" /\ at'[q] = at[q]
    BY <1>4, <1>c DEF AcquireWait, Limiter
  <2> QED
    BY <1>b, <1>c, <2>1, <2>2, QueuedFrame
<1>5. ASSUME NEW r \in Row, NEW k \in Limiter, AcquireLarge(r, k) PROVE Queued'
  <2>1. queue' = queue
    BY <1>5 DEF AcquireLarge
  <2>2. \A q \in Row : pc[q] = "sem" => pc'[q] = "sem" /\ at'[q] = at[q]
    BY <1>5, <1>c DEF AcquireLarge, Limiter
  <2> QED
    BY <1>b, <1>c, <2>1, <2>2, QueuedFrame
<1>6. ASSUME NEW r \in Row, NEW k \in Limiter, WakeLarge(r, k) PROVE Queued'
  <2>1. at[r] \in Worker /\ pc[r] # "sem" /\ at' = at
    BY <1>6, <1>c DEF WakeLarge, Placed, Limiter
  <2>2. Advance(r, k)
    BY <1>6 DEF WakeLarge, Grant
  <2> QED
    BY <1>b, <1>c, <2>1, <2>2, QueuedAdvance
<1>7. ASSUME NEW r \in Row, StartScorer(r) PROVE Queued'
  <2>1. queue' = queue
    BY <1>7 DEF StartScorer
  <2>2. \A q \in Row : pc[q] = "sem" => pc'[q] = "sem" /\ at'[q] = at[q]
    BY <1>7, <1>c DEF StartScorer, Limiter
  <2> QED
    BY <1>b, <1>c, <2>1, <2>2, QueuedFrame
<1>8. ASSUME NEW r \in Row, ScorerReturns(r) PROVE Queued'
  <2>1. queue' = queue
    BY <1>8 DEF ScorerReturns
  <2>2. \A q \in Row : pc[q] = "sem" => pc'[q] = "sem" /\ at'[q] = at[q]
    BY <1>8, <1>c DEF ScorerReturns, Limiter, Answer
  <2> QED
    BY <1>b, <1>c, <2>1, <2>2, QueuedFrame
<1>9. ASSUME NEW r \in Row, ScorerRaises(r) PROVE Queued'
  <2>1. queue' = queue
    BY <1>9 DEF ScorerRaises
  <2>2. \A q \in Row : pc[q] = "sem" => pc'[q] = "sem" /\ at'[q] = at[q]
    BY <1>9, <1>c DEF ScorerRaises, Limiter, Answer
  <2> QED
    BY <1>b, <1>c, <2>1, <2>2, QueuedFrame
<1>10. ASSUME NEW r \in Row, CallTimesOut(r) PROVE Queued'
  <2>1. queue' = queue
    BY <1>10 DEF CallTimesOut
  <2>2. \A q \in Row : pc[q] = "sem" => pc'[q] = "sem" /\ at'[q] = at[q]
    BY <1>10, <1>c DEF CallTimesOut, Limiter, Answer
  <2> QED
    BY <1>b, <1>c, <2>1, <2>2, QueuedFrame
<1>11. ASSUME NEW r \in Row, Post(r) PROVE Queued'
  <2>1. queue' = queue
    BY <1>11 DEF Post
  <2>2. \A q \in Row : pc[q] = "sem" => pc'[q] = "sem" /\ at'[q] = at[q]
    BY <1>11, <1>c DEF Post, Limiter
  <2> QED
    BY <1>b, <1>c, <2>1, <2>2, QueuedFrame
<1>12. ASSUME NEW r \in Row, ServerAnswers(r) PROVE Queued'
  <2>1. queue' = queue
    BY <1>12 DEF ServerAnswers
  <2>2. \A q \in Row : pc[q] = "sem" => pc'[q] = "sem" /\ at'[q] = at[q]
    BY <1>12, <1>c DEF ServerAnswers, Limiter, Answer
  <2> QED
    BY <1>b, <1>c, <2>1, <2>2, QueuedFrame
<1>13. ASSUME NEW r \in Row, ServerUnreachable(r) PROVE Queued'
  <2>1. queue' = queue
    BY <1>13 DEF ServerUnreachable
  <2>2. \A q \in Row : pc[q] = "sem" => pc'[q] = "sem" /\ at'[q] = at[q]
    BY <1>13, <1>c DEF ServerUnreachable, Limiter
  <2> QED
    BY <1>b, <1>c, <2>1, <2>2, QueuedFrame
<1>14. ASSUME NEW r \in Row, RouterRaises(r) PROVE Queued'
  <2>1. queue' = queue
    BY <1>14 DEF RouterRaises
  <2>2. \A q \in Row : pc[q] = "sem" => pc'[q] = "sem" /\ at'[q] = at[q]
    BY <1>14, <1>c DEF RouterRaises, Limiter
  <2> QED
    BY <1>b, <1>c, <2>1, <2>2, QueuedFrame
<1>15. ASSUME NEW r \in Row, PutSession(r) PROVE Queued'
  <2>1. queue' = queue
    BY <1>15 DEF PutSession
  <2>2. \A q \in Row : pc[q] = "sem" => pc'[q] = "sem" /\ at'[q] = at[q]
    BY <1>15, <1>c DEF PutSession, Limiter
  <2> QED
    BY <1>b, <1>c, <2>1, <2>2, QueuedFrame
<1>16. ASSUME NEW r \in Row, PutRaises(r) PROVE Queued'
  <2>1. queue' = queue
    BY <1>16 DEF PutRaises
  <2>2. \A q \in Row : pc[q] = "sem" => pc'[q] = "sem" /\ at'[q] = at[q]
    BY <1>16, <1>c DEF PutRaises, Limiter
  <2> QED
    BY <1>b, <1>c, <2>1, <2>2, QueuedFrame
<1>17. ASSUME NEW r \in Row, AbandonedEnds(r) PROVE Queued'
  <2>1. queue' = queue
    BY <1>17 DEF AbandonedEnds
  <2>2. \A q \in Row : pc[q] = "sem" => pc'[q] = "sem" /\ at'[q] = at[q]
    BY <1>17, <1>c DEF AbandonedEnds, Limiter
  <2> QED
    BY <1>b, <1>c, <2>1, <2>2, QueuedFrame
<1>18. ASSUME NEW w \in Worker, EnterSemaphore(w) PROVE Queued'
  <2>1. queue[w] # <<>> /\ at' = at
    BY <1>18 DEF EnterSemaphore
  <2> QED
    BY <1>18, <1>b, <1>c, <2>1, QueuedPop DEF EnterSemaphore
<1>19. ASSUME Tick PROVE Queued'
  BY <1>19, <1>b, <1>c, QueuedFrame DEF Tick
<1>20. ASSUME Assemble PROVE Queued'
  BY <1>20, <1>b, <1>c, QueuedFrame DEF Assemble
<1>21. ASSUME AssembleRaises PROVE Queued'
  BY <1>21, <1>b, <1>c, QueuedFrame DEF AssembleRaises
<1>22. ASSUME UNCHANGED vars PROVE Queued'
  BY <1>22, <1>b, <1>c, QueuedFrame DEF vars
<1> QED
  BY <1>1, <1>2, <1>3, <1>4, <1>5, <1>6, <1>7, <1>8, <1>9, <1>10, <1>11, <1>12,
     <1>13, <1>14, <1>15, <1>16, <1>17, <1>18, <1>19, <1>20, <1>21, <1>22 DEF Next,
     RowStep, Acquire, Score, Ask, Done

LEMMA RowFinite ==
  ASSUME Types
  PROVE  IsFiniteSet(Row) /\ Cardinality(Row) = setup.rows
<1> DEFINE N == setup.rows
<1>1. N \in Nat
  BY SetupTypes DEF Types
<1> HIDE DEF N
<1>2. IsFiniteSet(1..N) /\ Cardinality(1..N) = IF 1 > N THEN 0 ELSE N - 1 + 1
  BY <1>1, FS_Interval
<1>3. Cardinality(1..N) = N
  BY <1>1, <1>2
<1> QED
  BY <1>2, <1>3 DEF Row, N

LEMMA OneMore ==
  ASSUME NEW S, IsFiniteSet(S), NEW x
  PROVE  /\ IsFiniteSet(S \cup {x}) /\ Cardinality(S \cup {x}) \in Nat
         /\ Cardinality(S) \in Nat /\ Cardinality(S \cup {x}) <= Cardinality(S) + 1
<1>1. IsFiniteSet(S \cup {x}) /\ Cardinality(S) \in Nat /\ Cardinality(S \cup {x}) \in Nat
  BY FS_AddElement, FS_CardinalityType
<1>2. Cardinality(S \cup {x}) = Cardinality(S) \/ Cardinality(S \cup {x}) = Cardinality(S) + 1
  BY FS_AddElement
<1> QED
  BY <1>1, <1>2

LEMMA SemaphoreFrame ==
  ASSUME Types, SemaphoreKept, setup' = setup, Worker' = Worker,
         \A w \in Worker : Holders(w)' \subseteq Holders(w)
  PROVE  SemaphoreKept'
<1>1. ASSUME NEW w \in Worker PROVE Cardinality(Holders(w)') <= setup.max_concurrent
  <2>1. IsFiniteSet(Holders(w))
    BY RowFinite, FS_Subset DEF Holders
  <2>2. /\ Cardinality(Holders(w)') <= Cardinality(Holders(w))
        /\ Cardinality(Holders(w)') \in Nat /\ Cardinality(Holders(w)) \in Nat
    BY <2>1, FS_Subset, FS_CardinalityType
  <2>3. Cardinality(Holders(w)) <= setup.max_concurrent /\ setup.max_concurrent \in Nat
    BY SetupTypes DEF SemaphoreKept, Types
  <2> QED
    BY <2>2, <2>3
<1> QED
  BY <1>1 DEF SemaphoreKept

LEMMA SemaphoreStep ==
  ASSUME IInv, [Next]_vars
  PROVE  SemaphoreKept'
<1>a. setup' = setup /\ shape' = shape
  BY SetupFixed
<1>b. Row' = Row /\ Worker' = Worker /\ Limited' = Limited
  BY <1>a, SameNames
<1>c. Types /\ SemaphoreKept /\ pc \in [Row -> Pc] /\ at \in [Row -> 0..setup.workers]
  BY DEF IInv, Types
<1>d. Limited \in BOOLEAN
  BY DEF Limited
<1>1. ASSUME NEW r \in Row, Send(r) PROVE SemaphoreKept'
  <2>1. \A w \in Worker : Holders(w)' \subseteq Holders(w)
    BY <1>1, <1>b, <1>c DEF Send, Holders, Limiter
  <2> QED
    BY <1>a, <1>b, <1>c, <2>1, SemaphoreFrame
<1>2. ASSUME NEW r \in Row, Decode(r) PROVE SemaphoreKept'
  <2>1. NextStage("decode") \notin {"call", "running"} \/ ~Limited
    BY NextStageType
  <2>2. pc' = [pc EXCEPT ![r] = NextStage("decode")] /\ at' = at
    BY <1>2 DEF Decode, Advance
  <2>3. \A w \in Worker : Holders(w)' \subseteq Holders(w)
    BY <1>b, <1>c, <2>1, <2>2 DEF Holders
  <2> QED
    BY <1>a, <1>b, <1>c, <2>3, SemaphoreFrame
<1>3. ASSUME NEW r \in Row, NEW k \in Limiter, AcquireNow(r, k) PROVE SemaphoreKept'
  <2>1. NextStage(k) \notin {"call", "running"} \/ ~Limited
    BY NextStageType
  <2>2. pc' = [pc EXCEPT ![r] = NextStage(k)] /\ at' = at
    BY <1>3 DEF AcquireNow, Advance, Grant
  <2>3. \A w \in Worker : Holders(w)' \subseteq Holders(w)
    BY <1>b, <1>c, <2>1, <2>2 DEF Holders
  <2> QED
    BY <1>a, <1>b, <1>c, <2>3, SemaphoreFrame
<1>4. ASSUME NEW r \in Row, NEW k \in Limiter, AcquireWait(r, k) PROVE SemaphoreKept'
  <2>1. \A w \in Worker : Holders(w)' \subseteq Holders(w)
    BY <1>4, <1>b, <1>c DEF AcquireWait, Holders, Limiter
  <2> QED
    BY <1>a, <1>b, <1>c, <2>1, SemaphoreFrame
<1>5. ASSUME NEW r \in Row, NEW k \in Limiter, AcquireLarge(r, k) PROVE SemaphoreKept'
  <2>1. \A w \in Worker : Holders(w)' \subseteq Holders(w)
    BY <1>5, <1>b, <1>c DEF AcquireLarge, Holders, Limiter
  <2> QED
    BY <1>a, <1>b, <1>c, <2>1, SemaphoreFrame
<1>6. ASSUME NEW r \in Row, NEW k \in Limiter, WakeLarge(r, k) PROVE SemaphoreKept'
  <2>1. NextStage(k) \notin {"call", "running"} \/ ~Limited
    BY NextStageType
  <2>2. pc' = [pc EXCEPT ![r] = NextStage(k)] /\ at' = at
    BY <1>6 DEF WakeLarge, Advance, Grant
  <2>3. \A w \in Worker : Holders(w)' \subseteq Holders(w)
    BY <1>b, <1>c, <2>1, <2>2 DEF Holders
  <2> QED
    BY <1>a, <1>b, <1>c, <2>3, SemaphoreFrame
<1>7. ASSUME NEW r \in Row, StartScorer(r) PROVE SemaphoreKept'
  <2>1. \A w \in Worker : Holders(w)' \subseteq Holders(w)
    BY <1>7, <1>b, <1>c DEF StartScorer, Holders, Limiter
  <2> QED
    BY <1>a, <1>b, <1>c, <2>1, SemaphoreFrame
<1>8. ASSUME NEW r \in Row, ScorerReturns(r) PROVE SemaphoreKept'
  <2>1. \A w \in Worker : Holders(w)' \subseteq Holders(w)
    BY <1>8, <1>b, <1>c DEF ScorerReturns, Holders, Limiter, Answer
  <2> QED
    BY <1>a, <1>b, <1>c, <2>1, SemaphoreFrame
<1>9. ASSUME NEW r \in Row, ScorerRaises(r) PROVE SemaphoreKept'
  <2>1. \A w \in Worker : Holders(w)' \subseteq Holders(w)
    BY <1>9, <1>b, <1>c, <1>d DEF ScorerRaises, Holders, Limiter, Answer
  <2> QED
    BY <1>a, <1>b, <1>c, <2>1, SemaphoreFrame
<1>10. ASSUME NEW r \in Row, CallTimesOut(r) PROVE SemaphoreKept'
  <2>1. \A w \in Worker : Holders(w)' \subseteq Holders(w)
    BY <1>10, <1>b, <1>c DEF CallTimesOut, Holders, Limiter, Answer
  <2> QED
    BY <1>a, <1>b, <1>c, <2>1, SemaphoreFrame
<1>11. ASSUME NEW r \in Row, Post(r) PROVE SemaphoreKept'
  <2>1. \A w \in Worker : Holders(w)' \subseteq Holders(w)
    BY <1>11, <1>b, <1>c DEF Post, Holders, Limiter
  <2> QED
    BY <1>a, <1>b, <1>c, <2>1, SemaphoreFrame
<1>12. ASSUME NEW r \in Row, ServerAnswers(r) PROVE SemaphoreKept'
  <2>1. \A w \in Worker : Holders(w)' \subseteq Holders(w)
    BY <1>12, <1>b, <1>c DEF ServerAnswers, Holders, Limiter, Answer
  <2> QED
    BY <1>a, <1>b, <1>c, <2>1, SemaphoreFrame
<1>13. ASSUME NEW r \in Row, ServerUnreachable(r) PROVE SemaphoreKept'
  <2>1. \A w \in Worker : Holders(w)' \subseteq Holders(w)
    BY <1>13, <1>b, <1>c DEF ServerUnreachable, Holders, Limiter
  <2> QED
    BY <1>a, <1>b, <1>c, <2>1, SemaphoreFrame
<1>14. ASSUME NEW r \in Row, RouterRaises(r) PROVE SemaphoreKept'
  <2>1. \A w \in Worker : Holders(w)' \subseteq Holders(w)
    BY <1>14, <1>b, <1>c DEF RouterRaises, Holders, Limiter
  <2> QED
    BY <1>a, <1>b, <1>c, <2>1, SemaphoreFrame
<1>15. ASSUME NEW r \in Row, PutSession(r) PROVE SemaphoreKept'
  <2>1. \A w \in Worker : Holders(w)' \subseteq Holders(w)
    BY <1>15, <1>b, <1>c DEF PutSession, Holders, Limiter
  <2> QED
    BY <1>a, <1>b, <1>c, <2>1, SemaphoreFrame
<1>16. ASSUME NEW r \in Row, PutRaises(r) PROVE SemaphoreKept'
  <2>1. \A w \in Worker : Holders(w)' \subseteq Holders(w)
    BY <1>16, <1>b, <1>c DEF PutRaises, Holders, Limiter
  <2> QED
    BY <1>a, <1>b, <1>c, <2>1, SemaphoreFrame
<1>17. ASSUME NEW r \in Row, AbandonedEnds(r) PROVE SemaphoreKept'
  <2>1. \A w \in Worker : Holders(w)' \subseteq Holders(w)
    BY <1>17, <1>b, <1>c DEF AbandonedEnds, Holders, Limiter
  <2> QED
    BY <1>a, <1>b, <1>c, <2>1, SemaphoreFrame
<1>18. ASSUME NEW w \in Worker, EnterSemaphore(w) PROVE SemaphoreKept'
  <2> DEFINE h == Head(queue[w])
  <2>1. h \in Row /\ pc[h] = "sem" /\ at[h] = w
    BY <1>18, HeadQueued DEF EnterSemaphore, IInv
  <2>2. pc' = [pc EXCEPT ![h] = "call"] /\ at' = at /\ Free(w)
    BY <1>18 DEF EnterSemaphore
  <2> HIDE DEF h
  <2>3. ASSUME NEW v \in Worker PROVE Cardinality(Holders(v)') <= setup.max_concurrent
    <3>1. IsFiniteSet(Holders(v)) /\ Cardinality(Holders(v)) \in Nat
      BY <1>c, RowFinite, FS_Subset, FS_CardinalityType DEF Holders
    <3>2. Cardinality(Holders(v)) <= setup.max_concurrent /\ setup.max_concurrent \in Nat
      BY <1>c, SetupTypes DEF SemaphoreKept, Types
    <3>3. CASE v = w
      <4>1. Holders(v)' \subseteq Holders(v) \cup {h}
        BY <1>b, <1>c, <2>1, <2>2 DEF Holders
      <4>2. /\ Cardinality(Holders(v) \cup {h}) <= Cardinality(Holders(v)) + 1
            /\ IsFiniteSet(Holders(v) \cup {h}) /\ Cardinality(Holders(v) \cup {h}) \in Nat
        BY <3>1, OneMore
      <4>3. Cardinality(Holders(v)') <= Cardinality(Holders(v) \cup {h}) /\ Cardinality(Holders(v)') \in Nat
        BY <4>1, <4>2, FS_Subset, FS_CardinalityType
      <4>4. Cardinality(Holders(v)) < setup.max_concurrent
        BY <2>2, <3>3 DEF Free
      <4> QED
        BY <3>1, <3>2, <4>2, <4>3, <4>4
    <3>4. CASE v # w
      <4>1. Holders(v)' \subseteq Holders(v)
        BY <1>b, <1>c, <2>1, <2>2, <3>4 DEF Holders
      <4>2. Cardinality(Holders(v)') <= Cardinality(Holders(v)) /\ Cardinality(Holders(v)') \in Nat
        BY <3>1, <4>1, FS_Subset, FS_CardinalityType
      <4> QED
        BY <3>1, <3>2, <4>2
    <3> QED
      BY <3>3, <3>4
  <2> QED
    BY <1>a, <1>b, <2>3 DEF SemaphoreKept
<1>19. ASSUME Tick PROVE SemaphoreKept'
  <2>1. \A w \in Worker : Holders(w)' \subseteq Holders(w)
    BY <1>19, <1>b, <1>c DEF Tick, Holders, Limiter
  <2> QED
    BY <1>a, <1>b, <1>c, <2>1, SemaphoreFrame
<1>20. ASSUME Assemble PROVE SemaphoreKept'
  <2>1. \A w \in Worker : Holders(w)' \subseteq Holders(w)
    BY <1>20, <1>b, <1>c DEF Assemble, Holders, Limiter
  <2> QED
    BY <1>a, <1>b, <1>c, <2>1, SemaphoreFrame
<1>21. ASSUME AssembleRaises PROVE SemaphoreKept'
  <2>1. \A w \in Worker : Holders(w)' \subseteq Holders(w)
    BY <1>21, <1>b, <1>c DEF AssembleRaises, Holders, Limiter
  <2> QED
    BY <1>a, <1>b, <1>c, <2>1, SemaphoreFrame
<1>22. ASSUME UNCHANGED vars PROVE SemaphoreKept'
  <2>1. \A w \in Worker : Holders(w)' \subseteq Holders(w)
    BY <1>22, <1>b, <1>c DEF vars, Holders, Limiter
  <2> QED
    BY <1>a, <1>b, <1>c, <2>1, SemaphoreFrame
<1> QED
  BY <1>1, <1>2, <1>3, <1>4, <1>5, <1>6, <1>7, <1>8, <1>9, <1>10, <1>11, <1>12,
     <1>13, <1>14, <1>15, <1>16, <1>17, <1>18, <1>19, <1>20, <1>21, <1>22 DEF Next,
     RowStep, Acquire, Score, Ask, Done

LEMMA BusyFrame ==
  ASSUME Types, ThreadsKept, threads' \subseteq threads, \A r \in threads' : at'[r] = at[r]
  PROVE  \A w \in Worker : Cardinality(Busy(w)') <= PoolSize
<1> TAKE w \in Worker
<1>1. Busy(w)' \subseteq Busy(w)
  BY DEF Busy
<1>2. IsFiniteSet(Busy(w))
  <2>1. Busy(w) \subseteq Row
    BY DEF Busy, Types
  <2> QED
    BY <2>1, RowFinite, FS_Subset
<1>3. /\ Cardinality(Busy(w)') <= Cardinality(Busy(w))
      /\ Cardinality(Busy(w)') \in Nat /\ Cardinality(Busy(w)) \in Nat
  BY <1>1, <1>2, FS_Subset, FS_CardinalityType
<1>4. Cardinality(Busy(w)) <= PoolSize
  BY DEF ThreadsKept
<1> QED
  BY <1>3, <1>4, BoundTypes

LEMMA ThreadsStep ==
  ASSUME IInv, [Next]_vars
  PROVE  ThreadsKept'
<1>a. setup' = setup /\ shape' = shape
  BY SetupFixed
<1>b. Row' = Row /\ Worker' = Worker /\ Limited' = Limited
  BY <1>a, SameNames
<1>c. Types /\ ThreadsKept /\ pc \in [Row -> Pc] /\ at \in [Row -> 0..setup.workers] /\ threads \subseteq Row
      /\ result \in [Row -> [score : ScoreType, keys : SUBSET KeyName]]
  BY DEF IInv, Types
<1>d. Limited \in BOOLEAN
  BY DEF Limited
<1>e. \A q \in threads : /\ setup.sync
                         /\ pc[q] \in {"running", "done", "put", "raised"}
                         /\ pc[q] = "running" \/ "timeout" \in result[q].keys
  BY <1>c DEF ThreadsKept
<1>1. ASSUME NEW r \in Row, Send(r) PROVE ThreadsKept'
  <2>1. threads' \subseteq threads /\ \A q \in threads' : at'[q] = at[q]
    BY <1>1, <1>c, <1>e DEF Send
  <2>2. \A q \in threads' : pc'[q] \in {"running", "done", "put", "raised"}
    BY <1>1, <1>c, <1>e, <2>1 DEF Send, Limiter
  <2>3. \A q \in threads' : pc'[q] = "running" \/ "timeout" \in result'[q].keys
    BY <1>1, <1>c, <1>e, <2>1 DEF Send, Limiter
  <2> QED
    BY <1>a, <1>b, <1>c, <1>e, <2>1, <2>2, <2>3, BusyFrame DEF ThreadsKept
<1>2. ASSUME NEW r \in Row, Decode(r) PROVE ThreadsKept'
  <2>1. threads' \subseteq threads /\ \A q \in threads' : at'[q] = at[q]
    BY <1>2, <1>c, <1>e DEF Decode
  <2>2. \A q \in threads' : pc'[q] \in {"running", "done", "put", "raised"}
    BY <1>2, <1>c, <1>e, <2>1 DEF Decode, Limiter, Advance
  <2>3. \A q \in threads' : pc'[q] = "running" \/ "timeout" \in result'[q].keys
    BY <1>2, <1>c, <1>e, <2>1 DEF Decode, Limiter, Advance
  <2> QED
    BY <1>a, <1>b, <1>c, <1>e, <2>1, <2>2, <2>3, BusyFrame DEF ThreadsKept
<1>3. ASSUME NEW r \in Row, NEW k \in Limiter, AcquireNow(r, k) PROVE ThreadsKept'
  <2>1. threads' \subseteq threads /\ \A q \in threads' : at'[q] = at[q]
    BY <1>3, <1>c, <1>e DEF AcquireNow
  <2>2. \A q \in threads' : pc'[q] \in {"running", "done", "put", "raised"}
    BY <1>3, <1>c, <1>e, <2>1 DEF AcquireNow, Limiter, Grant, Advance
  <2>3. \A q \in threads' : pc'[q] = "running" \/ "timeout" \in result'[q].keys
    BY <1>3, <1>c, <1>e, <2>1 DEF AcquireNow, Limiter, Grant, Advance
  <2> QED
    BY <1>a, <1>b, <1>c, <1>e, <2>1, <2>2, <2>3, BusyFrame DEF ThreadsKept
<1>4. ASSUME NEW r \in Row, NEW k \in Limiter, AcquireWait(r, k) PROVE ThreadsKept'
  <2>1. threads' \subseteq threads /\ \A q \in threads' : at'[q] = at[q]
    BY <1>4, <1>c, <1>e DEF AcquireWait
  <2>2. \A q \in threads' : pc'[q] \in {"running", "done", "put", "raised"}
    BY <1>4, <1>c, <1>e, <2>1 DEF AcquireWait, Limiter
  <2>3. \A q \in threads' : pc'[q] = "running" \/ "timeout" \in result'[q].keys
    BY <1>4, <1>c, <1>e, <2>1 DEF AcquireWait, Limiter
  <2> QED
    BY <1>a, <1>b, <1>c, <1>e, <2>1, <2>2, <2>3, BusyFrame DEF ThreadsKept
<1>5. ASSUME NEW r \in Row, NEW k \in Limiter, AcquireLarge(r, k) PROVE ThreadsKept'
  <2>1. threads' \subseteq threads /\ \A q \in threads' : at'[q] = at[q]
    BY <1>5, <1>c, <1>e DEF AcquireLarge
  <2>2. \A q \in threads' : pc'[q] \in {"running", "done", "put", "raised"}
    BY <1>5, <1>c, <1>e, <2>1 DEF AcquireLarge, Limiter
  <2>3. \A q \in threads' : pc'[q] = "running" \/ "timeout" \in result'[q].keys
    BY <1>5, <1>c, <1>e, <2>1 DEF AcquireLarge, Limiter
  <2> QED
    BY <1>a, <1>b, <1>c, <1>e, <2>1, <2>2, <2>3, BusyFrame DEF ThreadsKept
<1>6. ASSUME NEW r \in Row, NEW k \in Limiter, WakeLarge(r, k) PROVE ThreadsKept'
  <2>1. threads' \subseteq threads /\ \A q \in threads' : at'[q] = at[q]
    BY <1>6, <1>c, <1>e DEF WakeLarge
  <2>2. \A q \in threads' : pc'[q] \in {"running", "done", "put", "raised"}
    BY <1>6, <1>c, <1>e, <2>1 DEF WakeLarge, Limiter, Grant, Advance
  <2>3. \A q \in threads' : pc'[q] = "running" \/ "timeout" \in result'[q].keys
    BY <1>6, <1>c, <1>e, <2>1 DEF WakeLarge, Limiter, Grant, Advance
  <2> QED
    BY <1>a, <1>b, <1>c, <1>e, <2>1, <2>2, <2>3, BusyFrame DEF ThreadsKept
<1>7. ASSUME NEW r \in Row, StartScorer(r) PROVE ThreadsKept'
  <2>1. \A w \in Worker : Cardinality(Busy(w)') <= PoolSize
    <3>1. CASE ~setup.sync
      <4>1. threads' = threads /\ at' = at
        BY <1>7, <3>1 DEF StartScorer
      <4> QED
        BY <1>c, <4>1, BusyFrame
    <3>2. CASE setup.sync
      <4>1. threads' = threads \cup {r} /\ at' = at /\ ThreadFree(at[r])
        BY <1>7, <3>2 DEF StartScorer
      <4> TAKE w \in Worker
      <4>2. Busy(w) \subseteq Row
        BY <1>c DEF Busy
      <4>3. IsFiniteSet(Busy(w)) /\ Cardinality(Busy(w)) \in Nat
        BY <1>c, <4>2, RowFinite, FS_Subset, FS_CardinalityType
      <4>4. CASE w = at[r]
        <5>1. Busy(w)' = Busy(w) \cup {r}
          BY <4>1, <4>4 DEF Busy
        <5>2. Cardinality(Busy(w) \cup {r}) <= Cardinality(Busy(w)) + 1
              /\ Cardinality(Busy(w) \cup {r}) \in Nat
          BY <4>3, OneMore
        <5>3. Cardinality(Busy(w)) < PoolSize
          BY <4>1, <4>4 DEF ThreadFree
        <5> QED
          BY <4>3, <5>1, <5>2, <5>3, BoundTypes
      <4>5. CASE w # at[r]
        <5>1. Busy(w)' = Busy(w)
          BY <4>1, <4>5 DEF Busy
        <5> QED
          BY <5>1, <1>c DEF ThreadsKept
      <4> QED
        BY <4>4, <4>5
    <3> QED
      BY <3>1, <3>2
  <2>2. \A q \in threads' : setup.sync
    BY <1>7, <1>e DEF StartScorer
  <2>3. pc' = [pc EXCEPT ![r] = "running"] /\ threads' \subseteq threads \cup {r} /\ result' = result
    BY <1>7 DEF StartScorer
  <2>4. \A q \in threads' : pc'[q] \in {"running", "done", "put", "raised"}
    BY <1>c, <1>e, <2>3
  <2>5. \A q \in threads' : pc'[q] = "running" \/ "timeout" \in result'[q].keys
    BY <1>c, <1>e, <2>3
  <2> QED
    BY <1>a, <1>b, <2>1, <2>2, <2>4, <2>5 DEF ThreadsKept
<1>8. ASSUME NEW r \in Row, ScorerReturns(r) PROVE ThreadsKept'
  <2>1. threads' \subseteq threads /\ \A q \in threads' : at'[q] = at[q]
    BY <1>8, <1>c, <1>e DEF ScorerReturns
  <2>2. \A q \in threads' : pc'[q] \in {"running", "done", "put", "raised"}
    BY <1>8, <1>c, <1>e, <2>1 DEF ScorerReturns, Limiter, Answer
  <2>3. \A q \in threads' : pc'[q] = "running" \/ "timeout" \in result'[q].keys
    BY <1>8, <1>c, <1>e, <2>1 DEF ScorerReturns, Limiter, Answer
  <2> QED
    BY <1>a, <1>b, <1>c, <1>e, <2>1, <2>2, <2>3, BusyFrame DEF ThreadsKept
<1>9. ASSUME NEW r \in Row, ScorerRaises(r) PROVE ThreadsKept'
  <2>1. threads' \subseteq threads /\ \A q \in threads' : at'[q] = at[q]
    BY <1>9, <1>c, <1>e DEF ScorerRaises
  <2>2. \A q \in threads' : pc'[q] \in {"running", "done", "put", "raised"}
    BY <1>9, <1>c, <1>e, <2>1, <1>d DEF ScorerRaises, Limiter, Answer
  <2>3. \A q \in threads' : pc'[q] = "running" \/ "timeout" \in result'[q].keys
    BY <1>9, <1>c, <1>e, <2>1, <1>d DEF ScorerRaises, Limiter, Answer
  <2> QED
    BY <1>a, <1>b, <1>c, <1>e, <2>1, <2>2, <2>3, BusyFrame DEF ThreadsKept
<1>10. ASSUME NEW r \in Row, CallTimesOut(r) PROVE ThreadsKept'
  <2>1. threads' \subseteq threads /\ \A q \in threads' : at'[q] = at[q]
    BY <1>10, <1>c, <1>e DEF CallTimesOut
  <2>2. \A q \in threads' : pc'[q] \in {"running", "done", "put", "raised"}
    BY <1>10, <1>c, <1>e, <2>1 DEF CallTimesOut, Limiter, Answer
  <2>3. \A q \in threads' : pc'[q] = "running" \/ "timeout" \in result'[q].keys
    BY <1>10, <1>c, <1>e, <2>1 DEF CallTimesOut, Limiter, Answer
  <2> QED
    BY <1>a, <1>b, <1>c, <1>e, <2>1, <2>2, <2>3, BusyFrame DEF ThreadsKept
<1>11. ASSUME NEW r \in Row, Post(r) PROVE ThreadsKept'
  <2>1. threads' \subseteq threads /\ \A q \in threads' : at'[q] = at[q]
    BY <1>11, <1>c, <1>e DEF Post
  <2>2. \A q \in threads' : pc'[q] \in {"running", "done", "put", "raised"}
    BY <1>11, <1>c, <1>e, <2>1 DEF Post, Limiter
  <2>3. \A q \in threads' : pc'[q] = "running" \/ "timeout" \in result'[q].keys
    BY <1>11, <1>c, <1>e, <2>1 DEF Post, Limiter
  <2> QED
    BY <1>a, <1>b, <1>c, <1>e, <2>1, <2>2, <2>3, BusyFrame DEF ThreadsKept
<1>12. ASSUME NEW r \in Row, ServerAnswers(r) PROVE ThreadsKept'
  <2>1. threads' \subseteq threads /\ \A q \in threads' : at'[q] = at[q]
    BY <1>12, <1>c, <1>e DEF ServerAnswers
  <2>2. \A q \in threads' : pc'[q] \in {"running", "done", "put", "raised"}
    BY <1>12, <1>c, <1>e, <2>1 DEF ServerAnswers, Limiter, Answer
  <2>3. \A q \in threads' : pc'[q] = "running" \/ "timeout" \in result'[q].keys
    BY <1>12, <1>c, <1>e, <2>1 DEF ServerAnswers, Limiter, Answer
  <2> QED
    BY <1>a, <1>b, <1>c, <1>e, <2>1, <2>2, <2>3, BusyFrame DEF ThreadsKept
<1>13. ASSUME NEW r \in Row, ServerUnreachable(r) PROVE ThreadsKept'
  <2>1. threads' \subseteq threads /\ \A q \in threads' : at'[q] = at[q]
    BY <1>13, <1>c, <1>e DEF ServerUnreachable
  <2>2. \A q \in threads' : pc'[q] \in {"running", "done", "put", "raised"}
    BY <1>13, <1>c, <1>e, <2>1 DEF ServerUnreachable, Limiter
  <2>3. \A q \in threads' : pc'[q] = "running" \/ "timeout" \in result'[q].keys
    BY <1>13, <1>c, <1>e, <2>1 DEF ServerUnreachable, Limiter
  <2> QED
    BY <1>a, <1>b, <1>c, <1>e, <2>1, <2>2, <2>3, BusyFrame DEF ThreadsKept
<1>14. ASSUME NEW r \in Row, RouterRaises(r) PROVE ThreadsKept'
  <2>1. threads' \subseteq threads /\ \A q \in threads' : at'[q] = at[q]
    BY <1>14, <1>c, <1>e DEF RouterRaises
  <2>2. \A q \in threads' : pc'[q] \in {"running", "done", "put", "raised"}
    BY <1>14, <1>c, <1>e, <2>1 DEF RouterRaises, Limiter
  <2>3. \A q \in threads' : pc'[q] = "running" \/ "timeout" \in result'[q].keys
    BY <1>14, <1>c, <1>e, <2>1 DEF RouterRaises, Limiter
  <2> QED
    BY <1>a, <1>b, <1>c, <1>e, <2>1, <2>2, <2>3, BusyFrame DEF ThreadsKept
<1>15. ASSUME NEW r \in Row, PutSession(r) PROVE ThreadsKept'
  <2>1. threads' \subseteq threads /\ \A q \in threads' : at'[q] = at[q]
    BY <1>15, <1>c, <1>e DEF PutSession
  <2>2. \A q \in threads' : pc'[q] \in {"running", "done", "put", "raised"}
    BY <1>15, <1>c, <1>e, <2>1 DEF PutSession, Limiter
  <2>3. \A q \in threads' : pc'[q] = "running" \/ "timeout" \in result'[q].keys
    BY <1>15, <1>c, <1>e, <2>1 DEF PutSession, Limiter
  <2> QED
    BY <1>a, <1>b, <1>c, <1>e, <2>1, <2>2, <2>3, BusyFrame DEF ThreadsKept
<1>16. ASSUME NEW r \in Row, PutRaises(r) PROVE ThreadsKept'
  <2>1. threads' \subseteq threads /\ \A q \in threads' : at'[q] = at[q]
    BY <1>16, <1>c, <1>e DEF PutRaises
  <2>2. \A q \in threads' : pc'[q] \in {"running", "done", "put", "raised"}
    BY <1>16, <1>c, <1>e, <2>1 DEF PutRaises, Limiter
  <2>3. \A q \in threads' : pc'[q] = "running" \/ "timeout" \in result'[q].keys
    BY <1>16, <1>c, <1>e, <2>1 DEF PutRaises, Limiter
  <2> QED
    BY <1>a, <1>b, <1>c, <1>e, <2>1, <2>2, <2>3, BusyFrame DEF ThreadsKept
<1>17. ASSUME NEW r \in Row, AbandonedEnds(r) PROVE ThreadsKept'
  <2>1. threads' \subseteq threads /\ \A q \in threads' : at'[q] = at[q]
    BY <1>17, <1>c, <1>e DEF AbandonedEnds
  <2>2. \A q \in threads' : pc'[q] \in {"running", "done", "put", "raised"}
    BY <1>17, <1>c, <1>e, <2>1 DEF AbandonedEnds, Limiter
  <2>3. \A q \in threads' : pc'[q] = "running" \/ "timeout" \in result'[q].keys
    BY <1>17, <1>c, <1>e, <2>1 DEF AbandonedEnds, Limiter
  <2> QED
    BY <1>a, <1>b, <1>c, <1>e, <2>1, <2>2, <2>3, BusyFrame DEF ThreadsKept
<1>18. ASSUME NEW w \in Worker, EnterSemaphore(w) PROVE ThreadsKept'
  <2>0. pc[Head(queue[w])] = "sem" /\ Head(queue[w]) \in Row
    BY <1>18, HeadQueued DEF EnterSemaphore, IInv
  <2>1. threads' \subseteq threads /\ \A q \in threads' : at'[q] = at[q]
    BY <1>18, <1>c, <1>e DEF EnterSemaphore
  <2>2. \A q \in threads' : pc'[q] \in {"running", "done", "put", "raised"}
    BY <1>18, <1>c, <1>e, <2>1, <2>0 DEF EnterSemaphore, Limiter
  <2>3. \A q \in threads' : pc'[q] = "running" \/ "timeout" \in result'[q].keys
    BY <1>18, <1>c, <1>e, <2>1, <2>0 DEF EnterSemaphore, Limiter
  <2> QED
    BY <1>a, <1>b, <1>c, <1>e, <2>1, <2>2, <2>3, BusyFrame DEF ThreadsKept
<1>19. ASSUME Tick PROVE ThreadsKept'
  <2>1. threads' \subseteq threads /\ \A q \in threads' : at'[q] = at[q]
    BY <1>19, <1>c, <1>e DEF Tick
  <2>2. \A q \in threads' : pc'[q] \in {"running", "done", "put", "raised"}
    BY <1>19, <1>c, <1>e, <2>1 DEF Tick, Limiter
  <2>3. \A q \in threads' : pc'[q] = "running" \/ "timeout" \in result'[q].keys
    BY <1>19, <1>c, <1>e, <2>1 DEF Tick, Limiter
  <2> QED
    BY <1>a, <1>b, <1>c, <1>e, <2>1, <2>2, <2>3, BusyFrame DEF ThreadsKept
<1>20. ASSUME Assemble PROVE ThreadsKept'
  <2>1. threads' \subseteq threads /\ \A q \in threads' : at'[q] = at[q]
    BY <1>20, <1>c, <1>e DEF Assemble
  <2>2. \A q \in threads' : pc'[q] \in {"running", "done", "put", "raised"}
    BY <1>20, <1>c, <1>e, <2>1 DEF Assemble, Limiter
  <2>3. \A q \in threads' : pc'[q] = "running" \/ "timeout" \in result'[q].keys
    BY <1>20, <1>c, <1>e, <2>1 DEF Assemble, Limiter
  <2> QED
    BY <1>a, <1>b, <1>c, <1>e, <2>1, <2>2, <2>3, BusyFrame DEF ThreadsKept
<1>21. ASSUME AssembleRaises PROVE ThreadsKept'
  <2>1. threads' \subseteq threads /\ \A q \in threads' : at'[q] = at[q]
    BY <1>21, <1>c, <1>e DEF AssembleRaises
  <2>2. \A q \in threads' : pc'[q] \in {"running", "done", "put", "raised"}
    BY <1>21, <1>c, <1>e, <2>1 DEF AssembleRaises, Limiter
  <2>3. \A q \in threads' : pc'[q] = "running" \/ "timeout" \in result'[q].keys
    BY <1>21, <1>c, <1>e, <2>1 DEF AssembleRaises, Limiter
  <2> QED
    BY <1>a, <1>b, <1>c, <1>e, <2>1, <2>2, <2>3, BusyFrame DEF ThreadsKept
<1>22. ASSUME UNCHANGED vars PROVE ThreadsKept'
  <2>1. threads' \subseteq threads /\ \A q \in threads' : at'[q] = at[q]
    BY <1>22, <1>c, <1>e DEF vars
  <2>2. \A q \in threads' : pc'[q] \in {"running", "done", "put", "raised"}
    BY <1>22, <1>c, <1>e, <2>1 DEF vars, Limiter
  <2>3. \A q \in threads' : pc'[q] = "running" \/ "timeout" \in result'[q].keys
    BY <1>22, <1>c, <1>e, <2>1 DEF vars, Limiter
  <2> QED
    BY <1>a, <1>b, <1>c, <1>e, <2>1, <2>2, <2>3, BusyFrame DEF ThreadsKept
<1> QED
  BY <1>1, <1>2, <1>3, <1>4, <1>5, <1>6, <1>7, <1>8, <1>9, <1>10, <1>11, <1>12,
     <1>13, <1>14, <1>15, <1>16, <1>17, <1>18, <1>19, <1>20, <1>21, <1>22 DEF Next,
     RowStep, Acquire, Score, Ask, Done

-----------------------------------------------------------------------------
(* The router and the reward model's servers. *)

\* The three parts of Routed.
Attempts ==
    \A r \in Row : /\ pc[r] = "forward" => server[r] \in Server
                   /\ attempt[r][1] <= max_retries /\ attempt[r][2] < max_attempts
                   /\ pc[r] \in {"new", "post", "forward"} => attempt[r][1] < max_retries
StaysAwake ==
    /\ Standalone => awake
    /\ Disrm /\ setup.mode = "batch" /\ (\E r \in Row : pc[r] \in {"post", "forward"}) => awake

LEMMA RoutedParts == Routed <=> Attempts /\ RouterCounts /\ StaysAwake
BY DEF Routed, Attempts, StaysAwake

LEMMA RouterFrame ==
  ASSUME Types, RouterCounts, counts' = counts,
         \A s \in Server : InFlight(s)' \subseteq InFlight(s)
  PROVE  RouterCounts'
<1>1. ASSUME NEW s \in Server PROVE counts[s] >= Cardinality(InFlight(s)')
  <2>1. IsFiniteSet(InFlight(s))
    BY RowFinite, FS_Subset DEF InFlight
  <2>2. /\ Cardinality(InFlight(s)') <= Cardinality(InFlight(s))
        /\ Cardinality(InFlight(s)') \in Nat /\ Cardinality(InFlight(s)) \in Nat
    BY <2>1, FS_Subset, FS_CardinalityType
  <2>3. counts[s] >= Cardinality(InFlight(s)) /\ counts[s] \in Nat
    BY DEF RouterCounts, Types
  <2> QED
    BY <2>2, <2>3
<1> QED
  BY <1>1 DEF RouterCounts

LEMMA RoutedStep ==
  ASSUME IInv, [Next]_vars
  PROVE  Routed'
<1>a. setup' = setup /\ shape' = shape
  BY SetupFixed
<1>b. Row' = Row /\ Worker' = Worker /\ Limited' = Limited /\ Disrm' = Disrm
      /\ Standalone' = Standalone
  BY <1>a, SameNames
<1>c. Types /\ pc \in [Row -> Pc] /\ attempt \in [Row -> Nat \X Nat] /\ server \in [Row -> 0..2]
  BY DEF IInv, Types
<1>d. Limited \in BOOLEAN
  BY DEF Limited
<1>e. Attempts /\ RouterCounts /\ StaysAwake
  BY RoutedParts DEF IInv
<1>f. ASSUME Attempts', RouterCounts', StaysAwake' PROVE Routed'
  BY <1>f DEF Routed, Attempts, StaysAwake
<1>1. ASSUME NEW r \in Row, Send(r) PROVE Routed'
  <2>1. Attempts'
    BY <1>1, <1>b, <1>c, <1>e DEF Send, Attempts, Limiter, net, WokenUp
  <2>2. RouterCounts'
    <3>1. \A s \in Server : InFlight(s)' \subseteq InFlight(s)
      BY <1>1, <1>b, <1>c DEF Send, InFlight, Limiter, net, WokenUp
    <3>2. counts' = counts
      BY <1>1 DEF Send, net
    <3> QED
      BY <1>c, <1>e, <3>1, <3>2, RouterFrame
  <2>3. StaysAwake'
    BY <1>1, <1>a, <1>b, <1>c, <1>e DEF Send, StaysAwake, Limiter, final, WokenUp
  <2> QED
    BY <1>f, <2>1, <2>2, <2>3
<1>2. ASSUME NEW r \in Row, Decode(r) PROVE Routed'
  <2>0. pc' = [pc EXCEPT ![r] = NextStage("decode")] /\ NextStage("decode") \notin {"new", "post", "forward"}
    BY <1>2, NextStageType DEF Decode, Advance
  <2>1. Attempts'
    BY <1>2, <2>0, <1>b, <1>c, <1>e DEF Decode, Attempts, Limiter, net
  <2>2. RouterCounts'
    <3>1. \A s \in Server : InFlight(s)' \subseteq InFlight(s)
      BY <1>2, <2>0, <1>b, <1>c DEF Decode, InFlight, Limiter, net
    <3>2. counts' = counts
      BY <1>2 DEF Decode, net
    <3> QED
      BY <1>c, <1>e, <3>1, <3>2, RouterFrame
  <2>3. StaysAwake'
    BY <1>2, <2>0, <1>a, <1>b, <1>c, <1>e DEF Decode, StaysAwake, Limiter, final
  <2> QED
    BY <1>f, <2>1, <2>2, <2>3
<1>3. ASSUME NEW r \in Row, NEW k \in Limiter, AcquireNow(r, k) PROVE Routed'
  <2>0. pc' = [pc EXCEPT ![r] = NextStage(k)] /\ NextStage(k) \notin {"new", "post", "forward"}
    BY <1>3, NextStageType DEF AcquireNow, Advance, Grant
  <2>1. Attempts'
    BY <1>3, <2>0, <1>b, <1>c, <1>e DEF AcquireNow, Attempts, Limiter, net
  <2>2. RouterCounts'
    <3>1. \A s \in Server : InFlight(s)' \subseteq InFlight(s)
      BY <1>3, <2>0, <1>b, <1>c DEF AcquireNow, InFlight, Limiter, net
    <3>2. counts' = counts
      BY <1>3 DEF AcquireNow, net
    <3> QED
      BY <1>c, <1>e, <3>1, <3>2, RouterFrame
  <2>3. StaysAwake'
    BY <1>3, <2>0, <1>a, <1>b, <1>c, <1>e DEF AcquireNow, StaysAwake, Limiter, final
  <2> QED
    BY <1>f, <2>1, <2>2, <2>3
<1>4. ASSUME NEW r \in Row, NEW k \in Limiter, AcquireWait(r, k) PROVE Routed'
  <2>1. Attempts'
    BY <1>4, <1>b, <1>c, <1>e DEF AcquireWait, Attempts, Limiter, net
  <2>2. RouterCounts'
    <3>1. \A s \in Server : InFlight(s)' \subseteq InFlight(s)
      BY <1>4, <1>b, <1>c DEF AcquireWait, InFlight, Limiter, net
    <3>2. counts' = counts
      BY <1>4 DEF AcquireWait, net
    <3> QED
      BY <1>c, <1>e, <3>1, <3>2, RouterFrame
  <2>3. StaysAwake'
    BY <1>4, <1>a, <1>b, <1>c, <1>e DEF AcquireWait, StaysAwake, Limiter, final
  <2> QED
    BY <1>f, <2>1, <2>2, <2>3
<1>5. ASSUME NEW r \in Row, NEW k \in Limiter, AcquireLarge(r, k) PROVE Routed'
  <2>1. Attempts'
    BY <1>5, <1>b, <1>c, <1>e DEF AcquireLarge, Attempts, Limiter, net
  <2>2. RouterCounts'
    <3>1. \A s \in Server : InFlight(s)' \subseteq InFlight(s)
      BY <1>5, <1>b, <1>c DEF AcquireLarge, InFlight, Limiter, net
    <3>2. counts' = counts
      BY <1>5 DEF AcquireLarge, net
    <3> QED
      BY <1>c, <1>e, <3>1, <3>2, RouterFrame
  <2>3. StaysAwake'
    BY <1>5, <1>a, <1>b, <1>c, <1>e DEF AcquireLarge, StaysAwake, Limiter, final
  <2> QED
    BY <1>f, <2>1, <2>2, <2>3
<1>6. ASSUME NEW r \in Row, NEW k \in Limiter, WakeLarge(r, k) PROVE Routed'
  <2>0. pc' = [pc EXCEPT ![r] = NextStage(k)] /\ NextStage(k) \notin {"new", "post", "forward"}
    BY <1>6, NextStageType DEF WakeLarge, Advance, Grant
  <2>1. Attempts'
    BY <1>6, <2>0, <1>b, <1>c, <1>e DEF WakeLarge, Attempts, Limiter, net
  <2>2. RouterCounts'
    <3>1. \A s \in Server : InFlight(s)' \subseteq InFlight(s)
      BY <1>6, <2>0, <1>b, <1>c DEF WakeLarge, InFlight, Limiter, net
    <3>2. counts' = counts
      BY <1>6 DEF WakeLarge, net
    <3> QED
      BY <1>c, <1>e, <3>1, <3>2, RouterFrame
  <2>3. StaysAwake'
    BY <1>6, <2>0, <1>a, <1>b, <1>c, <1>e DEF WakeLarge, StaysAwake, Limiter, final
  <2> QED
    BY <1>f, <2>1, <2>2, <2>3
<1>7. ASSUME NEW r \in Row, StartScorer(r) PROVE Routed'
  <2>1. Attempts'
    BY <1>7, <1>b, <1>c, <1>e DEF StartScorer, Attempts, Limiter, net
  <2>2. RouterCounts'
    <3>1. \A s \in Server : InFlight(s)' \subseteq InFlight(s)
      BY <1>7, <1>b, <1>c DEF StartScorer, InFlight, Limiter, net
    <3>2. counts' = counts
      BY <1>7 DEF StartScorer, net
    <3> QED
      BY <1>c, <1>e, <3>1, <3>2, RouterFrame
  <2>3. StaysAwake'
    BY <1>7, <1>a, <1>b, <1>c, <1>e DEF StartScorer, StaysAwake, Limiter, final
  <2> QED
    BY <1>f, <2>1, <2>2, <2>3
<1>8. ASSUME NEW r \in Row, ScorerReturns(r) PROVE Routed'
  <2>1. Attempts'
    BY <1>8, <1>b, <1>c, <1>e DEF ScorerReturns, Attempts, Limiter, net, Answer
  <2>2. RouterCounts'
    <3>1. \A s \in Server : InFlight(s)' \subseteq InFlight(s)
      BY <1>8, <1>b, <1>c DEF ScorerReturns, InFlight, Limiter, net, Answer
    <3>2. counts' = counts
      BY <1>8 DEF ScorerReturns, net
    <3> QED
      BY <1>c, <1>e, <3>1, <3>2, RouterFrame
  <2>3. StaysAwake'
    BY <1>8, <1>a, <1>b, <1>c, <1>e DEF ScorerReturns, StaysAwake, Limiter, final, Answer
  <2> QED
    BY <1>f, <2>1, <2>2, <2>3
<1>9. ASSUME NEW r \in Row, ScorerRaises(r) PROVE Routed'
  <2>0. pc' = [pc EXCEPT ![r] = IF Limited THEN "done" ELSE "raised"]
    BY <1>9, <1>d DEF ScorerRaises, Answer
  <2>1. Attempts'
    BY <1>9, <2>0, <1>b, <1>c, <1>e DEF ScorerRaises, Attempts, Limiter, net
  <2>2. RouterCounts'
    <3>1. \A s \in Server : InFlight(s)' \subseteq InFlight(s)
      BY <1>9, <2>0, <1>b, <1>c DEF ScorerRaises, InFlight, Limiter, net
    <3>2. counts' = counts
      BY <1>9 DEF ScorerRaises, net
    <3> QED
      BY <1>c, <1>e, <3>1, <3>2, RouterFrame
  <2>3. StaysAwake'
    BY <1>9, <2>0, <1>a, <1>b, <1>c, <1>e DEF ScorerRaises, StaysAwake, Limiter, final
  <2> QED
    BY <1>f, <2>1, <2>2, <2>3
<1>10. ASSUME NEW r \in Row, CallTimesOut(r) PROVE Routed'
  <2>1. Attempts'
    BY <1>10, <1>b, <1>c, <1>e DEF CallTimesOut, Attempts, Limiter, net, Answer
  <2>2. RouterCounts'
    <3>1. \A s \in Server : InFlight(s)' \subseteq InFlight(s)
      BY <1>10, <1>b, <1>c DEF CallTimesOut, InFlight, Limiter, net, Answer
    <3>2. counts' = counts
      BY <1>10 DEF CallTimesOut, net
    <3> QED
      BY <1>c, <1>e, <3>1, <3>2, RouterFrame
  <2>3. StaysAwake'
    BY <1>10, <1>a, <1>b, <1>c, <1>e DEF CallTimesOut, StaysAwake, Limiter, final, Answer
  <2> QED
    BY <1>f, <2>1, <2>2, <2>3
<1>11. ASSUME NEW r \in Row, Post(r) PROVE Routed'
  <2>0. LeastLoaded \in Server
    BY <1>c, ChosenServer
  <2> DEFINE s0 == LeastLoaded
  <2>a. /\ server' = [server EXCEPT ![r] = s0] /\ counts' = [counts EXCEPT ![s0] = @ + 1]
        /\ attempt' = [attempt EXCEPT ![r][2] = 0] /\ pc' = [pc EXCEPT ![r] = "forward"]
        /\ pc[r] = "post" /\ awake' = awake
    BY <1>11 DEF Post, final
  <2> HIDE DEF s0
  <2>b. attempt' = [attempt EXCEPT ![r] = <<attempt[r][1], 0>>]
    <3>1. [attempt[r] EXCEPT ![2] = 0] = <<attempt[r][1], 0>>
      BY <1>c, PairExcept
    <3> QED
      BY <2>a, <3>1
  <2>1. Attempts'
    BY <1>b, <1>c, <1>e, <2>0, <2>a, <2>b, BoundTypes DEF Attempts, s0
  <2>2. RouterCounts'
    <3>a. ASSUME NEW s \in Server PROVE counts'[s] >= Cardinality(InFlight(s)')
      <4>1. InFlight(s) \subseteq Row /\ counts \in [Server -> Nat]
        BY <1>c DEF InFlight, Types
      <4>2. IsFiniteSet(InFlight(s)) /\ Cardinality(InFlight(s)) \in Nat
        BY <1>c, <4>1, RowFinite, FS_Subset, FS_CardinalityType
      <4>3. counts[s] >= Cardinality(InFlight(s))
        BY <1>e DEF RouterCounts
      <4>4. CASE s = s0
        <5>1. InFlight(s)' \subseteq InFlight(s) \cup {r}
          BY <1>b, <1>c, <2>a DEF InFlight
        <5>2. /\ Cardinality(InFlight(s) \cup {r}) <= Cardinality(InFlight(s)) + 1
              /\ IsFiniteSet(InFlight(s) \cup {r}) /\ Cardinality(InFlight(s) \cup {r}) \in Nat
          BY <4>2, OneMore
        <5>3. Cardinality(InFlight(s)') <= Cardinality(InFlight(s) \cup {r}) /\ Cardinality(InFlight(s)') \in Nat
          BY <5>1, <5>2, FS_Subset, FS_CardinalityType
        <5>4. counts'[s] = counts[s] + 1 /\ counts[s] \in Nat
          BY <2>a, <4>1, <4>4
        <5> QED
          BY <4>2, <4>3, <5>2, <5>3, <5>4
      <4>5. CASE s # s0
        <5>1. InFlight(s)' \subseteq InFlight(s)
          BY <1>b, <1>c, <2>a, <4>5 DEF InFlight
        <5>2. Cardinality(InFlight(s)') <= Cardinality(InFlight(s)) /\ Cardinality(InFlight(s)') \in Nat
          BY <4>2, <5>1, FS_Subset, FS_CardinalityType
        <5>3. counts'[s] = counts[s] /\ counts[s] \in Nat
          BY <2>a, <4>1, <4>5
        <5> QED
          BY <4>2, <4>3, <5>2, <5>3
      <4> QED
        BY <4>4, <4>5
    <3> QED
      BY <3>a DEF RouterCounts
  <2>3. StaysAwake'
    BY <1>a, <1>b, <1>c, <1>e, <2>a DEF StaysAwake
  <2> QED
    BY <1>f, <2>1, <2>2, <2>3
<1>12. ASSUME NEW r \in Row, ServerAnswers(r) PROVE Routed'
  <2>a. /\ server' = [server EXCEPT ![r] = Nowhere] /\ counts' = Release(server[r])
        /\ attempt' = attempt /\ pc[r] = "forward" /\ awake' = awake
    BY <1>12 DEF ServerAnswers, final
  <2>b. pc' = [pc EXCEPT ![r] = IF setup.mode = "batch" THEN "done" ELSE "raised"]
    BY <1>12 DEF ServerAnswers, Answer
  <2>1. Attempts'
    BY <1>b, <1>c, <1>e, <2>a, <2>b DEF Attempts
  <2>2. RouterCounts'
    <3>a. ASSUME NEW s \in Server PROVE counts'[s] >= Cardinality(InFlight(s)')
      <4>1. InFlight(s) \subseteq Row /\ counts \in [Server -> Nat]
        BY <1>c DEF InFlight, Types
      <4>2. IsFiniteSet(InFlight(s)) /\ Cardinality(InFlight(s)) \in Nat
        BY <1>c, <4>1, RowFinite, FS_Subset, FS_CardinalityType
      <4>3. counts[s] >= Cardinality(InFlight(s)) /\ counts[s] \in Nat
        BY <1>e, <4>1 DEF RouterCounts
      <4>4. CASE s = server[r]
        <5>1. InFlight(s)' \subseteq InFlight(s) \ {r} /\ r \in InFlight(s)
          BY <1>b, <1>c, <2>a, <2>b, <4>4 DEF InFlight
        <5>2. /\ Cardinality(InFlight(s) \ {r}) = Cardinality(InFlight(s)) - 1
              /\ IsFiniteSet(InFlight(s) \ {r})
          BY <4>2, <5>1, FS_RemoveElement
        <5>3. Cardinality(InFlight(s)') <= Cardinality(InFlight(s) \ {r}) /\ Cardinality(InFlight(s)') \in Nat
          BY <5>1, <5>2, FS_Subset, FS_CardinalityType
        <5>4. counts'[s] = Max({0, counts[s] - 1})
          BY <2>a, <4>1, <4>4 DEF Release
        <5>5. Max({0, counts[s] - 1}) \in Int /\ Max({0, counts[s] - 1}) >= counts[s] - 1
          <6> DEFINE x == counts[s] - 1
          <6>1. x \in Int /\ 0 \in Int
            BY <4>3
          <6> HIDE DEF x
          <6>2. Max({0, x}) \in Int /\ Max({0, x}) >= x
            BY <6>1, MaxPair
          <6> QED
            BY <6>2 DEF x
        <5> QED
          BY <4>2, <4>3, <5>2, <5>3, <5>4, <5>5
      <4>5. CASE s # server[r]
        <5>1. InFlight(s)' \subseteq InFlight(s)
          BY <1>b, <1>c, <2>a, <2>b, <4>5 DEF InFlight
        <5>2. Cardinality(InFlight(s)') <= Cardinality(InFlight(s)) /\ Cardinality(InFlight(s)') \in Nat
          BY <4>2, <5>1, FS_Subset, FS_CardinalityType
        <5>3. counts'[s] = counts[s]
          BY <2>a, <4>1, <4>5 DEF Release
        <5> QED
          BY <4>2, <4>3, <5>2, <5>3
      <4> QED
        BY <4>4, <4>5
    <3> QED
      BY <3>a DEF RouterCounts
  <2>3. StaysAwake'
    BY <1>a, <1>b, <1>c, <1>e, <2>a, <2>b DEF StaysAwake
  <2> QED
    BY <1>f, <2>1, <2>2, <2>3
<1>13. ASSUME NEW r \in Row, ServerUnreachable(r) PROVE Routed'
  <2>a. /\ attempt' = [attempt EXCEPT ![r][2] = @ + 1] /\ attempt[r][2] + 1 < max_attempts
        /\ counts' = counts /\ pc' = pc /\ server' = server /\ awake' = awake
    BY <1>13 DEF ServerUnreachable, final, Kept
  <2>b. attempt' = [attempt EXCEPT ![r] = <<attempt[r][1], attempt[r][2] + 1>>]
    <3>1. [attempt[r] EXCEPT ![2] = attempt[r][2] + 1] = <<attempt[r][1], attempt[r][2] + 1>>
      BY <1>c, PairExcept
    <3> QED
      BY <2>a, <3>1
  <2>1. Attempts'
    BY <1>b, <1>c, <1>e, <2>a, <2>b, BoundTypes DEF Attempts
  <2>2. RouterCounts'
    <3>1. \A s \in Server : InFlight(s)' \subseteq InFlight(s)
      BY <1>b, <2>a DEF InFlight
    <3> QED
      BY <1>c, <1>e, <2>a, <3>1, RouterFrame
  <2>3. StaysAwake'
    BY <1>a, <1>b, <1>e, <2>a DEF StaysAwake
  <2> QED
    BY <1>f, <2>1, <2>2, <2>3
<1>14. ASSUME NEW r \in Row, RouterRaises(r) PROVE Routed'
  <2>a. /\ attempt' = [attempt EXCEPT ![r][1] = @ + 1] /\ pc[r] = "forward"
        /\ counts' = counts /\ server' = [server EXCEPT ![r] = Nowhere] /\ awake' = awake
        /\ pc' = [pc EXCEPT ![r] = IF attempt[r][1] + 1 < max_retries THEN "post" ELSE "raised"]
    BY <1>14 DEF RouterRaises, final
  <2>b. attempt' = [attempt EXCEPT ![r] = <<attempt[r][1] + 1, attempt[r][2]>>]
    <3>1. [attempt[r] EXCEPT ![1] = attempt[r][1] + 1] = <<attempt[r][1] + 1, attempt[r][2]>>
      BY <1>c, PairExcept
    <3> QED
      BY <2>a, <3>1
  <2>1. Attempts'
    BY <1>b, <1>c, <1>e, <2>a, <2>b, BoundTypes DEF Attempts
  <2>2. RouterCounts'
    <3>1. \A s \in Server : InFlight(s)' \subseteq InFlight(s)
      BY <1>b, <1>c, <2>a DEF InFlight
    <3> QED
      BY <1>c, <1>e, <2>a, <3>1, RouterFrame
  <2>3. StaysAwake'
    BY <1>a, <1>b, <1>c, <1>e, <2>a DEF StaysAwake
  <2> QED
    BY <1>f, <2>1, <2>2, <2>3
<1>15. ASSUME NEW r \in Row, PutSession(r) PROVE Routed'
  <2>1. Attempts'
    BY <1>15, <1>b, <1>c, <1>e DEF PutSession, Attempts, Limiter, net
  <2>2. RouterCounts'
    <3>1. \A s \in Server : InFlight(s)' \subseteq InFlight(s)
      BY <1>15, <1>b, <1>c DEF PutSession, InFlight, Limiter, net
    <3>2. counts' = counts
      BY <1>15 DEF PutSession, net
    <3> QED
      BY <1>c, <1>e, <3>1, <3>2, RouterFrame
  <2>3. StaysAwake'
    BY <1>15, <1>a, <1>b, <1>c, <1>e DEF PutSession, StaysAwake, Limiter, final
  <2> QED
    BY <1>f, <2>1, <2>2, <2>3
<1>16. ASSUME NEW r \in Row, PutRaises(r) PROVE Routed'
  <2>1. Attempts'
    BY <1>16, <1>b, <1>c, <1>e DEF PutRaises, Attempts, Limiter, net
  <2>2. RouterCounts'
    <3>1. \A s \in Server : InFlight(s)' \subseteq InFlight(s)
      BY <1>16, <1>b, <1>c DEF PutRaises, InFlight, Limiter, net
    <3>2. counts' = counts
      BY <1>16 DEF PutRaises, net
    <3> QED
      BY <1>c, <1>e, <3>1, <3>2, RouterFrame
  <2>3. StaysAwake'
    BY <1>16, <1>a, <1>b, <1>c, <1>e DEF PutRaises, StaysAwake, Limiter, final
  <2> QED
    BY <1>f, <2>1, <2>2, <2>3
<1>17. ASSUME NEW r \in Row, AbandonedEnds(r) PROVE Routed'
  <2>1. Attempts'
    BY <1>17, <1>b, <1>c, <1>e DEF AbandonedEnds, Attempts, Limiter, net
  <2>2. RouterCounts'
    <3>1. \A s \in Server : InFlight(s)' \subseteq InFlight(s)
      BY <1>17, <1>b, <1>c DEF AbandonedEnds, InFlight, Limiter, net
    <3>2. counts' = counts
      BY <1>17 DEF AbandonedEnds, net
    <3> QED
      BY <1>c, <1>e, <3>1, <3>2, RouterFrame
  <2>3. StaysAwake'
    BY <1>17, <1>a, <1>b, <1>c, <1>e DEF AbandonedEnds, StaysAwake, Limiter, final
  <2> QED
    BY <1>f, <2>1, <2>2, <2>3
<1>18. ASSUME NEW w \in Worker, EnterSemaphore(w) PROVE Routed'
  <2>0. pc[Head(queue[w])] = "sem" /\ Head(queue[w]) \in Row
    BY <1>18, HeadQueued DEF EnterSemaphore, IInv
  <2>1. Attempts'
    BY <1>18, <2>0, <1>b, <1>c, <1>e DEF EnterSemaphore, Attempts, Limiter, net
  <2>2. RouterCounts'
    <3>1. \A s \in Server : InFlight(s)' \subseteq InFlight(s)
      BY <1>18, <2>0, <1>b, <1>c DEF EnterSemaphore, InFlight, Limiter, net
    <3>2. counts' = counts
      BY <1>18 DEF EnterSemaphore, net
    <3> QED
      BY <1>c, <1>e, <3>1, <3>2, RouterFrame
  <2>3. StaysAwake'
    BY <1>18, <2>0, <1>a, <1>b, <1>c, <1>e DEF EnterSemaphore, StaysAwake, Limiter, final
  <2> QED
    BY <1>f, <2>1, <2>2, <2>3
<1>19. ASSUME Tick PROVE Routed'
  <2>1. Attempts'
    BY <1>19, <1>b, <1>c, <1>e DEF Tick, Attempts, Limiter, net
  <2>2. RouterCounts'
    <3>1. \A s \in Server : InFlight(s)' \subseteq InFlight(s)
      BY <1>19, <1>b, <1>c DEF Tick, InFlight, Limiter, net
    <3>2. counts' = counts
      BY <1>19 DEF Tick, net
    <3> QED
      BY <1>c, <1>e, <3>1, <3>2, RouterFrame
  <2>3. StaysAwake'
    BY <1>19, <1>a, <1>b, <1>c, <1>e DEF Tick, StaysAwake, Limiter, final
  <2> QED
    BY <1>f, <2>1, <2>2, <2>3
<1>20. ASSUME Assemble PROVE Routed'
  <2>1. Attempts'
    BY <1>20, <1>b, <1>c, <1>e DEF Assemble, Attempts, Limiter, net, AllDone
  <2>2. RouterCounts'
    <3>1. \A s \in Server : InFlight(s)' \subseteq InFlight(s)
      BY <1>20, <1>b, <1>c DEF Assemble, InFlight, Limiter, net, AllDone
    <3>2. counts' = counts
      BY <1>20 DEF Assemble, net
    <3> QED
      BY <1>c, <1>e, <3>1, <3>2, RouterFrame
  <2>3. StaysAwake'
    BY <1>20, <1>a, <1>b, <1>c, <1>e DEF Assemble, StaysAwake, Limiter, final, AllDone
  <2> QED
    BY <1>f, <2>1, <2>2, <2>3
<1>21. ASSUME AssembleRaises PROVE Routed'
  <2>1. Attempts'
    BY <1>21, <1>b, <1>c, <1>e DEF AssembleRaises, Attempts, Limiter, net
  <2>2. RouterCounts'
    <3>1. \A s \in Server : InFlight(s)' \subseteq InFlight(s)
      BY <1>21, <1>b, <1>c DEF AssembleRaises, InFlight, Limiter, net
    <3>2. counts' = counts
      BY <1>21 DEF AssembleRaises, net
    <3> QED
      BY <1>c, <1>e, <3>1, <3>2, RouterFrame
  <2>3. StaysAwake'
    BY <1>21, <1>a, <1>b, <1>c, <1>e DEF AssembleRaises, StaysAwake, Limiter, final
  <2> QED
    BY <1>f, <2>1, <2>2, <2>3
<1>22. ASSUME UNCHANGED vars PROVE Routed'
  <2>1. Attempts'
    BY <1>22, <1>b, <1>c, <1>e DEF vars, Attempts, Limiter, net
  <2>2. RouterCounts'
    <3>1. \A s \in Server : InFlight(s)' \subseteq InFlight(s)
      BY <1>22, <1>b, <1>c DEF vars, InFlight, Limiter, net
    <3>2. counts' = counts
      BY <1>22 DEF vars, net
    <3> QED
      BY <1>c, <1>e, <3>1, <3>2, RouterFrame
  <2>3. StaysAwake'
    BY <1>22, <1>a, <1>b, <1>c, <1>e DEF vars, StaysAwake, Limiter, final
  <2> QED
    BY <1>f, <2>1, <2>2, <2>3
<1> QED
  BY <1>1, <1>2, <1>3, <1>4, <1>5, <1>6, <1>7, <1>8, <1>9, <1>10, <1>11, <1>12,
     <1>13, <1>14, <1>15, <1>16, <1>17, <1>18, <1>19, <1>20, <1>21, <1>22 DEF Next,
     RowStep, Acquire, Score, Ask, Done

-----------------------------------------------------------------------------
(* Every step keeps the rates. *)

LEMMA SameWakes ==
  ASSUME NEW c \in Nat, NEW S, NEW wk, NEW wk2, \A q \in S : wk2[q] = wk[q],
         NEW t, NEW u, NEW g, NEW f, NEW nw, LimitKept(c, S, wk, t, u, g, f, nw)
  PROVE  LimitKept(c, S, wk2, t, u, g, f, nw)
<1>1. \A q \in S : Turn(S, wk2, q) = Turn(S, wk, q)
  BY DEF Turn
<1>2. ASSUME SmallLimit(c, S, wk, t, u, g, f, nw) PROVE SmallLimit(c, S, wk2, t, u, g, f, nw)
  BY <1>2 DEF SmallLimit
<1>3. ASSUME LargeLimit(c, S, wk, t, u, g, f, nw) PROVE LargeLimit(c, S, wk2, t, u, g, f, nw)
  BY <1>1, <1>3 DEF LargeLimit
<1> QED
  BY <1>2, <1>3 DEF LimitKept

LEMMA SleepersFinite ==
  ASSUME Types, NEW w, NEW k
  PROVE  /\ IsFiniteSet(Sleepers(w, k)) /\ Sleepers(w, k) \subseteq Row
         /\ \A q \in Sleepers(w, k) : wake[q] \in Int
         /\ IsFiniteSet(Beyond(w, k)) /\ Beyond(w, k) \subseteq Row
         /\ Cardinality(Beyond(w, k)) \in Nat
<1>1. Sleepers(w, k) \subseteq Row /\ Beyond(w, k) \subseteq Row
  BY DEF Sleepers, Beyond
<1>2. wake \in [Row -> Int]
  BY DEF Types
<1> QED
  BY <1>1, <1>2, RowFinite, FS_Subset, FS_CardinalityType

\* The sessions past a limiter, after a step that leaves none of them behind.
LEMMA BeyondGrows ==
  ASSUME Types, Row' = Row, NEW w, NEW k, Beyond(w, k) \subseteq Beyond(w, k)'
  PROVE  /\ IsFiniteSet(Beyond(w, k)') /\ Cardinality(Beyond(w, k)') \in Nat
         /\ Cardinality(Beyond(w, k)) <= Cardinality(Beyond(w, k)')
<1>1. Beyond(w, k)' \subseteq Row
  BY DEF Beyond
<1>2. IsFiniteSet(Beyond(w, k)')
  BY <1>1, RowFinite, FS_Subset
<1> QED
  BY <1>2, FS_Subset, FS_CardinalityType

LEMMA LimiterTypes ==
  ASSUME Types, NEW w \in Worker, NEW k \in Limiter
  PROVE  /\ bucket[w][k].tokens \in Int /\ bucket[w][k].last_update \in Int
         /\ granted[w][k] \in Nat /\ first[w][k] \in Int /\ now \in Nat
         /\ Cost(k) \in Nat
BY CostType DEF Types

\* A step that neither uses this limiter nor moves one of its sleepers.
LEMMA LimitFrame ==
  ASSUME Types, setup' = setup, now' = now, NEW w \in Worker, NEW k \in Limiter, LimitAt(w, k),
         bucket'[w][k] = bucket[w][k], granted'[w][k] = granted[w][k],
         first'[w][k] = first[w][k], Sleepers(w, k)' = Sleepers(w, k),
         \A q \in Sleepers(w, k) : wake'[q] = wake[q], Beyond(w, k) \subseteq Beyond(w, k)'
  PROVE  LimitAt(w, k)'
<1>1. Row' = Row /\ Cost(k)' = Cost(k)
  BY SameNames
<1>2. LimitKept(Cost(k), Sleepers(w, k), wake', bucket[w][k].tokens, bucket[w][k].last_update,
                granted[w][k], first[w][k], now)
  BY LimiterTypes, SameWakes DEF LimitAt
<1>3. granted[w][k] <= Cardinality(Beyond(w, k)')
  <2>1. granted[w][k] <= Cardinality(Beyond(w, k)) /\ granted[w][k] \in Nat
    BY LimiterTypes DEF LimitAt
  <2> QED
    BY <1>1, <2>1, BeyondGrows, SleepersFinite
<1> QED
  BY <1>1, <1>2, <1>3 DEF LimitAt

LEMMA LimitsFrame ==
  ASSUME Types, LimitsKept, setup' = setup, now' = now, limits' = limits, wake' = wake,
         \A w \in Worker, k \in Limiter : /\ Sleepers(w, k)' = Sleepers(w, k)
                                          /\ Beyond(w, k) \subseteq Beyond(w, k)'
  PROVE  LimitsKept'
<1>1. Worker' = Worker
  BY SameNames
<1>2. ASSUME NEW w \in Worker, NEW k \in Limiter PROVE LimitAt(w, k)'
  BY LimitFrame DEF LimitsKept, limits
<1> QED
  BY <1>1, <1>2 DEF LimitsKept

LEMMA PastNext ==
  ASSUME NEW k \in Limiter
  PROVE  NextStage(k) \in Past(k) /\ NextStage(k) # k
BY DEF NextStage, Past, Limiter

\* A limiter used by session r leaves all the others as they are.
LEMMA OtherLimit ==
  ASSUME Types, setup' = setup, now' = now, NEW r \in Row, NEW k \in Limiter, pc[r] = k,
         at' = at, NEW x, pc' = [pc EXCEPT ![r] = x], NEW y, wake' = [wake EXCEPT ![r] = y],
         x = k \/ (x \in Past(k) /\ y = Awake),
         NEW w \in Worker, NEW j \in Limiter, w # at[r] \/ j # k, LimitAt(w, j),
         bucket'[w][j] = bucket[w][j], granted'[w][j] = granted[w][j],
         first'[w][j] = first[w][j]
  PROVE  LimitAt(w, j)'
<1>0. Row' = Row /\ pc \in [Row -> Pc] /\ wake \in [Row -> Int]
  BY SameNames DEF Types
<1>1. Sleepers(w, j)' = Sleepers(w, j)
  <2>1. ASSUME NEW q \in Row
        PROVE  (at'[q] = w /\ pc'[q] = j /\ wake'[q] # Awake) <=> (at[q] = w /\ pc[q] = j /\ wake[q] # Awake)
    <3>1. CASE q = r
      BY <1>0, <3>1 DEF Limiter, Past
    <3>2. CASE q # r
      BY <1>0, <3>2
    <3> QED
      BY <3>1, <3>2
  <2> QED
    BY <1>0, <2>1 DEF Sleepers
<1>2. r \notin Sleepers(w, j)
  BY DEF Sleepers
<1>3. \A q \in Sleepers(w, j) : wake'[q] = wake[q]
  BY <1>0, <1>2 DEF Sleepers
<1>4. Beyond(w, j) \subseteq Beyond(w, j)'
  <2>1. ASSUME NEW q \in Row, at[q] = w, pc[q] \in Past(j) PROVE at'[q] = w /\ pc'[q] \in Past(j)
    <3>1. CASE q = r
      BY <1>0, <2>1, <3>1 DEF Limiter, Past
    <3>2. CASE q # r
      BY <1>0, <2>1, <3>2
    <3> QED
      BY <3>1, <3>2
  <2> QED
    BY <1>0, <2>1 DEF Beyond
<1> QED
  BY <1>1, <1>3, <1>4, LimitFrame

\* One more request is let through: its session is past the limiter now.
LEMMA OneMoreGranted ==
  ASSUME Types, setup' = setup, NEW r \in Row, NEW k \in Limiter, pc[r] = k, at' = at,
         at[r] \in Worker, LimitAt(at[r], k), pc' = [pc EXCEPT ![r] = NextStage(k)]
  PROVE  granted[at[r]][k] + 1 <= Cardinality(Beyond(at[r], k)')
<1> DEFINE w == at[r]
<1>0. Row' = Row /\ pc \in [Row -> Pc]
  BY SameNames DEF Types
<1>1. NextStage(k) \in Past(k) /\ k \notin Past(k)
  BY PastNext DEF Past, Limiter
<1>2. r \notin Beyond(w, k) /\ Beyond(w, k) \cup {r} \subseteq Beyond(w, k)'
  BY <1>0, <1>1 DEF Beyond
<1>3. IsFiniteSet(Beyond(w, k)') /\ Cardinality(Beyond(w, k)') \in Nat
  BY <1>0, <1>2, BeyondGrows
<1>4. IsFiniteSet(Beyond(w, k)) /\ Cardinality(Beyond(w, k)) \in Nat
  BY SleepersFinite
<1>5. Cardinality(Beyond(w, k) \cup {r}) = Cardinality(Beyond(w, k)) + 1
  BY <1>2, <1>4, FS_AddElement
<1>6. Cardinality(Beyond(w, k) \cup {r}) <= Cardinality(Beyond(w, k)')
  BY <1>2, <1>3, FS_Subset
<1>7. granted[w][k] <= Cardinality(Beyond(w, k)) /\ granted[w][k] \in Nat
  BY LimiterTypes DEF LimitAt
<1> QED
  BY <1>3, <1>4, <1>5, <1>6, <1>7

LEMMA LimitsStep ==
  ASSUME IInv, [Next]_vars
  PROVE  LimitsKept'
<1>a. setup' = setup /\ shape' = shape
  BY SetupFixed
<1>b. Row' = Row /\ Worker' = Worker /\ Limited' = Limited /\ Cost("rpm")' = Cost("rpm") /\ Cost("tpm")' = Cost("tpm")
  BY <1>a, SameNames
<1>c. Types /\ Placed /\ LimitsKept /\ pc \in [Row -> Pc] /\ wake \in [Row -> Int] /\ at \in [Row -> 0..setup.workers]
  BY DEF IInv, Types
<1>d. Limited \in BOOLEAN
  BY DEF Limited
<1>1. ASSUME NEW r \in Row, Send(r) PROVE LimitsKept'
  <2>1. \A w \in Worker, k \in Limiter : Sleepers(w, k)' = Sleepers(w, k)
    BY <1>1, <1>b, <1>c DEF Send, Sleepers, Placed, Limiter
  <2>2. \A w \in Worker, k \in Limiter : Beyond(w, k) \subseteq Beyond(w, k)'
    BY <1>1, <1>b, <1>c DEF Send, Beyond, Past, Limiter
  <2>3. now' = now /\ limits' = limits /\ wake' = wake
    BY <1>1 DEF Send, limits
  <2> QED
    BY <1>a, <1>c, <2>1, <2>2, <2>3, LimitsFrame
<1>2. ASSUME NEW r \in Row, Decode(r) PROVE LimitsKept'
  <2>0. pc' = [pc EXCEPT ![r] = NextStage("decode")] /\ NextStage("decode") \in {"rpm", "tpm", "sem", "call"}
    BY <1>2, NextStageType DEF Decode, Advance
  <2>1. \A w \in Worker, k \in Limiter : Sleepers(w, k)' = Sleepers(w, k)
    BY <1>2, <2>0, <1>b, <1>c DEF Decode, Sleepers, Placed, Limiter
  <2>2. \A w \in Worker, k \in Limiter : Beyond(w, k) \subseteq Beyond(w, k)'
    BY <1>2, <2>0, <1>b, <1>c DEF Decode, Beyond, Past, Limiter
  <2>3. now' = now /\ limits' = limits /\ wake' = wake
    BY <1>2 DEF Decode, limits
  <2> QED
    BY <1>a, <1>c, <2>1, <2>2, <2>3, LimitsFrame
<1>3. ASSUME NEW r \in Row, NEW k \in Limiter, AcquireNow(r, k) PROVE LimitsKept'
  <2>0. PICK v \in Worker : v = at[r] /\ pc[r] = k
    BY <1>3, <1>c DEF AcquireNow, Placed, Limiter
  <2> DEFINE b == bucket[v][k]
             R == Refilled(b)
             c == Cost(k)
  <2>1. /\ b.tokens \in Int /\ b.last_update \in Int /\ granted[v][k] \in Nat
        /\ first[v][k] \in Int /\ now \in Nat /\ c \in Nat
    BY <1>c, <2>0, LimiterTypes
  <2>2. IsRefill(R, b.tokens, b.last_update, now) /\ R \in Int
    BY <1>c, <2>0, RefillType
  <2>2a. pc = [pc EXCEPT ![r] = k]
    BY <1>c, <2>0
  <2>3. /\ at' = at /\ now' = now /\ pc' = [pc EXCEPT ![r] = NextStage(k)]
        /\ wake' = [wake EXCEPT ![r] = Awake]
        /\ bucket' = [bucket EXCEPT ![v][k] = [tokens |-> R - c, last_update |-> now]]
        /\ granted' = [granted EXCEPT ![v][k] = @ + 1]
        /\ first' = [first EXCEPT ![v][k] = FirstUse(@, now)]
        /\ ~(c > Second) /\ R >= c
    BY <1>3, <2>0, <2>2a DEF AcquireNow, Grant, Started, Advance, Set, WaitTime, Large, FirstUse, limits
  <2>3a. bucket \in [Worker -> [Limiter -> [tokens : Int, last_update : Int]]]
         /\ granted \in [Worker -> [Limiter -> Nat]] /\ first \in [Worker -> [Limiter -> Int]]
    BY <1>c DEF Types
  <2>4. Cost(k)' = Cost(k)
    BY <1>b DEF Limiter
  <2>5. \A q \in Sleepers(v, k) : wake[q] \in Int
    BY <1>c, SleepersFinite
  <2>6. IsFiniteSet(Sleepers(v, k))
    BY <1>c, SleepersFinite
  <2>7. LimitAt(v, k)
    BY <1>c, <2>0 DEF LimitsKept
  <2>8. LimitKept(c, Sleepers(v, k), wake, b.tokens, b.last_update, granted[v][k], first[v][k], now)
    BY <2>7 DEF LimitAt
  <2>13. Sleepers(v, k) \ {r} \subseteq Sleepers(v, k) /\ \A q \in Sleepers(v, k) \ {r} : wake'[q] = wake[q]
    BY <1>c, <2>3 DEF Sleepers
  <2>14. c <= Second
    BY <2>1, <2>3, SecondType
  <2>9. Sleepers(v, k)' = Sleepers(v, k) \ {r}
    BY <1>b, <1>c, <2>0, <2>3, PastNext DEF Sleepers
  <2>10. LimitKept(c, Sleepers(v, k) \ {r}, wake', R - c, now, granted[v][k] + 1, FirstUse(first[v][k], now), now)
    <3> HIDE DEF R, c, b
    <3> QED
      BY <2>1, <2>2, <2>3, <2>5, <2>8, <2>13, <2>14, SmallGranted
  <2>11. /\ bucket'[v][k].tokens = R - c /\ bucket'[v][k].last_update = now
         /\ granted'[v][k] = granted[v][k] + 1 /\ first'[v][k] = FirstUse(first[v][k], now)
    <3> HIDE DEF R, c
    <3> QED
      BY <2>0, <2>2, <2>3, <2>3a DEF b
  <2>12. granted[v][k] + 1 <= Cardinality(Beyond(v, k)')
    BY <1>a, <1>c, <2>0, <2>3, <2>7, OneMoreGranted
  <2>19. LimitAt(v, k)'
    <3> HIDE DEF R, c, b
    <3>1. LimitKept(c, Sleepers(v, k)', wake', bucket'[v][k].tokens, bucket'[v][k].last_update, granted'[v][k], first'[v][k], now')
      BY <2>3, <2>9, <2>10, <2>11
    <3> QED
      BY <2>4, <2>11, <2>12, <3>1 DEF LimitAt, c
  <2>20. ASSUME NEW w \in Worker, NEW j \in Limiter, w # v \/ j # k PROVE LimitAt(w, j)'
    <3>1. LimitAt(w, j)
      BY <1>c DEF LimitsKept
    <3>2. /\ bucket'[w][j] = bucket[w][j] /\ granted'[w][j] = granted[w][j]
          /\ first'[w][j] = first[w][j]
      <4> HIDE DEF b, R, c
      <4> QED
        BY <2>0, <2>3, <2>3a, <2>20
    <3>3. NextStage(k) = k \/ (NextStage(k) \in Past(k) /\ Awake = Awake)
      BY PastNext
    <3> HIDE DEF R, c, b
    <3> QED
      BY <1>a, <1>c, <2>0, <2>3, <2>20, <3>1, <3>2, <3>3, OtherLimit
  <2> QED
    BY <1>b, <2>19, <2>20 DEF LimitsKept
<1>4. ASSUME NEW r \in Row, NEW k \in Limiter, AcquireWait(r, k) PROVE LimitsKept'
  <2>0. PICK v \in Worker : v = at[r] /\ pc[r] = k
    BY <1>4, <1>c DEF AcquireWait, Placed, Limiter
  <2> DEFINE b == bucket[v][k]
             R == Refilled(b)
             c == Cost(k)
  <2>1. /\ b.tokens \in Int /\ b.last_update \in Int /\ granted[v][k] \in Nat
        /\ first[v][k] \in Int /\ now \in Nat /\ c \in Nat
    BY <1>c, <2>0, LimiterTypes
  <2>2. IsRefill(R, b.tokens, b.last_update, now) /\ R \in Int
    BY <1>c, <2>0, RefillType
  <2>2a. pc = [pc EXCEPT ![r] = k]
    BY <1>c, <2>0
  <2>3. /\ at' = at /\ now' = now /\ pc' = [pc EXCEPT ![r] = k]
        /\ wake' = [wake EXCEPT ![r] = now + (c - R)]
        /\ bucket' = [bucket EXCEPT ![v][k] = [tokens |-> R, last_update |-> now]]
        /\ granted' = granted
        /\ first' = [first EXCEPT ![v][k] = FirstUse(@, now)]
        /\ ~(c > Second) /\ R < c
    BY <1>4, <2>0, <2>2a DEF AcquireWait, Grant, Started, Advance, Set, WaitTime, Large, FirstUse, limits
  <2>3a. bucket \in [Worker -> [Limiter -> [tokens : Int, last_update : Int]]]
         /\ granted \in [Worker -> [Limiter -> Nat]] /\ first \in [Worker -> [Limiter -> Int]]
    BY <1>c DEF Types
  <2>4. Cost(k)' = Cost(k)
    BY <1>b DEF Limiter
  <2>5. \A q \in Sleepers(v, k) : wake[q] \in Int
    BY <1>c, SleepersFinite
  <2>6. IsFiniteSet(Sleepers(v, k))
    BY <1>c, SleepersFinite
  <2>7. LimitAt(v, k)
    BY <1>c, <2>0 DEF LimitsKept
  <2>8. LimitKept(c, Sleepers(v, k), wake, b.tokens, b.last_update, granted[v][k], first[v][k], now)
    BY <2>7 DEF LimitAt
  <2>13. Sleepers(v, k) \ {r} \subseteq Sleepers(v, k) /\ \A q \in Sleepers(v, k) \ {r} : wake'[q] = wake[q]
    BY <1>c, <2>3 DEF Sleepers
  <2>14. c <= Second
    BY <2>1, <2>3, SecondType
  <2>15. wake'[r] = now + (c - R) /\ now + (c - R) # Awake
    <3> HIDE DEF R, c, b
    <3> QED
      BY <1>c, <2>1, <2>2, <2>3 DEF Awake
  <2>9. Sleepers(v, k)' = Sleepers(v, k) \cup {r}
    <3> HIDE DEF R, c, b
    <3> QED
      BY <1>b, <1>c, <2>0, <2>3, <2>15 DEF Sleepers
  <2>10. LimitKept(c, Sleepers(v, k) \cup {r}, wake', R, now, granted[v][k], FirstUse(first[v][k], now), now)
    <3> HIDE DEF R, c, b
    <3> QED
      BY <2>1, <2>2, <2>3, <2>5, <2>8, <2>13, <2>14, <2>15, SmallWaits
  <2>11. /\ bucket'[v][k].tokens = R /\ bucket'[v][k].last_update = now
         /\ granted'[v][k] = granted[v][k] /\ first'[v][k] = FirstUse(first[v][k], now)
    <3> HIDE DEF R, c
    <3> QED
      BY <2>0, <2>2, <2>3, <2>3a DEF b
  <2>12. granted[v][k] <= Cardinality(Beyond(v, k)')
    <3>1. Beyond(v, k) \subseteq Beyond(v, k)'
      BY <1>b, <1>c, <2>0, <2>3 DEF Beyond
    <3>2. granted[v][k] <= Cardinality(Beyond(v, k))
      BY <2>7 DEF LimitAt
    <3> QED
      BY <1>b, <1>c, <2>1, <3>1, <3>2, BeyondGrows, SleepersFinite
  <2>19. LimitAt(v, k)'
    <3> HIDE DEF R, c, b
    <3>1. LimitKept(c, Sleepers(v, k)', wake', bucket'[v][k].tokens, bucket'[v][k].last_update, granted'[v][k], first'[v][k], now')
      BY <2>3, <2>9, <2>10, <2>11
    <3> QED
      BY <2>4, <2>11, <2>12, <3>1 DEF LimitAt, c
  <2>20. ASSUME NEW w \in Worker, NEW j \in Limiter, w # v \/ j # k PROVE LimitAt(w, j)'
    <3>1. LimitAt(w, j)
      BY <1>c DEF LimitsKept
    <3>2. /\ bucket'[w][j] = bucket[w][j] /\ granted'[w][j] = granted[w][j]
          /\ first'[w][j] = first[w][j]
      <4> HIDE DEF b, R, c
      <4> QED
        BY <2>0, <2>3, <2>3a, <2>20
    <3>3. k = k \/ (k \in Past(k) /\ now + (c - R) = Awake)
      BY PastNext
    <3> HIDE DEF R, c, b
    <3> QED
      BY <1>a, <1>c, <2>0, <2>3, <2>20, <3>1, <3>2, <3>3, OtherLimit
  <2> QED
    BY <1>b, <2>19, <2>20 DEF LimitsKept
<1>5. ASSUME NEW r \in Row, NEW k \in Limiter, AcquireLarge(r, k) PROVE LimitsKept'
  <2>0. PICK v \in Worker : v = at[r] /\ pc[r] = k
    BY <1>5, <1>c DEF AcquireLarge, Placed, Limiter
  <2> DEFINE b == bucket[v][k]
             R == Refilled(b)
             c == Cost(k)
  <2>1. /\ b.tokens \in Int /\ b.last_update \in Int /\ granted[v][k] \in Nat
        /\ first[v][k] \in Int /\ now \in Nat /\ c \in Nat
    BY <1>c, <2>0, LimiterTypes
  <2>2. IsRefill(R, b.tokens, b.last_update, now) /\ R \in Int
    BY <1>c, <2>0, RefillType
  <2>2a. pc = [pc EXCEPT ![r] = k]
    BY <1>c, <2>0
  <2>3. /\ at' = at /\ now' = now /\ pc' = [pc EXCEPT ![r] = k]
        /\ wake' = [wake EXCEPT ![r] = now + (c - R)]
        /\ bucket' = [bucket EXCEPT ![v][k] = [tokens |-> R - c, last_update |-> now]]
        /\ granted' = granted
        /\ first' = [first EXCEPT ![v][k] = FirstUse(@, now)]
        /\ c > Second /\ wake[r] = Awake
    BY <1>5, <2>0, <2>2a DEF AcquireLarge, Grant, Started, Advance, Set, WaitTime, Large, FirstUse, limits
  <2>3a. bucket \in [Worker -> [Limiter -> [tokens : Int, last_update : Int]]]
         /\ granted \in [Worker -> [Limiter -> Nat]] /\ first \in [Worker -> [Limiter -> Int]]
    BY <1>c DEF Types
  <2>4. Cost(k)' = Cost(k)
    BY <1>b DEF Limiter
  <2>5. \A q \in Sleepers(v, k) : wake[q] \in Int
    BY <1>c, SleepersFinite
  <2>6. IsFiniteSet(Sleepers(v, k))
    BY <1>c, SleepersFinite
  <2>7. LimitAt(v, k)
    BY <1>c, <2>0 DEF LimitsKept
  <2>8. LimitKept(c, Sleepers(v, k), wake, b.tokens, b.last_update, granted[v][k], first[v][k], now)
    BY <2>7 DEF LimitAt
  <2>13. Sleepers(v, k) \ {r} \subseteq Sleepers(v, k) /\ \A q \in Sleepers(v, k) \ {r} : wake'[q] = wake[q]
    BY <1>c, <2>3 DEF Sleepers
  <2>15. wake'[r] = now + (c - R) /\ now + (c - R) # Awake
    <3>1. R <= Second
      BY <2>2 DEF IsRefill
    <3> HIDE DEF R, c, b
    <3> QED
      BY <1>c, <2>1, <2>2, <2>3, <3>1, SecondType DEF Awake
  <2>16. r \notin Sleepers(v, k) /\ \A q \in Sleepers(v, k) : wake'[q] = wake[q]
    BY <1>c, <2>3 DEF Sleepers
  <2>9. Sleepers(v, k)' = Sleepers(v, k) \cup {r}
    <3> HIDE DEF R, c, b
    <3> QED
      BY <1>b, <1>c, <2>0, <2>3, <2>15 DEF Sleepers
  <2>10. LimitKept(c, Sleepers(v, k) \cup {r}, wake', R - c, now, granted[v][k], FirstUse(first[v][k], now), now)
    <3> HIDE DEF R, c, b
    <3> QED
      BY <2>1, <2>2, <2>3, <2>5, <2>6, <2>8, <2>15, <2>16, LargePays
  <2>11. /\ bucket'[v][k].tokens = R - c /\ bucket'[v][k].last_update = now
         /\ granted'[v][k] = granted[v][k] /\ first'[v][k] = FirstUse(first[v][k], now)
    <3> HIDE DEF R, c
    <3> QED
      BY <2>0, <2>2, <2>3, <2>3a DEF b
  <2>12. granted[v][k] <= Cardinality(Beyond(v, k)')
    <3>1. Beyond(v, k) \subseteq Beyond(v, k)'
      BY <1>b, <1>c, <2>0, <2>3 DEF Beyond
    <3>2. granted[v][k] <= Cardinality(Beyond(v, k))
      BY <2>7 DEF LimitAt
    <3> QED
      BY <1>b, <1>c, <2>1, <3>1, <3>2, BeyondGrows, SleepersFinite
  <2>19. LimitAt(v, k)'
    <3> HIDE DEF R, c, b
    <3>1. LimitKept(c, Sleepers(v, k)', wake', bucket'[v][k].tokens, bucket'[v][k].last_update, granted'[v][k], first'[v][k], now')
      BY <2>3, <2>9, <2>10, <2>11
    <3> QED
      BY <2>4, <2>11, <2>12, <3>1 DEF LimitAt, c
  <2>20. ASSUME NEW w \in Worker, NEW j \in Limiter, w # v \/ j # k PROVE LimitAt(w, j)'
    <3>1. LimitAt(w, j)
      BY <1>c DEF LimitsKept
    <3>2. /\ bucket'[w][j] = bucket[w][j] /\ granted'[w][j] = granted[w][j]
          /\ first'[w][j] = first[w][j]
      <4> HIDE DEF b, R, c
      <4> QED
        BY <2>0, <2>3, <2>3a, <2>20
    <3>3. k = k \/ (k \in Past(k) /\ now + (c - R) = Awake)
      BY PastNext
    <3> HIDE DEF R, c, b
    <3> QED
      BY <1>a, <1>c, <2>0, <2>3, <2>20, <3>1, <3>2, <3>3, OtherLimit
  <2> QED
    BY <1>b, <2>19, <2>20 DEF LimitsKept
<1>6. ASSUME NEW r \in Row, NEW k \in Limiter, WakeLarge(r, k) PROVE LimitsKept'
  <2>0. PICK v \in Worker : v = at[r] /\ pc[r] = k
    BY <1>6, <1>c DEF WakeLarge, Placed, Limiter
  <2> DEFINE b == bucket[v][k]
             R == Refilled(b)
             c == Cost(k)
  <2>1. /\ b.tokens \in Int /\ b.last_update \in Int /\ granted[v][k] \in Nat
        /\ first[v][k] \in Int /\ now \in Nat /\ c \in Nat
    BY <1>c, <2>0, LimiterTypes
  <2>2. IsRefill(R, b.tokens, b.last_update, now) /\ R \in Int
    BY <1>c, <2>0, RefillType
  <2>2a. pc = [pc EXCEPT ![r] = k]
    BY <1>c, <2>0
  <2>3. /\ at' = at /\ now' = now /\ pc' = [pc EXCEPT ![r] = NextStage(k)]
        /\ wake' = [wake EXCEPT ![r] = Awake]
        /\ bucket' = bucket
        /\ granted' = [granted EXCEPT ![v][k] = @ + 1]
        /\ first' = first
        /\ c > Second /\ wake[r] # Awake /\ now >= wake[r]
    BY <1>6, <2>0, <2>2a DEF WakeLarge, Grant, Started, Advance, Set, WaitTime, Large, FirstUse, limits
  <2>3a. bucket \in [Worker -> [Limiter -> [tokens : Int, last_update : Int]]]
         /\ granted \in [Worker -> [Limiter -> Nat]] /\ first \in [Worker -> [Limiter -> Int]]
    BY <1>c DEF Types
  <2>4. Cost(k)' = Cost(k)
    BY <1>b DEF Limiter
  <2>5. \A q \in Sleepers(v, k) : wake[q] \in Int
    BY <1>c, SleepersFinite
  <2>6. IsFiniteSet(Sleepers(v, k))
    BY <1>c, SleepersFinite
  <2>7. LimitAt(v, k)
    BY <1>c, <2>0 DEF LimitsKept
  <2>8. LimitKept(c, Sleepers(v, k), wake, b.tokens, b.last_update, granted[v][k], first[v][k], now)
    BY <2>7 DEF LimitAt
  <2>13. Sleepers(v, k) \ {r} \subseteq Sleepers(v, k) /\ \A q \in Sleepers(v, k) \ {r} : wake'[q] = wake[q]
    BY <1>c, <2>3 DEF Sleepers
  <2>16. r \in Sleepers(v, k)
    BY <2>0, <2>3 DEF Sleepers
  <2>9. Sleepers(v, k)' = Sleepers(v, k) \ {r}
    BY <1>b, <1>c, <2>0, <2>3, PastNext DEF Sleepers
  <2>10. LimitKept(c, Sleepers(v, k) \ {r}, wake', b.tokens, b.last_update, granted[v][k] + 1, first[v][k], now)
    <3> HIDE DEF R, c, b
    <3> QED
      BY <2>1, <2>3, <2>5, <2>6, <2>8, <2>13, <2>16, LargeWakes
  <2>11. /\ bucket'[v][k].tokens = b.tokens /\ bucket'[v][k].last_update = b.last_update
         /\ granted'[v][k] = granted[v][k] + 1 /\ first'[v][k] = first[v][k]
    <3> HIDE DEF R, c
    <3> QED
      BY <2>0, <2>2, <2>3, <2>3a DEF b
  <2>12. granted[v][k] + 1 <= Cardinality(Beyond(v, k)')
    BY <1>a, <1>c, <2>0, <2>3, <2>7, OneMoreGranted
  <2>19. LimitAt(v, k)'
    <3> HIDE DEF R, c, b
    <3>1. LimitKept(c, Sleepers(v, k)', wake', bucket'[v][k].tokens, bucket'[v][k].last_update, granted'[v][k], first'[v][k], now')
      BY <2>3, <2>9, <2>10, <2>11
    <3> QED
      BY <2>4, <2>11, <2>12, <3>1 DEF LimitAt, c
  <2>20. ASSUME NEW w \in Worker, NEW j \in Limiter, w # v \/ j # k PROVE LimitAt(w, j)'
    <3>1. LimitAt(w, j)
      BY <1>c DEF LimitsKept
    <3>2. /\ bucket'[w][j] = bucket[w][j] /\ granted'[w][j] = granted[w][j]
          /\ first'[w][j] = first[w][j]
      <4> HIDE DEF b, R, c
      <4> QED
        BY <2>0, <2>3, <2>3a, <2>20
    <3>3. NextStage(k) = k \/ (NextStage(k) \in Past(k) /\ Awake = Awake)
      BY PastNext
    <3> HIDE DEF R, c, b
    <3> QED
      BY <1>a, <1>c, <2>0, <2>3, <2>20, <3>1, <3>2, <3>3, OtherLimit
  <2> QED
    BY <1>b, <2>19, <2>20 DEF LimitsKept
<1>7. ASSUME NEW r \in Row, StartScorer(r) PROVE LimitsKept'
  <2>1. \A w \in Worker, k \in Limiter : Sleepers(w, k)' = Sleepers(w, k)
    BY <1>7, <1>b, <1>c DEF StartScorer, Sleepers, Placed, Limiter
  <2>2. \A w \in Worker, k \in Limiter : Beyond(w, k) \subseteq Beyond(w, k)'
    BY <1>7, <1>b, <1>c DEF StartScorer, Beyond, Past, Limiter
  <2>3. now' = now /\ limits' = limits /\ wake' = wake
    BY <1>7 DEF StartScorer, limits
  <2> QED
    BY <1>a, <1>c, <2>1, <2>2, <2>3, LimitsFrame
<1>8. ASSUME NEW r \in Row, ScorerReturns(r) PROVE LimitsKept'
  <2>1. \A w \in Worker, k \in Limiter : Sleepers(w, k)' = Sleepers(w, k)
    BY <1>8, <1>b, <1>c DEF ScorerReturns, Sleepers, Placed, Limiter, Answer
  <2>2. \A w \in Worker, k \in Limiter : Beyond(w, k) \subseteq Beyond(w, k)'
    BY <1>8, <1>b, <1>c DEF ScorerReturns, Beyond, Past, Limiter, Answer
  <2>3. now' = now /\ limits' = limits /\ wake' = wake
    BY <1>8 DEF ScorerReturns, limits
  <2> QED
    BY <1>a, <1>c, <2>1, <2>2, <2>3, LimitsFrame
<1>9. ASSUME NEW r \in Row, ScorerRaises(r) PROVE LimitsKept'
  <2>0. pc' = [pc EXCEPT ![r] = IF Limited THEN "done" ELSE "raised"]
    BY <1>9, <1>d DEF ScorerRaises, Answer
  <2>1. \A w \in Worker, k \in Limiter : Sleepers(w, k)' = Sleepers(w, k)
    BY <1>9, <2>0, <1>b, <1>c DEF ScorerRaises, Sleepers, Placed, Limiter
  <2>2. \A w \in Worker, k \in Limiter : Beyond(w, k) \subseteq Beyond(w, k)'
    BY <1>9, <2>0, <1>b, <1>c DEF ScorerRaises, Beyond, Past, Limiter
  <2>3. now' = now /\ limits' = limits /\ wake' = wake
    BY <1>9 DEF ScorerRaises, limits
  <2> QED
    BY <1>a, <1>c, <2>1, <2>2, <2>3, LimitsFrame
<1>10. ASSUME NEW r \in Row, CallTimesOut(r) PROVE LimitsKept'
  <2>1. \A w \in Worker, k \in Limiter : Sleepers(w, k)' = Sleepers(w, k)
    BY <1>10, <1>b, <1>c DEF CallTimesOut, Sleepers, Placed, Limiter, Answer
  <2>2. \A w \in Worker, k \in Limiter : Beyond(w, k) \subseteq Beyond(w, k)'
    BY <1>10, <1>b, <1>c DEF CallTimesOut, Beyond, Past, Limiter, Answer
  <2>3. now' = now /\ limits' = limits /\ wake' = wake
    BY <1>10 DEF CallTimesOut, limits
  <2> QED
    BY <1>a, <1>c, <2>1, <2>2, <2>3, LimitsFrame
<1>11. ASSUME NEW r \in Row, Post(r) PROVE LimitsKept'
  <2>1. \A w \in Worker, k \in Limiter : Sleepers(w, k)' = Sleepers(w, k)
    BY <1>11, <1>b, <1>c DEF Post, Sleepers, Placed, Limiter
  <2>2. \A w \in Worker, k \in Limiter : Beyond(w, k) \subseteq Beyond(w, k)'
    BY <1>11, <1>b, <1>c DEF Post, Beyond, Past, Limiter
  <2>3. now' = now /\ limits' = limits /\ wake' = wake
    BY <1>11 DEF Post, limits
  <2> QED
    BY <1>a, <1>c, <2>1, <2>2, <2>3, LimitsFrame
<1>12. ASSUME NEW r \in Row, ServerAnswers(r) PROVE LimitsKept'
  <2>0. pc' = [pc EXCEPT ![r] = IF setup.mode = "batch" THEN "done" ELSE "raised"]
    BY <1>12 DEF ServerAnswers, Answer
  <2>1. \A w \in Worker, k \in Limiter : Sleepers(w, k)' = Sleepers(w, k)
    BY <1>12, <2>0, <1>b, <1>c DEF ServerAnswers, Sleepers, Placed, Limiter
  <2>2. \A w \in Worker, k \in Limiter : Beyond(w, k) \subseteq Beyond(w, k)'
    BY <1>12, <2>0, <1>b, <1>c DEF ServerAnswers, Beyond, Past, Limiter
  <2>3. now' = now /\ limits' = limits /\ wake' = wake
    BY <1>12 DEF ServerAnswers, limits
  <2> QED
    BY <1>a, <1>c, <2>1, <2>2, <2>3, LimitsFrame
<1>13. ASSUME NEW r \in Row, ServerUnreachable(r) PROVE LimitsKept'
  <2>1. \A w \in Worker, k \in Limiter : Sleepers(w, k)' = Sleepers(w, k)
    BY <1>13, <1>b, <1>c DEF ServerUnreachable, Sleepers, Placed, Limiter
  <2>2. \A w \in Worker, k \in Limiter : Beyond(w, k) \subseteq Beyond(w, k)'
    BY <1>13, <1>b, <1>c DEF ServerUnreachable, Beyond, Past, Limiter
  <2>3. now' = now /\ limits' = limits /\ wake' = wake
    BY <1>13 DEF ServerUnreachable, limits
  <2> QED
    BY <1>a, <1>c, <2>1, <2>2, <2>3, LimitsFrame
<1>14. ASSUME NEW r \in Row, RouterRaises(r) PROVE LimitsKept'
  <2>1. \A w \in Worker, k \in Limiter : Sleepers(w, k)' = Sleepers(w, k)
    BY <1>14, <1>b, <1>c DEF RouterRaises, Sleepers, Placed, Limiter
  <2>2. \A w \in Worker, k \in Limiter : Beyond(w, k) \subseteq Beyond(w, k)'
    BY <1>14, <1>b, <1>c DEF RouterRaises, Beyond, Past, Limiter
  <2>3. now' = now /\ limits' = limits /\ wake' = wake
    BY <1>14 DEF RouterRaises, limits
  <2> QED
    BY <1>a, <1>c, <2>1, <2>2, <2>3, LimitsFrame
<1>15. ASSUME NEW r \in Row, PutSession(r) PROVE LimitsKept'
  <2>1. \A w \in Worker, k \in Limiter : Sleepers(w, k)' = Sleepers(w, k)
    BY <1>15, <1>b, <1>c DEF PutSession, Sleepers, Placed, Limiter
  <2>2. \A w \in Worker, k \in Limiter : Beyond(w, k) \subseteq Beyond(w, k)'
    BY <1>15, <1>b, <1>c DEF PutSession, Beyond, Past, Limiter
  <2>3. now' = now /\ limits' = limits /\ wake' = wake
    BY <1>15 DEF PutSession, limits
  <2> QED
    BY <1>a, <1>c, <2>1, <2>2, <2>3, LimitsFrame
<1>16. ASSUME NEW r \in Row, PutRaises(r) PROVE LimitsKept'
  <2>1. \A w \in Worker, k \in Limiter : Sleepers(w, k)' = Sleepers(w, k)
    BY <1>16, <1>b, <1>c DEF PutRaises, Sleepers, Placed, Limiter
  <2>2. \A w \in Worker, k \in Limiter : Beyond(w, k) \subseteq Beyond(w, k)'
    BY <1>16, <1>b, <1>c DEF PutRaises, Beyond, Past, Limiter
  <2>3. now' = now /\ limits' = limits /\ wake' = wake
    BY <1>16 DEF PutRaises, limits
  <2> QED
    BY <1>a, <1>c, <2>1, <2>2, <2>3, LimitsFrame
<1>17. ASSUME NEW r \in Row, AbandonedEnds(r) PROVE LimitsKept'
  <2>1. \A w \in Worker, k \in Limiter : Sleepers(w, k)' = Sleepers(w, k)
    BY <1>17, <1>b, <1>c DEF AbandonedEnds, Sleepers, Placed, Limiter
  <2>2. \A w \in Worker, k \in Limiter : Beyond(w, k) \subseteq Beyond(w, k)'
    BY <1>17, <1>b, <1>c DEF AbandonedEnds, Beyond, Past, Limiter
  <2>3. now' = now /\ limits' = limits /\ wake' = wake
    BY <1>17 DEF AbandonedEnds, limits
  <2> QED
    BY <1>a, <1>c, <2>1, <2>2, <2>3, LimitsFrame
<1>18. ASSUME NEW w \in Worker, EnterSemaphore(w) PROVE LimitsKept'
  <2>0. pc[Head(queue[w])] = "sem" /\ Head(queue[w]) \in Row
    BY <1>18, HeadQueued DEF EnterSemaphore, IInv
  <2>1. \A v \in Worker, k \in Limiter : Sleepers(v, k)' = Sleepers(v, k)
    BY <1>18, <2>0, <1>b, <1>c DEF EnterSemaphore, Sleepers, Placed, Limiter
  <2>2. \A v \in Worker, k \in Limiter : Beyond(v, k) \subseteq Beyond(v, k)'
    BY <1>18, <2>0, <1>b, <1>c DEF EnterSemaphore, Beyond, Past, Limiter
  <2>3. now' = now /\ limits' = limits /\ wake' = wake
    BY <1>18 DEF EnterSemaphore, limits
  <2> QED
    BY <1>a, <1>c, <2>1, <2>2, <2>3, LimitsFrame
<1>19. ASSUME Tick PROVE LimitsKept'
  <2>1. /\ now' = now + 1 /\ pc' = pc /\ at' = at /\ wake' = wake
        /\ bucket' = bucket /\ granted' = granted /\ first' = first
    BY <1>19 DEF Tick, limits
  <2>2. ASSUME NEW w \in Worker, NEW k \in Limiter PROVE LimitAt(w, k)'
    <3>1. Sleepers(w, k)' = Sleepers(w, k) /\ Beyond(w, k)' = Beyond(w, k) /\ Cost(k)' = Cost(k)
      BY <1>b, <2>1 DEF Sleepers, Beyond, Limiter
    <3>2. LimitAt(w, k) /\ now \in Nat
      BY <1>c, LimiterTypes DEF LimitsKept
    <3>3. LimitKept(Cost(k), Sleepers(w, k), wake, bucket[w][k].tokens,
                    bucket[w][k].last_update, granted[w][k], first[w][k], now + 1)
      BY <1>c, <3>2, LimiterTypes, SleepersFinite, LimitTicks DEF LimitAt
    <3> QED
      BY <2>1, <3>1, <3>2, <3>3 DEF LimitAt
  <2> QED
    BY <1>b, <2>2 DEF LimitsKept
<1>20. ASSUME Assemble PROVE LimitsKept'
  <2>1. \A w \in Worker, k \in Limiter : Sleepers(w, k)' = Sleepers(w, k)
    BY <1>20, <1>b, <1>c DEF Assemble, Sleepers, Placed, Limiter
  <2>2. \A w \in Worker, k \in Limiter : Beyond(w, k) \subseteq Beyond(w, k)'
    BY <1>20, <1>b, <1>c DEF Assemble, Beyond, Past, Limiter
  <2>3. now' = now /\ limits' = limits /\ wake' = wake
    BY <1>20 DEF Assemble, limits
  <2> QED
    BY <1>a, <1>c, <2>1, <2>2, <2>3, LimitsFrame
<1>21. ASSUME AssembleRaises PROVE LimitsKept'
  <2>1. \A w \in Worker, k \in Limiter : Sleepers(w, k)' = Sleepers(w, k)
    BY <1>21, <1>b, <1>c DEF AssembleRaises, Sleepers, Placed, Limiter
  <2>2. \A w \in Worker, k \in Limiter : Beyond(w, k) \subseteq Beyond(w, k)'
    BY <1>21, <1>b, <1>c DEF AssembleRaises, Beyond, Past, Limiter
  <2>3. now' = now /\ limits' = limits /\ wake' = wake
    BY <1>21 DEF AssembleRaises, limits
  <2> QED
    BY <1>a, <1>c, <2>1, <2>2, <2>3, LimitsFrame
<1>22. ASSUME UNCHANGED vars PROVE LimitsKept'
  <2>1. \A w \in Worker, k \in Limiter : Sleepers(w, k)' = Sleepers(w, k)
    BY <1>22, <1>b, <1>c DEF vars, Sleepers, Placed, Limiter
  <2>2. \A w \in Worker, k \in Limiter : Beyond(w, k) \subseteq Beyond(w, k)'
    BY <1>22, <1>b, <1>c DEF vars, Beyond, Past, Limiter
  <2>3. now' = now /\ limits' = limits /\ wake' = wake
    BY <1>22 DEF vars, limits
  <2> QED
    BY <1>a, <1>c, <2>1, <2>2, <2>3, LimitsFrame
<1> QED
  BY <1>1, <1>2, <1>3, <1>4, <1>5, <1>6, <1>7, <1>8, <1>9, <1>10, <1>11, <1>12,
     <1>13, <1>14, <1>15, <1>16, <1>17, <1>18, <1>19, <1>20, <1>21, <1>22 DEF Next,
     RowStep, Acquire, Score, Ask, Done

-----------------------------------------------------------------------------
(* Every step keeps the scores. *)

\* A step that gives no answer, and takes none back.
NoAnswer ==
    \A q \in Row : /\ pc'[q] = "done" => pc[q] = "done"
                   /\ pc'[q] \in {"post", "forward"} => Disrm
                   /\ setup.mode # "queue" =>
                         /\ pc[q] = "done" => pc'[q] = "done"
                         /\ pc'[q] = "raised" /\ Limited => pc[q] = "raised"
                         /\ pc'[q] = "put" => pc[q] = "put"

LEMMA TokensFixed ==
  ASSUME setup' = setup, shape' = shape
  PROVE  \A r : (ScoredTokens(shape[r]))' = ScoredTokens(shape[r])
BY DEF ScoredTokens

LEMMA ScoredFrame ==
  ASSUME Scored, setup' = setup, shape' = shape, result' = result, batch' = batch,
         rm' = rm \/ batch # "assembled", NoAnswer
  PROVE  Scored'
<1>1. Row' = Row /\ Limited' = Limited /\ Disrm' = Disrm /\ \A r : ResultKeys(r)' = ResultKeys(r)
  BY SameNames DEF ResultKeys
<1>2. \A r \in Row : result'[r].score \in {Zero, <<r, (ScoredTokens(shape[r]))'>>}
  BY TokensFixed DEF Scored
<1>3. LostByFirstRow'
  BY <1>1 DEF Scored, LostByFirstRow
<1>4. rm' = rm /\ ScoreInPlace => ScoreInPlace'
  BY <1>1 DEF ScoreInPlace, LastLength
<1>5. setup.mode # "queue" /\ AllDone => AllDone'
  BY <1>1 DEF AllDone, NoAnswer
<1>6. /\ Limited => \A r \in Row : pc'[r] = "done" => "acc" \in result'[r].keys \/ ScoredByDict(r)'
      /\ Limited /\ setup.mode # "queue" => \A r \in Row : pc'[r] # "raised"
      /\ setup.mode # "queue" => \A r \in Row : pc'[r] # "put"
      /\ \A r \in Row : pc'[r] \in {"post", "forward"} => Disrm
  BY DEF Scored, NoAnswer, ScoredByDict
<1> QED
  BY <1>1, <1>2, <1>3, <1>4, <1>5, <1>6 DEF Scored, Zero

\* A session gets its answer.
LEMMA AnswerScored ==
  ASSUME Types, Scored, setup' = setup, shape' = shape, batch' = batch, rm' = rm, NEW r \in Row,
         pc[r] # "done", NEW score, NEW keys, Answer(r, score, keys),
         score \in {Zero, <<r, ScoredTokens(shape[r])>>}, Limited => "acc" \in keys \/ (r \notin setup.scalar /\ keys = {"score"})
  PROVE  Scored'
<1>0. Row' = Row /\ Limited' = Limited /\ Disrm' = Disrm
  BY SameNames
<1>1. /\ result' = [result EXCEPT ![r] = [score |-> score, keys |-> keys]]
      /\ pc' = [pc EXCEPT ![r] = "done"]
  BY DEF Answer
<1>2. DOMAIN result = Row /\ DOMAIN pc = Row
  BY DEF Types
<1>3. \A q \in Row : result'[q].score \in {Zero, <<q, (ScoredTokens(shape[q]))'>>}
  BY <1>1, <1>2, TokensFixed DEF Scored
<1>4. ~AllDone
  BY DEF AllDone
<1>5. batch # "assembled" /\ (batch = "raised" => ~Limited)
  BY <1>4 DEF Scored
<1>6. Limited => \A q \in Row : pc'[q] = "done" => q = r \/ pc[q] = "done"
  BY <1>1, <1>2
<1>7. Limited => \A q \in Row : pc'[q] = "done" => "acc" \in result'[q].keys \/ ScoredByDict(q)'
  <2>1. ASSUME Limited, NEW q \in Row, pc'[q] = "done" PROVE "acc" \in result'[q].keys \/ ScoredByDict(q)'
    <3>1. CASE q = r
      BY <1>1, <1>2, <2>1, <3>1 DEF ScoredByDict
    <3>2. CASE q # r
      BY <1>1, <1>2, <2>1, <3>2 DEF Scored, ScoredByDict
    <3> QED
      BY <3>1, <3>2
  <2> QED
    BY <2>1
<1>8. \A q \in Row : /\ pc'[q] \in {"post", "forward"} => pc[q] \in {"post", "forward"}
                     /\ pc'[q] = "raised" => pc[q] = "raised"
                     /\ pc'[q] = "put" => pc[q] = "put"
  BY <1>1, <1>2
<1>9. LostByFirstRow'
  BY <1>0, <1>5 DEF LostByFirstRow
<1> QED
  BY <1>0, <1>3, <1>5, <1>7, <1>8, <1>9 DEF Scored, Zero

LEMMA LastLengthType ==
  ASSUME Types, NEW r \in Row
  PROVE  LastLength(r) \in Nat
<1>1. IsShape(shape[r])
  BY TokensType
<1> QED
  BY <1>1, LastOutput DEF LastLength, ResponseOf

LEMMA ScoredStep ==
  ASSUME IInv, [Next]_vars
  PROVE  Scored'
<1>a. setup' = setup /\ shape' = shape
  BY SetupFixed
<1>b. Row' = Row /\ Worker' = Worker /\ Limited' = Limited /\ Disrm' = Disrm
  BY <1>a, SameNames
<1>c. Types /\ Placed /\ Scored /\ pc \in [Row -> Pc]
  BY DEF IInv, Types
<1>d. /\ Limited \in BOOLEAN /\ ~(Limited /\ Disrm)
      /\ \A r \in Row : pc[r] \in {"post", "forward"} => Disrm
  BY <1>c DEF Limited, Disrm, Scored
<1>1. ASSUME NEW r \in Row, Send(r) PROVE Scored'
  <2>1. NoAnswer
    BY <1>1, <1>b, <1>c, <1>d DEF Send, NoAnswer, Limiter
  <2>2. result' = result /\ batch' = batch /\ rm' = rm
    BY <1>1 DEF Send, final
  <2> QED
    BY <1>a, <1>c, <2>1, <2>2, ScoredFrame
<1>2. ASSUME NEW r \in Row, Decode(r) PROVE Scored'
  <2>0. pc' = [pc EXCEPT ![r] = NextStage("decode")] /\ NextStage("decode") \in {"rpm", "tpm", "sem", "call"}
    BY <1>2, NextStageType DEF Decode, Advance
  <2>1. NoAnswer
    BY <1>2, <2>0, <1>b, <1>c, <1>d DEF Decode, NoAnswer, Limiter
  <2>2. result' = result /\ batch' = batch /\ rm' = rm
    BY <1>2 DEF Decode, final
  <2> QED
    BY <1>a, <1>c, <2>1, <2>2, ScoredFrame
<1>3. ASSUME NEW r \in Row, NEW k \in Limiter, AcquireNow(r, k) PROVE Scored'
  <2>0. pc' = [pc EXCEPT ![r] = NextStage(k)] /\ NextStage(k) \in {"rpm", "tpm", "sem", "call"}
    BY <1>3, NextStageType DEF AcquireNow, Advance, Grant
  <2>1. NoAnswer
    BY <1>3, <2>0, <1>b, <1>c, <1>d DEF AcquireNow, NoAnswer, Limiter
  <2>2. result' = result /\ batch' = batch /\ rm' = rm
    BY <1>3 DEF AcquireNow, final
  <2> QED
    BY <1>a, <1>c, <2>1, <2>2, ScoredFrame
<1>4. ASSUME NEW r \in Row, NEW k \in Limiter, AcquireWait(r, k) PROVE Scored'
  <2>1. NoAnswer
    BY <1>4, <1>b, <1>c, <1>d DEF AcquireWait, NoAnswer, Limiter
  <2>2. result' = result /\ batch' = batch /\ rm' = rm
    BY <1>4 DEF AcquireWait, final
  <2> QED
    BY <1>a, <1>c, <2>1, <2>2, ScoredFrame
<1>5. ASSUME NEW r \in Row, NEW k \in Limiter, AcquireLarge(r, k) PROVE Scored'
  <2>1. NoAnswer
    BY <1>5, <1>b, <1>c, <1>d DEF AcquireLarge, NoAnswer, Limiter
  <2>2. result' = result /\ batch' = batch /\ rm' = rm
    BY <1>5 DEF AcquireLarge, final
  <2> QED
    BY <1>a, <1>c, <2>1, <2>2, ScoredFrame
<1>6. ASSUME NEW r \in Row, NEW k \in Limiter, WakeLarge(r, k) PROVE Scored'
  <2>0. pc' = [pc EXCEPT ![r] = NextStage(k)] /\ NextStage(k) \in {"rpm", "tpm", "sem", "call"}
    BY <1>6, NextStageType DEF WakeLarge, Advance, Grant
  <2>1. NoAnswer
    BY <1>6, <2>0, <1>b, <1>c, <1>d DEF WakeLarge, NoAnswer, Limiter
  <2>2. result' = result /\ batch' = batch /\ rm' = rm
    BY <1>6 DEF WakeLarge, final
  <2> QED
    BY <1>a, <1>c, <2>1, <2>2, ScoredFrame
<1>7. ASSUME NEW r \in Row, StartScorer(r) PROVE Scored'
  <2>1. NoAnswer
    BY <1>7, <1>b, <1>c, <1>d DEF StartScorer, NoAnswer, Limiter
  <2>2. result' = result /\ batch' = batch /\ rm' = rm
    BY <1>7 DEF StartScorer, final
  <2> QED
    BY <1>a, <1>c, <2>1, <2>2, ScoredFrame
<1>8. ASSUME NEW r \in Row, ScorerReturns(r) PROVE Scored'
  <2>1. pc[r] = "running" /\ batch' = batch /\ rm' = rm
    BY <1>8 DEF ScorerReturns, final
  <2>2. Answer(r, <<r, ScoredTokens(shape[r])>>, ResultKeys(r))
    BY <1>8 DEF ScorerReturns
  <2>3. "acc" \in ResultKeys(r) \/ (r \notin setup.scalar /\ ResultKeys(r) = {"score"})
    BY DEF ResultKeys
  <2> QED
    BY <1>a, <1>c, <2>1, <2>2, <2>3, AnswerScored
<1>9. ASSUME NEW r \in Row, ScorerRaises(r) PROVE Scored'
  <2>0. CASE ~Limited
    <3>0. pc' = [pc EXCEPT ![r] = "raised"] /\ result' = result
      BY <1>9, <2>0 DEF ScorerRaises
  <3>1. NoAnswer
      BY <1>9, <2>0, <3>0, <1>b, <1>c, <1>d DEF ScorerRaises, NoAnswer, Limiter
    <3>2. result' = result /\ batch' = batch /\ rm' = rm
      BY <1>9, <3>0 DEF ScorerRaises, final
    <3> QED
      BY <1>a, <1>c, <3>1, <3>2, ScoredFrame
  <2>00. CASE Limited
  <3>1. pc[r] # "done" /\ batch' = batch /\ rm' = rm
      BY <1>9 DEF ScorerRaises, final
    <3>2. Answer(r, Zero, {"error", "acc"})
      BY <1>9, <2>00 DEF ScorerRaises
    <3>3. Limited => "acc" \in {"error", "acc"}
      OBVIOUS
    <3> QED
      BY <1>a, <1>c, <3>1, <3>2, <3>3, AnswerScored
  <2> QED
    BY <1>d, <2>0, <2>00
<1>10. ASSUME NEW r \in Row, CallTimesOut(r) PROVE Scored'
  <2>1. pc[r] # "done" /\ batch' = batch /\ rm' = rm
    BY <1>10 DEF CallTimesOut, final
  <2>2. Answer(r, Zero, {"timeout", "acc"})
    BY <1>10 DEF CallTimesOut
  <2>3. Limited => "acc" \in {"timeout", "acc"}
    OBVIOUS
  <2> QED
    BY <1>a, <1>c, <2>1, <2>2, <2>3, AnswerScored
<1>11. ASSUME NEW r \in Row, Post(r) PROVE Scored'
  <2>1. NoAnswer
    BY <1>11, <1>b, <1>c, <1>d DEF Post, NoAnswer, Limiter
  <2>2. result' = result /\ batch' = batch /\ rm' = rm
    BY <1>11 DEF Post, final
  <2> QED
    BY <1>a, <1>c, <2>1, <2>2, ScoredFrame
<1>12. ASSUME NEW r \in Row, ServerAnswers(r) PROVE Scored'
  <2>0. CASE setup.mode # "batch"
    <3>0. pc' = [pc EXCEPT ![r] = "raised"] /\ result' = result
      BY <1>12, <2>0 DEF ServerAnswers
  <3>1. NoAnswer
      BY <1>12, <2>0, <3>0, <1>b, <1>c, <1>d DEF ServerAnswers, NoAnswer, Limiter
    <3>2. result' = result /\ batch' = batch /\ rm' = rm
      BY <1>12, <3>0 DEF ServerAnswers, final
    <3> QED
      BY <1>a, <1>c, <3>1, <3>2, ScoredFrame
  <2>00. CASE setup.mode = "batch"
    <3>1. pc[r] = "forward" /\ batch' = batch /\ rm' = rm
      BY <1>12 DEF ServerAnswers, final
    <3>2. Answer(r, <<r, ScoredTokens(shape[r])>>, {})
      BY <1>12, <2>00 DEF ServerAnswers
    <3>3. ~Limited
      BY <1>d, <3>1
    <3> QED
      BY <1>a, <1>c, <3>1, <3>2, <3>3, AnswerScored
  <2> QED
    BY <2>0, <2>00
<1>13. ASSUME NEW r \in Row, ServerUnreachable(r) PROVE Scored'
  <2>1. NoAnswer
    BY <1>13, <1>b, <1>c, <1>d DEF ServerUnreachable, NoAnswer, Limiter
  <2>2. result' = result /\ batch' = batch /\ rm' = rm
    BY <1>13 DEF ServerUnreachable, final
  <2> QED
    BY <1>a, <1>c, <2>1, <2>2, ScoredFrame
<1>14. ASSUME NEW r \in Row, RouterRaises(r) PROVE Scored'
  <2>1. NoAnswer
    BY <1>14, <1>b, <1>c, <1>d DEF RouterRaises, NoAnswer, Limiter
  <2>2. result' = result /\ batch' = batch /\ rm' = rm
    BY <1>14 DEF RouterRaises, final
  <2> QED
    BY <1>a, <1>c, <2>1, <2>2, ScoredFrame
<1>15. ASSUME NEW r \in Row, PutSession(r) PROVE Scored'
  <2>1. NoAnswer
    BY <1>15, <1>b, <1>c, <1>d DEF PutSession, NoAnswer, Limiter
  <2>2. result' = result /\ batch' = batch /\ batch # "assembled"
    BY <1>15, <1>c DEF PutSession, Scored
  <2> QED
    BY <1>a, <1>c, <2>1, <2>2, ScoredFrame
<1>16. ASSUME NEW r \in Row, PutRaises(r) PROVE Scored'
  <2>1. NoAnswer
    BY <1>16, <1>b, <1>c, <1>d DEF PutRaises, NoAnswer, Limiter
  <2>2. result' = result /\ batch' = batch /\ rm' = rm
    BY <1>16 DEF PutRaises, final
  <2> QED
    BY <1>a, <1>c, <2>1, <2>2, ScoredFrame
<1>17. ASSUME NEW r \in Row, AbandonedEnds(r) PROVE Scored'
  <2>1. NoAnswer
    BY <1>17, <1>b, <1>c, <1>d DEF AbandonedEnds, NoAnswer, Limiter
  <2>2. result' = result /\ batch' = batch /\ rm' = rm
    BY <1>17 DEF AbandonedEnds, final
  <2> QED
    BY <1>a, <1>c, <2>1, <2>2, ScoredFrame
<1>18. ASSUME NEW w \in Worker, EnterSemaphore(w) PROVE Scored'
  <2>0. pc[Head(queue[w])] = "sem" /\ Head(queue[w]) \in Row
    BY <1>18, HeadQueued DEF EnterSemaphore, IInv
  <2>1. NoAnswer
    BY <1>18, <2>0, <1>b, <1>c, <1>d DEF EnterSemaphore, NoAnswer, Limiter
  <2>2. result' = result /\ batch' = batch /\ rm' = rm
    BY <1>18 DEF EnterSemaphore, final
  <2> QED
    BY <1>a, <1>c, <2>1, <2>2, ScoredFrame
<1>19. ASSUME Tick PROVE Scored'
  <2>1. NoAnswer
    BY <1>19, <1>b, <1>c, <1>d DEF Tick, NoAnswer, Limiter
  <2>2. result' = result /\ batch' = batch /\ rm' = rm
    BY <1>19 DEF Tick, final
  <2> QED
    BY <1>a, <1>c, <2>1, <2>2, ScoredFrame
<1>20. ASSUME Assemble PROVE Scored'
  <2>1. /\ pc' = pc /\ result' = result /\ AllDone /\ setup.mode # "queue" /\ batch' = "assembled"
        /\ rm' = [r \in Row |-> [score |-> Flat[r].score, column |-> ScoreColumn(r)]]
    BY <1>20 DEF Assemble
  <2>2. \A r \in Row : Flat[r] = result[r]
    BY <1>c, FlatRows DEF Types
  <2>3. \A r \in Row : LastLength(r) > 0 => ScoreColumn(r) = LastLength(r)
    <3>1. \A r \in Row : LastLength(r) > 0 => LastLength(r) # 0
      BY <1>c, LastLengthType
    <3> QED
      BY <3>1 DEF ScoreColumn, Column
  <2>4. ScoreInPlace'
    <3>1. ASSUME NEW r \in Row PROVE rm'[r].score = result[r].score /\ (LastLength(r) > 0 => rm'[r].column = LastLength(r))
      <4> HIDE DEF Flat, ScoreColumn, LastLength
      <4> QED
        BY <2>1, <2>2, <2>3
    <3>2. \A r : LastLength(r)' = LastLength(r)
      BY <1>a DEF LastLength
    <3> QED
      BY <1>b, <2>1, <3>1, <3>2 DEF ScoreInPlace
  <2>5. AllDone' /\ LostByFirstRow'
    BY <1>b, <2>1 DEF AllDone, LostByFirstRow
  <2>6. \A r \in Row : result'[r].score \in {Zero, <<r, (ScoredTokens(shape[r]))'>>}
    BY <1>a, <1>c, <2>1, TokensFixed DEF Scored
  <2> QED
    BY <1>a, <1>b, <1>c, <2>1, <2>4, <2>5, <2>6 DEF Scored, ScoredByDict, Zero
<1>21. ASSUME AssembleRaises PROVE Scored'
  <2>1. /\ pc' = pc /\ result' = result /\ setup.mode # "queue" /\ batch' = "raised" /\ batch = "open"
        /\ (\E r \in Row : pc[r] = "raised") \/ (AllDone /\ KeysMissing)
    BY <1>21 DEF AssembleRaises
  <2>2. Limited => AllDone /\ KeysMissing
    BY <1>c, <2>1 DEF Scored
  <2>3. LostByFirstRow'
    <3> SUFFICES ASSUME Limited, 1 \in setup.scalar, ResultKeys(1) = result[1].keys
                 PROVE  \E r \in Row \ setup.scalar : result[r].keys = ResultKeys(r)
      BY <1>a, <1>b, <2>1 DEF LostByFirstRow, ResultKeys
    <3>1. PICK r \in Row : ~(result[1].keys \subseteq result[r].keys)
      BY <2>2 DEF KeysMissing, ExtraKeys
    <3>2. "acc" \in result[r].keys \/ ScoredByDict(r)
      BY <1>c, <2>2 DEF Scored, AllDone
    <3> QED
      BY <3>1, <3>2 DEF ResultKeys, ScoredByDict
  <2>5. Limited => AllDone'
    BY <1>b, <2>1, <2>2 DEF AllDone
  <2>6. \A r \in Row : result'[r].score \in {Zero, <<r, (ScoredTokens(shape[r]))'>>}
    BY <1>a, <1>c, <2>1, TokensFixed DEF Scored
  <2> QED
    BY <1>a, <1>b, <1>c, <2>1, <2>3, <2>5, <2>6 DEF Scored, ScoredByDict, Zero
<1>22. ASSUME UNCHANGED vars PROVE Scored'
  <2>1. NoAnswer
    BY <1>22, <1>b, <1>c, <1>d DEF vars, NoAnswer, Limiter
  <2>2. result' = result /\ batch' = batch /\ rm' = rm
    BY <1>22 DEF vars, final
  <2> QED
    BY <1>a, <1>c, <2>1, <2>2, ScoredFrame
<1> QED
  BY <1>1, <1>2, <1>3, <1>4, <1>5, <1>6, <1>7, <1>8, <1>9, <1>10, <1>11, <1>12,
     <1>13, <1>14, <1>15, <1>16, <1>17, <1>18, <1>19, <1>20, <1>21, <1>22 DEF Next,
     RowStep, Acquire, Score, Ask, Done

-----------------------------------------------------------------------------
(* The invariant holds from the start, and every step keeps it. *)

LEMMA InitLimits == Init => LimitsKept
<1> SUFFICES ASSUME Init, NEW w \in Worker, NEW k \in Limiter PROVE LimitAt(w, k)
  BY DEF LimitsKept
<1>1. /\ bucket[w][k].tokens = Second /\ bucket[w][k].last_update = Never
      /\ granted[w][k] = 0 /\ first[w][k] = Never
  BY DEF Init
<1>2. Sleepers(w, k) = {}
  BY DEF Init, Sleepers
<1>3. Cardinality(Beyond(w, k)) \in Nat
  BY InitTypes, SleepersFinite
<1> QED
  BY <1>1, <1>2, <1>3, SecondType DEF LimitAt, LimitKept

LEMMA InitIInv == Init => IInv
<1> SUFFICES ASSUME Init PROVE IInv
  OBVIOUS
<1>1. Types
  BY InitTypes
<1>2. Placed /\ Queued
  BY DEF Init, Placed, Queued, Limiter, Awake
<1>3. SemaphoreKept
  <2>1. \A w \in Worker : Cardinality(Holders(w)) = 0
    <3>1. \A w \in Worker : Holders(w) = {}
      BY DEF Init, Holders
    <3> QED
      BY <3>1, FS_EmptySet
  <2> QED
    BY <1>1, <2>1, SetupTypes DEF SemaphoreKept, Types
<1>4. ThreadsKept
  <2>1. \A w \in Worker : Cardinality(Busy(w)) = 0
    <3>1. \A w \in Worker : Busy(w) = {}
      BY DEF Init, Busy
    <3> QED
      BY <3>1, FS_EmptySet
  <2> QED
    BY <2>1, BoundTypes DEF Init, ThreadsKept
<1>5. Routed
  <2>1. \A s \in Server : Cardinality(InFlight(s)) = 0
    <3>1. \A s \in Server : InFlight(s) = {}
      BY DEF Init, InFlight
    <3> QED
      BY <3>1, FS_EmptySet
  <2>2. RouterCounts
    BY <2>1 DEF Init, RouterCounts
  <2>3. Attempts
    BY BoundTypes DEF Init, Attempts
  <2>4. StaysAwake
    BY DEF Init, StaysAwake
  <2> QED
    BY <2>2, <2>3, <2>4, RoutedParts
<1>6. LimitsKept
  BY InitLimits
<1>7. Scored
  <2>1. \A r \in Row : result[r].score = Zero
    BY DEF Init, NoResult, Zero
  <2> QED
    BY <2>1 DEF Init, Scored, LostByFirstRow
<1> QED
  BY <1>1, <1>2, <1>3, <1>4, <1>5, <1>6, <1>7 DEF IInv

LEMMA Inductive == Spec => []IInv
<1>1. IInv /\ [Next]_vars => IInv'
  BY TypesStep, PlacedStep, QueuedStep, SemaphoreStep, ThreadsStep, RoutedStep, LimitsStep,
     ScoredStep DEF IInv
<1> QED
  BY InitIInv, <1>1, PTL DEF Spec

-----------------------------------------------------------------------------
(* The rates. *)

\* AsyncTokenBucket.acquire: whatever the rates, the number of sessions and their
\* order, what a limiter has let through never exceeds a full bucket and the time since
\* its first use, and no session sleeps longer than the balance calls for.
THEOREM Rates == Spec => []LimiterExact
<1>1. IInv => RateKept
  <2> SUFFICES ASSUME IInv, NEW w \in Worker, NEW k \in Limiter, granted[w][k] > 0
               PROVE  granted[w][k] * Cost(k) <= Second + (now - first[w][k])
    BY DEF RateKept
  <2> DEFINE t == bucket[w][k].tokens
             u == bucket[w][k].last_update
             g == granted[w][k]
             f == first[w][k]
             G == g * Cost(k)
  <2>1. /\ t \in Int /\ u \in Int /\ g \in Nat /\ f \in Int /\ now \in Nat /\ Cost(k) \in Nat
    BY LimiterTypes DEF IInv
  <2>2. LimitKept(Cost(k), Sleepers(w, k), wake, t, u, g, f, now)
    BY DEF IInv, LimitsKept, LimitAt
  <2>3. G \in Int
    BY <2>1
  <2>4. u # Never /\ u <= now
    BY <2>1, <2>2 DEF LimitKept
  <2>5. CASE Cost(k) <= Second
    <3>1. 0 <= t /\ G + t <= Second + u - f
      BY <2>2, <2>4, <2>5 DEF LimitKept, SmallLimit
    <3>2. G <= Second + (now - f)
      <4> HIDE DEF t, u, g, f, G
      <4> QED
        BY <2>1, <2>3, <2>4, <3>1, SecondType
    <3> QED
      BY <3>2
  <2>6. CASE Cost(k) > Second
    <3>1. G <= Second + now - f
      BY <2>2, <2>4, <2>6 DEF LimitKept, LargeLimit
    <3>2. G <= Second + (now - f)
      <4> HIDE DEF t, u, g, f, G
      <4> QED
        BY <2>1, <2>3, <3>1, SecondType
    <3> QED
      BY <3>2
  <2> QED
    BY <2>1, <2>5, <2>6, SecondType
<1>2. IInv => NoOversleep
  <2> SUFFICES ASSUME IInv, NEW r \in Row, NEW k \in Limiter, pc[r] = k, wake[r] > now
               PROVE  LET b == bucket[at[r]][k]
                          balance == b.tokens + Elapsed(b)
                      IN  wake[r] <= now + (IF Large(k) THEN 0 - balance ELSE Cost(k) - balance)
    BY DEF NoOversleep
  <2>1. PICK w \in Worker : w = at[r]
    BY DEF IInv, Placed, Limiter
  <2> DEFINE t == bucket[w][k].tokens
             u == bucket[w][k].last_update
  <2>2. /\ t \in Int /\ u \in Int /\ now \in Nat /\ Cost(k) \in Nat
    BY LimiterTypes DEF IInv
  <2>3. LimitKept(Cost(k), Sleepers(w, k), wake, t, u, granted[w][k], first[w][k], now)
    BY DEF IInv, LimitsKept, LimitAt
  <2>4. r \in Sleepers(w, k) /\ wake[r] \in Int
    BY <2>1, <2>2 DEF IInv, Types, Sleepers, Awake
  <2>5. u # Never
    BY <2>3, <2>4 DEF LimitKept
  <2>6. Elapsed(bucket[w][k]) = now - u
    BY <2>5 DEF Elapsed
  <2>7. CASE Cost(k) <= Second
    <3>1. wake[r] <= u - t + Cost(k)
      BY <2>3, <2>4, <2>5, <2>7 DEF LimitKept, SmallLimit
    <3>2. ~Large(k)
      BY <2>2, <2>7, SecondType DEF Large
    <3>3. wake[r] <= now + (Cost(k) - (t + (now - u)))
      BY <2>2, <2>4, <3>1
    <3> QED
      BY <2>1, <2>6, <3>2, <3>3
  <2>8. CASE Cost(k) > Second
    <3>1. wake[r] <= u - t
      BY <2>3, <2>4, <2>5, <2>8 DEF LimitKept, LargeLimit
    <3>2. Large(k)
      BY <2>8 DEF Large
    <3>3. wake[r] <= now + (0 - (t + (now - u)))
      BY <2>2, <2>4, <3>1
    <3> QED
      BY <2>1, <2>6, <3>2, <3>3
  <2> QED
    BY <2>2, <2>7, <2>8, SecondType
<1> QED
  BY Inductive, <1>1, <1>2, PTL DEF LimiterExact

-----------------------------------------------------------------------------
(* The scores. *)

\* run_single, compute_rm_score and _postprocess: a session of one output is scored on
\* its own response, an assembled batch has every score in its session's row and on the
\* last token of its response, and one is lost only through its first row or a mixture of
\* data sources.
THEOREM Scores == Spec => []ScoresTrue
<1>1. IInv => ScoresOwnResponse
  <2> SUFFICES ASSUME IInv, NEW r \in Row, result[r].score # Zero, Len(shape[r]) = 1
               PROVE  result[r].score = <<r, LastLength(r)>>
    BY DEF ScoresOwnResponse
  <2>1. IsShape(shape[r])
    BY TokensType DEF IInv
  <2>2. ScoredTokens(shape[r]) = LastLength(r)
    BY <2>1, OneOutput DEF LastLength
  <2> QED
    BY <2>2 DEF IInv, Scored
<1>2. IInv => ScoreInPlace /\ LostByFirstRow
  BY DEF IInv, Scored, ScoreInPlace
<1> QED
  BY Inductive, <1>1, <1>2, PTL DEF ScoresTrue

-----------------------------------------------------------------------------
(* The bounds. *)

LEMMA MaxTriple ==
  ASSUME NEW a \in Nat, NEW b \in Nat, NEW c \in Nat
  PROVE  Max({a, b, c}) \in Nat /\ Max({a, b, c}) >= a /\ Max({a, b, c}) >= b /\ Max({a, b, c}) >= c
<1>1. {a, b, c} \subseteq Int /\ \A x \in {a, b, c} : x <= a + b + c
  OBVIOUS
<1> DEFINE S == {a, b, c}
<1>2. S # {} /\ a \in S /\ b \in S /\ c \in S /\ a + b + c \in Int
  OBVIOUS
<1>3. Max(S) \in S /\ \A x \in S : x <= Max(S)
  <2> HIDE DEF S
  <2> QED
    BY <1>1, <1>2, MaxOfBounded DEF S
<1> QED
  BY <1>2, <1>3

\* The sessions that sleep in a limiter and those past it are different ones.
LEMMA PaidOnce ==
  ASSUME Types, NEW w \in Worker, NEW k \in Limiter, LimitAt(w, k)
  PROVE  /\ Cardinality(Sleepers(w, k)) \in Nat
         /\ granted[w][k] + Cardinality(Sleepers(w, k)) <= setup.rows
<1> DEFINE A == Beyond(w, k)
           B == Sleepers(w, k)
<1>1. /\ IsFiniteSet(A) /\ IsFiniteSet(B) /\ A \subseteq Row /\ B \subseteq Row
      /\ Cardinality(A) \in Nat /\ Cardinality(B) \in Nat
  BY SleepersFinite, FS_CardinalityType
<1>2. A \cap B = {}
  BY DEF Beyond, Sleepers, Past, Limiter
<1>3. Cardinality(A \cup B) = Cardinality(A) + Cardinality(B)
  <2>1. Cardinality(A \cup B) = Cardinality(A) + Cardinality(B) - Cardinality(A \cap B)
    BY <1>1, FS_Union
  <2>2. Cardinality(A \cap B) = 0
    BY <1>2, FS_EmptySet
  <2> HIDE DEF A, B
  <2> QED
    BY <1>1, <2>1, <2>2
<1>4. Cardinality(A \cup B) <= setup.rows /\ setup.rows \in Nat
  <2>1. A \cup B \subseteq Row
    BY <1>1
  <2>2. Cardinality(A \cup B) <= Cardinality(Row)
    BY <2>1, RowFinite, FS_Subset
  <2> QED
    BY <2>2, RowFinite, SetupTypes DEF Types
<1>5. granted[w][k] <= Cardinality(A) /\ granted[w][k] \in Nat
  BY LimiterTypes DEF LimitAt
<1> HIDE DEF A, B
<1> QED
  BY <1>1, <1>3, <1>4, <1>5 DEF B

\* How far below zero a balance can be, and how far ahead a sleeper can be due.
LEMMA DebtBounds ==
  ASSUME Types, NEW w \in Worker, NEW k \in Limiter, LimitAt(w, k)
  PROVE  /\ bucket[w][k].tokens >= -(setup.rows * Max({Cost(k), 1}))
         /\ bucket[w][k].tokens <= Second /\ bucket[w][k].last_update \in -1..now
         /\ \A r \in Sleepers(w, k) : wake[r] <= now + Debt
         /\ Debt \in Nat
<1> DEFINE t == bucket[w][k].tokens
           u == bucket[w][k].last_update
           g == granted[w][k]
           f == first[w][k]
           c == Cost(k)
           m == Cardinality(Sleepers(w, k))
           N == setup.rows
           P == (g + m) * c
           M == Max({c, 1})
           D == Max({setup.rpm, setup.tpm, 1})
<1>1. /\ t \in Int /\ u \in Int /\ g \in Nat /\ f \in Int /\ now \in Nat /\ c \in Nat
  BY LimiterTypes
<1>2. m \in Nat /\ g + m <= N /\ N \in Nat
  BY PaidOnce, SetupTypes DEF Types
<1>3. M \in Nat /\ c <= M
  <2> HIDE DEF c
  <2>1. c \in Int /\ 1 \in Int
    BY <1>1
  <2>2. Max({c, 1}) \in Int /\ Max({c, 1}) >= c
    BY <2>1, MaxPair
  <2> QED
    BY <1>1, <2>2
<1>4. D \in Nat /\ c <= D
  <2>1. setup.rpm \in Nat /\ setup.tpm \in Nat
    BY SetupTypes DEF Types
  <2>2. D \in Nat /\ setup.rpm <= D /\ setup.tpm <= D
    BY <2>1, MaxTriple
  <2> QED
    BY <2>2 DEF Cost
<1>5. P <= N * c /\ P \in Nat /\ N * c \in Nat
  BY <1>1, <1>2, MoreCosts
<1>6. N * c <= N * M /\ N * M \in Nat
  <2>1. c * N <= M * N /\ M * N \in Nat
    BY <1>1, <1>2, <1>3, MoreCosts
  <2>2. N * c = c * N /\ N * M = M * N
    BY <1>1, <1>2, <1>3
  <2> HIDE DEF c, M, N
  <2> QED
    BY <2>1, <2>2
<1>7. Debt = N * D + D /\ N * c <= N * D /\ N * D \in Nat
  <2>1. c * N <= D * N /\ D * N \in Nat
    BY <1>1, <1>2, <1>4, MoreCosts
  <2>2. N * c = c * N /\ N * D = D * N
    BY <1>1, <1>2, <1>4
  <2>3. Debt = (N + 1) * D
    BY DEF Debt
  <2>4. (N + 1) * D = N * D + D
    <3> HIDE DEF N, D
    <3> QED
      BY <1>2, <1>4
  <2> HIDE DEF c, D, N
  <2> QED
    BY <2>1, <2>2, <2>3, <2>4
<1>8. LimitKept(c, Sleepers(w, k), wake, t, u, g, f, now)
  BY DEF LimitAt
<1>9. t <= Second /\ u \in -1..now
  <2>1. u = Never \/ (0 <= f /\ f <= u /\ u <= now)
    BY <1>8 DEF LimitKept
  <2> QED
    BY <1>1, <1>8, <2>1 DEF LimitKept, Never
<1>10. \A r \in Sleepers(w, k) : wake[r] \in Int
  BY SleepersFinite
<1>11. CASE u = Never
  <2>1. t = Second /\ Sleepers(w, k) = {}
    BY <1>8, <1>11 DEF LimitKept
  <2>2. -(N * M) <= Second
    <3> HIDE DEF N, M
    <3> QED
      BY <1>6, SecondType
  <2>3. Debt \in Nat
    <3> HIDE DEF N, D
    <3> QED
      BY <1>4, <1>7
  <2> QED
    BY <1>9, <2>1, <2>2, <2>3
<1>12. CASE u # Never /\ c <= Second
  <2>1. 0 <= t /\ \A r \in Sleepers(w, k) : wake[r] <= u - t + c
    BY <1>8, <1>12 DEF LimitKept, SmallLimit
  <2> HIDE DEF t, u, g, f, c, m, N, P, M, D
  <2>2. -(N * M) <= t
    BY <1>1, <1>6, <2>1
  <2>3. \A r \in Sleepers(w, k) : wake[r] <= now + Debt
    BY <1>1, <1>4, <1>7, <1>9, <1>10, <2>1
  <2>4. Debt \in Nat
    BY <1>4, <1>7
  <2> QED
    BY <1>1, <1>9, <2>2, <2>3, <2>4 DEF t, u, N, M, c
<1>13. CASE u # Never /\ c > Second
  <2>1. Second - P <= t /\ \A r \in Sleepers(w, k) : wake[r] <= u - t
    BY <1>8, <1>13 DEF LimitKept, LargeLimit
  <2> HIDE DEF t, u, g, f, c, m, N, P, M, D
  <2>2. -(N * M) <= t
    BY <1>1, <1>5, <1>6, <2>1, SecondType
  <2>3. \A r \in Sleepers(w, k) : wake[r] <= now + Debt
    BY <1>1, <1>4, <1>5, <1>7, <1>9, <1>10, <2>1, SecondType
  <2>4. Debt \in Nat
    BY <1>4, <1>7
  <2> QED
    BY <1>1, <1>9, <2>2, <2>3, <2>4 DEF t, u, N, M, c
<1> QED
  BY <1>1, <1>11, <1>12, <1>13, SecondType

LEMMA TypeOKHolds ==
  ASSUME IInv
  PROVE  TypeOK
<1>1. Types /\ \A w \in Worker, k \in Limiter : LimitAt(w, k)
  BY DEF IInv, LimitsKept
<1>2. \A w \in Worker, k \in Limiter :
         /\ bucket[w][k].tokens \in -(setup.rows * Max({Cost(k), 1}))..Second
         /\ bucket[w][k].last_update \in -1..now
  <2> SUFFICES ASSUME NEW w \in Worker, NEW k \in Limiter
               PROVE  /\ bucket[w][k].tokens \in -(setup.rows * Max({Cost(k), 1}))..Second
                      /\ bucket[w][k].last_update \in -1..now
    OBVIOUS
  <2> DEFINE X == setup.rows * Max({Cost(k), 1})
  <2>1. X \in Int
    <3>1. setup.rows \in Nat /\ Cost(k) \in Int /\ 1 \in Int
      BY <1>1, SetupTypes, CostType DEF Types
    <3>2. Max({Cost(k), 1}) \in Int
      BY <3>1, MaxPair
    <3> QED
      BY <3>1, <3>2
  <2>2. /\ bucket[w][k].tokens >= -X /\ bucket[w][k].tokens <= Second
        /\ bucket[w][k].last_update \in -1..now /\ bucket[w][k].tokens \in Int
    BY <1>1, DebtBounds, LimiterTypes
  <2> HIDE DEF X
  <2>3. bucket[w][k].tokens \in -X..Second
    BY <2>1, <2>2, SecondType
  <2> QED
    BY <2>2, <2>3 DEF X
<1>3. \A r \in Row : wake[r] \in -1..(MaxNow + Debt)
  <2> SUFFICES ASSUME NEW r \in Row PROVE wake[r] \in -1..(MaxNow + Debt)
    OBVIOUS
  <2>1. wake[r] \in Int /\ wake[r] >= -1 /\ now \in 0..MaxNow
    BY <1>1 DEF Types, IInv, Placed, Awake
  <2>2. MaxNow \in Nat /\ Debt \in Nat
    <3>1. PICK w \in Worker : TRUE
      <4>1. setup.workers \in Nat \ {0}
        BY <1>1, SetupTypes DEF Types
      <4> QED
        BY <4>1 DEF Worker
    <3>2. "rpm" \in Limiter
      BY DEF Limiter
    <3> QED
      BY <1>1, <3>1, <3>2, DebtBounds, BoundTypes
  <2>3. CASE wake[r] = Awake
    BY <2>2, <2>3 DEF Awake
  <2>4. CASE wake[r] # Awake
    <3>1. pc[r] \in Limiter /\ at[r] \in Worker
      BY <2>4 DEF IInv, Placed, Limiter
    <3>2. r \in Sleepers(at[r], pc[r])
      BY <2>4 DEF Sleepers
    <3>3. wake[r] <= now + Debt
      BY <1>1, <3>1, <3>2, DebtBounds
    <3> QED
      BY <2>1, <2>2, <3>3
  <2> QED
    BY <2>3, <2>4
<1>4. \A r \in Row : attempt[r] \in (0..max_retries) \X (0..(max_attempts - 1))
  <2> SUFFICES ASSUME NEW r \in Row PROVE attempt[r] \in (0..max_retries) \X (0..(max_attempts - 1))
    OBVIOUS
  <2>1. attempt[r] \in Nat \X Nat
    BY <1>1 DEF Types
  <2>2. attempt[r][1] <= max_retries /\ attempt[r][2] < max_attempts
    BY DEF IInv, Routed
  <2>3. attempt[r][1] \in 0..max_retries /\ attempt[r][2] \in 0..(max_attempts - 1)
    BY <2>1, <2>2, BoundTypes
  <2> QED
    BY <2>1, <2>3
<1>5. \A r \in Row : result[r].score \in {Zero} \cup (Row \X Nat)
  BY <1>1 DEF Types, ScoreType
<1>6. \A w \in Worker : Cardinality(Busy(w)) <= PoolSize
  BY DEF IInv, ThreadsKept
<1> QED
  BY <1>1, <1>2, <1>3, <1>4, <1>5, <1>6 DEF TypeOK, Types

LEMMA ConcurrencyHolds ==
  ASSUME IInv
  PROVE  Concurrency
<1> SUFFICES ASSUME Limited, NEW w \in Worker
             PROVE  LET live      == {r \in Row : at[r] = w /\ (pc[r] = "running" \/ r \in threads)}
                        abandoned == {r \in threads : at[r] = w /\ "timeout" \in result[r].keys}
                    IN  /\ Cardinality(live \ abandoned) <= setup.max_concurrent
                        /\ ~setup.sync => abandoned = {}
  BY DEF Concurrency
<1> DEFINE live == {r \in Row : at[r] = w /\ (pc[r] = "running" \/ r \in threads)}
           abandoned == {r \in threads : at[r] = w /\ "timeout" \in result[r].keys}
<1>1. live \ abandoned \subseteq Holders(w)
  BY DEF IInv, ThreadsKept, Holders
<1>2. IsFiniteSet(Holders(w))
  BY RowFinite, FS_Subset DEF IInv, Holders
<1>3. Cardinality(live \ abandoned) <= Cardinality(Holders(w))
      /\ Cardinality(live \ abandoned) \in Nat /\ Cardinality(Holders(w)) \in Nat
  BY <1>1, <1>2, FS_Subset, FS_CardinalityType
<1>4. Cardinality(Holders(w)) <= setup.max_concurrent /\ setup.max_concurrent \in Nat
  BY SetupTypes DEF IInv, SemaphoreKept, Types
<1>5. ~setup.sync => abandoned = {}
  BY DEF IInv, ThreadsKept
<1> HIDE DEF live, abandoned
<1>6. Cardinality(live \ abandoned) <= setup.max_concurrent
  BY <1>3, <1>4
<1> QED
  BY <1>5, <1>6 DEF live, abandoned

\* The reward workers, the executor threads and the router: balances, sleeps, threads
\* and attempts stay in their ranges for every load, the scorer runs no more often at once
\* than max_concurrent allows, a busy server is never taken for an idle one, and a
\* reward model that scores batches or has servers of its own is awake whenever it is asked.
THEOREM Capacity == Spec => []WithinCapacity
<1>1. IInv => TypeOK /\ Concurrency
  BY TypeOKHolds, ConcurrencyHolds
<1>2. IInv => RouterCounts /\ AskedAwake
  BY DEF IInv, Routed, AskedAwake, Standalone
<1> QED
  BY Inductive, <1>1, <1>2, PTL DEF WithinCapacity
=============================================================================
