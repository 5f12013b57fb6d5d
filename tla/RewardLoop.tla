------------------------------ MODULE RewardLoop ------------------------------
(***************************************************************************)
(* Scoring of rollouts (verl/experimental/reward_loop and the two callers: *)
(* AgentLoopWorker._compute_score, which streams each session to a random  *)
(* reward worker, and RewardLoopManager.compute_rm_score, which splits a   *)
(* batch over all of them).                                                *)
(*                                                                         *)
(* A reward worker is one Ray actor: its rate limiters, its semaphore and  *)
(* its executor threads are its own.  Time is counted in ticks.  Both      *)
(* token buckets hold one second's worth of tokens and refill at their own *)
(* rate, so a balance is kept in the ticks it takes to refill it: the      *)
(* capacity of either bucket is Second, and a request costs as many ticks  *)
(* as its tokens take to refill (60 / max_rpm seconds for a request,       *)
(* 60 * estimated_tokens / max_tpm for its tokens; 0 for no limiter).      *)
(*                                                                         *)
(* Rows come from data sources whose scorers return a number (setup.scalar *)
(* has those rows) or a dictionary.  A reward model has servers of its own *)
(* (setup.standalone) or is placed in a resource pool the trainer passes.  *)
(*                                                                         *)
(* A session is a sequence of outputs <<prompt length, response length>>;  *)
(* a score is the pair of the session and the number of its tokens that    *)
(* the scorer was given.                                                   *)
(***************************************************************************)
EXTENDS Integers, Sequences, FiniteSets, SequencesExt

CONSTANTS
    Setups,        \* the configurations to be explored (see MCRewardLoop)
    Second,        \* ticks in a second: the capacity of a bucket
    PoolSize,      \* threads of the executor of a worker's event loop
    max_retries,   \* attempts of _post_request
    max_attempts,  \* attempts of the router
    MaxNow         \* bound on the clock

ASSUME RewardConstants ==
    /\ {Second, PoolSize, max_retries, max_attempts, MaxNow} \subseteq Nat \ {0}
    /\ \A s \in Setups :
          /\ s.mode \in {"stream", "batch", "queue"}
          /\ s.rows \in Nat \ {0} /\ s.workers \in Nat \ {0}
          /\ s.max_concurrent \in Nat \ {0}
          /\ s.rpm \in Nat /\ s.tpm \in Nat
          /\ s.sync \in BOOLEAN /\ s.standalone \in BOOLEAN
          /\ s.scalar \subseteq 1..s.rows
          /\ s.shapes \subseteq Seq(Nat \X Nat) \ {<<>>}
          /\ s.mode = "batch" => s.rows % s.workers = 0

VARIABLES
    setup,     \* the configuration of this behaviour
    shape,     \* the outputs of each session
    now,       \* loop.time()
    bucket,    \* of each worker, the balance and last update of each limiter
    granted,   \* of each worker and limiter, the requests it has let through
    first,     \* of each worker and limiter, the time of its first acquire
    at,        \* the worker a session was sent to
    pc,        \* where run_single or _post_request stands for each session
    wake,      \* when a sleeping session is due, or Awake
    queue,     \* of each worker, the sessions waiting for its semaphore
    threads,   \* sessions whose scorer still occupies an executor thread
    attempt,   \* of each session, failed attempts: <<client, router>>
    server,    \* the reward model server the router chose for a session
    counts,    \* NaiveRouter.request_counts
    awake,     \* the reward model's replicas are awake
    result,    \* of each session, [score, keys] or NoResult
    batch,     \* "open", "assembled" or "raised"
    rm         \* of each session, the score written and its column

vars == <<setup, shape, now, bucket, granted, first, at, pc, wake, queue, threads,
          attempt, server, counts, awake, result, batch, rm>>

Awake    == -1
Never    == -1
Nowhere  == 0
NoResult == [score |-> <<0, 0>>, keys |-> {}]
Zero     == <<0, 0>>
Server   == 1..2
Limiter  == {"rpm", "tpm"}
Limited  == setup.scorer = "limited"
Disrm    == setup.scorer = "disrm"
\* sleep() does nothing on a replica in standalone mode.
Standalone == Disrm /\ setup.standalone
Row      == 1..setup.rows
Worker   == 1..setup.workers
Cost(k)  == IF k = "rpm" THEN setup.rpm ELSE setup.tpm

limits == <<bucket, granted, first>>
net    == <<attempt, server, counts>>
final  == <<awake, batch, rm>>

-----------------------------------------------------------------------------
(* What a session is scored on and where its score is written. *)

ResponseOf(o) == o[2]
Total(o)      == o[1] + o[2]

\* A faulty count over the whole mask, prompt included.
ScoredTokens_Whole(sh) == Total(sh[Len(sh)])

\* _compute_score pads the outputs of a session on the right, prompts, responses
\* and masks each to its own longest; run_single takes the last output and counts
\* the mask's ones in the last columns, as many as the padded responses have.
\* In a batch, prompts are padded on the left and the count is the response's length.
ScoredTokens(sh) ==
    LET last    == sh[Len(sh)]
        padding == Max({Total(sh[i]) : i \in DOMAIN sh})
                     - Max({ResponseOf(sh[i]) : i \in DOMAIN sh})
    IN  IF setup.mode = "batch" THEN ResponseOf(last) ELSE Max({0, Total(last) - padding})

\* A batch is as wide as its longest response; index -1 is the last column.
Width == Max({ResponseOf(shape[r][Len(shape[r])]) : r \in Row} \cup {1})
Column(n) == IF n = 0 THEN Width ELSE n
LastLength(r) == ResponseOf(shape[r][Len(shape[r])])

-----------------------------------------------------------------------------
(* Sessions are sent to the reward workers. *)

\* compute_rm_score gives each worker an equal run of rows.
ChunkWorker(r) == ((r - 1) \div (setup.rows \div setup.workers)) + 1

\* A faulty compute_rm_score that leaves the reward model asleep.
WokenUp_Never == awake
\* compute_rm_score wakes the reward model before the first row goes out.
WokenUp == awake \/ (Disrm /\ setup.mode = "batch")

\* run_single first decodes the response in the executor.
Send(r) ==
    /\ pc[r] = "new"
    /\ \E w \in Worker :
          /\ setup.mode = "batch" => w = ChunkWorker(r)
          /\ at' = [at EXCEPT ![r] = w]
    /\ pc' = [pc EXCEPT ![r] = IF Disrm THEN "post" ELSE "decode"]
    /\ awake' = WokenUp
    /\ UNCHANGED <<setup, shape, now, limits, wake, queue, threads, net, result, batch, rm>>

\* Threads of worker w's executor that are taken.
Busy(w) == {r \in threads : at[r] = w}

\* A faulty pool that takes one call more than it has threads.
ThreadFree_OneMore(w) == Cardinality(Busy(w)) <= PoolSize
ThreadFree(w) == Cardinality(Busy(w)) < PoolSize

NextStage(k) ==
    IF k = "decode" /\ Limited /\ setup.rpm > 0 THEN "rpm"
    ELSE IF k \in {"decode", "rpm"} /\ Limited /\ setup.tpm > 0 THEN "tpm"
    ELSE IF Limited THEN "sem" ELSE "call"

\* The session reaches the stage after k: the semaphore's waiters form a queue.
Advance(r, k) ==
    /\ pc' = [pc EXCEPT ![r] = NextStage(k)]
    /\ queue' = IF NextStage(k) = "sem"
                THEN [queue EXCEPT ![at[r]] = Append(@, r)] ELSE queue

Decode(r) ==
    /\ pc[r] = "decode"
    /\ ThreadFree(at[r])
    /\ Advance(r, "decode")
    /\ UNCHANGED <<setup, shape, now, limits, at, wake, threads, net, result, final>>

-----------------------------------------------------------------------------
(* AsyncTokenBucket.acquire: a session holds the bucket's lock up to its   *)
(* return or its sleep, so each pass is one step.                          *)

Elapsed(b) == IF b.last_update = Never THEN 0 ELSE now - b.last_update
Refilled(b) == Min({Second, b.tokens + Elapsed(b)})
Ready(r) == wake[r] = Awake \/ now >= wake[r]

Large(k) == Cost(k) > Second

\* A faulty bucket that does not move last_update on.
Set_NoStamp(w, k, tokens) ==
    [bucket EXCEPT ![w][k] = [tokens |-> tokens,
                              last_update |-> IF @.last_update = Never THEN now ELSE @.last_update]]

Set(w, k, tokens) == [bucket EXCEPT ![w][k] = [tokens |-> tokens, last_update |-> now]]

\* A faulty wait that ignores what the bucket holds.
WaitTime_Whole(k, balance) == Cost(k)

\* How long an insufficient balance makes a request wait.
WaitTime(k, balance) == Cost(k) - balance

Grant(r, k) ==
    /\ granted' = [granted EXCEPT ![at[r]][k] = @ + 1]
    /\ wake' = [wake EXCEPT ![r] = Awake]
    /\ Advance(r, k)

Started(r, k) == first' = [first EXCEPT ![at[r]][k] = IF @ = Never THEN now ELSE @]

AcquireNow(r, k) ==
    LET b == bucket[at[r]][k] IN
    /\ pc[r] = k /\ Ready(r) /\ ~Large(k)
    /\ Refilled(b) >= Cost(k)
    /\ bucket' = Set(at[r], k, Refilled(b) - Cost(k))
    /\ Grant(r, k) /\ Started(r, k)
    /\ UNCHANGED <<setup, shape, now, at, threads, net, result, final>>

AcquireWait(r, k) ==
    LET b == bucket[at[r]][k] IN
    /\ pc[r] = k /\ Ready(r) /\ ~Large(k)
    /\ Refilled(b) < Cost(k)
    /\ bucket' = Set(at[r], k, Refilled(b))
    /\ wake' = [wake EXCEPT ![r] = now + WaitTime(k, Refilled(b))]
    /\ Started(r, k)
    /\ UNCHANGED <<setup, shape, now, granted, at, pc, queue, threads, net, result, final>>

\* A request above the capacity takes its tokens at once, leaving a negative
\* balance, and sleeps until they have been refilled.
AcquireLarge(r, k) ==
    LET b == bucket[at[r]][k] IN
    /\ pc[r] = k /\ wake[r] = Awake /\ Large(k)
    /\ bucket' = Set(at[r], k, Refilled(b) - Cost(k))
    /\ wake' = [wake EXCEPT ![r] = now + WaitTime(k, Refilled(b))]
    /\ Started(r, k)
    /\ UNCHANGED <<setup, shape, now, granted, at, pc, queue, threads, net, result, final>>

WakeLarge(r, k) ==
    /\ pc[r] = k /\ wake[r] # Awake /\ now >= wake[r] /\ Large(k)
    /\ Grant(r, k)
    /\ UNCHANGED <<setup, shape, now, bucket, first, at, threads, net, result, final>>

\* The clock moves while somebody sleeps; a session that is due may be late.
Tick ==
    /\ now < MaxNow
    /\ \E r \in Row : wake[r] > now
    /\ now' = now + 1
    /\ UNCHANGED <<setup, shape, limits, at, pc, wake, queue, threads, net, result, final>>

-----------------------------------------------------------------------------
(* The call of compute_score, under the semaphore for the limited manager. *)

Holders(w) == {r \in Row : at[r] = w /\ pc[r] \in {"call", "running"} /\ Limited}

\* A faulty semaphore that lets one too many in.
Free_OneMore(w) == Cardinality(Holders(w)) <= setup.max_concurrent
Free(w) == Cardinality(Holders(w)) < setup.max_concurrent

EnterSemaphore(w) ==
    /\ queue[w] # <<>> /\ Free(w)
    /\ pc' = [pc EXCEPT ![Head(queue[w])] = "call"]
    /\ queue' = [queue EXCEPT ![w] = Tail(@)]
    /\ UNCHANGED <<setup, shape, now, limits, at, wake, threads, net, result, final>>

\* A synchronous scorer runs in a thread, and waits for one if all are taken.
StartScorer(r) ==
    /\ pc[r] = "call"
    /\ setup.sync => ThreadFree(at[r])
    /\ threads' = IF setup.sync THEN threads \cup {r} ELSE threads
    /\ pc' = [pc EXCEPT ![r] = "running"]
    /\ UNCHANGED <<setup, shape, now, limits, at, wake, queue, net, result, final>>

ResultKeys(r) == IF r \in setup.scalar THEN {"acc"} ELSE {"score"}

Answer(r, score, keys) ==
    /\ result' = [result EXCEPT ![r] = [score |-> score, keys |-> keys]]
    /\ pc' = [pc EXCEPT ![r] = "done"]

ScorerReturns(r) ==
    /\ pc[r] = "running"
    /\ Answer(r, <<r, ScoredTokens(shape[r])>>, ResultKeys(r))
    /\ threads' = threads \ {r}
    /\ UNCHANGED <<setup, shape, now, limits, at, wake, queue, net, final>>

\* The limited manager turns an exception into a zero score; the others let it out.
ScorerRaises(r) ==
    /\ pc[r] = "running"
    /\ IF Limited THEN Answer(r, Zero, {"error", "acc"})
       ELSE pc' = [pc EXCEPT ![r] = "raised"] /\ UNCHANGED result
    /\ threads' = threads \ {r}
    /\ UNCHANGED <<setup, shape, now, limits, at, wake, queue, net, final>>

\* A faulty manager that queues a timed-out call again.
CallTimesOut_Retries(r) ==
    /\ Limited /\ pc[r] \in {"call", "running"}
    /\ pc' = [pc EXCEPT ![r] = "sem"]
    /\ queue' = [queue EXCEPT ![at[r]] = Append(@, r)]
    /\ UNCHANGED <<setup, shape, now, limits, at, wake, threads, net, result, final>>

\* asyncio.wait_for cancels a coroutine, but a thread that has begun runs on.
CallTimesOut(r) ==
    /\ Limited /\ pc[r] \in {"call", "running"}
    /\ Answer(r, Zero, {"timeout", "acc"})
    /\ UNCHANGED <<setup, shape, now, limits, at, wake, queue, threads, net, final>>

AbandonedEnds(r) ==
    /\ r \in threads /\ pc[r] # "running"
    /\ threads' = threads \ {r}
    /\ UNCHANGED <<setup, shape, now, limits, at, pc, wake, queue, net, result, final>>

-----------------------------------------------------------------------------
(* The discriminative reward model: _post_request through NaiveRouter.     *)

InFlight(s) == {r \in Row : pc[r] = "forward" /\ server[r] = s}
LeastLoaded == CHOOSE s \in Server : \A t \in Server : counts[s] < counts[t] \/ (counts[s] = counts[t] /\ s <= t)

\* _select_worker
Post(r) ==
    /\ pc[r] = "post"
    /\ server' = [server EXCEPT ![r] = LeastLoaded]
    /\ counts' = [counts EXCEPT ![LeastLoaded] = @ + 1]
    /\ attempt' = [attempt EXCEPT ![r][2] = 0]
    /\ pc' = [pc EXCEPT ![r] = "forward"]
    /\ UNCHANGED <<setup, shape, now, limits, at, wake, queue, threads, result, final>>

\* _release_worker
Release(s) == [counts EXCEPT ![s] = Max({0, @ - 1})]

\* A server that sleeps has given its weights away and answers nothing.
ServerAnswers(r) ==
    /\ pc[r] = "forward" /\ awake
    /\ counts' = Release(server[r])
    /\ server' = [server EXCEPT ![r] = Nowhere]
    /\ IF setup.mode = "batch"
       THEN Answer(r, <<r, ScoredTokens(shape[r])>>, {})
       ELSE \* _compute_score reads result["reward_extra_info"], which is not there
            pc' = [pc EXCEPT ![r] = "raised"] /\ UNCHANGED result
    /\ UNCHANGED <<setup, shape, now, limits, at, wake, queue, threads, attempt, final>>

\* A faulty router that releases the server at every failed attempt.
Kept_Released(s) == Release(s)

\* The count of an unreachable server over the router's attempts: it stays.
Kept(s) == counts

ServerUnreachable(r) ==
    /\ pc[r] = "forward" /\ attempt[r][2] + 1 < max_attempts
    /\ attempt' = [attempt EXCEPT ![r][2] = @ + 1]
    /\ counts' = Kept(server[r])
    /\ UNCHANGED <<setup, shape, now, limits, at, pc, wake, queue, threads, server, result, final>>

\* The router gives up, or the server answered with an HTTP error: the client sees
\* status 500 and posts again, up to max_retries; the count is not released.
RouterRaises(r) ==
    /\ pc[r] = "forward"
    /\ attempt' = [attempt EXCEPT ![r][1] = @ + 1]
    /\ server' = [server EXCEPT ![r] = Nowhere]
    /\ pc' = [pc EXCEPT ![r] = IF attempt[r][1] + 1 < max_retries THEN "post" ELSE "raised"]
    /\ UNCHANGED <<setup, shape, now, limits, at, wake, queue, threads, counts, result, final>>

-----------------------------------------------------------------------------
(* The results are put together.                                           *)

AllDone == \A r \in Row : pc[r] = "done"

\* A faulty flattening that takes the first row of every worker, then the second.
Flat_Interleaved ==
    LET size == setup.rows \div setup.workers
    IN  [i \in Row |-> result[((i - 1) % setup.workers) * size + ((i - 1) \div setup.workers) + 1]]

\* The rows of the batch in the order of the workers' answers: each worker gathers
\* its rows in order, and the answers are flattened; a streaming worker gathers all.
Flat ==
    LET size == setup.rows \div setup.workers
    IN  IF setup.mode = "batch"
        THEN FlattenSeq([w \in Worker |-> [j \in 1..size |-> result[(w - 1) * size + j]]])
        ELSE result

\* A faulty choice of every key of every row.
ExtraKeys_All == UNION {result[r].keys : r \in Row}

\* The extra keys of a batch are those of its first row; a row without one raises.
ExtraKeys == result[1].keys

KeysMissing == \E r \in Row : ~(ExtraKeys \subseteq result[r].keys)

\* The column assemble_rm_scores and _postprocess write the score of row r to.
ScoreColumn(r) == Column(LastLength(r))

Assemble ==
    /\ batch = "open" /\ setup.mode # "queue" /\ AllDone
    /\ ~KeysMissing
    /\ batch' = "assembled"
    /\ rm' = [r \in Row |-> [score |-> Flat[r].score, column |-> ScoreColumn(r)]]
    /\ awake' = (awake /\ (setup.mode = "batch" => Standalone))
    /\ UNCHANGED <<setup, shape, now, limits, at, pc, wake, queue, threads, net, result>>

AssembleRaises ==
    /\ batch = "open" /\ setup.mode # "queue"
    /\ \/ \E r \in Row : pc[r] = "raised"
       \/ AllDone /\ KeysMissing
    /\ batch' = "raised"
    /\ UNCHANGED <<setup, shape, now, limits, at, pc, wake, queue, threads, net, result, awake, rm>>

\* main_ppo_sync: a session's outputs all take the score, each on its last token
\* (as_dict, which raises for an output without one).
PutSession(r) ==
    /\ setup.mode = "queue" /\ pc[r] = "done"
    /\ \A i \in DOMAIN shape[r] : ResponseOf(shape[r][i]) > 0
    /\ rm' = [rm EXCEPT ![r] = [score |-> result[r].score, column |-> LastLength(r)]]
    /\ pc' = [pc EXCEPT ![r] = "put"]
    /\ UNCHANGED <<setup, shape, now, limits, at, wake, queue, threads, net, result, awake, batch>>

PutRaises(r) ==
    /\ setup.mode = "queue" /\ pc[r] = "done"
    /\ \E i \in DOMAIN shape[r] : ResponseOf(shape[r][i]) = 0
    /\ pc' = [pc EXCEPT ![r] = "raised"]
    /\ UNCHANGED <<setup, shape, now, limits, at, wake, queue, threads, net, result, final>>

Ended == IF setup.mode = "queue" THEN \A r \in Row : pc[r] \in {"put", "raised"}
                                 ELSE batch # "open"
Done == Ended /\ UNCHANGED vars

-----------------------------------------------------------------------------
Init ==
    /\ setup \in Setups
    /\ shape \in [1..setup.rows -> setup.shapes]
    /\ now = 0
    /\ bucket = [w \in Worker |-> [k \in Limiter |-> [tokens |-> Second, last_update |-> Never]]]
    /\ granted = [w \in Worker |-> [k \in Limiter |-> 0]]
    /\ first = [w \in Worker |-> [k \in Limiter |-> Never]]
    /\ at = [r \in Row |-> Nowhere]
    /\ pc = [r \in Row |-> "new"]
    /\ wake = [r \in Row |-> Awake]
    /\ queue = [w \in Worker |-> <<>>]
    /\ threads = {}
    /\ attempt = [r \in Row |-> <<0, 0>>]
    /\ server = [r \in Row |-> Nowhere]
    /\ counts = [s \in Server |-> 0]
    /\ awake = Standalone    \* RewardModelManager ends its construction with sleep()
    /\ result = [r \in Row |-> NoResult]
    /\ batch = "open"
    /\ rm = [r \in Row |-> [score |-> Zero, column |-> 0]]

Acquire(r) == \E k \in Limiter : AcquireNow(r, k) \/ AcquireWait(r, k) \/ AcquireLarge(r, k) \/ WakeLarge(r, k)

Score(r) == StartScorer(r) \/ ScorerReturns(r) \/ ScorerRaises(r) \/ CallTimesOut(r)

Ask(r) == Post(r) \/ ServerAnswers(r) \/ ServerUnreachable(r) \/ RouterRaises(r)

RowStep(r) == Send(r) \/ Decode(r) \/ Acquire(r) \/ Score(r) \/ Ask(r) \/ PutSession(r) \/ PutRaises(r)

Next ==
    \/ \E r \in Row : RowStep(r) \/ AbandonedEnds(r)
    \/ \E w \in Worker : EnterSemaphore(w)
    \/ Tick
    \/ Assemble \/ AssembleRaises
    \/ Done

\* The event loop runs what is ready, the clock moves, and a scorer that was called
\* returns or raises in the end, abandoned or not (reward functions are finite, and
\* a call of the limited manager is cut by its timeout).
Spec ==
    /\ Init /\ [][Next]_vars
    /\ \A r \in 1..Max({s.rows : s \in Setups}) :
          /\ WF_vars(r \in Row /\ RowStep(r))
          /\ WF_vars(r \in Row /\ AbandonedEnds(r))
    /\ \A w \in 1..Max({s.workers : s \in Setups}) : WF_vars(w \in Worker /\ EnterSemaphore(w))
    /\ WF_vars(Tick) /\ WF_vars(Assemble \/ AssembleRaises)

-----------------------------------------------------------------------------
(* Properties. *)

\* The most a balance can be short of what a request costs: every session's debt.
Debt == (setup.rows + 1) * Max({setup.rpm, setup.tpm, 1})

\* Types: no clock, balance, sleep, thread pool or attempt counter leaves its range.
TypeOK ==
    /\ now \in 0..MaxNow
    /\ \A w \in Worker, k \in Limiter :
          /\ bucket[w][k].tokens \in -(setup.rows * Max({Cost(k), 1}))..Second
          /\ bucket[w][k].last_update \in -1..now
    /\ \A r \in Row : /\ wake[r] \in -1..(MaxNow + Debt)
                      /\ attempt[r] \in (0..max_retries) \X (0..(max_attempts - 1))
                      /\ result[r].score \in {Zero} \cup (Row \X Nat)
    /\ \A w \in Worker : Cardinality(Busy(w)) <= PoolSize
    /\ \A s \in Server : counts[s] \in Nat
    /\ batch \in {"open", "assembled", "raised"}

\* AsyncTokenBucket.acquire: what one worker's limiter has let through never exceeds
\* a full bucket plus the time since its first use, whatever sessions slept at once,
\* woke late or took the balance below zero.
RateKept ==
    \A w \in Worker, k \in Limiter :
        granted[w][k] > 0 => granted[w][k] * Cost(k) <= Second + (now - first[w][k])

\* AsyncTokenBucket.acquire: no session sleeps longer than the balance calls for. A
\* sleeper is due by the time the present balance, refilled, covers it (for a request
\* above the capacity, which has already paid: by the time the debt is refilled).
NoOversleep ==
    \A r \in Row : \A k \in Limiter :
        (pc[r] = k /\ wake[r] > now) =>
            LET b == bucket[at[r]][k]
                balance == b.tokens + Elapsed(b)
            IN  wake[r] <= now + (IF Large(k) THEN 0 - balance ELSE Cost(k) - balance)

\* The rate limiters let through no more than the rate allows and no later than it
\* requires, whatever sessions compete for them.
LimiterExact == RateKept /\ NoOversleep

\* RateLimitedRewardManager: calls of the scorer that run at once in one worker never
\* exceed max_concurrent plus the threads that timed-out calls left running.
Concurrency ==
    Limited => \A w \in Worker :
        LET live      == {r \in Row : at[r] = w /\ (pc[r] = "running" \/ r \in threads)}
            abandoned == {r \in threads : at[r] = w /\ "timeout" \in result[r].keys}
        IN  /\ Cardinality(live \ abandoned) <= setup.max_concurrent
            /\ ~setup.sync => abandoned = {}

\* Every reward manager's run_single: a session of one output is scored on that
\* output's response, no token more or less.
ScoresOwnResponse ==
    \A r \in Row : (result[r].score # Zero /\ Len(shape[r]) = 1) =>
        result[r].score = <<r, LastLength(r)>>

\* compute_rm_score and _postprocess: an assembled batch has every session's own score
\* in its own row, on the last token of its response (the last column if it is empty).
ScoreInPlace ==
    batch = "assembled" => \A r \in Row :
        /\ rm[r].score = result[r].score
        /\ LastLength(r) > 0 => rm[r].column = LastLength(r)

\* _postprocess and compute_rm_score take the extra keys from the first row: when that
\* one's scorer returns a number, timeouts and failures of the limited manager lose a
\* batch only when the first row is among them, or when a row of another data source
\* was scored with a dictionary.
LostByFirstRow ==
    (batch = "raised" /\ Limited /\ 1 \in setup.scalar) =>
        \/ result[1].keys # ResultKeys(1)
        \/ \E r \in Row \ setup.scalar : result[r].keys = ResultKeys(r)

\* Every session's own response is scored, the score is in its place, and a batch is
\* lost only through its first row or a mixture of data sources.
ScoresTrue == ScoresOwnResponse /\ ScoreInPlace /\ LostByFirstRow

\* NaiveRouter: a server's request count never falls below its requests in flight, so
\* a busy server is never taken for an idle one, over retries and failed attempts.
RouterCounts == \A s \in Server : counts[s] >= Cardinality(InFlight(s))

\* compute_rm_score wakes the reward model before its workers ask it and puts it back
\* to sleep only when none of them waits for an answer; one with servers of its own
\* never sleeps. Sessions streamed to one that shares a pool find it asleep, since nothing
\* but compute_rm_score wakes it.
AskedAwake ==
    (Disrm /\ (setup.mode = "batch" \/ Standalone) /\ \E r \in Row : pc[r] = "forward") => awake

\* No more threads than there are, no more calls at once than configured, no busy server
\* taken for an idle one, and none asked while it sleeps where AskedAwake says so.
WithinCapacity == TypeOK /\ Concurrency /\ RouterCounts /\ AskedAwake

\* Every batch and every session comes to an end: nobody sleeps, waits for the
\* semaphore or for an executor thread for ever.
EveryRowEnds == <>Ended
=============================================================================
