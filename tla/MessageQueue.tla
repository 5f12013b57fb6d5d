---------------------------- MODULE MessageQueue ----------------------------
(***************************************************************************)
(* The MessageQueue actor between the rollouter and the trainer            *)
(* (verl/experimental/fully_async_policy/message_queue.py).                *)
(*                                                                         *)
(* The actor is one asyncio event loop; every method body runs under       *)
(* self._lock, so the units of interleaving are the stretches between two  *)
(* awaits: a whole method, except get_sample, which gives the lock up in   *)
(* _consumer_condition.wait() and takes it again after a notify.           *)
(*                                                                         *)
(* A sample is its place in the order of the puts: the payload is never    *)
(* looked at by the queue.                                                 *)
(***************************************************************************)
EXTENDS Integers, Sequences

CONSTANTS
    Consumer,         \* concurrent callers of get_sample
    max_queue_size,   \* capacity of the deque
    MaxPuts,          \* bound: number of put_sample calls explored
    MaxValidate       \* bound: length of val_queue explored

ASSUME QueueAssumption ==
    /\ max_queue_size \in Nat \ {0}
    /\ MaxPuts \in Nat
    /\ MaxValidate \in Nat

VARIABLES
    queue,            \* the deque, oldest sample first
    val_queue,        \* number of validation results waiting
    running,          \* FALSE once shutdown() ran
    total_produced,
    total_consumed,
    dropped_samples,
    cleared,          \* history: samples thrown away by clear_queue()
    call,             \* where each consumer is in get_sample
    got               \* what its last get_sample returned (0: None)

queueVars == <<queue, running, total_produced, total_consumed,
               dropped_samples, cleared, call, got>>
vars == <<queueVars, val_queue>>

-----------------------------------------------------------------------------
(* The effect of put_sample on the deque. The composition in FullyAsync     *)
(* uses the same operators.                                                 *)

IsFull(q) == Len(q) >= max_queue_size

\* Faulty variants: no eviction; the youngest sample evicted; appendleft.
AfterPut_NoEvict(q, sample) == Append(q, sample)
AfterPut_EvictYoungest(q, sample) ==
    Append(IF IsFull(q) THEN SubSeq(q, 1, Len(q) - 1) ELSE q, sample)
AfterPut_AppendLeft(q, sample) == <<sample>> \o (IF IsFull(q) THEN Tail(q) ELSE q)

\* popleft() when full, then append.
AfterPut(q, sample) == Append(IF IsFull(q) THEN Tail(q) ELSE q, sample)

Init ==
    /\ queue = <<>>
    /\ val_queue = 0
    /\ running = TRUE
    /\ total_produced = 0
    /\ total_consumed = 0
    /\ dropped_samples = 0
    /\ cleared = 0
    /\ call = [c \in Consumer |-> "idle"]
    /\ got = [c \in Consumer |-> 0]

\* Faulty variant: the waiters are not notified.
NotifyAll_Nobody == call

\* _consumer_condition.notify_all(): every waiter will retake the lock.
NotifyAll == [c \in Consumer |-> IF call[c] = "waiting" THEN "woken" ELSE call[c]]

\* put_sample does not look at running: a put after shutdown is accepted.
put_sample ==
    /\ total_produced < MaxPuts
    /\ queue' = AfterPut(queue, total_produced + 1)
    /\ dropped_samples' = dropped_samples + (IF IsFull(queue) THEN 1 ELSE 0)
    /\ total_produced' = total_produced + 1
    /\ call' = NotifyAll
    /\ UNCHANGED <<val_queue, running, total_consumed, cleared, got>>

get_sample_call(c) ==
    /\ call[c] = "idle"
    /\ call' = [call EXCEPT ![c] = "checking"]
    /\ UNCHANGED <<queue, val_queue, running, total_produced, total_consumed,
                   dropped_samples, cleared, got>>

\* The three ways through get_sample's loop, with the lock held.
get_sample_wait(c) ==
    /\ call[c] \in {"checking", "woken"}
    /\ queue = <<>> /\ running
    /\ call' = [call EXCEPT ![c] = "waiting"]
    /\ UNCHANGED <<queue, val_queue, running, total_produced, total_consumed,
                   dropped_samples, cleared, got>>

get_sample_closed(c) ==
    /\ call[c] \in {"checking", "woken"}
    /\ queue = <<>> /\ ~running
    /\ call' = [call EXCEPT ![c] = "idle"]
    /\ got' = [got EXCEPT ![c] = 0]
    /\ UNCHANGED <<queue, val_queue, running, total_produced, total_consumed,
                   dropped_samples, cleared>>

get_sample_take(c) ==
    /\ call[c] \in {"checking", "woken"}
    /\ queue # <<>>
    /\ queue' = Tail(queue)
    /\ total_consumed' = total_consumed + 1
    /\ call' = [call EXCEPT ![c] = "idle"]
    /\ got' = [got EXCEPT ![c] = Head(queue)]
    /\ UNCHANGED <<val_queue, running, total_produced, dropped_samples, cleared>>

clear_queue ==
    /\ queue # <<>>
    /\ queue' = <<>>
    /\ cleared' = cleared + Len(queue)
    /\ UNCHANGED <<val_queue, running, total_produced, total_consumed,
                   dropped_samples, call, got>>

shutdown ==
    /\ running
    /\ running' = FALSE
    /\ call' = NotifyAll
    /\ UNCHANGED <<queue, val_queue, total_produced, total_consumed,
                   dropped_samples, cleared, got>>

put_validate ==
    /\ val_queue < MaxValidate
    /\ val_queue' = val_queue + 1
    /\ UNCHANGED queueVars

\* get_validate never waits; on an empty val_queue it returns None.
get_validate ==
    /\ val_queue > 0
    /\ val_queue' = val_queue - 1
    /\ UNCHANGED queueVars

get_sample(c) == get_sample_wait(c) \/ get_sample_closed(c) \/ get_sample_take(c)

Next ==
    \/ put_sample
    \/ \E c \in Consumer : get_sample_call(c) \/ get_sample(c)
    \/ clear_queue
    \/ shutdown
    \/ put_validate
    \/ get_validate

\* The event loop runs every coroutine that is ready: a consumer inside
\* get_sample is not forgotten. Nobody is obliged to put, clear or shut down.
Fairness == \A c \in Consumer : WF_vars(get_sample(c))

Spec == Init /\ [][Next]_vars /\ Fairness

-----------------------------------------------------------------------------
CallState == {"idle", "checking", "waiting", "woken"}

\* Type invariant of the queue actor.
TypeOK ==
    /\ queue \in Seq(Nat)
    /\ val_queue \in Nat
    /\ running \in BOOLEAN
    /\ total_produced \in Nat
    /\ total_consumed \in Nat
    /\ dropped_samples \in Nat
    /\ cleared \in Nat
    /\ call \in [Consumer -> CallState]
    /\ got \in [Consumer -> Nat]

\* get_statistics() adds up: a produced sample was consumed, dropped because
\* the deque was full, cleared, or is still in the deque, and the deque never
\* outgrows max_queue_size. The drop in put_sample is what makes both hold.
Accounting ==
    /\ total_produced = total_consumed + dropped_samples + cleared + Len(queue)
    /\ Len(queue) <= max_queue_size

\* The deque holds the youngest samples, in the order of the puts: put_sample
\* drops from the old end, get_sample takes from the old end.
OldestFirst ==
    \A i \in 1 .. Len(queue) : queue[i] = total_produced - Len(queue) + i

\* Whatever producers and consumers do, the deque and the counters tell the truth: what
\* is in the deque is the youngest of what was produced, and the rest is accounted for.
QueueTrue == Accounting /\ OldestFirst

\* No lost wake-up: a consumer sleeps on the condition only while there is
\* nothing to take and the queue is open (put_sample and shutdown notify).
NoSleepOnWork ==
    \A c \in Consumer : call[c] = "waiting" => queue = <<>> /\ running

\* Across all consumers samples are handed out in the order of the puts, each
\* at most once, also when one notify_all wakes several of them.
HandedOutInOrder ==
    [][\A c, d \in Consumer : got'[c] # got[c] /\ got'[c] # 0 => got'[c] > got[d]]_vars

\* After shutdown no consumer stays inside get_sample: it gets a sample or None.
ShutdownReleases ==
    \A c \in Consumer : ~running /\ call[c] # "idle" ~> call[c] = "idle"
=============================================================================
