-------------------------- MODULE MessageQueueProofs --------------------------
(***************************************************************************)
(* Proofs about the message queue, for every capacity and every number of  *)
(* consumers.                                                              *)
(***************************************************************************)
EXTENDS MessageQueue, TLAPS

\* What was handed out is older than everything in the deque.
HandedOutBelow == \A c \in Consumer : got[c] <= total_produced - Len(queue)

\* Accounting, the order of the deque and HandedOutBelow are inductive together.
QueueInv == TypeOK /\ Accounting /\ OldestFirst /\ HandedOutBelow

LEMMA PutStep ==
  ASSUME QueueInv, put_sample
  PROVE  QueueInv'
<1> USE DEF QueueInv
<1> DEFINE evicted == IF Len(queue) >= max_queue_size THEN 1 ELSE 0
<1>1. /\ queue \in Seq(Nat) /\ total_produced \in Nat
      /\ Len(queue) <= max_queue_size /\ Len(queue) \in Nat
      /\ total_consumed \in Nat /\ dropped_samples \in Nat /\ cleared \in Nat
  BY DEF TypeOK, Accounting
<1>2. PICK q \in Seq(Nat) :
        /\ queue' = Append(q, total_produced + 1)
        /\ Len(q) = Len(queue) - evicted
        /\ \A i \in 1 .. Len(q) : q[i] = total_produced - Len(q) + i
  <2>1. CASE Len(queue) >= max_queue_size
    <3>1. queue # <<>> /\ evicted = 1
      BY <1>1, <2>1, QueueAssumption
    <3>2. /\ Tail(queue) \in Seq(Nat) /\ Len(Tail(queue)) = Len(queue) - 1
          /\ \A i \in 1 .. Len(Tail(queue)) : Tail(queue)[i] = queue[i + 1]
      BY <1>1, <3>1
    <3>3. \A i \in 1 .. Len(Tail(queue)) :
             Tail(queue)[i] = total_produced - Len(Tail(queue)) + i
      BY <1>1, <3>2 DEF OldestFirst
    <3> QED
      BY <2>1, <3>1, <3>2, <3>3 DEF put_sample, AfterPut, IsFull
  <2>2. CASE ~(Len(queue) >= max_queue_size)
    BY <1>1, <2>2 DEF put_sample, AfterPut, IsFull, OldestFirst
  <2> QED
    BY <2>1, <2>2
<1>3. evicted \in {0, 1} /\ (Len(queue) = max_queue_size => evicted = 1)
  BY <1>1, QueueAssumption
<1>4. /\ total_produced' = total_produced + 1
      /\ dropped_samples' = dropped_samples + evicted
      /\ UNCHANGED <<val_queue, running, total_consumed, cleared, got>>
  BY DEF put_sample, IsFull
<1> HIDE DEF evicted
<1>5. /\ queue' \in Seq(Nat) /\ Len(queue') = Len(q) + 1
      /\ \A i \in 1 .. Len(queue') :
            queue'[i] = IF i = Len(q) + 1 THEN total_produced + 1 ELSE q[i]
  BY <1>1, <1>2
<1>6. call' \in [Consumer -> CallState]
  BY DEF put_sample, NotifyAll, TypeOK, CallState
<1>7. TypeOK'
  BY <1>1, <1>3, <1>4, <1>5, <1>6 DEF TypeOK
<1>8. Accounting'
  <2>1. Len(queue') <= max_queue_size
    BY <1>1, <1>2, <1>3, <1>5, QueueAssumption
  <2> QED
    BY <1>1, <1>2, <1>3, <1>4, <1>5, <2>1 DEF Accounting
<1>9. OldestFirst'
  <2> SUFFICES ASSUME NEW i \in 1 .. Len(queue')
               PROVE  queue'[i] = total_produced' - Len(queue') + i
    BY DEF OldestFirst
  <2>1. CASE i = Len(q) + 1
    BY <1>1, <1>4, <1>5, <2>1
  <2>2. CASE i \in 1 .. Len(q)
    BY <1>1, <1>2, <1>4, <1>5, <2>2
  <2> QED
    BY <1>1, <1>2, <1>5, <2>1, <2>2
<1>10. HandedOutBelow'
  BY <1>1, <1>2, <1>3, <1>4, <1>5 DEF HandedOutBelow, TypeOK
<1> QED
  BY <1>7, <1>8, <1>9, <1>10

LEMMA TakeStep ==
  ASSUME QueueInv, NEW c \in Consumer, get_sample_take(c)
  PROVE  QueueInv' /\ \A d \in Consumer : got'[c] > got[d]
<1> USE DEF QueueInv
<1>1. /\ queue \in Seq(Nat) /\ queue # <<>> /\ total_produced \in Nat
      /\ got \in [Consumer -> Nat] /\ call \in [Consumer -> CallState]
  BY DEF TypeOK, get_sample_take
<1>2. /\ Len(queue) \in Nat /\ Len(queue) >= 1
      /\ Head(queue) \in Nat /\ Head(queue) = queue[1]
      /\ Tail(queue) \in Seq(Nat) /\ Len(Tail(queue)) = Len(queue) - 1
      /\ \A i \in 1 .. Len(Tail(queue)) : Tail(queue)[i] = queue[i + 1]
  BY <1>1
<1>3. Head(queue) = total_produced - Len(queue) + 1
  BY <1>1, <1>2 DEF OldestFirst
<1>4. /\ queue' = Tail(queue) /\ total_consumed' = total_consumed + 1
      /\ call' = [call EXCEPT ![c] = "idle"]
      /\ got' = [got EXCEPT ![c] = Head(queue)]
      /\ UNCHANGED <<val_queue, running, total_produced, dropped_samples, cleared>>
  BY DEF get_sample_take
<1>5. TypeOK'
  BY <1>1, <1>2, <1>4 DEF TypeOK, CallState
<1>6. Accounting'
  <2>1. /\ total_consumed \in Nat /\ dropped_samples \in Nat /\ cleared \in Nat
        /\ max_queue_size \in Nat
    BY QueueAssumption DEF TypeOK
  <2> QED
    BY <1>1, <1>2, <1>4, <2>1 DEF Accounting
<1>7. OldestFirst'
  BY <1>1, <1>2, <1>4 DEF OldestFirst
<1>8. HandedOutBelow'
  BY <1>1, <1>2, <1>3, <1>4 DEF HandedOutBelow
<1>9. \A d \in Consumer : got'[c] > got[d]
  BY <1>1, <1>2, <1>3, <1>4 DEF HandedOutBelow
<1> QED
  BY <1>5, <1>6, <1>7, <1>8, <1>9

\* The steps that do not move a sample.
LEMMA OtherSteps ==
  ASSUME QueueInv,
         \/ \E c \in Consumer :
              get_sample_call(c) \/ get_sample_wait(c) \/ get_sample_closed(c)
         \/ shutdown \/ put_validate \/ get_validate \/ UNCHANGED vars
  PROVE  QueueInv' /\ \A c \in Consumer : got'[c] = got[c] \/ got'[c] = 0
<1> USE DEF QueueInv
<1>1. CASE \E c \in Consumer :
              get_sample_call(c) \/ get_sample_wait(c) \/ get_sample_closed(c)
  <2> PICK c \in Consumer : get_sample_call(c) \/ get_sample_wait(c) \/ get_sample_closed(c)
    BY <1>1
  <2>1. /\ UNCHANGED <<queue, val_queue, running, total_produced, total_consumed,
                       dropped_samples, cleared>>
        /\ \E x \in CallState : call' = [call EXCEPT ![c] = x]
        /\ got' = got \/ got' = [got EXCEPT ![c] = 0]
    BY DEF get_sample_call, get_sample_wait, get_sample_closed, CallState
  <2>2. TypeOK'
    BY <2>1 DEF TypeOK
  <2>3. Accounting' /\ OldestFirst'
    BY <2>1 DEF Accounting, OldestFirst
  <2>4. HandedOutBelow'
    BY <2>1 DEF HandedOutBelow, TypeOK, Accounting
  <2>5. \A d \in Consumer : got'[d] = got[d] \/ got'[d] = 0
    BY <2>1 DEF TypeOK
  <2> QED
    BY <2>2, <2>3, <2>4, <2>5
<1>2. CASE shutdown
  <2>1. TypeOK'
    BY <1>2 DEF shutdown, NotifyAll, TypeOK, CallState
  <2> QED
    BY <1>2, <2>1 DEF shutdown, Accounting, OldestFirst, HandedOutBelow
<1>3. CASE put_validate \/ get_validate
  <2>1. UNCHANGED queueVars
    BY <1>3 DEF put_validate, get_validate
  <2>2. val_queue' \in Nat
    BY <1>3 DEF put_validate, get_validate, TypeOK
  <2>3. TypeOK'
    BY <2>1, <2>2 DEF queueVars, TypeOK
  <2> QED
    BY <2>1, <2>3 DEF queueVars, Accounting, OldestFirst, HandedOutBelow
<1>4. CASE UNCHANGED vars
  BY <1>4 DEF vars, queueVars, TypeOK, Accounting, OldestFirst, HandedOutBelow
<1> QED
  BY <1>1, <1>2, <1>3, <1>4

LEMMA ClearStep ==
  ASSUME QueueInv, clear_queue
  PROVE  QueueInv'
<1> USE DEF QueueInv
<1>1. TypeOK'
  BY DEF clear_queue, TypeOK
<1>2. Accounting'
  BY QueueAssumption DEF clear_queue, Accounting, TypeOK
<1>3. OldestFirst' /\ HandedOutBelow'
  BY DEF clear_queue, OldestFirst, HandedOutBelow, TypeOK
<1> QED
  BY <1>1, <1>2, <1>3

LEMMA QueueInvInit == Init => QueueInv
<1>1. Init => TypeOK
  BY DEF Init, TypeOK, CallState
<1> QED
  BY <1>1, QueueAssumption DEF Init, QueueInv, Accounting, OldestFirst, HandedOutBelow

LEMMA QueueInvNext == QueueInv /\ [Next]_vars => QueueInv'
  BY PutStep, TakeStep, OtherSteps, ClearStep DEF Next, get_sample

\* The counters of get_statistics always add up, and the deque holds the youngest
\* samples in the order they were put, whatever the interleaving of producers and
\* consumers.
THEOREM QueueTrueHolds == Spec => []QueueTrue
<1>1. QueueInv => QueueTrue
  BY DEF QueueInv, QueueTrue
<1> QED
  BY <1>1, QueueInvInit, QueueInvNext, PTL DEF Spec

\* Samples are handed out in the order of the puts and never twice, however
\* many consumers one notify_all wakes.
THEOREM HandedOutInOrderHolds == Spec => HandedOutInOrder
<1> DEFINE A == \A c, d \in Consumer : got'[c] # got[c] /\ got'[c] # 0 => got'[c] > got[d]
<1>1. QueueInv /\ [Next]_vars => [A]_vars
  <2> SUFFICES ASSUME QueueInv, [Next]_vars
               PROVE  A
    OBVIOUS
  <2>1. CASE put_sample \/ clear_queue
    BY <2>1 DEF put_sample, clear_queue
  <2>2. CASE \E c \in Consumer : get_sample_take(c)
    <3> PICK c \in Consumer : get_sample_take(c)
      BY <2>2
    <3>1. \A d \in Consumer : d # c => got'[d] = got[d]
      BY DEF get_sample_take, QueueInv, TypeOK
    <3> QED
      BY <3>1, TakeStep
  <2>3. CASE \/ \E c \in Consumer :
                  get_sample_call(c) \/ get_sample_wait(c) \/ get_sample_closed(c)
             \/ shutdown \/ put_validate \/ get_validate \/ UNCHANGED vars
    BY <2>3, OtherSteps
  <2> QED
    BY <2>1, <2>2, <2>3 DEF Next, get_sample
<1> QED
  BY <1>1, QueueInvInit, QueueInvNext, PTL DEF Spec, HandedOutInOrder

\* No consumer sleeps on the condition while there is something to take or the
\* queue was shut down: put_sample and shutdown notify every waiter.
THEOREM NoLostWakeup == Spec => []NoSleepOnWork
<1>1. Init => NoSleepOnWork
  BY DEF Init, NoSleepOnWork
<1>2. QueueInv /\ NoSleepOnWork /\ [Next]_vars => NoSleepOnWork'
  <2> SUFFICES ASSUME QueueInv, NoSleepOnWork, [Next]_vars
               PROVE  NoSleepOnWork'
    OBVIOUS
  <2> USE DEF NoSleepOnWork, QueueInv, TypeOK
  <2>1. CASE put_sample \/ shutdown
    BY <2>1 DEF put_sample, shutdown, NotifyAll
  <2>2. ASSUME NEW c \in Consumer, get_sample_call(c) \/ get_sample(c)
        PROVE  NoSleepOnWork'
    BY <2>2 DEF get_sample_call, get_sample, get_sample_wait, get_sample_closed, get_sample_take
  <2>3. CASE clear_queue
    BY <2>3 DEF clear_queue
  <2>4. CASE put_validate \/ get_validate \/ UNCHANGED vars
    BY <2>4 DEF put_validate, get_validate, vars, queueVars
  <2> QED
    BY <2>1, <2>2, <2>3, <2>4 DEF Next
<1> QED
  BY <1>1, <1>2, QueueInvInit, QueueInvNext, PTL DEF Spec
=============================================================================
