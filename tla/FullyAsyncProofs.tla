--------------------------- MODULE FullyAsyncProofs ---------------------------
(***************************************************************************)
(* Proofs about FullyAsync for every value of the constants: its lock and  *)
(* resume signal, and what becomes of the samples: each is in one place,   *)
(* the budget of a version is kept, and the three actors implement         *)
(* SamplePipeline.                                                         *)
(***************************************************************************)
EXTENDS FullyAsync, FiniteSetTheorems, TLAPS

-----------------------------------------------------------------------------
(* The constants derived from the configuration. *)

\* int() of the scaled batch is at least one sample.
LEMMA Budget == max_required_samples \in Nat \ {0} /\ max_queue_size \in Nat \ {0}
<1> DEFINE x == SamplesPerVersion * (StaleNum + StaleDen)
<1>1. SamplesPerVersion \in Nat /\ SamplesPerVersion >= 1
  BY FullyAsyncAssumption DEF SamplesPerVersion
<1>2. x \in Nat /\ x >= StaleDen
  BY <1>1, FullyAsyncAssumption
<1>3. \A y \in Nat, d \in Nat \ {0} : y >= d => (y \div d) \in Nat /\ (y \div d) >= 1
  OBVIOUS
<1>4. (x \div StaleDen) \in Nat /\ (x \div StaleDen) >= 1
  BY <1>2, <1>3, FullyAsyncAssumption
<1> QED
  BY <1>4 DEF max_required_samples, max_queue_size

\* Sets of samples are finite, so their cardinalities are numbers.
LEMMA SampleSetFinite ==
  ASSUME NEW S \in SUBSET Sample
  PROVE  IsFiniteSet(S) /\ Cardinality(S) \in Nat
<1>1. IsFiniteSet(Sample)
  BY FS_Interval, FullyAsyncAssumption DEF Sample
<1> QED
  BY <1>1, FS_Subset, FS_CardinalityType

\* Arriving at and leaving the lock.
LEMMA LockType ==
  ASSUME lock \in Seq(Actor)
  PROVE  /\ \A a \in Actor : Append(lock, a) \in Seq(Actor)
         /\ lock # <<>> => Tail(lock) \in Seq(Actor)
         /\ \A a \in Actor : <<a>> \in Seq(Actor)
  OBVIOUS

\* put_sample keeps the deque a sequence of samples and end signals.
LEMMA PutType ==
  ASSUME queue \in Seq(Sample \cup {None}), dropped \in SUBSET (Sample \cup {None}),
         NEW sample \in Sample \cup {None}, Put(sample)
  PROVE  /\ queue' \in Seq(Sample \cup {None})
         /\ dropped' \in SUBSET (Sample \cup {None})
<1>1. MQ!IsFull(queue) => queue # <<>>
  BY Budget DEF MQ!IsFull
<1>2. CASE MQ!IsFull(queue)
  BY <1>1, <1>2 DEF Put, MQ!AfterPut
<1>3. CASE ~MQ!IsFull(queue)
  BY <1>3 DEF Put, MQ!AfterPut
<1> QED
  BY <1>2, <1>3

-----------------------------------------------------------------------------
(* Type correctness *)

LEMMA InitType == Init => TypeOK
<1>1. Init => FeedType /\ TaskType
  BY FullyAsyncAssumption DEF Init, FeedType, TaskType, Sample, ProcessorState
<1>2. Init => /\ staleness_samples \in Nat /\ lock \in Seq(Actor)
              /\ monitor_queue_size \in Nat
  BY DEF Init
<1>3. Init => paused \in BOOLEAN /\ resume_event \in BOOLEAN /\ running \in BOOLEAN
  BY DEF Init
<1>4. Init => ControlType /\ MonitorType
  BY <1>2, <1>3 DEF Init, ControlType, MonitorType
<1>5. Init => QueueType
  BY DEF Init, QueueType
<1>6. Init => /\ batch \in Seq(Sample) /\ current_param_version \in Nat
              /\ rollout_version \in Nat /\ active_seen \in Nat
              /\ local_trigger_step \in 1 .. trigger_parameter_sync_step
  BY FullyAsyncAssumption DEF Init
<1>7. Init => TrainType
  BY <1>6, Zenon DEF Init, TrainType, TrainerState
<1> QED
  BY <1>1, <1>4, <1>5, <1>7 DEF TypeOK

LEMMA FeederType ==
  ASSUME TypeOK, Feeder
  PROVE  TypeOK'
<1> USE DEF TypeOK
<1>1. CASE FeedSample
  <2>1. FeedType'
    BY <1>1, FullyAsyncAssumption DEF FeedSample, FeedType, Sample
  <2>2. (TaskType /\ ControlType /\ MonitorType /\ QueueType /\ TrainType)'
    BY <1>1
    DEF FeedSample, TaskType, ControlType, MonitorType, QueueType, TrainType, procVars,
        ctlVars, mainVars, monVars, queueVars, trainVars, stampVars
  <2> QED
    BY <2>1, <2>2
<1>2. CASE FeedEnd
  BY <1>2
  DEF FeedEnd, FeedType, TaskType, ControlType, MonitorType, QueueType, TrainType, procVars,
      ctlVars, mainVars, monVars, queueVars, trainVars, stampVars
<1> QED
  BY <1>1, <1>2 DEF Feeder

\* Shared by the places where the processor goes on with a sample.
LEMMA ProceedType ==
  ASSUME TypeOK, NEW sample \in Sample \cup {None}, NEW active \in SUBSET Sample,
         NEW L \in Seq(Actor), Proceed(sample, active, L)
  PROVE  /\ processor' \in ProcessorState
         /\ hand' \in Sample \cup {None}
         /\ processor' = "submitting" => hand' # None
         /\ active_tasks' \in SUBSET Sample
         /\ task' \in [Sample -> {"new", "running", "done", "failed"}]
         /\ born' \in [Sample -> Int]
         /\ lock' \in Seq(Actor)
<1>1. CASE sample = None /\ active = {}
  BY <1>1 DEF TypeOK, TaskType, Proceed, ProcessorState
<1>2. CASE IF sample = None THEN active # {} ELSE AtLimit(active)
  <2>1. /\ processor' = "wait" /\ hand' = sample /\ active_tasks' = active
        /\ lock' = Append(L, "processor") /\ UNCHANGED <<task, born>>
    BY <1>2, Zenon DEF Proceed
  <2> QED
    BY <2>1 DEF TypeOK, TaskType, ProcessorState, Actor
<1>3. CASE sample # None /\ ~AtLimit(active) /\ L = <<>>
  <2>1. Submit(sample, active) /\ lock' = L
    BY <1>3, Zenon DEF Proceed
  <2>2. sample \in Sample /\ rollout_version \in Int
    BY <1>3 DEF TypeOK, TrainType
  <2>3. /\ task' \in [Sample -> {"new", "running", "done", "failed"}]
        /\ born' \in [Sample -> Int]
    BY <2>1, <2>2 DEF TypeOK, TaskType, Submit
  <2> QED
    BY <1>3, <2>1, <2>2, <2>3 DEF TypeOK, TaskType, Submit, ProcessorState
<1>4. CASE sample # None /\ ~AtLimit(active) /\ L # <<>>
  BY <1>4 DEF TypeOK, TaskType, Proceed, ProcessorState, Actor
<1> QED
  BY <1>1, <1>2, <1>3, <1>4

LEMMA GetType ==
  ASSUME TypeOK, Get, pending_queue # <<>>
  PROVE  /\ pending_queue' \in Seq(Sample \cup {None})
         /\ processor' \in ProcessorState
         /\ hand' \in Sample \cup {None}
         /\ processor' = "submitting" => hand' # None
         /\ active_tasks' \in SUBSET Sample
         /\ task' \in [Sample -> {"new", "running", "done", "failed"}]
         /\ born' \in [Sample -> Int]
         /\ ControlType'
<1>1. /\ Head(pending_queue) \in Sample \cup {None}
      /\ Tail(pending_queue) \in Seq(Sample \cup {None})
  BY DEF TypeOK, FeedType
<1>2. active_tasks \in SUBSET Sample /\ lock \in Seq(Actor)
  BY DEF TypeOK, TaskType, ControlType
<1>3. Proceed(Head(pending_queue), active_tasks, lock)
  BY DEF Get
<1>4. /\ processor' \in ProcessorState
      /\ hand' \in Sample \cup {None}
      /\ processor' = "submitting" => hand' # None
      /\ active_tasks' \in SUBSET Sample
      /\ task' \in [Sample -> {"new", "running", "done", "failed"}]
      /\ born' \in [Sample -> Int]
      /\ lock' \in Seq(Actor)
  BY <1>1, <1>2, <1>3, ProceedType
<1>5. ControlType'
  BY <1>4 DEF TypeOK, ControlType, Get
<1> QED
  BY <1>1, <1>4, <1>5 DEF Get

LEMMA ProcessorType ==
  ASSUME TypeOK, Processor
  PROVE  TypeOK'
<1> USE DEF TypeOK
<1> DEFINE Rest == MonitorType /\ QueueType /\ TrainType
<1>1. CASE ProcCheck
  <2>1. TaskType'
    BY <1>1 DEF ProcCheck, TaskType, QueueType, ProcessorState, stampVars
  <2>2. (FeedType /\ ControlType /\ Rest)'
    BY <1>1
    DEF ProcCheck, FeedType, ControlType, MonitorType, QueueType, TrainType, feedVars,
        ctlVars, mainVars, monVars, queueVars, trainVars, stampVars
  <2> QED
    BY <2>1, <2>2
<1>2. CASE ProcDecide
  <2>1. Rest' /\ feeder' = feeder /\ global_steps' = global_steps
    BY <1>2
    DEF ProcDecide, MonitorType, QueueType, TrainType, feedVars, mainVars, monVars,
        queueVars, trainVars
  <2>2. CASE paused \/ ShouldPause(queue_size)
    <3>1. TaskType' /\ pending_queue' = pending_queue
      BY <1>2, <2>2 DEF ProcDecide, Pause, TaskType, ProcessorState
    <3>2. lock' \in Seq(Actor) /\ staleness_samples' \in Nat
      BY <1>2, <2>2 DEF ProcDecide, Pause, Arrive, ControlType, Actor, ctlVars
    <3>3. ControlType'
      BY <1>2, <2>2, <3>2, Zenon DEF ProcDecide, Pause, ControlType, ctlVars
    <3> QED
      BY <2>1, <3>1, <3>3 DEF FeedType
  <2>3. CASE ~paused /\ ~ShouldPause(queue_size) /\ pending_queue # <<>>
    <3>1. Get /\ queue_size' = 0 /\ finished' = finished
      BY <1>2, <2>3 DEF ProcDecide
    <3> QED
      BY <2>1, <2>3, <3>1, GetType DEF FeedType, TaskType
  <2>4. CASE ~paused /\ ~ShouldPause(queue_size) /\ pending_queue = <<>>
    <3>1. TaskType' /\ FeedType'
      BY <1>2, <2>1, <2>4 DEF ProcDecide, TaskType, FeedType, ProcessorState
    <3>2. ControlType'
      BY <1>2, <2>4 DEF ProcDecide, ControlType, ctlVars
    <3> QED
      BY <2>1, <3>1, <3>2
  <2> QED
    BY <2>2, <2>3, <2>4
<1>3. CASE ProcPauseLocked
  <2>1. TaskType'
    BY <1>3 DEF ProcPauseLocked, Pause, TaskType, ProcessorState, stampVars
  <2>2. ControlType'
    <3>1. Tail(lock) \in Seq(Actor)
      BY <1>3, LockType DEF ProcPauseLocked, Holds, ControlType
    <3> QED
      BY <1>3, <3>1, Zenon DEF ProcPauseLocked, Pause, ControlType
  <2>3. (FeedType /\ Rest)'
    BY <1>3
    DEF ProcPauseLocked, FeedType, MonitorType, QueueType, TrainType, feedVars, mainVars,
        monVars, queueVars, trainVars, stampVars
  <2> QED
    BY <2>1, <2>2, <2>3
<1>4. CASE ProcDrain \/ ProcDrainLocked
  <2>1. TaskType'
    BY <1>4
    DEF ProcDrain, ProcDrainLocked, RetireDrained, Retire, Ended, TaskType, ProcessorState,
        stampVars
  <2>2. /\ lock' \in Seq(Actor)
        /\ resume_future' \in {"none", "waiting", "done"}
        /\ UNCHANGED <<staleness_samples, paused, resume_event>>
    <3>1. CASE ProcDrain
      BY <3>1 DEF ProcDrain, RetireDrained, Arrive, ControlType, Actor
    <3>2. CASE ProcDrainLocked
      BY <3>2 DEF ProcDrainLocked, RetireDrained, Holds, ControlType
    <3> QED
      BY <1>4, <3>1, <3>2
  <2>3. ControlType'
    BY <2>2 DEF ControlType
  <2>4. (FeedType /\ Rest)'
    BY <1>4
    DEF ProcDrain, ProcDrainLocked, FeedType, MonitorType, QueueType, TrainType, feedVars,
        mainVars, monVars, queueVars, trainVars, stampVars
  <2> QED
    BY <2>1, <2>3, <2>4
<1>5. CASE ProcResume
  <2>1. TaskType' /\ ControlType'
    BY <1>5 DEF ProcResume, TaskType, ControlType, ProcessorState, stampVars
  <2>2. (FeedType /\ Rest)'
    BY <1>5
    DEF ProcResume, FeedType, MonitorType, QueueType, TrainType, feedVars, mainVars,
        monVars, queueVars, trainVars, stampVars
  <2> QED
    BY <2>1, <2>2
<1>6. CASE ProcGet
  <2>1. Rest' /\ feeder' = feeder /\ global_steps' = global_steps
    BY <1>6
    DEF ProcGet, MonitorType, QueueType, TrainType, feedVars, mainVars, monVars,
        queueVars, trainVars
  <2>2. Get /\ pending_queue # <<>> /\ queue_size' = queue_size /\ finished' = finished
    BY <1>6 DEF ProcGet
  <2> QED
    BY <2>1, <2>2, GetType DEF FeedType, TaskType
<1>7. CASE ProcWaitDone
  <2>1. (FeedType /\ Rest)' /\ UNCHANGED <<queue_size, finished, ctlVars>>
    BY <1>7
    DEF ProcWaitDone, FeedType, MonitorType, QueueType, TrainType, feedVars, mainVars,
        monVars, queueVars, trainVars
  <2>2. active_tasks \ Ended \in SUBSET Sample /\ Tail(lock) \in Seq(Actor)
    BY <1>7 DEF ProcWaitDone, Holds, TaskType, ControlType
  <2>3. CASE \E s \in Ended : task[s] = "failed"
    <3>1. TaskType'
      BY <1>7, <2>1, <2>2, <2>3 DEF ProcWaitDone, TaskType, ProcessorState
    <3>2. ControlType'
      BY <1>7, <2>1, <2>2, <2>3 DEF ProcWaitDone, ControlType, ctlVars
    <3> QED
      BY <2>1, <3>1, <3>2
  <2>4. CASE ~\E s \in Ended : task[s] = "failed"
    <3>1. Proceed(hand, active_tasks \ Ended, Tail(lock)) /\ hand \in Sample \cup {None}
      BY <1>7, <2>4 DEF ProcWaitDone, TaskType
    <3>2. TaskType' /\ lock' \in Seq(Actor)
      BY <2>1, <2>2, <3>1, ProceedType DEF TaskType
    <3>3. ControlType'
      BY <2>1, <3>2 DEF ControlType, ctlVars
    <3> QED
      BY <2>1, <3>2, <3>3
  <2> QED
    BY <2>3, <2>4
<1>8. CASE ProcSubmitLocked
  <2>1. TaskType'
    BY <1>8 DEF ProcSubmitLocked, Submit, TaskType, TrainType, ProcessorState
  <2>2. ControlType'
    BY <1>8 DEF ProcSubmitLocked, Holds, ControlType, ctlVars
  <2>3. (FeedType /\ Rest)'
    BY <1>8
    DEF ProcSubmitLocked, FeedType, MonitorType, QueueType, TrainType, feedVars, mainVars,
        monVars, queueVars, trainVars
  <2> QED
    BY <2>1, <2>2, <2>3
<1> QED
  BY <1>1, <1>2, <1>3, <1>4, <1>5, <1>6, <1>7, <1>8 DEF Processor

LEMMA MonitorTypes ==
  ASSUME TypeOK, Monitor \/ Main
  PROVE  TypeOK'
<1> USE DEF TypeOK
<1>1. CASE MonitorHead \/ MonitorCheck
  <2>1. monitor_queue_size' \in Nat
    BY <1>1 DEF MonitorHead, MonitorCheck, MonitorType, QueueType
  <2>2. MonitorType'
    BY <1>1, <2>1 DEF MonitorHead, MonitorCheck, MonitorType, mainVars
  <2>3. (FeedType /\ TaskType /\ ControlType /\ QueueType /\ TrainType)'
    BY <1>1
    DEF MonitorHead, MonitorCheck, FeedType, TaskType, ControlType, QueueType,
        TrainType, feedVars, procVars, ctlVars, queueVars, trainVars, stampVars
  <2> QED
    BY <2>2, <2>3
<1>2. CASE MonitorDecide \/ MonitorResumeLocked
  <2>1. lock' \in Seq(Actor) /\ staleness_samples' \in Nat
    <3>1. /\ staleness_samples' = staleness_samples
          /\ \/ lock' = lock
             \/ lock' = Append(lock, "monitor")
             \/ lock # <<>> /\ lock' = Tail(lock)
      BY <1>2, Zenon
      DEF MonitorDecide, MonitorResumeLocked, Unpause, Arrive, Holds, ctlVars
    <3> QED
      BY <3>1, LockType DEF ControlType, Actor
  <2>2. /\ paused' \in BOOLEAN /\ resume_event' \in BOOLEAN
        /\ resume_future' \in {"none", "waiting", "done"}
    BY <1>2, Zenon
    DEF MonitorDecide, MonitorResumeLocked, Unpause, SetEvent, ControlType, ctlVars
  <2>3. MonitorType'
    BY <1>2
    DEF MonitorDecide, MonitorResumeLocked, Unpause, MonitorType, mainVars
  <2>4. (FeedType /\ TaskType /\ QueueType /\ TrainType)'
    BY <1>2
    DEF MonitorDecide, MonitorResumeLocked, FeedType, TaskType, QueueType, TrainType,
        feedVars, procVars, queueVars, trainVars, stampVars
  <2> QED
    BY <2>1, <2>2, <2>3, <2>4 DEF ControlType
<1>3. CASE MainClose
  <2>1. QueueType'
    BY <1>3, PutType DEF MainClose, QueueType, stampVars
  <2>2. (FeedType /\ TaskType /\ TrainType)'
    BY <1>3
    DEF MainClose, FeedType, TaskType, TrainType, procVars, ctlVars, monVars, trainVars,
        stampVars
  <2>3. (ControlType /\ MonitorType)'
    BY <1>3, Zenon DEF MainClose, ControlType, MonitorType, procVars, ctlVars, monVars
  <2> QED
    BY <2>1, <2>2, <2>3
<1>4. CASE MainStop
  <2>1. (FeedType /\ TaskType /\ QueueType /\ TrainType)'
    BY <1>4
    DEF MainStop, FeedType, TaskType, QueueType, TrainType, feedVars, procVars, queueVars,
        trainVars, stampVars
  <2>2. (ControlType /\ MonitorType)'
    BY <1>4, Zenon DEF MainStop, ControlType, MonitorType, ctlVars, monVars
  <2> QED
    BY <2>1, <2>2
<1> QED
  BY <1>1, <1>2, <1>3, <1>4 DEF Monitor, Main

LEMMA TaskTypes ==
  ASSUME TypeOK, NEW s \in Sample, TaskPut(s) \/ TaskFail(s)
  PROVE  TypeOK'
<1> USE DEF TypeOK
<1>1. CASE TaskPut(s)
  <2>1. QueueType'
    BY <1>1, PutType DEF TaskPut, QueueType, TrainType
  <2>2. (FeedType /\ TaskType /\ ControlType /\ MonitorType /\ TrainType)'
    BY <1>1
    DEF TaskPut, FeedType, TaskType, ControlType, MonitorType, TrainType, feedVars,
        procVars, ctlVars, mainVars, monVars, trainVars
  <2> QED
    BY <2>1, <2>2
<1>2. CASE TaskFail(s)
  BY <1>2
  DEF TaskFail, FeedType, TaskType, ControlType, MonitorType, QueueType, TrainType,
      feedVars, procVars, ctlVars, mainVars, monVars, queueVars, trainVars, stampVars
<1> QED
  BY <1>1, <1>2

LEMMA TrainerTypes ==
  ASSUME TypeOK, LockDiscipline, TrainerNext
  PROVE  TypeOK'
<1> USE DEF TypeOK
<1> DEFINE Rollout == FeedType /\ MonitorType
<1>1. CASE TrainCollect
  <2>1. queue' \in Seq(Sample \cup {None}) /\ batch' \in Seq(Sample) /\ trainer' \in TrainerState
    <3>1. Head(queue) \in Sample \cup {None} /\ Tail(queue) \in Seq(Sample \cup {None})
      BY <1>1 DEF TrainCollect, QueueType
    <3>2. CASE Head(queue) = None
      BY <1>1, <3>1, <3>2 DEF TrainCollect, TrainType, TrainerState
    <3>3. CASE Head(queue) # None
      <4>1. batch' = Append(batch, Head(queue)) /\ queue' = Tail(queue)
            /\ trainer' \in {"train", "collect"}
        BY <1>1, <3>3, Zenon DEF TrainCollect
      <4> QED
        BY <3>1, <3>3, <4>1 DEF TrainType, TrainerState
    <3> QED
      BY <3>2, <3>3
  <2>2. TrainType'
    BY <1>1, <2>1 DEF TrainCollect, TrainType
  <2>3. (QueueType /\ Rollout /\ TaskType /\ ControlType)'
    BY <1>1, <2>1
    DEF TrainCollect, FeedType, TaskType, ControlType, MonitorType, QueueType, rolloutVars,
        feedVars, procVars, ctlVars, mainVars, monVars, stampVars
  <2> QED
    BY <2>2, <2>3
<1>2. CASE TrainStep
  <2>1. InBatch \in SUBSET Sample
    BY DEF InBatch, TrainType
  <2>2. TrainType'
    BY <1>2, <2>1, FullyAsyncAssumption DEF TrainStep, TrainType, TrainerState
  <2>3. born' \in [Sample -> Int] /\ put_version' \in [Sample -> Int]
    BY <1>2 DEF TrainStep, Forget, TaskType, QueueType
  <2>4. (Rollout /\ TaskType /\ ControlType /\ QueueType)'
    BY <1>2, <2>3
    DEF TrainStep, FeedType, TaskType, ControlType, MonitorType, QueueType, rolloutVars,
        feedVars, procVars, ctlVars, mainVars, monVars, queueVars
  <2> QED
    BY <2>2, <2>4
<1>3. CASE TrainSync \/ TrainFinal
  <2>1. TrainType'
    BY <1>3 DEF TrainSync, TrainFinal, TrainType, TrainerState
  <2>2. (Rollout /\ TaskType /\ ControlType /\ QueueType)'
    BY <1>3
    DEF TrainSync, TrainFinal, FeedType, TaskType, ControlType, MonitorType, QueueType,
        rolloutVars, feedVars, procVars, ctlVars, mainVars, monVars, queueVars, stampVars
  <2> QED
    BY <2>1, <2>2
<1>4. CASE ResetEnter \/ ResetLocked
  <2>1. Cardinality(active_tasks) \in Nat
    BY SampleSetFinite DEF TaskType
  <2>2. lock' \in Seq(Actor) /\ active_seen' \in Nat /\ staleness_samples' \in Nat
    <3>1. /\ staleness_samples' = staleness_samples
          /\ active_seen' = active_seen \/ active_seen' = Cardinality(active_tasks)
          /\ \/ lock' = lock
             \/ lock' = Append(lock, "reset")
             \/ lock' = <<"reset">>
      BY <1>4, Zenon DEF ResetEnter, ResetLocked, ResetBegin, Arrive, ctlVars
    <3> QED
      BY <2>1, <3>1, LockType DEF ControlType, TrainType, Actor
  <2>3. /\ paused' \in BOOLEAN /\ resume_event' \in BOOLEAN
        /\ resume_future' \in {"none", "waiting", "done"}
    BY <1>4, Zenon
    DEF ResetEnter, ResetLocked, ResetBegin, SetEvent, ControlType, ctlVars
  <2>4. TrainType'
    BY <1>4, <2>2 DEF ResetEnter, ResetLocked, ResetBegin, TrainType, TrainerState
  <2>5. (Rollout /\ TaskType /\ QueueType)'
    BY <1>4
    DEF ResetEnter, ResetLocked, FeedType, TaskType, MonitorType, QueueType, rolloutVars,
        feedVars, procVars, mainVars, monVars, queueVars, stampVars
  <2> QED
    BY <2>2, <2>3, <2>4, <2>5 DEF ControlType
<1>5. CASE ResetEnd
  <2>1. Tail(lock) \in Seq(Actor)
    BY <1>5, LockType DEF ResetEnd, ControlType, LockDiscipline, Holds
  <2>2. active_seen + Len(queue) \in Nat
    BY DEF TrainType, QueueType
  <2>3. ControlType'
    BY <1>5, <2>1, <2>2 DEF ResetEnd, ControlType
  <2>4. TrainType'
    BY <1>5 DEF ResetEnd, TrainType, TrainerState
  <2>5. (Rollout /\ TaskType /\ QueueType)'
    BY <1>5
    DEF ResetEnd, FeedType, TaskType, MonitorType, QueueType, rolloutVars,
        feedVars, procVars, mainVars, monVars, queueVars, stampVars
  <2> QED
    BY <2>3, <2>4, <2>5
<1> QED
  BY <1>1, <1>2, <1>3, <1>4, <1>5 DEF TrainerNext

-----------------------------------------------------------------------------
(* The lock *)

LEMMA AppendElements ==
  ASSUME NEW q \in Seq(Actor), NEW a \in Actor, a \notin Elements(q), Distinct(q)
  PROVE  /\ Distinct(Append(q, a))
         /\ Elements(Append(q, a)) = Elements(q) \cup {a}
         /\ q # <<>> => Head(Append(q, a)) = Head(q)
  BY DEF Distinct, Elements

LEMMA TailElements ==
  ASSUME NEW q \in Seq(Actor), q # <<>>, Distinct(q)
  PROVE  /\ Tail(q) \in Seq(Actor)
         /\ Distinct(Tail(q))
         /\ Elements(Tail(q)) = Elements(q) \ {Head(q)}
<1> DEFINE t == Tail(q)
<1>1. /\ t \in Seq(Actor) /\ Len(t) = Len(q) - 1 /\ Len(q) \in Nat \ {0}
      /\ \A i \in 1 .. Len(t) : t[i] = q[i + 1]
  OBVIOUS
<1>2. Distinct(t)
  BY <1>1 DEF Distinct
<1>3. \A x \in Elements(t) : x \in Elements(q) /\ x # Head(q)
  BY <1>1 DEF Distinct, Elements
<1>4. \A x \in Elements(q) : x # Head(q) => x \in Elements(t)
  <2> SUFFICES ASSUME NEW i \in 1 .. Len(q), q[i] # Head(q)
               PROVE  q[i] \in Elements(t)
    BY DEF Elements
  <2>1. i # 1 /\ i - 1 \in 1 .. Len(t) /\ t[i - 1] = q[i]
    BY <1>1
  <2> QED
    BY <2>1 DEF Elements
<1> QED
  BY <1>1, <1>2, <1>3, <1>4

\* What the processor may do to the lock keeps the discipline.
LEMMA ProcessorLock ==
  ASSUME TypeOK, LockDiscipline, UNCHANGED <<monitor, trainer>>,
         \/ lock' = lock /\ (processor' \in InLock <=> processor \in InLock)
         \/ lock' = Append(lock, "processor") /\ processor \notin InLock /\ processor' \in InLock
         \/ Holds("processor") /\ lock' = Tail(lock) /\ processor' \notin InLock
         \/ /\ Holds("processor") /\ lock' = Append(Tail(lock), "processor")
            /\ processor' \in InLock
  PROVE  LockDiscipline'
<1> USE DEF LockDiscipline, InLock
<1>1. lock \in Seq(Actor) /\ "processor" \in Actor
  BY DEF TypeOK, ControlType, Actor
<1>2. CASE lock' = lock /\ (processor' \in InLock <=> processor \in InLock)
  BY <1>2 DEF Holds
<1>3. CASE lock' = Append(lock, "processor") /\ processor \notin InLock /\ processor' \in InLock
  <2>1. /\ Distinct(lock') /\ Elements(lock') = Elements(lock) \cup {"processor"}
        /\ lock # <<>> => Head(lock') = Head(lock)
    BY <1>1, <1>3, AppendElements
  <2>2. lock' # <<>>
    BY <1>1, <1>3
  <2> QED
    BY <1>3, <2>1, <2>2 DEF Holds
<1>4. CASE Holds("processor") /\ lock' = Tail(lock) /\ processor' \notin InLock
  BY <1>1, <1>4, TailElements DEF Holds
<1>5. CASE /\ Holds("processor") /\ lock' = Append(Tail(lock), "processor")
           /\ processor' \in InLock
  <2>1. /\ Tail(lock) \in Seq(Actor) /\ Distinct(Tail(lock))
        /\ Elements(Tail(lock)) = Elements(lock) \ {"processor"}
    BY <1>1, <1>5, TailElements DEF Holds
  <2>2. Distinct(lock') /\ Elements(lock') = Elements(Tail(lock)) \cup {"processor"}
    BY <1>1, <1>5, <2>1, AppendElements
  <2> QED
    BY <1>5, <2>1, <2>2 DEF Holds
<1> QED
  BY <1>2, <1>3, <1>4, <1>5

LEMMA ProceedLock ==
  ASSUME NEW sample, NEW active, NEW L, Proceed(sample, active, L)
  PROVE  \/ lock' = L /\ processor' \notin InLock
         \/ lock' = Append(L, "processor") /\ processor' \in InLock
  BY Zenon DEF Proceed, Submit, InLock

LEMMA ProcessorKeepsLock ==
  ASSUME TypeOK, LockDiscipline, Processor
  PROVE  LockDiscipline'
<1>1. UNCHANGED <<monitor, trainer>>
  BY DEF Processor, ProcCheck, ProcDecide, ProcPauseLocked, ProcDrain, ProcDrainLocked,
         ProcResume, ProcGet, ProcWaitDone, ProcSubmitLocked, monVars, trainVars
<1>2. CASE ProcCheck \/ ProcResume
  BY <1>1, <1>2, ProcessorLock DEF ProcCheck, ProcResume, InLock
<1>3. CASE ProcDecide
  <2>1. CASE paused \/ ShouldPause(queue_size)
    <3>1. \/ lock' = lock /\ processor' = "drain"
          \/ lock' = Append(lock, "processor") /\ processor' = "pausing"
      BY <1>3, <2>1, Zenon DEF ProcDecide, Pause, Arrive
    <3> QED
      BY <1>1, <1>3, <3>1, ProcessorLock DEF ProcDecide, InLock
  <2>2. CASE ~paused /\ ~ShouldPause(queue_size) /\ pending_queue # <<>>
    <3>1. Proceed(Head(pending_queue), active_tasks, lock)
      BY <1>3, <2>2, Zenon DEF ProcDecide, Get
    <3> QED
      BY <1>1, <1>3, <3>1, ProceedLock, ProcessorLock DEF ProcDecide, InLock
  <2>3. CASE ~paused /\ ~ShouldPause(queue_size) /\ pending_queue = <<>>
    <3>1. lock' = lock /\ processor' = "get"
      BY <1>3, <2>3, Zenon DEF ProcDecide
    <3> QED
      BY <1>1, <1>3, <3>1, ProcessorLock DEF ProcDecide, InLock
  <2> QED
    BY <2>1, <2>2, <2>3
<1>4. CASE ProcPauseLocked \/ ProcSubmitLocked
  BY <1>1, <1>4, ProcessorLock DEF ProcPauseLocked, ProcSubmitLocked, Pause, Submit, InLock
<1>5. CASE ProcDrain
  <2>1. \/ lock' = lock /\ processor' \in {"drain", "check", "dead"}
        \/ lock' = Append(lock, "processor") /\ processor' = "draining"
    BY <1>5, Zenon DEF ProcDrain, RetireDrained, Retire, Arrive
  <2> QED
    BY <1>1, <1>5, <2>1, ProcessorLock DEF ProcDrain, InLock
<1>6. CASE ProcDrainLocked
  <2>1. lock' = Tail(lock) /\ processor' \in {"drain", "check", "dead"}
    BY <1>6, Zenon DEF ProcDrainLocked, RetireDrained, Retire
  <2> QED
    BY <1>1, <1>6, <2>1, ProcessorLock DEF ProcDrainLocked, InLock
<1>7. CASE ProcGet
  <2>1. Proceed(Head(pending_queue), active_tasks, lock)
    BY <1>7 DEF ProcGet, Get
  <2> QED
    BY <1>1, <1>7, <2>1, ProceedLock, ProcessorLock DEF ProcGet, InLock
<1>8. CASE ProcWaitDone
  <2>1. \/ lock' = Tail(lock) /\ processor' = "dead"
        \/ Proceed(hand, active_tasks \ Ended, Tail(lock))
    BY <1>8, Zenon DEF ProcWaitDone
  <2> QED
    BY <1>1, <1>8, <2>1, ProceedLock, ProcessorLock DEF ProcWaitDone, InLock
<1> QED
  BY <1>2, <1>3, <1>4, <1>5, <1>6, <1>7, <1>8 DEF Processor

LEMMA MonitorKeepsLock ==
  ASSUME TypeOK, LockDiscipline, Monitor
  PROVE  LockDiscipline'
<1> USE DEF LockDiscipline
<1>1. UNCHANGED <<processor, trainer>>
  BY DEF Monitor, MonitorHead, MonitorCheck, MonitorDecide, MonitorResumeLocked, procVars,
         trainVars
<1>2. lock \in Seq(Actor) /\ "monitor" \in Actor
  BY DEF TypeOK, ControlType, Actor
<1>3. \/ lock' = lock /\ monitor # "resuming" /\ monitor' # "resuming"
      \/ lock' = Append(lock, "monitor") /\ monitor # "resuming" /\ monitor' = "resuming"
      \/ Holds("monitor") /\ lock' = Tail(lock) /\ monitor' # "resuming"
  BY DEF Monitor, MonitorHead, MonitorCheck, MonitorDecide, MonitorResumeLocked, Arrive
<1>4. CASE lock' = lock /\ monitor # "resuming" /\ monitor' # "resuming"
  BY <1>1, <1>4 DEF Holds
<1>5. CASE lock' = Append(lock, "monitor") /\ monitor # "resuming" /\ monitor' = "resuming"
  <2>1. /\ Distinct(lock') /\ Elements(lock') = Elements(lock) \cup {"monitor"}
        /\ lock # <<>> => Head(lock') = Head(lock)
    BY <1>2, <1>5, AppendElements
  <2>2. lock' # <<>>
    BY <1>2, <1>5
  <2> QED
    BY <1>1, <1>5, <2>1, <2>2 DEF Holds
<1>6. CASE Holds("monitor") /\ lock' = Tail(lock) /\ monitor' # "resuming"
  BY <1>1, <1>2, <1>6, TailElements DEF Holds
<1> QED
  BY <1>3, <1>4, <1>5, <1>6

LEMMA TrainerKeepsLock ==
  ASSUME TypeOK, LockDiscipline, TrainerNext
  PROVE  LockDiscipline'
<1> USE DEF LockDiscipline
<1>1. UNCHANGED <<processor, monitor>>
  BY DEF TrainerNext, TrainCollect, TrainStep, TrainSync, ResetEnter, ResetLocked, ResetEnd,
         TrainFinal, rolloutVars, procVars, monVars
<1>2. lock \in Seq(Actor) /\ "reset" \in Actor
  BY DEF TypeOK, ControlType, Actor
<1>3. CASE TrainCollect \/ TrainStep \/ TrainSync \/ TrainFinal
  BY <1>1, <1>3 DEF TrainCollect, TrainStep, TrainSync, TrainFinal
<1>4. CASE ResetEnter
  <2>1. CASE lock = <<>>
    <3>1. lock' = <<"reset">> /\ trainer' = "resetting"
      BY <1>4, <2>1 DEF ResetEnter, ResetBegin, Arrive
    <3>2. Distinct(lock') /\ Elements(lock') = {"reset"} /\ Elements(lock) = {}
          /\ lock' # <<>> /\ Head(lock') = "reset"
      BY <2>1, <3>1 DEF Distinct, Elements
    <3> QED
      BY <1>1, <3>1, <3>2 DEF Holds
  <2>2. CASE lock # <<>>
    <3>1. lock' = Append(lock, "reset") /\ trainer' = "resetWait" /\ trainer = "reset"
      BY <1>4, <2>2 DEF ResetEnter, Free, Arrive
    <3>2. Distinct(lock') /\ Elements(lock') = Elements(lock) \cup {"reset"}
      BY <1>2, <3>1, AppendElements
    <3> QED
      BY <1>1, <3>1, <3>2
  <2> QED
    BY <2>1, <2>2
<1>5. CASE ResetLocked
  BY <1>1, <1>5 DEF ResetLocked, ResetBegin, Holds
<1>6. CASE ResetEnd
  BY <1>1, <1>2, <1>6, TailElements DEF ResetEnd, Holds
<1> QED
  BY <1>3, <1>4, <1>5, <1>6 DEF TrainerNext

\* Type correctness and the lock discipline are proved together: the types of
\* ResetEnd's Tail(lock) need the lock to be held.
THEOREM TypeAndLock == Spec => [](TypeOK /\ LockDiscipline)
<1>1. Init => TypeOK /\ LockDiscipline
  <2>1. Init => LockDiscipline
    BY DEF Init, LockDiscipline, InLock, Distinct, Elements
  <2> QED
    BY <2>1, InitType
<1>2. TypeOK /\ LockDiscipline /\ [Next]_vars => (TypeOK /\ LockDiscipline)'
  <2> SUFFICES ASSUME TypeOK, LockDiscipline, [Next]_vars
               PROVE  TypeOK' /\ LockDiscipline'
    OBVIOUS
  <2>1. CASE Feeder
    <3>1. UNCHANGED <<lock, processor, monitor, trainer>>
      BY <2>1 DEF Feeder, FeedSample, FeedEnd, procVars, monVars, trainVars
    <3> QED
      BY <2>1, <3>1, FeederType DEF LockDiscipline, Holds
  <2>2. CASE Processor
    BY <2>2, ProcessorType, ProcessorKeepsLock
  <2>3. CASE Monitor
    BY <2>3, MonitorTypes, MonitorKeepsLock
  <2>4. CASE Main
    <3>1. UNCHANGED <<lock, processor, monitor, trainer>>
      BY <2>4 DEF Main, MainClose, MainStop, procVars, monVars, trainVars
    <3> QED
      BY <2>4, <3>1, MonitorTypes DEF LockDiscipline, Holds
  <2>5. ASSUME NEW s \in Sample, TaskPut(s) \/ TaskFail(s)
        PROVE  TypeOK' /\ LockDiscipline'
    <3>1. UNCHANGED <<lock, processor, monitor, trainer>>
      BY <2>5 DEF TaskPut, TaskFail, procVars, monVars, trainVars
    <3> QED
      BY <2>5, <3>1, TaskTypes DEF LockDiscipline, Holds
  <2>6. CASE TrainerNext
    BY <2>6, TrainerTypes, TrainerKeepsLock
  <2>7. CASE UNCHANGED vars
    BY <2>7
    DEF vars, TypeOK, LockDiscipline, Holds, FeedType, TaskType, ControlType, MonitorType,
        QueueType, TrainType, feedVars, procVars, ctlVars, mainVars, monVars, queueVars,
        trainVars, stampVars
  <2> QED
    BY <2>1, <2>2, <2>3, <2>4, <2>5, <2>6, <2>7 DEF Next, RollouterNext
<1> QED
  BY <1>1, <1>2, PTL DEF Spec

\* Every variable keeps its type in every run of the three actors, whatever
\* the batch size, staleness threshold and number of servers.
THEOREM TypeCorrect == Spec => []TypeOK
  BY TypeAndLock, PTL

\* The rollouter's lock is held by at most one of its coroutines, and every
\* coroutine that waits for it stays in the queue until it is served.
THEOREM LockDisciplineHolds == Spec => []LockDiscipline
  BY TypeAndLock, PTL

-----------------------------------------------------------------------------
(* The pause handshake *)

LEMMA ProceedQuiet ==
  ASSUME NEW sample, NEW active, NEW L, Proceed(sample, active, L)
  PROVE  processor' \in {"done", "wait", "check", "submitting"}
  BY Zenon DEF Proceed, Submit

LEMMA ProcessorResume ==
  ASSUME TypeOK, ResumeSignal, Processor
  PROVE  ResumeSignal'
<1> USE DEF ResumeSignal
<1> DEFINE Outside == ProcessorState \ {"drain", "draining", "dead"}
<1>1. CASE ProcCheck
  BY <1>1 DEF ProcCheck, ctlVars
<1>2. CASE ProcDecide
  <2>1. CASE paused \/ ShouldPause(queue_size)
    <3>1. Pause \/ (UNCHANGED ctlVars /\ processor' = "pausing")
      BY <1>2, <2>1, Zenon DEF ProcDecide
    <3> QED
      BY <1>2, <3>1 DEF ProcDecide, Pause, ctlVars
  <2>2. CASE ~paused /\ ~ShouldPause(queue_size)
    <3>1. /\ UNCHANGED <<paused, resume_event, resume_future>>
          /\ \/ Proceed(Head(pending_queue), active_tasks, lock)
             \/ processor' = "get"
      BY <1>2, <2>2, Zenon DEF ProcDecide, Get, ctlVars
    <3> QED
      BY <1>2, <3>1, ProceedQuiet DEF ProcDecide
  <2> QED
    BY <2>1, <2>2
<1>3. CASE ProcPauseLocked
  BY <1>3 DEF ProcPauseLocked, Pause
<1>4. CASE ProcDrain \/ ProcDrainLocked
  <2>1. UNCHANGED <<paused, resume_event>> /\ processor \in {"drain", "draining"}
    BY <1>4 DEF ProcDrain, ProcDrainLocked
  <2>2. \/ processor' \in {"drain", "draining"} /\ resume_future' = resume_future
        \/ processor' = "check" /\ resume_future = "done" /\ resume_future' = "none"
        \/ processor' = "dead"
    BY <1>4, Zenon DEF ProcDrain, ProcDrainLocked, RetireDrained, Retire
  <2> QED
    BY <2>1, <2>2
<1>5. CASE ProcResume
  BY <1>5 DEF ProcResume
<1>6. CASE ProcGet
  <2>1. /\ UNCHANGED <<paused, resume_event, resume_future>>
        /\ Proceed(Head(pending_queue), active_tasks, lock)
    BY <1>6 DEF ProcGet, Get
  <2> QED
    BY <1>6, <2>1, ProceedQuiet DEF ProcGet
<1>7. CASE ProcWaitDone
  <2>1. \/ processor' = "dead"
        \/ Proceed(hand, active_tasks \ Ended, Tail(lock))
    BY <1>7, Zenon DEF ProcWaitDone
  <2> QED
    BY <1>7, <2>1, ProceedQuiet DEF ProcWaitDone, ctlVars
<1>8. CASE ProcSubmitLocked
  BY <1>8 DEF ProcSubmitLocked, Submit, ctlVars
<1> QED
  BY <1>1, <1>2, <1>3, <1>4, <1>5, <1>6, <1>7, <1>8 DEF Processor

\* The monitor and reset_staleness resume in the same way.
LEMMA ResumeResumes ==
  ASSUME TypeOK, ResumeSignal, UNCHANGED processor, paused' = FALSE, SetEvent
  PROVE  ResumeSignal'
  BY DEF ResumeSignal, SetEvent, TypeOK, ControlType

\* The pause handshake between the processor, the monitor and the trainer's
\* reset_staleness loses no wake-up, for every configuration.
THEOREM ResumeSignalHolds == Spec => []ResumeSignal
<1>1. Init => ResumeSignal
  BY DEF Init, ResumeSignal
<1>2. TypeOK /\ ResumeSignal /\ [Next]_vars => ResumeSignal'
  <2> SUFFICES ASSUME TypeOK, ResumeSignal, [Next]_vars
               PROVE  ResumeSignal'
    OBVIOUS
  <2> DEFINE Same == UNCHANGED <<processor, paused, resume_event, resume_future>>
  <2>1. CASE Processor
    BY <2>1, ProcessorResume
  <2>2. CASE Feeder
    <3>1. Same
      BY <2>2 DEF Feeder, FeedSample, FeedEnd, procVars, ctlVars
    <3> QED
      BY <3>1 DEF ResumeSignal
  <2>3. CASE Monitor
    <3>1. Same \/ (UNCHANGED processor /\ paused' = FALSE /\ SetEvent)
      BY <2>3, Zenon
      DEF Monitor, MonitorHead, MonitorCheck, MonitorDecide, MonitorResumeLocked, Unpause,
          procVars, ctlVars
    <3>2. CASE Same
      BY <3>2 DEF ResumeSignal
    <3> QED
      BY <3>1, <3>2, ResumeResumes
  <2>4. CASE Main
    <3>1. Same
      BY <2>4 DEF Main, MainClose, MainStop, procVars, ctlVars
    <3> QED
      BY <3>1 DEF ResumeSignal
  <2>5. ASSUME NEW s \in Sample, TaskPut(s) \/ TaskFail(s)
        PROVE  ResumeSignal'
    <3>1. Same
      BY <2>5 DEF TaskPut, TaskFail, procVars, ctlVars
    <3> QED
      BY <3>1 DEF ResumeSignal
  <2>6. CASE TrainerNext
    <3>1. Same \/ (UNCHANGED processor /\ paused' = FALSE /\ SetEvent)
      BY <2>6, Zenon
      DEF TrainerNext, TrainCollect, TrainStep, TrainSync, ResetEnter, ResetLocked,
          ResetBegin, ResetEnd, TrainFinal, rolloutVars, procVars, ctlVars
    <3>2. CASE Same
      BY <3>2 DEF ResumeSignal
    <3> QED
      BY <3>1, <3>2, ResumeResumes
  <2>7. CASE UNCHANGED vars
    BY <2>7 DEF vars, procVars, ctlVars, ResumeSignal
  <2> QED
    BY <2>1, <2>2, <2>3, <2>4, <2>5, <2>6, <2>7 DEF Next, RollouterNext
<1> QED
  BY <1>1, <1>2, TypeCorrect, PTL DEF Spec

-----------------------------------------------------------------------------
(* Sequences without repetition. *)

LEMMA ElementsOfAppend ==
  ASSUME NEW S, NEW q \in Seq(S), NEW a \in S
  PROVE  /\ Append(q, a) \in Seq(S) /\ Len(Append(q, a)) = Len(q) + 1
         /\ Elements(Append(q, a)) = Elements(q) \cup {a}
         /\ Distinct(q) /\ a \notin Elements(q) => Distinct(Append(q, a))
<1> DEFINE r == Append(q, a)
<1>1. /\ r \in Seq(S) /\ Len(r) = Len(q) + 1 /\ Len(q) \in Nat
      /\ \A i \in 1 .. Len(q) : r[i] = q[i]
      /\ r[Len(q) + 1] = a
  OBVIOUS
<1>2. \A x \in Elements(r) : x \in Elements(q) \cup {a}
  BY <1>1 DEF Elements
<1>3. \A x \in Elements(q) \cup {a} : x \in Elements(r)
  <2>1. a \in Elements(r)
    BY <1>1 DEF Elements
  <2>2. ASSUME NEW i \in 1 .. Len(q) PROVE q[i] \in Elements(r)
    BY <1>1 DEF Elements
  <2> QED
    BY <2>1, <2>2 DEF Elements
<1>4. Distinct(q) /\ a \notin Elements(q) => Distinct(r)
  BY <1>1 DEF Distinct, Elements
<1> QED
  BY <1>1, <1>2, <1>3, <1>4

LEMMA ElementsOfTail ==
  ASSUME NEW S, NEW q \in Seq(S), q # <<>>
  PROVE  /\ Tail(q) \in Seq(S) /\ Len(Tail(q)) = Len(q) - 1 /\ Len(q) \in Nat \ {0}
         /\ Head(q) \in S /\ Head(q) \in Elements(q) /\ Head(q) = q[1]
         /\ \A i \in 1 .. Len(q) - 1 : Tail(q)[i] = q[i + 1]
         /\ Distinct(q) => /\ Distinct(Tail(q))
                           /\ Elements(Tail(q)) = Elements(q) \ {Head(q)}
<1> DEFINE t == Tail(q)
<1>1. /\ t \in Seq(S) /\ Len(t) = Len(q) - 1 /\ Len(q) \in Nat \ {0}
      /\ \A i \in 1 .. Len(t) : t[i] = q[i + 1]
      /\ Head(q) = q[1] /\ Head(q) \in S
  OBVIOUS
<1>2. Head(q) \in Elements(q)
  BY <1>1 DEF Elements
<1>3. ASSUME Distinct(q) PROVE Distinct(t) /\ Elements(t) = Elements(q) \ {Head(q)}
  <2>1. Distinct(t)
    BY <1>1, <1>3 DEF Distinct
  <2>2. \A x \in Elements(t) : x \in Elements(q) /\ x # Head(q)
    BY <1>1, <1>3 DEF Distinct, Elements
  <2>3. \A x \in Elements(q) : x # Head(q) => x \in Elements(t)
    <3> SUFFICES ASSUME NEW i \in 1 .. Len(q), q[i] # Head(q)
                 PROVE  q[i] \in Elements(t)
      BY DEF Elements
    <3>1. i # 1 /\ i - 1 \in 1 .. Len(t) /\ t[i - 1] = q[i]
      BY <1>1
    <3> QED
      BY <3>1 DEF Elements
  <2> QED
    BY <2>1, <2>2, <2>3
<1> QED
  BY <1>1, <1>2, <1>3

LEMMA ElementsOfEmpty == Elements(<<>>) = {} /\ Distinct(<<>>)
  BY DEF Elements, Distinct

-----------------------------------------------------------------------------
(* A sample is in one place. SampleInOnePlace is not inductive: it does not *)
(* say in which order a sample passes through its places, nor that the end  *)
(* signal is put once.                                                      *)

LineInv ==
    /\ Distinct(pending_queue) /\ Distinct(queue) /\ Distinct(batch)
    /\ feeder # "done" => None \notin Elements(pending_queue)
    /\ feeder = "end" => global_steps = total_rollout_steps
    /\ main = "stream" => None \notin Elements(queue)
    /\ processor \notin {"wait", "submitting", "dead"} => hand = None

\* Before its task is created a sample is pending or in the hand.
BeforeTask(s) ==
    /\ task[s] # "new" => s \notin Elements(pending_queue) /\ s # hand
    /\ ~(s \in Elements(pending_queue) /\ s = hand)
    /\ feeder = "feed" /\ s >= global_steps =>
         task[s] = "new" /\ s \notin Elements(pending_queue) /\ s # hand
    /\ Fed(s) /\ task[s] = "new" => s \in Elements(pending_queue) \/ s = hand

\* After its task has put it, a sample is queued, collected, trained on or evicted.
AfterTask(s) ==
    /\ task[s] # "done" =>
         /\ s \notin Elements(queue) /\ s \notin Elements(batch)
         /\ s \notin trained /\ s \notin dropped
    /\ task[s] = "done" =>
         s \in Elements(queue) \/ s \in Elements(batch) \/ s \in trained \/ s \in dropped
    /\ s \in Elements(queue) => s \notin Elements(batch) /\ s \notin trained /\ s \notin dropped
    /\ s \in Elements(batch) => s \notin trained /\ s \notin dropped
    /\ s \in trained => s \notin dropped

PlaceInv == LineInv /\ \A s \in Sample : BeforeTask(s) /\ AfterTask(s)

LEMMA NoneIsNoSample == None \notin Sample
  BY DEF None, Sample

LEMMA InOnePlace == TypeOK /\ PlaceInv => SampleInOnePlace
<1> SUFFICES ASSUME TypeOK, PlaceInv, NEW s \in Sample
             PROVE  /\ \A p, q \in PlacesOf(s) : p = q
                    /\ Fed(s) => PlacesOf(s) # {}
  BY DEF PlaceInv, LineInv, SampleInOnePlace
<1>1. task[s] \in {"new", "running", "done", "failed"}
  BY DEF TypeOK, TaskType
<1>2. BeforeTask(s) /\ AfterTask(s)
  BY DEF PlaceInv
<1>3. /\ "pending" \in PlacesOf(s) <=> s \in Elements(pending_queue)
      /\ "hand" \in PlacesOf(s) <=> s = hand
      /\ "generating" \in PlacesOf(s) <=> task[s] = "running"
      /\ "failed" \in PlacesOf(s) <=> task[s] = "failed"
      /\ "queue" \in PlacesOf(s) <=> s \in Elements(queue)
      /\ "batch" \in PlacesOf(s) <=> s \in Elements(batch)
      /\ "trained" \in PlacesOf(s) <=> s \in trained
      /\ "evicted" \in PlacesOf(s) <=> s \in dropped
      /\ PlacesOf(s) \subseteq Places
  BY DEF PlacesOf, Places, At
<1>4. \A p, q \in PlacesOf(s) : p = q
  BY <1>1, <1>2, <1>3 DEF BeforeTask, AfterTask, Places
<1>5. Fed(s) => PlacesOf(s) # {}
  BY <1>1, <1>2, <1>3 DEF BeforeTask, AfterTask
<1> QED
  BY <1>4, <1>5

LEMMA PlacesAtStart == Init => PlaceInv
<1> SUFFICES ASSUME Init PROVE PlaceInv
  OBVIOUS
<1>1. LineInv
  BY ElementsOfEmpty DEF Init, LineInv
<1>2. ASSUME NEW s \in Sample PROVE BeforeTask(s) /\ AfterTask(s)
  <2>1. task[s] = "new" /\ s # None /\ s >= 1
    BY NoneIsNoSample DEF Init, Sample
  <2> QED
    BY <2>1, ElementsOfEmpty DEF Init, BeforeTask, AfterTask, Fed, Sample
<1> QED
  BY <1>1, <1>2 DEF PlaceInv

LEMMA FeederPlaces ==
  ASSUME TypeOK, PlaceInv, Feeder
  PROVE  PlaceInv'
<1> DEFINE All == Sample \cup {None}
<1>1. pending_queue \in Seq(All) /\ global_steps \in Sample
  BY DEF TypeOK, FeedType
<1>2. UNCHANGED <<processor, hand, task, queue, dropped, batch, trained, main>>
  BY DEF Feeder, FeedSample, FeedEnd, procVars, queueVars, trainVars, mainVars
<1>3. CASE FeedSample
  <2>1. /\ feeder = "feed" /\ pending_queue' = Append(pending_queue, global_steps)
        /\ \/ /\ global_steps >= total_rollout_steps /\ feeder' = "end"
              /\ global_steps' = global_steps
           \/ /\ ~(global_steps >= total_rollout_steps) /\ feeder' = "feed"
              /\ global_steps' = global_steps + 1
    BY <1>3 DEF FeedSample
  <2>2. global_steps \notin Elements(pending_queue)
    BY <1>1, <2>1 DEF PlaceInv, BeforeTask, Sample
  <2>3. /\ Elements(pending_queue') = Elements(pending_queue) \cup {global_steps}
        /\ Distinct(pending_queue')
    BY <1>1, <2>1, <2>2, ElementsOfAppend DEF PlaceInv, LineInv
  <2>4. LineInv'
    <3>1. global_steps # None
      BY <1>1, NoneIsNoSample
    <3>2. feeder' = "end" => global_steps' = total_rollout_steps
      BY <1>1, <2>1, FullyAsyncAssumption DEF Sample
    <3> QED
      BY <1>2, <2>1, <2>3, <3>1, <3>2 DEF PlaceInv, LineInv
  <2>5. ASSUME NEW s \in Sample PROVE (BeforeTask(s) /\ AfterTask(s))'
    <3>1. BeforeTask(s) /\ AfterTask(s) /\ s \in Int /\ global_steps \in Int
          /\ s <= total_rollout_steps /\ total_rollout_steps \in Int
      BY <1>1, FullyAsyncAssumption DEF PlaceInv, Sample
    <3> QED
      BY <1>2, <2>1, <2>3, <3>1 DEF BeforeTask, AfterTask, Fed
  <2> QED
    BY <2>4, <2>5 DEF PlaceInv
<1>4. CASE FeedEnd
  <2>1. /\ feeder = "end" /\ feeder' = "done" /\ global_steps' = global_steps
        /\ pending_queue' = Append(pending_queue, None)
    BY <1>4 DEF FeedEnd
  <2>2. /\ Elements(pending_queue') = Elements(pending_queue) \cup {None}
        /\ Distinct(pending_queue')
    BY <1>1, <2>1, ElementsOfAppend DEF PlaceInv, LineInv
  <2>3. LineInv'
    BY <1>2, <2>1, <2>2 DEF PlaceInv, LineInv
  <2>4. ASSUME NEW s \in Sample PROVE (BeforeTask(s) /\ AfterTask(s))'
    BY <1>2, <2>1, <2>2, NoneIsNoSample DEF PlaceInv, BeforeTask, AfterTask, Fed
  <2> QED
    BY <2>3, <2>4 DEF PlaceInv
<1> QED
  BY <1>3, <1>4 DEF Feeder

\* Where the sample goes that the processor proceeds with.
LEMMA ProceedPlaces ==
  ASSUME NEW sample, NEW active, NEW L, Proceed(sample, active, L)
  PROVE  \/ /\ UNCHANGED task /\ hand' = sample
            /\ \/ processor' \in {"wait", "submitting"}
               \/ processor' = "done" /\ sample = None
         \/ /\ sample # None /\ hand' = None /\ processor' = "check"
            /\ task' = [task EXCEPT ![sample] = "running"]
  BY Zenon DEF Proceed, Submit

\* The processor takes a sample from pending_queue or has it in its hand, and
\* keeps it in its hand or creates its task.
LEMMA ProcessorMoves ==
  ASSUME TypeOK, PlaceInv, NEW sample \in Sample \cup {None},
         UNCHANGED <<feeder, global_steps, queue, dropped, batch, trained, main>>,
         processor \notin {"dead", "done"},
         \/ /\ pending_queue # <<>> /\ sample = Head(pending_queue) /\ hand = None
            /\ pending_queue' = Tail(pending_queue)
         \/ sample = hand /\ pending_queue' = pending_queue,
         \/ /\ UNCHANGED task /\ hand' = sample
            /\ \/ processor' \in {"wait", "submitting"}
               \/ processor' = "done" /\ sample = None
         \/ /\ sample # None /\ hand' = None /\ processor' = "check"
            /\ task' = [task EXCEPT ![sample] = "running"]
  PROVE  PlaceInv'
<1> DEFINE All == Sample \cup {None}
<1>1. pending_queue \in Seq(All) /\ task \in [Sample -> {"new", "running", "done", "failed"}]
  BY DEF TypeOK, FeedType, TaskType
<1>2. /\ Distinct(pending_queue')
      /\ \/ /\ sample \in Elements(pending_queue) /\ hand = None
            /\ Elements(pending_queue') = Elements(pending_queue) \ {sample}
         \/ sample = hand /\ Elements(pending_queue') = Elements(pending_queue)
  <2>1. Distinct(pending_queue)
    BY DEF PlaceInv, LineInv
  <2>2. pending_queue # <<>> =>
          /\ Head(pending_queue) \in Elements(pending_queue)
          /\ Distinct(Tail(pending_queue))
          /\ Elements(Tail(pending_queue)) = Elements(pending_queue) \ {Head(pending_queue)}
    BY <1>1, <2>1, ElementsOfTail
  <2> QED
    BY <2>1, <2>2, Zenon
<1>3. LineInv'
  BY <1>2 DEF PlaceInv, LineInv
<1>4. ASSUME NEW s \in Sample PROVE (BeforeTask(s) /\ AfterTask(s))'
  <2>1. BeforeTask(s) /\ AfterTask(s) /\ s # None
    BY NoneIsNoSample DEF PlaceInv
  <2>2. task'[s] = task[s] \/ (s = sample /\ task'[s] = "running")
    BY <1>1
  <2>3. s = sample => task[s] = "new" /\ (hand' = s \/ task'[s] = "running")
    BY <1>1, <1>2, <2>1 DEF BeforeTask
  <2>4. s # sample => task'[s] = task[s]
    BY <1>1
  <2>5. (feeder = "feed" /\ s >= global_steps) => s # sample
    BY <1>2, <2>1 DEF BeforeTask
  <2>6. hand' # s \/ s = sample
    BY <2>1
  <2>7. Fed(s)' => Fed(s)
    BY DEF Fed
  <2>8. BeforeTask(s)'
    <3>1. CASE s = sample
      BY <1>2, <2>1, <2>3, <2>5, <3>1 DEF BeforeTask
    <3>2. CASE s # sample
      BY <1>2, <2>1, <2>4, <2>6, <2>7, <3>2 DEF BeforeTask
    <3> QED
      BY <3>1, <3>2
  <2>9. AfterTask(s)'
    BY <2>1, <2>2, <2>3, <2>4 DEF AfterTask
  <2> QED
    BY <2>8, <2>9
<1> QED
  BY <1>3, <1>4 DEF PlaceInv

\* put_sample in the two cases of the deque.
LEMMA PutCases ==
  ASSUME queue \in Seq(Sample \cup {None}), NEW entry, Put(entry)
  PROVE  \/ /\ Len(queue) < max_required_samples
            /\ queue' = Append(queue, entry) /\ dropped' = dropped
         \/ /\ Len(queue) >= max_required_samples /\ queue # <<>>
            /\ queue' = Append(Tail(queue), entry) /\ dropped' = dropped \cup {Head(queue)}
<1>1. Len(queue) \in Nat /\ max_required_samples \in Nat \ {0}
  BY Budget
<1>2. MQ!IsFull(queue) <=> Len(queue) >= max_required_samples
  BY <1>1 DEF MQ!IsFull, max_queue_size
<1>3. CASE MQ!IsFull(queue)
  <2>1. queue # <<>>
    BY <1>1, <1>2, <1>3
  <2> QED
    BY <1>2, <1>3, <2>1 DEF Put, MQ!AfterPut
<1>4. CASE ~MQ!IsFull(queue)
  BY <1>1, <1>2, <1>4 DEF Put, MQ!AfterPut
<1> QED
  BY <1>3, <1>4

\* An entry that is not in the queue enters it, perhaps at the cost of the oldest.
LEMMA PutPlaces ==
  ASSUME queue \in Seq(Sample \cup {None}), Distinct(queue),
         NEW entry \in Sample \cup {None}, entry \notin Elements(queue), Put(entry)
  PROVE  /\ Distinct(queue')
         /\ \/ dropped' = dropped /\ Elements(queue') = Elements(queue) \cup {entry}
            \/ \E old \in Elements(queue) :
                 /\ dropped' = dropped \cup {old}
                 /\ Elements(queue') = (Elements(queue) \ {old}) \cup {entry}
<1> DEFINE All == Sample \cup {None}
<1>1. CASE queue' = Append(queue, entry) /\ dropped' = dropped
  BY <1>1, ElementsOfAppend
<1>2. CASE /\ queue # <<>>
           /\ queue' = Append(Tail(queue), entry) /\ dropped' = dropped \cup {Head(queue)}
  <2>1. /\ Tail(queue) \in Seq(All) /\ Distinct(Tail(queue))
        /\ Elements(Tail(queue)) = Elements(queue) \ {Head(queue)}
        /\ Head(queue) \in Elements(queue)
    BY <1>2, ElementsOfTail
  <2>2. /\ Distinct(queue') /\ Elements(queue') = Elements(Tail(queue)) \cup {entry}
    <3>1. entry \notin Elements(Tail(queue)) /\ entry \in All
      BY <2>1
    <3> HIDE DEF All
    <3>2. \A q \in Seq(All) : Distinct(q) /\ entry \notin Elements(q) =>
            Distinct(Append(q, entry)) /\ Elements(Append(q, entry)) = Elements(q) \cup {entry}
      BY <3>1, ElementsOfAppend
    <3> QED
      BY <1>2, <2>1, <3>1, <3>2, Zenon
  <2>3. \E old \in Elements(queue) :
          /\ dropped' = dropped \cup {old}
          /\ Elements(queue') = (Elements(queue) \ {old}) \cup {entry}
    BY <1>2, <2>1, <2>2
  <2> QED
    BY <2>2, <2>3
<1> QED
  BY <1>1, <1>2, PutCases

LEMMA ProcessorPlaces ==
  ASSUME TypeOK, PlaceInv, Processor
  PROVE  PlaceInv'
<1>1. UNCHANGED <<feeder, global_steps, queue, dropped, batch, trained, main>>
  BY DEF Processor, ProcCheck, ProcDecide, ProcPauseLocked, ProcDrain, ProcDrainLocked,
         ProcResume, ProcGet, ProcWaitDone, ProcSubmitLocked, feedVars, queueVars, trainVars,
         mainVars
<1>2. ASSUME UNCHANGED <<pending_queue, hand, task>>, processor # "dead",
             \/ processor \notin {"wait", "submitting"}
             \/ processor' = "dead"
      PROVE  PlaceInv'
  <2>1. LineInv'
    BY <1>1, <1>2 DEF PlaceInv, LineInv
  <2>2. ASSUME NEW s \in Sample PROVE (BeforeTask(s) /\ AfterTask(s))'
    BY <1>1, <1>2 DEF PlaceInv, BeforeTask, AfterTask, Fed
  <2> QED
    BY <2>1, <2>2 DEF PlaceInv
<1>3. ASSUME Get, pending_queue # <<>>, processor \in {"decide", "get"}
      PROVE  PlaceInv'
  <2>1. /\ Proceed(Head(pending_queue), active_tasks, lock)
        /\ pending_queue' = Tail(pending_queue)
    BY <1>3 DEF Get
  <2>2. Head(pending_queue) \in Sample \cup {None} /\ hand = None
    BY <1>3 DEF TypeOK, FeedType, PlaceInv, LineInv
  <2> QED
    BY <1>1, <1>3, <2>1, <2>2, ProceedPlaces, ProcessorMoves
<1>4. CASE ProcCheck \/ ProcResume \/ ProcPauseLocked
  BY <1>2, <1>4 DEF ProcCheck, ProcResume, ProcPauseLocked
<1>5. CASE ProcDrain \/ ProcDrainLocked
  BY <1>2, <1>5 DEF ProcDrain, ProcDrainLocked
<1>6. CASE ProcDecide
  <2>1. \/ UNCHANGED <<pending_queue, hand, task>>
        \/ Get /\ pending_queue # <<>>
    BY <1>6, Zenon DEF ProcDecide
  <2>2. processor = "decide"
    BY <1>6 DEF ProcDecide
  <2> QED
    BY <1>2, <1>3, <2>1, <2>2
<1>7. CASE ProcGet
  BY <1>3, <1>7 DEF ProcGet
<1>8. CASE ProcWaitDone
  <2>1. /\ processor = "wait" /\ pending_queue' = pending_queue
        /\ \/ processor' = "dead" /\ UNCHANGED <<hand, task>>
           \/ Proceed(hand, active_tasks \ Ended, Tail(lock))
    BY <1>8, Zenon DEF ProcWaitDone
  <2>2. CASE processor' = "dead" /\ UNCHANGED <<hand, task>>
    BY <1>2, <2>1, <2>2
  <2>3. CASE Proceed(hand, active_tasks \ Ended, Tail(lock))
    <3>1. hand \in Sample \cup {None}
      BY DEF TypeOK, TaskType
    <3> QED
      BY <1>1, <2>1, <2>3, <3>1, ProceedPlaces, ProcessorMoves
  <2> QED
    BY <2>1, <2>2, <2>3
<1>9. CASE ProcSubmitLocked
  <2>1. /\ processor = "submitting" /\ pending_queue' = pending_queue
        /\ hand' = None /\ processor' = "check" /\ task' = [task EXCEPT ![hand] = "running"]
    BY <1>9 DEF ProcSubmitLocked, Submit
  <2>2. hand \in Sample \cup {None} /\ hand # None
    BY <2>1 DEF TypeOK, TaskType
  <2> QED
    BY <1>1, <2>1, <2>2, ProcessorMoves
<1> QED
  BY <1>4, <1>5, <1>6, <1>7, <1>8, <1>9 DEF Processor

LEMMA TaskPlaces ==
  ASSUME TypeOK, PlaceInv, NEW s \in Sample, TaskPut(s) \/ TaskFail(s)
  PROVE  PlaceInv'
<1>1. /\ UNCHANGED <<feeder, global_steps, pending_queue, processor, hand, batch, trained, main>>
      /\ task[s] = "running"
  BY DEF TaskPut, TaskFail, feedVars, procVars, trainVars, mainVars
<1>2. /\ task \in [Sample -> {"new", "running", "done", "failed"}]
      /\ queue \in Seq(Sample \cup {None})
  BY DEF TypeOK, TaskType, QueueType
<1>3. CASE TaskPut(s)
  <2>1. s \notin Elements(queue)
    BY <1>1 DEF PlaceInv, AfterTask
  <2>2. Put(s) /\ task' = [task EXCEPT ![s] = "done"]
    BY <1>3 DEF TaskPut
  <2>3. /\ Distinct(queue')
        /\ \/ dropped' = dropped /\ Elements(queue') = Elements(queue) \cup {s}
           \/ \E old \in Elements(queue) :
                /\ dropped' = dropped \cup {old}
                /\ Elements(queue') = (Elements(queue) \ {old}) \cup {s}
    BY <1>2, <2>1, <2>2, PutPlaces DEF PlaceInv, LineInv
  <2>4. LineInv'
    BY <1>1, <2>3, NoneIsNoSample DEF PlaceInv, LineInv
  <2>5. ASSUME NEW t \in Sample PROVE (BeforeTask(t) /\ AfterTask(t))'
    <3>1. BeforeTask(t) /\ AfterTask(t) /\ AfterTask(s)
      BY DEF PlaceInv
    <3>2. task'[t] = (IF t = s THEN "done" ELSE task[t])
      BY <1>2, <2>2
    <3>3. BeforeTask(t)'
      BY <1>1, <3>1, <3>2 DEF BeforeTask, Fed
    <3>4. AfterTask(t)'
      BY <1>1, <2>1, <2>3, <3>1, <3>2 DEF AfterTask
    <3> QED
      BY <3>3, <3>4
  <2> QED
    BY <2>4, <2>5 DEF PlaceInv
<1>4. CASE TaskFail(s)
  <2>1. task' = [task EXCEPT ![s] = "failed"] /\ UNCHANGED <<queue, dropped>>
    BY <1>4 DEF TaskFail, queueVars
  <2>2. LineInv'
    BY <1>1, <2>1 DEF PlaceInv, LineInv
  <2>3. ASSUME NEW t \in Sample PROVE (BeforeTask(t) /\ AfterTask(t))'
    <3>1. task'[t] = (IF t = s THEN "failed" ELSE task[t])
      BY <1>2, <2>1
    <3> QED
      BY <1>1, <2>1, <3>1 DEF PlaceInv, BeforeTask, AfterTask, Fed
  <2> QED
    BY <2>2, <2>3 DEF PlaceInv
<1> QED
  BY <1>3, <1>4

LEMMA MainPlaces ==
  ASSUME TypeOK, PlaceInv, Main
  PROVE  PlaceInv'
<1>1. UNCHANGED <<global_steps, pending_queue, processor, hand, task, batch, trained>>
  BY DEF Main, MainClose, MainStop, feedVars, procVars, trainVars
<1>2. CASE MainClose
  <2>1. /\ main = "stream" /\ main' = "closing" /\ feeder' = "done" /\ Put(None)
        /\ feeder = "done" \/ processor = "dead"
    BY <1>2 DEF MainClose
  <2>2. queue \in Seq(Sample \cup {None}) /\ Distinct(queue) /\ None \notin Elements(queue)
    BY <2>1 DEF TypeOK, QueueType, PlaceInv, LineInv
  <2>3. /\ Distinct(queue')
        /\ \/ dropped' = dropped /\ Elements(queue') = Elements(queue) \cup {None}
           \/ \E old \in Elements(queue) :
                /\ dropped' = dropped \cup {old}
                /\ Elements(queue') = (Elements(queue) \ {old}) \cup {None}
    BY <2>1, <2>2, PutPlaces
  <2>4. LineInv'
    BY <1>1, <2>1, <2>3 DEF PlaceInv, LineInv
  <2>5. ASSUME NEW s \in Sample PROVE (BeforeTask(s) /\ AfterTask(s))'
    <3>1. BeforeTask(s) /\ AfterTask(s) /\ s # None
      BY NoneIsNoSample DEF PlaceInv
    <3>2. BeforeTask(s)'
      BY <1>1, <2>1, <3>1 DEF BeforeTask, Fed
    <3>3. AfterTask(s)'
      BY <1>1, <2>3, <3>1 DEF AfterTask
    <3> QED
      BY <3>2, <3>3
  <2> QED
    BY <2>4, <2>5 DEF PlaceInv
<1>3. CASE MainStop
  <2>1. UNCHANGED <<feeder, queue, dropped>> /\ main' # "stream"
    BY <1>3 DEF MainStop, feedVars, queueVars
  <2> QED
    BY <1>1, <2>1 DEF PlaceInv, LineInv, BeforeTask, AfterTask, Fed
<1> QED
  BY <1>2, <1>3 DEF Main

\* One turn of _get_samples_from_queue, in its two cases.
LEMMA CollectCases ==
  ASSUME TypeOK, TrainCollect
  PROVE  /\ queue # <<>> /\ queue' = Tail(queue) /\ trainer = "collect"
         /\ UNCHANGED <<feeder, global_steps, pending_queue, processor, hand, task, main,
                        dropped, trained>>
         /\ \/ /\ Head(queue) = None /\ batch' = batch
               /\ trainer' = "final" /\ stopping' = TRUE
            \/ /\ Head(queue) \in Sample /\ batch' = Append(batch, Head(queue))
               /\ trainer' = IF Len(batch) + 1 = required_samples THEN "train" ELSE "collect"
               /\ stopping' = stopping
<1>1. Head(queue) \in Sample \cup {None} /\ batch \in Seq(Sample)
  BY DEF TrainCollect, TypeOK, QueueType, TrainType
<1>2. CASE Head(queue) = None
  BY <1>2 DEF TrainCollect, rolloutVars, feedVars, procVars, mainVars
<1>3. CASE Head(queue) # None
  <2>1. batch' = Append(batch, Head(queue)) /\ Head(queue) \in Sample
    BY <1>1, <1>3 DEF TrainCollect
  <2>2. Len(batch') = Len(batch) + 1
    BY <1>1, <2>1
  <2> QED
    BY <1>3, <2>1, <2>2 DEF TrainCollect, rolloutVars, feedVars, procVars, mainVars
<1> QED
  BY <1>2, <1>3

LEMMA TrainerPlaces ==
  ASSUME TypeOK, PlaceInv, TrainerNext
  PROVE  PlaceInv'
<1>1. UNCHANGED <<feeder, global_steps, pending_queue, processor, hand, task, main, dropped>>
  BY DEF TrainerNext, TrainCollect, TrainStep, TrainSync, ResetEnter, ResetLocked, ResetEnd,
         TrainFinal, rolloutVars, feedVars, procVars, mainVars, queueVars
<1>2. CASE TrainCollect
  <2> DEFINE All == Sample \cup {None}
  <2>1. queue \in Seq(All) /\ batch \in Seq(Sample)
    BY DEF TypeOK, QueueType, TrainType
  <2>2. /\ queue # <<>> /\ queue' = Tail(queue) /\ trained' = trained
        /\ \/ Head(queue) = None /\ batch' = batch
           \/ Head(queue) \in Sample /\ batch' = Append(batch, Head(queue))
    BY <1>2, CollectCases
  <2>3. /\ Distinct(queue') /\ Elements(queue') = Elements(queue) \ {Head(queue)}
        /\ Head(queue) \in Elements(queue)
    BY <2>1, <2>2, ElementsOfTail DEF PlaceInv, LineInv
  <2>4. \/ Head(queue) = None /\ batch' = batch
        \/ /\ Head(queue) \in Sample /\ Distinct(batch')
           /\ Elements(batch') = Elements(batch) \cup {Head(queue)}
    <3>1. CASE Head(queue) = None
      BY <2>2, <3>1, NoneIsNoSample
    <3>2. CASE Head(queue) \in Sample
      <4>1. Head(queue) \notin Elements(batch)
        BY <2>3, <3>2 DEF PlaceInv, AfterTask
      <4>2. batch' = Append(batch, Head(queue))
        BY <2>2, <3>2, NoneIsNoSample
      <4>3. Distinct(batch)
        BY DEF PlaceInv, LineInv
      <4> QED
        BY <2>1, <3>2, <4>1, <4>2, <4>3, ElementsOfAppend
    <3> QED
      BY <2>2, <3>1, <3>2
  <2>5. LineInv'
    BY <1>1, <2>3, <2>4 DEF PlaceInv, LineInv
  <2>6. ASSUME NEW s \in Sample PROVE (BeforeTask(s) /\ AfterTask(s))'
    <3>1. BeforeTask(s) /\ AfterTask(s) /\ s # None
      BY NoneIsNoSample DEF PlaceInv
    <3>2. BeforeTask(s)'
      BY <1>1, <3>1 DEF BeforeTask, Fed
    <3>3. AfterTask(s)'
      BY <1>1, <2>2, <2>3, <2>4, <3>1 DEF AfterTask
    <3> QED
      BY <3>2, <3>3
  <2> QED
    BY <2>5, <2>6 DEF PlaceInv
<1>3. CASE TrainStep
  <2>1. queue' = queue /\ batch' = <<>> /\ trained' = trained \cup Elements(batch)
    BY <1>3 DEF TrainStep, queueVars, InBatch, Elements
  <2>2. Elements(batch') = {} /\ Distinct(batch')
    BY <2>1, ElementsOfEmpty
  <2>3. LineInv'
    BY <1>1, <2>1, <2>2 DEF PlaceInv, LineInv
  <2>4. ASSUME NEW s \in Sample PROVE (BeforeTask(s) /\ AfterTask(s))'
    BY <1>1, <2>1, <2>2 DEF PlaceInv, BeforeTask, AfterTask, Fed
  <2> QED
    BY <2>3, <2>4 DEF PlaceInv
<1>4. CASE TrainSync \/ ResetEnter \/ ResetLocked \/ ResetEnd \/ TrainFinal
  <2>1. UNCHANGED <<queue, batch, trained>>
    BY <1>4 DEF TrainSync, ResetEnter, ResetLocked, ResetEnd, TrainFinal, queueVars
  <2> QED
    BY <1>1, <2>1 DEF PlaceInv, LineInv, BeforeTask, AfterTask, Fed
<1> QED
  BY <1>2, <1>3, <1>4 DEF TrainerNext

LEMMA PlacesKept == TypeOK /\ PlaceInv /\ [Next]_vars => PlaceInv'
<1> SUFFICES ASSUME TypeOK, PlaceInv, [Next]_vars
             PROVE  PlaceInv'
  OBVIOUS
<1> DEFINE Same == UNCHANGED <<feeder, global_steps, pending_queue, processor, hand, task,
                               main, queue, dropped, batch, trained>>
<1>1. ASSUME Same PROVE PlaceInv'
  BY <1>1 DEF PlaceInv, LineInv, BeforeTask, AfterTask, Fed
<1>2. CASE Monitor
  <2>1. Same
    BY <1>2
    DEF Monitor, MonitorHead, MonitorCheck, MonitorDecide, MonitorResumeLocked, feedVars,
        procVars, mainVars, queueVars, trainVars
  <2> QED
    BY <1>1, <2>1
<1>3. CASE UNCHANGED vars
  <2>1. Same
    BY <1>3 DEF vars, feedVars, procVars, mainVars, queueVars, trainVars
  <2> QED
    BY <1>1, <2>1
<1> QED
  BY <1>2, <1>3, FeederPlaces, ProcessorPlaces, MainPlaces, TaskPlaces, TrainerPlaces
  DEF Next, RollouterNext

LEMMA PlaceInvHolds == Spec => []PlaceInv
<1>1. Init => PlaceInv
  BY PlacesAtStart
<1>2. TypeOK /\ PlaceInv /\ [Next]_vars => PlaceInv'
  BY PlacesKept
<1> QED
  BY <1>1, <1>2, TypeCorrect, PTL DEF Spec

\* No sample that was fed is lost, duplicated or trained on twice, however the
\* coroutines interleave and whatever generation fails: from pending_queue through
\* the processor, its task, the message queue and the batch it is in one place.
THEOREM OnePlace == Spec => []SampleInOnePlace
  BY PlaceInvHolds, TypeCorrect, InOnePlace, PTL

-----------------------------------------------------------------------------
(* The tasks the processor keeps track of. *)

TaskInv ==
    /\ \A s \in Sample : task[s] = "running" => s \in active_tasks
    /\ \A s \in active_tasks : task[s] # "new"
    /\ processor # "dead" => \A s \in Sample : task[s] = "failed" => s \in active_tasks
    /\ finished \subseteq Ended
    /\ processor # "draining" => finished = {}
    /\ Cardinality(active_tasks) <= max_concurrent_samples
    /\ processor \in {"submitting", "dead"} =>
         Cardinality(active_tasks) < max_concurrent_samples
    /\ processor = "done" => active_tasks = {}
    /\ trainer = "resetting" => Cardinality(active_tasks) <= active_seen
    /\ main # "stream" => processor \in {"done", "dead"}

\* Tasks that have not put their sample, a failed one until it is retired.
Unfinished == {s \in active_tasks : task[s] # "done"}

(* The trainer's counters. *)

CountInv ==
    /\ Cardinality(trained) =
         current_param_version * SamplesPerVersion + (local_trigger_step - 1) * required_samples
    /\ current_param_version =
         rollout_version + (IF trainer = "sync" /\ ~stopping THEN 1 ELSE 0)
    /\ trainer = "train" => Len(batch) = required_samples
    /\ trainer # "train" => Len(batch) < required_samples
    /\ trainer \in {"collect", "train"} => ~stopping
    /\ trainer \in {"final", "done"} => stopping
    /\ trainer \in {"sync", "reset", "resetWait", "resetting"} /\ ~stopping =>
         batch = <<>> /\ local_trigger_step = 1
    /\ stopping => main # "stream" /\ None \notin Elements(queue)

\* The end signal is never the oldest entry of a full queue: what follows it are
\* the samples of tasks that were still running when the processor died.
SignalInv ==
    /\ Len(queue) <= max_required_samples
    /\ \A i \in 1 .. Len(queue) :
         queue[i] = None => Len(queue) - i + Cardinality(Unfinished) < max_concurrent_samples

(* The budget. *)

\* The version that reset_staleness last counted for.
Base ==
    IF trainer \in {"reset", "resetWait", "resetting"} /\ ~stopping
    THEN rollout_version - 1 ELSE rollout_version

\* The processor holds a sample, or the end signal is to be put.
Holding ==
    IF \/ processor \in {"wait", "submitting"}
       \/ processor \in {"done", "dead"} /\ main = "stream"
    THEN 1 ELSE 0

\* All that was taken from pending_queue and is neither evicted nor failed for good.
Underway ==
    Cardinality(trained) + Len(batch) + Len(queue) + Cardinality(Unfinished) + Holding

\* x: the sample in the hand that the last reset_staleness did not count. An
\* eviction uses it up, so that there is at most one per version.
Allows(x) ==
    /\ x <= max_required_samples - SamplesPerVersion
    /\ x + Cardinality(dropped) <= Base
    /\ Underway <= Base * SamplesPerVersion + max_required_samples + x
    /\ processor \notin {"done", "dead"} =>
         Underway <= Base * SamplesPerVersion + staleness_samples + x
    /\ processor = "get" =>
         Underway < Base * SamplesPerVersion + max_required_samples + x

BudgetInv == \E x \in {0, 1} : Allows(x)

\* A sample put while version v is trained waits, in the queue and in the batch,
\* for those before it only: it is trained on before this many others.
Latest(v) == (v + 1) * SamplesPerVersion + max_required_samples

LagInv ==
    /\ \A i \in 1 .. Len(queue) : queue[i] # None =>
         Cardinality(trained) + Len(batch) + i <= Latest(put_version[queue[i]])
    /\ \A i \in 1 .. Len(batch) :
         Cardinality(trained) + i <= Latest(put_version[batch[i]])

\* Without a staleness allowance nothing is under way across a weight sync.
BornInv ==
    StaleNum = 0 => \A s \in Sample :
        task[s] = "running" \/ s \in Elements(queue) \/ s \in Elements(batch) =>
            born[s] = rollout_version

-----------------------------------------------------------------------------
(* A step of the processor, whichever it is: it retires the tasks T, all    *)
(* over, and one of four things happens.                                    *)

Retires(T) == active_tasks' = active_tasks \ T /\ UNCHANGED <<task, born>>
AllWell(T) == \A t \in T : task[t] # "failed"

\* It has, or takes from pending_queue, a sample or the end signal.
Draws ==
    \/ processor \in {"wait", "submitting"} /\ staleness_samples' = staleness_samples
    \/ /\ \/ processor = "get"
          \/ processor = "decide" /\ staleness_samples < max_required_samples
       /\ staleness_samples' = staleness_samples + 1

Quiet == {"check", "decide", "pausing", "drain", "draining", "get"}

\* It has nothing in its hand before and after.
Rests(T) ==
    /\ processor \in Quiet /\ processor' \in Quiet
    /\ Retires(T) /\ AllWell(T)
    /\ staleness_samples' = staleness_samples
    /\ processor' = "get" => staleness_samples < max_required_samples

Dies(T) ==
    /\ processor \in {"drain", "draining", "wait"} /\ processor' = "dead"
    /\ Retires(T) /\ ~AllWell(T)
    /\ staleness_samples' = staleness_samples

Keeps(T) ==
    /\ processor' \in {"wait", "submitting", "done"}
    /\ Retires(T) /\ AllWell(T) /\ Draws
    /\ processor' = "submitting" => ~AtLimit(active_tasks \ T)
    /\ processor' = "done" => active_tasks \ T = {}

Creates(T, s) ==
    /\ task[s] = "new" /\ AllWell(T) /\ Draws
    /\ ~AtLimit(active_tasks \ T) /\ (Free \/ Holds("processor"))
    /\ active_tasks' = (active_tasks \ T) \cup {s}
    /\ task' = [task EXCEPT ![s] = "running"]
    /\ born' = [born EXCEPT ![s] = rollout_version]
    /\ processor' = "check"

ProcessorStep(T) ==
    /\ T \subseteq Ended
    /\ \/ finished' = {}
       \/ processor' = "draining" /\ T = {} /\ finished' = Ended
    /\ Rests(T) \/ Dies(T) \/ Keeps(T) \/ \E s \in Sample : Creates(T, s)

LEMMA ProceedSteps ==
  ASSUME TypeOK, PlaceInv, NEW sample \in Sample \cup {None}, NEW T, NEW L, AllWell(T), Draws,
         sample \in Elements(pending_queue) \/ sample = hand,
         NEW active, active = active_tasks \ T, L = lock \/ Holds("processor"),
         Proceed(sample, active, L)
  PROVE  Keeps(T) \/ \E s \in Sample : Creates(T, s)
<1>1. sample # None => sample \in Sample /\ task[sample] = "new"
  BY DEF PlaceInv, BeforeTask
<1>2. \/ Keeps(T)
      \/ sample # None /\ Creates(T, sample)
  BY <1>1, Zenon DEF Proceed, Submit, Keeps, Creates, Retires, Free
<1> QED
  BY <1>1, <1>2

LEMMA ProcessorSteps ==
  ASSUME TypeOK, PlaceInv, TaskInv, Processor
  PROVE  /\ main = "stream" /\ UNCHANGED <<main, queue, dropped, trained, batch, trainer,
              local_trigger_step, current_param_version, rollout_version, stopping,
              active_seen, put_version>>
         /\ \E T \in SUBSET Ended : ProcessorStep(T)
<1>1. UNCHANGED <<main, queue, dropped, trained, batch, trainer, local_trigger_step,
                  current_param_version, rollout_version, stopping, active_seen, put_version>>
  BY DEF Processor, ProcCheck, ProcDecide, ProcPauseLocked, ProcDrain, ProcDrainLocked,
         ProcResume, ProcGet, ProcWaitDone, ProcSubmitLocked, queueVars, trainVars,
         mainVars, stampVars
<1>2. processor \notin {"done", "dead"} /\ main \in {"stream", "closing", "stopped"}
  BY DEF Processor, ProcCheck, ProcDecide, ProcPauseLocked, ProcDrain, ProcDrainLocked,
         ProcResume, ProcGet, ProcWaitDone, ProcSubmitLocked, TypeOK, MonitorType
<1>3. main = "stream"
  BY <1>2 DEF TaskInv
<1>4. AllWell({}) /\ active_tasks \ {} = active_tasks /\ {} \subseteq Ended
  BY DEF AllWell
<1>5. ASSUME Get, pending_queue # <<>>, finished' = finished,
             \/ processor = "get"
             \/ processor = "decide" /\ staleness_samples < max_required_samples
      PROVE  ProcessorStep({})
  <2>1. Draws /\ Proceed(Head(pending_queue), active_tasks, lock)
    BY <1>5 DEF Get, Draws
  <2>2. /\ Head(pending_queue) \in Sample \cup {None}
        /\ Head(pending_queue) \in Elements(pending_queue)
    <3>1. pending_queue \in Seq(Sample \cup {None})
      BY DEF TypeOK, FeedType
    <3> QED
      BY <1>5, <3>1, ElementsOfTail
  <2>3. Keeps({}) \/ \E s \in Sample : Creates({}, s)
    BY <1>4, <2>1, <2>2, ProceedSteps
  <2>4. finished' = {}
    BY <1>5 DEF TaskInv
  <2> QED
    BY <1>4, <2>3, <2>4 DEF ProcessorStep
<1>6. CASE ProcCheck \/ ProcResume \/ ProcPauseLocked
  <2>1. finished' = {}
    BY <1>6 DEF ProcCheck, ProcResume, ProcPauseLocked, TaskInv
  <2>2. Rests({})
    BY <1>4, <1>6 DEF ProcCheck, ProcResume, ProcPauseLocked, Pause, Rests, Quiet, Retires,
                      ctlVars, stampVars
  <2>3. ProcessorStep({})
    BY <1>4, <2>1, <2>2 DEF ProcessorStep
  <2> QED
    BY <1>1, <1>3, <1>4, <2>3
<1>7. CASE ProcDecide
  <2>1. processor = "decide" /\ finished' = finished /\ finished = {}
    BY <1>7 DEF ProcDecide, TaskInv
  <2>2. CASE paused \/ ShouldPause(queue_size)
    <3>1. /\ processor' \in {"drain", "pausing"} /\ staleness_samples' = staleness_samples
          /\ UNCHANGED <<active_tasks, task, born>>
      BY <1>7, <2>2 DEF ProcDecide, Pause, ctlVars
    <3>2. Rests({})
      BY <1>4, <2>1, <3>1 DEF Rests, Quiet, Retires
    <3>3. ProcessorStep({})
      BY <1>4, <2>1, <3>2 DEF ProcessorStep
    <3> QED
      BY <1>1, <1>3, <1>4, <3>3
  <2>3. CASE ~(paused \/ ShouldPause(queue_size))
    <3>1. staleness_samples < max_required_samples
      <4>1. staleness_samples \in Nat /\ max_required_samples \in Nat
        BY Budget DEF TypeOK, ControlType
      <4> QED
        BY <2>3, <4>1 DEF ShouldPause
    <3>2. \/ Get /\ pending_queue # <<>>
          \/ /\ processor' = "get" /\ staleness_samples' = staleness_samples
             /\ UNCHANGED <<active_tasks, task, born>>
      BY <1>7, <2>3 DEF ProcDecide, ctlVars
    <3>3. CASE Get /\ pending_queue # <<>>
      BY <1>1, <1>3, <1>4, <1>5, <2>1, <3>1, <3>3
    <3>4. CASE /\ processor' = "get" /\ staleness_samples' = staleness_samples
               /\ UNCHANGED <<active_tasks, task, born>>
      <4>1. Rests({})
        BY <1>4, <2>1, <3>1, <3>4 DEF Rests, Quiet, Retires
      <4>2. ProcessorStep({})
        BY <1>4, <2>1, <4>1 DEF ProcessorStep
      <4> QED
        BY <1>1, <1>3, <1>4, <4>2
    <3> QED
      BY <3>2, <3>3, <3>4
  <2> QED
    BY <2>2, <2>3
<1>8. ASSUME NEW T \in SUBSET Ended, RetireDrained(T), processor \in {"drain", "draining"},
             UNCHANGED <<task, born, staleness_samples>>
      PROVE  ProcessorStep(T)
  <2>1. /\ Retires(T) /\ finished' = {}
        /\ processor' = IF AllWell(T) THEN IF resume_future = "done" THEN "check" ELSE "drain"
                        ELSE "dead"
    BY <1>8 DEF RetireDrained, Retire, Retires, AllWell
  <2>2. Rests(T) \/ Dies(T)
    BY <1>8, <2>1 DEF Rests, Dies, Quiet
  <2> QED
    BY <2>1, <2>2 DEF ProcessorStep
<1>9. CASE ProcDrain
  <2>1. \/ RetireDrained(Ended)
        \/ /\ finished' = Ended /\ processor' = "draining" /\ UNCHANGED active_tasks
    BY <1>9, Zenon DEF ProcDrain
  <2>2. processor = "drain" /\ UNCHANGED <<task, born, staleness_samples>>
    BY <1>9 DEF ProcDrain, stampVars
  <2>3. CASE RetireDrained(Ended)
    BY <1>1, <1>3, <1>8, <2>2, <2>3
  <2>4. CASE finished' = Ended /\ processor' = "draining" /\ UNCHANGED active_tasks
    <3>1. Rests({})
      BY <1>4, <2>2, <2>4 DEF Rests, Quiet, Retires
    <3>2. ProcessorStep({})
      BY <1>4, <2>4, <3>1 DEF ProcessorStep
    <3> QED
      BY <1>1, <1>3, <1>4, <3>2
  <2> QED
    BY <2>1, <2>3, <2>4
<1>10. CASE ProcDrainLocked
  <2>1. RetireDrained(finished) /\ processor = "draining"
        /\ UNCHANGED <<task, born, staleness_samples>> /\ finished \in SUBSET Ended
    BY <1>10 DEF ProcDrainLocked, stampVars, TaskInv
  <2> QED
    BY <1>1, <1>3, <1>8, <2>1
<1>11. CASE ProcGet
  <2>1. Get /\ pending_queue # <<>> /\ processor = "get" /\ finished' = finished
    BY <1>11 DEF ProcGet
  <2> QED
    BY <1>1, <1>3, <1>4, <1>5, <2>1
<1>12. CASE ProcWaitDone
  <2>1. /\ processor = "wait" /\ staleness_samples' = staleness_samples /\ finished' = {}
        /\ Holds("processor")
    BY <1>12 DEF ProcWaitDone, ctlVars, TaskInv
  <2>2. \/ ~AllWell(Ended) /\ processor' = "dead" /\ Retires(Ended)
        \/ AllWell(Ended) /\ Proceed(hand, active_tasks \ Ended, Tail(lock))
    BY <1>12, Zenon DEF ProcWaitDone, AllWell, Retires
  <2>3. CASE ~AllWell(Ended) /\ processor' = "dead" /\ Retires(Ended)
    BY <1>1, <1>3, <2>1, <2>3 DEF ProcessorStep, Dies
  <2>4. CASE AllWell(Ended) /\ Proceed(hand, active_tasks \ Ended, Tail(lock))
    <3>1. Draws /\ hand \in Sample \cup {None}
      BY <2>1 DEF Draws, TypeOK, TaskType
    <3>2. Keeps(Ended) \/ \E s \in Sample : Creates(Ended, s)
      BY <2>1, <2>4, <3>1, ProceedSteps
    <3> QED
      BY <1>1, <1>3, <2>1, <3>2 DEF ProcessorStep
  <2> QED
    BY <2>2, <2>3, <2>4
<1>13. CASE ProcSubmitLocked
  <2>1. /\ processor = "submitting" /\ staleness_samples' = staleness_samples
        /\ finished' = {} /\ Submit(hand, active_tasks) /\ Holds("processor")
    BY <1>13 DEF ProcSubmitLocked, ctlVars, TaskInv
  <2>2. hand \in Sample /\ task[hand] = "new"
    BY <2>1 DEF TypeOK, TaskType, PlaceInv, BeforeTask
  <2>3. ~AtLimit(active_tasks)
    <3>1. Cardinality(active_tasks) \in Nat /\ max_concurrent_samples \in Nat
      BY SampleSetFinite, Budget, FullyAsyncAssumption
      DEF TypeOK, TaskType, max_concurrent_samples
    <3> QED
      BY <2>1, <3>1 DEF AtLimit, TaskInv
  <2>4. Creates({}, hand)
    BY <1>4, <2>1, <2>2, <2>3 DEF Creates, Submit, Draws
  <2> QED
    BY <1>1, <1>3, <1>4, <2>1, <2>2, <2>4 DEF ProcessorStep
<1> QED
  BY <1>6, <1>7, <1>9, <1>10, <1>11, <1>12, <1>13 DEF Processor

LEMMA SampleSets ==
  ASSUME NEW S \in SUBSET Sample
  PROVE  /\ Cardinality(S) \in Nat
         /\ Cardinality(S) = 0 <=> S = {}
         /\ \A T \in SUBSET S : T \in SUBSET Sample /\ Cardinality(T) <= Cardinality(S)
         /\ \A s \in Sample : s \notin S =>
              S \cup {s} \in SUBSET Sample /\ Cardinality(S \cup {s}) = Cardinality(S) + 1
         /\ \A s \in S : Cardinality(S \ {s}) = Cardinality(S) - 1
<1>1. IsFiniteSet(S) /\ Cardinality(S) \in Nat
  BY SampleSetFinite
<1>2. Cardinality(S) = 0 <=> S = {}
  BY <1>1, FS_EmptySet
<1>3. \A T \in SUBSET S : T \in SUBSET Sample /\ Cardinality(T) <= Cardinality(S)
  BY <1>1, FS_Subset
<1>4. \A s \in Sample : s \notin S =>
        S \cup {s} \in SUBSET Sample /\ Cardinality(S \cup {s}) = Cardinality(S) + 1
  BY <1>1, FS_AddElement
<1>5. \A s \in S : Cardinality(S \ {s}) = Cardinality(S) - 1
  BY <1>1, FS_RemoveElement
<1> QED
  BY <1>1, <1>2, <1>3, <1>4, <1>5

LEMMA Slots ==
  /\ max_concurrent_samples \in Nat \ {0}
  /\ max_concurrent_samples <= max_required_samples
  BY Budget, FullyAsyncAssumption DEF max_concurrent_samples

LEMMA TasksOfProcessor ==
  ASSUME TypeOK, LockDiscipline, PlaceInv, TaskInv, Processor
  PROVE  TaskInv'
<1>1. PICK T \in SUBSET Ended : ProcessorStep(T)
  BY ProcessorSteps
<1>2. /\ main = "stream" /\ main' = main /\ trainer' = trainer /\ active_seen' = active_seen
  BY ProcessorSteps
<1>3. /\ active_tasks \in SUBSET Sample /\ T \subseteq active_tasks
      /\ active_tasks \ T \in SUBSET Sample
      /\ task \in [Sample -> {"new", "running", "done", "failed"}]
  BY DEF TypeOK, TaskType, Ended
<1>4. /\ Cardinality(active_tasks) \in Nat /\ Cardinality(active_tasks \ T) \in Nat
      /\ Cardinality(active_tasks \ T) <= Cardinality(active_tasks)
  BY <1>3, SampleSets
<1>5. \A t \in T : task[t] \in {"done", "failed"}
  BY DEF Ended
<1>6. /\ finished' \subseteq Ended'
      /\ processor' # "draining" => finished' = {}
  <2>1. CASE finished' = {}
    BY <2>1
  <2>2. CASE processor' = "draining" /\ T = {} /\ finished' = Ended
    <3>1. UNCHANGED <<active_tasks, task>>
      BY <1>1, <2>2 DEF ProcessorStep, Rests, Dies, Keeps, Creates, Retires
    <3> QED
      BY <2>2, <3>1 DEF Ended
  <2> QED
    BY <1>1, <2>1, <2>2 DEF ProcessorStep
<1>7. CASE Rests(T) \/ Dies(T) \/ Keeps(T)
  <2>1. Retires(T)
    BY <1>7 DEF Rests, Dies, Keeps
  <2>2. /\ \A s \in Sample : task'[s] = "running" => s \in active_tasks'
        /\ \A s \in active_tasks' : task'[s] # "new"
    BY <1>5, <2>1 DEF TaskInv, Retires
  <2>3. processor' # "dead" => \A s \in Sample : task'[s] = "failed" => s \in active_tasks'
    BY <1>7, <2>1 DEF Rests, Dies, Keeps, AllWell, Quiet, Draws, TaskInv, Retires
  <2>4. /\ Cardinality(active_tasks') <= max_concurrent_samples
        /\ trainer' = "resetting" => Cardinality(active_tasks') <= active_seen'
    <3>1. active_seen \in Nat
      BY DEF TypeOK, TrainType
    <3> QED
      BY <1>2, <1>4, <2>1, <3>1, Slots DEF TaskInv, Retires
  <2>5. processor' \in {"submitting", "dead"} =>
          Cardinality(active_tasks') < max_concurrent_samples
    <3>1. CASE Dies(T)
      <4>1. PICK t \in T : task[t] = "failed"
        BY <3>1 DEF Dies, AllWell
      <4>2. Cardinality(active_tasks \ {t}) = Cardinality(active_tasks) - 1
        BY <1>3, SampleSets
      <4>3. active_tasks \ T \subseteq active_tasks \ {t} /\ active_tasks \ {t} \in SUBSET Sample
        BY <1>3
      <4>4. Cardinality(active_tasks \ T) <= Cardinality(active_tasks \ {t})
        BY <4>3, SampleSets
      <4> QED
        BY <1>4, <2>1, <4>2, <4>4, Slots DEF TaskInv, Retires
    <3>2. CASE Keeps(T)
      BY <1>4, <2>1, <3>2, Slots DEF Keeps, AtLimit, Retires
    <3>3. CASE Rests(T)
      BY <3>3 DEF Rests, Quiet
    <3> QED
      BY <1>7, <3>1, <3>2, <3>3
  <2>6. processor' = "done" => active_tasks' = {}
    BY <1>7, <2>1 DEF Rests, Dies, Keeps, Quiet, Retires
  <2> QED
    BY <1>2, <1>6, <2>2, <2>3, <2>4, <2>5, <2>6 DEF TaskInv
<1>8. ASSUME NEW s \in Sample, Creates(T, s)
      PROVE  TaskInv'
  <2>1. /\ active_tasks' = (active_tasks \ T) \cup {s} /\ processor' = "check"
        /\ task[s] = "new" /\ \A t \in Sample : task'[t] = IF t = s THEN "running" ELSE task[t]
    BY <1>3, <1>8 DEF Creates
  <2>2. s \notin active_tasks
    BY <1>3, <2>1 DEF TaskInv
  <2>3. /\ \A t \in Sample : task'[t] = "running" => t \in active_tasks'
        /\ \A t \in active_tasks' : task'[t] # "new"
        /\ \A t \in Sample : task'[t] = "failed" => t \in active_tasks'
    BY <1>3, <1>5, <1>8, <2>1, <2>2 DEF TaskInv, Creates, AllWell, Draws
  <2>4. Cardinality(active_tasks') = Cardinality(active_tasks \ T) + 1
    BY <1>3, <2>1, <2>2, SampleSets
  <2>5. Cardinality(active_tasks') <= max_concurrent_samples
    BY <1>4, <1>8, <2>4, Slots DEF Creates, AtLimit
  <2>6. trainer' # "resetting"
    BY <1>2, <1>8 DEF Creates, Free, Holds, LockDiscipline
  <2> QED
    BY <1>2, <1>6, <2>1, <2>3, <2>5, <2>6 DEF TaskInv
<1> QED
  BY <1>1, <1>7, <1>8 DEF ProcessorStep

\* A task that ends stays among the active ones until the processor retires it.
LEMMA TasksOfTask ==
  ASSUME TypeOK, TaskInv, NEW s \in Sample, TaskPut(s) \/ TaskFail(s)
  PROVE  TaskInv'
<1>1. /\ UNCHANGED <<processor, finished, active_tasks, trainer, active_seen, main>>
      /\ task[s] = "running"
  BY DEF TaskPut, TaskFail, procVars, trainVars, mainVars
<1>2. task \in [Sample -> {"new", "running", "done", "failed"}] /\ active_tasks \subseteq Sample
  BY DEF TypeOK, TaskType
<1>3. \A t \in Sample : task'[t] = task[t] \/ (t = s /\ task'[t] \in {"done", "failed"})
  BY <1>2 DEF TaskPut, TaskFail
<1>4. s \in active_tasks
  BY <1>1 DEF TaskInv
<1>5. /\ \A t \in Sample : task'[t] = "running" => t \in active_tasks'
      /\ \A t \in active_tasks' : task'[t] # "new"
      /\ \A t \in Sample : task'[t] = "failed" => task[t] = "failed" \/ t \in active_tasks'
  BY <1>1, <1>2, <1>3, <1>4 DEF TaskInv
<1>6. Ended \subseteq Ended'
  BY <1>1, <1>2, <1>3 DEF Ended
<1> QED
  BY <1>1, <1>5, <1>6 DEF TaskInv

LEMMA TasksOfTrainer ==
  ASSUME TypeOK, TaskInv, TrainerNext
  PROVE  TaskInv'
<1>1. UNCHANGED <<processor, finished, active_tasks, task, main>>
  BY DEF TrainerNext, TrainCollect, TrainStep, TrainSync, ResetEnter, ResetLocked, ResetEnd,
         TrainFinal, rolloutVars, procVars, mainVars
<1>2. trainer' = "resetting" => active_seen' = Cardinality(active_tasks)
  <2>1. CASE TrainCollect
    BY <2>1, CollectCases
  <2>2. CASE TrainStep \/ TrainSync \/ ResetEnd \/ TrainFinal
    BY <2>2 DEF TrainStep, TrainSync, ResetEnd, TrainFinal
  <2>3. CASE ResetEnter \/ ResetLocked
    BY <2>3 DEF ResetEnter, ResetLocked, ResetBegin
  <2> QED
    BY <2>1, <2>2, <2>3 DEF TrainerNext
<1>3. Cardinality(active_tasks) \in Nat
  BY SampleSets DEF TypeOK, TaskType
<1> QED
  BY <1>1, <1>2, <1>3 DEF TaskInv, Ended

LEMMA TasksKept ==
  TypeOK /\ LockDiscipline /\ PlaceInv /\ TaskInv /\ [Next]_vars => TaskInv'
<1> SUFFICES ASSUME TypeOK, LockDiscipline, PlaceInv, TaskInv, [Next]_vars
             PROVE  TaskInv'
  OBVIOUS
<1>1. ASSUME UNCHANGED <<processor, finished, active_tasks, task, trainer, active_seen>>,
             main' = main \/ processor \in {"done", "dead"}
      PROVE  TaskInv'
  BY <1>1 DEF TaskInv, Ended
<1>2. CASE Feeder \/ Monitor \/ Main
  BY <1>1, <1>2
  DEF Feeder, FeedSample, FeedEnd, Monitor, MonitorHead, MonitorCheck, MonitorDecide,
      MonitorResumeLocked, Main, MainClose, MainStop, procVars, trainVars, mainVars, TaskInv
<1>3. CASE UNCHANGED vars
  BY <1>1, <1>3 DEF vars, procVars, trainVars, mainVars
<1> QED
  BY <1>2, <1>3, TasksOfProcessor, TasksOfTask, TasksOfTrainer DEF Next, RollouterNext

LEMMA TaskInvHolds == Spec => []TaskInv
<1>1. Init => TaskInv
  <2>1. Cardinality({}) = 0
    BY FS_EmptySet
  <2> QED
    BY <2>1, Slots DEF Init, TaskInv, Ended
<1>2. TypeOK /\ LockDiscipline /\ PlaceInv /\ TaskInv /\ [Next]_vars => TaskInv'
  BY TasksKept
<1> QED
  BY <1>1, <1>2, TypeAndLock, PlaceInvHolds, PTL DEF Spec

-----------------------------------------------------------------------------
(* What the steps do to the unfinished tasks and to what is under way. *)

LEMMA UnfinishedType ==
  ASSUME TypeOK
  PROVE  /\ Unfinished \in SUBSET Sample /\ Cardinality(Unfinished) \in Nat
         /\ Cardinality(Unfinished) <= Cardinality(active_tasks)
         /\ Cardinality(active_tasks) \in Nat
<1>1. active_tasks \in SUBSET Sample /\ Unfinished \in SUBSET active_tasks
  BY DEF TypeOK, TaskType, Unfinished
<1> QED
  BY <1>1, SampleSets

Load == Cardinality(Unfinished) + Holding

LEMMA LoadType == TypeOK => Load \in Nat /\ Holding \in {0, 1}
  BY UnfinishedType DEF Load, Holding

\* Retiring a task that put its sample changes nothing, retiring one that failed
\* makes room for the end signal, and a sample is in the hand or has a task.
LEMMA ProcessorLoad ==
  ASSUME TypeOK, TypeOK', PlaceInv, TaskInv, Processor
  PROVE  \/ /\ staleness_samples' = staleness_samples /\ Load' <= Load
            /\ processor' = "get" => staleness_samples < max_required_samples
         \/ /\ staleness_samples' = staleness_samples + 1 /\ Load' <= Load + 1
            /\ processor' # "get"
            /\ \/ processor = "get"
               \/ processor = "decide" /\ staleness_samples < max_required_samples
<1>1. PICK T \in SUBSET Ended : ProcessorStep(T)
  BY ProcessorSteps
<1>2. main = "stream" /\ main' = main
  BY ProcessorSteps
<1> DEFINE u == Cardinality(Unfinished)
<1>3. /\ u \in Nat /\ u' \in Nat /\ Unfinished \in SUBSET Sample
      /\ task \in [Sample -> {"new", "running", "done", "failed"}]
      /\ active_tasks \subseteq Sample
  <2>1. /\ Unfinished \in SUBSET Sample /\ Unfinished' \in SUBSET Sample
        /\ active_tasks \subseteq Sample
    BY DEF TypeOK, TaskType, Unfinished
  <2> QED
    BY <2>1, SampleSets DEF TypeOK, TaskType
<1>4. AllWell(T) => Unfinished = {t \in active_tasks \ T : task[t] # "done"}
  BY DEF AllWell, Ended, Unfinished
<1>5. CASE Rests(T)
  <2>1. Unfinished' = Unfinished
    BY <1>4, <1>5 DEF Rests, Retires, Unfinished
  <2>2. Holding = 0 /\ Holding' = 0
    BY <1>5 DEF Rests, Quiet, Holding
  <2> QED
    BY <1>3, <1>5, <2>1, <2>2 DEF Rests, Load
<1>6. CASE Dies(T)
  <2>1. PICK t \in T : task[t] = "failed"
    BY <1>6 DEF Dies, AllWell
  <2>2. t \in Unfinished /\ Unfinished' \subseteq Unfinished \ {t}
    BY <1>6, <2>1 DEF Dies, Retires, Unfinished, Ended
  <2>3. Cardinality(Unfinished \ {t}) = u - 1 /\ Unfinished \ {t} \in SUBSET Sample
    BY <1>3, <2>2, SampleSets
  <2>4. u' <= u - 1
    BY <2>2, <2>3, SampleSets
  <2>5. Holding \in {0, 1} /\ Holding' = 1
    BY <1>2, <1>6 DEF Dies, Holding
  <2> QED
    BY <1>3, <1>6, <2>4, <2>5 DEF Dies, Load
<1>7. ASSUME Draws, processor' # "get", Load' = u + 1
      PROVE  \/ /\ staleness_samples' = staleness_samples /\ Load' <= Load
                /\ processor' = "get" => staleness_samples < max_required_samples
             \/ /\ staleness_samples' = staleness_samples + 1 /\ Load' <= Load + 1
                /\ processor' # "get"
                /\ \/ processor = "get"
                   \/ processor = "decide" /\ staleness_samples < max_required_samples
  <2>1. CASE processor \in {"wait", "submitting"} /\ staleness_samples' = staleness_samples
    <3>1. Holding = 1
      BY <2>1 DEF Holding
    <3> QED
      BY <1>3, <1>7, <2>1, <3>1 DEF Load
  <2>2. CASE ~(processor \in {"wait", "submitting"} /\ staleness_samples' = staleness_samples)
    <3>1. Holding \in {0, 1}
      BY DEF Holding
    <3> QED
      BY <1>3, <1>7, <2>2, <3>1 DEF Load, Draws
  <2> QED
    BY <2>1, <2>2
<1>8. CASE Keeps(T)
  <2>1. Unfinished' = Unfinished
    BY <1>4, <1>8 DEF Keeps, Retires, Unfinished
  <2>2. Holding' = 1
    BY <1>2, <1>8 DEF Keeps, Holding
  <2>3. Load' = u + 1 /\ Draws /\ processor' # "get"
    BY <1>8, <2>1, <2>2 DEF Load, Keeps
  <2> QED
    BY <1>7, <2>3
<1>9. ASSUME NEW s \in Sample, Creates(T, s)
      PROVE  Unfinished' = Unfinished \cup {s} /\ s \notin Unfinished /\ u' = u + 1
  <2>1. s \notin active_tasks
    BY <1>9 DEF Creates, TaskInv
  <2>2. Unfinished' = Unfinished \cup {s} /\ s \notin Unfinished
    BY <1>3, <1>4, <1>9, <2>1 DEF Creates, Unfinished
  <2> QED
    BY <1>3, <2>2, SampleSets
<1>10. CASE \E s \in Sample : Creates(T, s)
  <2>1. PICK s \in Sample : Creates(T, s)
    BY <1>10
  <2>2. Holding' = 0 /\ Draws /\ processor' # "get"
    BY <2>1 DEF Creates, Holding
  <2>3. Load' = u + 1
    BY <1>3, <1>9, <2>1, <2>2 DEF Load
  <2> QED
    BY <1>7, <2>2, <2>3
<1> QED
  BY <1>1, <1>5, <1>6, <1>8, <1>10 DEF ProcessorStep

LEMMA TaskUnfinished ==
  ASSUME TypeOK, TypeOK', TaskInv, NEW s \in Sample, TaskPut(s) \/ TaskFail(s)
  PROVE  /\ Cardinality(Unfinished) >= 1 /\ Holding' = Holding
         /\ TaskPut(s) => Cardinality(Unfinished') = Cardinality(Unfinished) - 1
         /\ TaskFail(s) => Unfinished' = Unfinished
<1>1. /\ UNCHANGED <<processor, active_tasks, main>> /\ task[s] = "running"
      /\ task \in [Sample -> {"new", "running", "done", "failed"}]
      /\ active_tasks \subseteq Sample
  BY DEF TaskPut, TaskFail, procVars, mainVars, TypeOK, TaskType
<1>2. s \in Unfinished /\ Unfinished \in SUBSET Sample
  BY <1>1, UnfinishedType DEF TaskInv, Unfinished
<1>3. Cardinality(Unfinished \ {s}) = Cardinality(Unfinished) - 1
  BY <1>2, SampleSets
<1>4. Unfinished \ {s} \in SUBSET Sample
  BY <1>2
<1>5. Cardinality(Unfinished) \in Nat /\ Cardinality(Unfinished \ {s}) \in Nat
  BY <1>2, <1>4, SampleSets
<1>6. TaskPut(s) => Unfinished' = Unfinished \ {s}
  BY <1>1 DEF TaskPut, Unfinished
<1>7. TaskFail(s) => Unfinished' = Unfinished
  BY <1>1 DEF TaskFail, Unfinished
<1>8. Holding' = Holding
  BY <1>1 DEF Holding
<1> QED
  BY <1>3, <1>5, <1>6, <1>7, <1>8

-----------------------------------------------------------------------------
(* The trainer's counters count. *)

LEMMA DistinctCounts ==
  ASSUME NEW S, NEW q \in Seq(S), Distinct(q)
  PROVE  /\ IsFiniteSet(Elements(q)) /\ Cardinality(Elements(q)) = Len(q)
         /\ Len(q) \in Nat
<1>1. q \in [1 .. Len(q) -> Elements(q)] /\ Len(q) \in Nat
  BY DEF Elements
<1>2. q \in Injection(1 .. Len(q), Elements(q))
  BY <1>1 DEF Distinct, Injection, IsInjective
<1>3. q \in Surjection(1 .. Len(q), Elements(q))
  BY <1>1 DEF Surjection, Elements
<1>4. ExistsBijection(1 .. Len(q), Elements(q))
  BY <1>2, <1>3 DEF ExistsBijection, Bijection
<1>5. IsFiniteSet(1 .. Len(q))
  BY <1>1, FS_Interval
<1> QED
  BY <1>1, <1>4, <1>5, FS_Bijection, FS_CountingElements

LEMMA Products ==
  /\ required_samples \in Nat \ {0} /\ trigger_parameter_sync_step \in Nat \ {0}
  /\ SamplesPerVersion \in Nat \ {0}
  /\ \A v \in Nat : v * SamplesPerVersion \in Nat
  /\ \A v \in Nat : (v + 1) * SamplesPerVersion = v * SamplesPerVersion + SamplesPerVersion
  /\ \A v, w \in Nat : v <= w => v * SamplesPerVersion <= w * SamplesPerVersion
  /\ \A l \in 1 .. trigger_parameter_sync_step :
       /\ (l - 1) * required_samples \in Nat
       /\ (l - 1) * required_samples + required_samples = l * required_samples
       /\ l * required_samples <= SamplesPerVersion
<1>1. /\ required_samples \in Nat \ {0} /\ trigger_parameter_sync_step \in Nat \ {0}
  BY FullyAsyncAssumption
<1>2. SamplesPerVersion \in Nat \ {0}
  BY <1>1 DEF SamplesPerVersion
<1>3. \A v, s \in Nat : v * s \in Nat /\ (v + 1) * s = v * s + s
  OBVIOUS
<1>4. \A v, w, s \in Nat : v <= w => v * s <= w * s
  OBVIOUS
<1>5. ASSUME NEW l \in 1 .. trigger_parameter_sync_step
      PROVE  /\ (l - 1) * required_samples \in Nat
             /\ (l - 1) * required_samples + required_samples = l * required_samples
             /\ l * required_samples <= SamplesPerVersion
  <2>1. l - 1 \in Nat /\ l \in Nat /\ l <= trigger_parameter_sync_step
    BY <1>1
  <2>2. /\ (l - 1) * required_samples \in Nat
        /\ (l - 1) * required_samples + required_samples = ((l - 1) + 1) * required_samples
    BY <1>1, <1>3, <2>1
  <2>3. l * required_samples <= trigger_parameter_sync_step * required_samples
    BY <1>1, <1>4, <2>1
  <2>4. trigger_parameter_sync_step * required_samples = SamplesPerVersion
    BY <1>1 DEF SamplesPerVersion
  <2> QED
    BY <2>1, <2>2, <2>3, <2>4
<1> QED
  BY <1>1, <1>2, <1>3, <1>4, <1>5

LEMMA CountType ==
  ASSUME TypeOK
  PROVE  /\ trained \in SUBSET Sample /\ Cardinality(trained) \in Nat
         /\ batch \in Seq(Sample) /\ Len(batch) \in Nat
         /\ queue \in Seq(Sample \cup {None}) /\ Len(queue) \in Nat
         /\ local_trigger_step \in 1 .. trigger_parameter_sync_step
         /\ current_param_version \in Nat /\ rollout_version \in Nat
         /\ trainer \in TrainerState /\ stopping \in BOOLEAN
  BY SampleSets DEF TypeOK, TrainType, QueueType

\* The optimizer step adds a full batch of new samples.
LEMMA TrainedGrows ==
  ASSUME TypeOK, PlaceInv, CountInv, TrainStep
  PROVE  /\ Cardinality(trained') = Cardinality(trained) + Len(batch)
         /\ Len(batch) = required_samples /\ batch' = <<>>
<1>1. trained' = trained \cup Elements(batch) /\ batch' = <<>> /\ trainer = "train"
  BY DEF TrainStep, InBatch, Elements
<1>2. /\ IsFiniteSet(Elements(batch)) /\ Cardinality(Elements(batch)) = Len(batch)
      /\ Len(batch) \in Nat
  BY CountType, DistinctCounts DEF PlaceInv, LineInv
<1>3. Elements(batch) \subseteq Sample
  BY CountType DEF Elements
<1>4. trained \cap Elements(batch) = {}
  BY <1>3 DEF PlaceInv, AfterTask
<1>5. IsFiniteSet(trained) /\ Cardinality(trained) \in Nat
  BY CountType, SampleSetFinite
<1>6. Cardinality(trained \cup Elements(batch)) =
        Cardinality(trained) + Cardinality(Elements(batch)) - Cardinality({})
  <2>1. Cardinality(trained \cup Elements(batch)) =
          Cardinality(trained) + Cardinality(Elements(batch))
            - Cardinality(trained \cap Elements(batch))
    BY <1>2, <1>5, FS_Union
  <2> QED
    BY <1>4, <2>1
<1>7. Cardinality({}) = 0
  BY FS_EmptySet
<1>8. Len(batch) = required_samples
  BY <1>1 DEF CountInv
<1> QED
  BY <1>1, <1>2, <1>5, <1>6, <1>7, <1>8

LEMMA CountsKept ==
  TypeOK /\ PlaceInv /\ TaskInv /\ CountInv /\ [Next]_vars => CountInv'
<1> SUFFICES ASSUME TypeOK, PlaceInv, TaskInv, CountInv, [Next]_vars
             PROVE  CountInv'
  OBVIOUS
<1> DEFINE Counters == <<trained, current_param_version, local_trigger_step, rollout_version,
                         trainer, stopping, batch>>
<1>1. ASSUME UNCHANGED Counters,
             stopping => main' # "stream" /\ None \notin Elements(queue')
      PROVE  CountInv'
  BY <1>1 DEF CountInv
<1>2. CASE UNCHANGED vars
  BY <1>1, <1>2 DEF vars, mainVars, queueVars, trainVars, CountInv
<1>3. CASE Feeder \/ Monitor
  BY <1>1, <1>3
  DEF Feeder, FeedSample, FeedEnd, Monitor, MonitorHead, MonitorCheck, MonitorDecide,
      MonitorResumeLocked, mainVars, queueVars, trainVars, CountInv
<1>4. CASE Processor
  BY <1>1, <1>4, ProcessorSteps DEF CountInv
<1>5. CASE Main
  <2>1. CASE MainClose
    BY <1>1, <2>1 DEF MainClose, trainVars, CountInv
  <2>2. CASE MainStop
    BY <1>1, <2>2 DEF MainStop, trainVars, queueVars, CountInv
  <2> QED
    BY <1>5, <2>1, <2>2 DEF Main
<1>6. ASSUME NEW s \in Sample, TaskPut(s) \/ TaskFail(s)
      PROVE  CountInv'
  <2>1. /\ UNCHANGED Counters /\ main' = main /\ task[s] = "running"
    BY <1>6 DEF TaskPut, TaskFail, trainVars, mainVars
  <2>2. ASSUME TaskPut(s), None \notin Elements(queue)
        PROVE  None \notin Elements(queue')
    <3>1. s \notin Elements(queue) /\ Distinct(queue) /\ queue \in Seq(Sample \cup {None})
      BY <2>1 DEF PlaceInv, LineInv, AfterTask, TypeOK, QueueType
    <3>2. Put(s)
      BY <2>2 DEF TaskPut
    <3>3. \A e \in Elements(queue') : e \in Elements(queue) \/ e = s
      BY <3>1, <3>2, PutPlaces
    <3> QED
      BY <2>2, <3>3, NoneIsNoSample
  <2>3. TaskFail(s) => queue' = queue
    BY DEF TaskFail, queueVars
  <2> QED
    BY <1>1, <1>6, <2>1, <2>2, <2>3 DEF CountInv
<1>7. CASE TrainCollect
  <2>1. /\ queue # <<>> /\ queue' = Tail(queue) /\ trainer = "collect" /\ main' = main
        /\ UNCHANGED <<trained, local_trigger_step, current_param_version, rollout_version>>
    BY <1>7, CollectCases DEF TrainCollect
  <2>2. /\ Distinct(queue) /\ Head(queue) \in Elements(queue)
        /\ Elements(queue') = Elements(queue) \ {Head(queue)}
    BY <2>1, CountType, ElementsOfTail DEF PlaceInv, LineInv
  <2>3. ~stopping /\ Len(batch) < required_samples /\ Len(batch) \in Nat
    BY <2>1, CountType DEF CountInv
  <2>4. CASE Head(queue) = None /\ batch' = batch /\ trainer' = "final" /\ stopping' = TRUE
    <3>1. main' # "stream" /\ None \notin Elements(queue')
      BY <2>1, <2>2, <2>4 DEF PlaceInv, LineInv
    <3> QED
      BY <2>1, <2>3, <2>4, <3>1 DEF CountInv
  <2>5. CASE /\ Head(queue) \in Sample /\ batch' = Append(batch, Head(queue))
             /\ trainer' = IF Len(batch) + 1 = required_samples THEN "train" ELSE "collect"
             /\ stopping' = stopping
    <3>1. Len(batch') = Len(batch) + 1
      BY <2>5, CountType, ElementsOfAppend
    <3>2. /\ trainer' = "train" => Len(batch') = required_samples
          /\ trainer' # "train" => Len(batch') < required_samples
      BY <2>3, <2>5, <3>1, Products
    <3> QED
      BY <2>1, <2>3, <2>5, <3>2 DEF CountInv
  <2> QED
    BY <1>7, <2>4, <2>5, CollectCases
<1>8. CASE TrainStep
  <2>1. /\ trainer = "train" /\ ~stopping /\ stopping' = stopping
        /\ rollout_version' = rollout_version /\ main' = main /\ queue' = queue
    BY <1>8 DEF TrainStep, CountInv, rolloutVars, mainVars, queueVars
  <2>2. /\ Cardinality(trained') = Cardinality(trained) + required_samples
        /\ batch' = <<>> /\ Len(batch') = 0
    BY <1>8, TrainedGrows
  <2> DEFINE l == local_trigger_step
             v == current_param_version
  <2>3. /\ l \in 1 .. trigger_parameter_sync_step /\ v \in Nat
        /\ Cardinality(trained) = v * SamplesPerVersion + (l - 1) * required_samples
        /\ v = rollout_version
    BY <2>1, CountType DEF CountInv
  <2>4. /\ (l - 1) * required_samples \in Nat /\ v * SamplesPerVersion \in Nat
        /\ (l - 1) * required_samples + required_samples = l * required_samples
        /\ (v + 1) * SamplesPerVersion = v * SamplesPerVersion + SamplesPerVersion
        /\ required_samples \in Nat \ {0} /\ l * required_samples \in Int
    BY <2>3, Products
  <2>5. CASE l < trigger_parameter_sync_step
    <3>1. l' = l + 1 /\ trainer' = "collect" /\ v' = v
      BY <1>8, <2>5 DEF TrainStep
    <3>2. l' - 1 = l
      BY <2>3, <3>1
    <3>3. Cardinality(trained') = v' * SamplesPerVersion + (l' - 1) * required_samples
      BY <2>2, <2>3, <2>4, <3>1, <3>2
    <3> QED
      BY <2>1, <2>2, <2>3, <2>4, <3>1, <3>3 DEF CountInv
  <2>6. CASE ~(l < trigger_parameter_sync_step)
    <3>1. l' = 1 /\ trainer' = "sync" /\ v' = v + 1
      BY <1>8, <2>6 DEF TrainStep
    <3>2. l * required_samples = SamplesPerVersion
      <4>1. l = trigger_parameter_sync_step
        BY <2>3, <2>6, Products
      <4> QED
        BY <4>1, Products DEF SamplesPerVersion
    <3>3. (l' - 1) * required_samples = 0
      BY <2>4, <3>1
    <3>4. Cardinality(trained') = v' * SamplesPerVersion + (l' - 1) * required_samples
      BY <2>2, <2>3, <2>4, <3>1, <3>2, <3>3
    <3> QED
      BY <2>1, <2>2, <2>3, <2>4, <3>1, <3>4 DEF CountInv
  <2> QED
    BY <2>5, <2>6
<1>9. CASE TrainSync \/ ResetEnter \/ ResetLocked \/ ResetEnd \/ TrainFinal
  <2>1. UNCHANGED <<trained, batch, local_trigger_step, current_param_version, stopping,
                    queue, main>>
    BY <1>9 DEF TrainSync, ResetEnter, ResetLocked, ResetEnd, TrainFinal, queueVars,
                rolloutVars, mainVars
  <2>2. current_param_version \in Nat /\ rollout_version \in Nat
    BY CountType
  <2>3. CASE TrainSync
    BY <2>1, <2>2, <2>3 DEF TrainSync, CountInv
  <2>4. CASE ResetEnter \/ ResetLocked \/ ResetEnd \/ TrainFinal
    <3>1. UNCHANGED rollout_version /\ trainer # "sync" /\ trainer # "train"
          /\ trainer' # "train" /\ (trainer' = "sync" => stopping)
      BY <2>4 DEF ResetEnter, ResetLocked, ResetBegin, ResetEnd, TrainFinal, CountInv
    <3>2. /\ trainer' \in {"collect"} => ~stopping
          /\ trainer' \in {"final", "done"} => stopping
          /\ ~stopping => trainer \in {"reset", "resetWait", "resetting"}
      BY <2>4 DEF ResetEnter, ResetLocked, ResetBegin, ResetEnd, TrainFinal, CountInv
    <3> QED
      BY <2>1, <2>2, <3>1, <3>2 DEF CountInv
  <2> QED
    BY <1>9, <2>3, <2>4
<1> QED
  BY <1>2, <1>3, <1>4, <1>5, <1>6, <1>7, <1>8, <1>9 DEF Next, RollouterNext, TrainerNext

LEMMA CountInvHolds == Spec => []CountInv
<1>1. Init => CountInv
  <2> SUFFICES ASSUME Init PROVE CountInv
    OBVIOUS
  <2>1. Cardinality({}) = 0 /\ 0 * SamplesPerVersion = 0 /\ (1 - 1) * required_samples = 0
    BY FS_EmptySet, Products
  <2>2. Len(batch) = 0 /\ Elements(queue) = {}
    BY ElementsOfEmpty DEF Init
  <2> QED
    BY <2>1, <2>2, Products DEF Init, CountInv
<1>2. TypeOK /\ PlaceInv /\ TaskInv /\ CountInv /\ [Next]_vars => CountInv'
  BY CountsKept
<1> QED
  BY <1>1, <1>2, TypeCorrect, PlaceInvHolds, TaskInvHolds, PTL DEF Spec

-----------------------------------------------------------------------------
(* The end signal is not evicted. *)

\* The positions after put_sample: one further back, or the whole queue moved up.
LEMMA PutPositions ==
  ASSUME queue \in Seq(Sample \cup {None}), NEW entry \in Sample \cup {None}, Put(entry),
         Len(queue) <= max_required_samples
  PROVE  /\ queue' \in Seq(Sample \cup {None}) /\ queue'[Len(queue')] = entry
         /\ Len(queue') \in Nat \ {0} /\ Len(queue') <= max_required_samples
         /\ \/ /\ Len(queue') = Len(queue) + 1 /\ dropped' = dropped
               /\ \A i \in 1 .. Len(queue) : queue'[i] = queue[i]
            \/ /\ Len(queue') = Len(queue) /\ Len(queue) = max_required_samples
               /\ dropped' = dropped \cup {Head(queue)}
               /\ \A i \in 1 .. Len(queue) - 1 : queue'[i] = queue[i + 1]
<1> DEFINE All == Sample \cup {None}
<1>1. Len(queue) \in Nat /\ max_required_samples \in Nat \ {0}
  BY Budget
<1>2. CASE /\ Len(queue) < max_required_samples
           /\ queue' = Append(queue, entry) /\ dropped' = dropped
  BY <1>1, <1>2
<1>3. CASE /\ Len(queue) >= max_required_samples /\ queue # <<>>
           /\ queue' = Append(Tail(queue), entry) /\ dropped' = dropped \cup {Head(queue)}
  <2>1. /\ Tail(queue) \in Seq(All) /\ Len(Tail(queue)) = Len(queue) - 1
        /\ Len(queue) = max_required_samples
        /\ \A i \in 1 .. Len(queue) - 1 : Tail(queue)[i] = queue[i + 1]
    BY <1>1, <1>3, ElementsOfTail
  <2>2. /\ queue' \in Seq(All) /\ Len(queue') = Len(queue)
        /\ queue'[Len(queue')] = entry
        /\ \A i \in 1 .. Len(queue) - 1 : queue'[i] = Tail(queue)[i]
    BY <1>1, <1>3, <2>1
  <2> QED
    BY <1>1, <1>3, <2>1, <2>2
<1> QED
  BY <1>2, <1>3, PutCases

LEMMA SignalKept ==
  TypeOK /\ TypeOK' /\ PlaceInv /\ TaskInv /\ SignalInv /\ [Next]_vars => SignalInv'
<1> SUFFICES ASSUME TypeOK, TypeOK', PlaceInv, TaskInv, SignalInv, [Next]_vars
             PROVE  SignalInv'
  OBVIOUS
<1> DEFINE u == Cardinality(Unfinished)
<1>1. /\ queue \in Seq(Sample \cup {None}) /\ Len(queue) \in Nat /\ u \in Nat
      /\ Len(queue) <= max_required_samples
  BY CountType, UnfinishedType DEF SignalInv
<1>2. ASSUME UNCHANGED queue, Unfinished' = Unfinished \/ None \notin Elements(queue)
      PROVE  SignalInv'
  BY <1>2 DEF SignalInv, Elements
<1>3. CASE Feeder \/ Monitor \/ MainStop \/ UNCHANGED vars
  <2>1. UNCHANGED <<queue, active_tasks, task>>
    BY <1>3
    DEF Feeder, FeedSample, FeedEnd, Monitor, MonitorHead, MonitorCheck, MonitorDecide,
        MonitorResumeLocked, MainStop, vars, queueVars
  <2>2. Unfinished' = Unfinished
    BY <2>1 DEF Unfinished
  <2> QED
    BY <1>2, <2>1, <2>2
<1>4. CASE Processor
  <2>1. queue' = queue /\ None \notin Elements(queue)
    BY <1>4, ProcessorSteps DEF PlaceInv, LineInv
  <2> QED
    BY <1>2, <2>1
<1>5. ASSUME NEW s \in Sample, TaskFail(s)
      PROVE  SignalInv'
  BY <1>2, <1>5, TaskUnfinished DEF TaskFail, queueVars
<1>6. ASSUME NEW s \in Sample, TaskPut(s)
      PROVE  SignalInv'
  <2>1. Cardinality(Unfinished') = u - 1 /\ u >= 1
    BY <1>6, TaskUnfinished
  <2>2. Put(s) /\ s # None
    BY <1>6, NoneIsNoSample DEF TaskPut
  <2>3. /\ queue'[Len(queue')] = s /\ Len(queue') \in Nat \ {0}
        /\ Len(queue') <= max_required_samples
        /\ \/ /\ Len(queue') = Len(queue) + 1
              /\ \A i \in 1 .. Len(queue) : queue'[i] = queue[i]
           \/ /\ Len(queue') = Len(queue)
              /\ \A i \in 1 .. Len(queue) - 1 : queue'[i] = queue[i + 1]
    BY <1>1, <2>2, PutPositions
  <2>4. ASSUME NEW i \in 1 .. Len(queue'), queue'[i] = None
        PROVE  Len(queue') - i + Cardinality(Unfinished') < max_concurrent_samples
    <3>1. i # Len(queue')
      BY <2>2, <2>3, <2>4
    <3>2. CASE /\ Len(queue') = Len(queue) + 1
               /\ \A j \in 1 .. Len(queue) : queue'[j] = queue[j]
      <4>1. i \in 1 .. Len(queue) /\ queue[i] = None
        BY <1>1, <2>4, <3>1, <3>2
      <4>2. Len(queue) - i + u < max_concurrent_samples
        BY <4>1 DEF SignalInv
      <4> QED
        BY <1>1, <2>1, <3>2, <4>2, Slots
    <3>3. CASE /\ Len(queue') = Len(queue)
               /\ \A j \in 1 .. Len(queue) - 1 : queue'[j] = queue[j + 1]
      <4>1. i + 1 \in 1 .. Len(queue) /\ queue[i + 1] = None
        BY <1>1, <2>4, <3>1, <3>3
      <4>2. Len(queue) - (i + 1) + u < max_concurrent_samples
        BY <4>1 DEF SignalInv
      <4> QED
        BY <1>1, <2>1, <3>3, <4>2, Slots
    <3> QED
      BY <2>3, <3>2, <3>3
  <2> QED
    BY <2>3, <2>4 DEF SignalInv
<1>7. CASE MainClose
  <2>1. /\ Put(None) /\ UNCHANGED <<active_tasks, task>> /\ main = "stream"
        /\ processor \in {"done", "dead"}
    BY <1>7 DEF MainClose
  <2>2. None \notin Elements(queue) /\ Unfinished' = Unfinished
    BY <2>1 DEF PlaceInv, LineInv, Unfinished
  <2>3. u < max_concurrent_samples
    <3>1. processor = "done" => u = 0
      <4>1. processor = "done" => Unfinished = {}
        BY DEF TaskInv, Unfinished
      <4> QED
        BY <4>1, FS_EmptySet
    <3> QED
      BY <1>1, <2>1, <3>1, UnfinishedType, Slots DEF TaskInv
  <2>4. /\ Len(queue') \in Nat \ {0} /\ Len(queue') <= max_required_samples
        /\ \A i \in 1 .. Len(queue') : i # Len(queue') => queue'[i] \in Elements(queue)
    <3>1. /\ Len(queue') \in Nat \ {0} /\ Len(queue') <= max_required_samples
          /\ \/ /\ Len(queue') = Len(queue) + 1
                /\ \A i \in 1 .. Len(queue) : queue'[i] = queue[i]
             \/ /\ Len(queue') = Len(queue)
                /\ \A i \in 1 .. Len(queue) - 1 : queue'[i] = queue[i + 1]
      BY <1>1, <2>1, PutPositions
    <3>2. ASSUME NEW i \in 1 .. Len(queue'), i # Len(queue')
          PROVE  queue'[i] \in Elements(queue)
      <4>1. \/ i \in 1 .. Len(queue) /\ queue'[i] = queue[i]
            \/ i + 1 \in 1 .. Len(queue) /\ queue'[i] = queue[i + 1]
        BY <1>1, <3>1, <3>2
      <4> QED
        BY <4>1 DEF Elements
    <3> QED
      BY <3>1, <3>2
  <2>5. ASSUME NEW i \in 1 .. Len(queue'), queue'[i] = None
        PROVE  Len(queue') - i + Cardinality(Unfinished') < max_concurrent_samples
    <3>1. i = Len(queue')
      BY <2>2, <2>4, <2>5
    <3> QED
      BY <1>1, <2>2, <2>3, <2>4, <3>1
  <2> QED
    BY <2>4, <2>5 DEF SignalInv
<1>8. CASE TrainCollect
  <2>1. /\ queue # <<>> /\ queue' = Tail(queue) /\ UNCHANGED task
        /\ UNCHANGED active_tasks
    BY <1>8, CollectCases DEF TrainCollect, rolloutVars
  <2>2. /\ Len(queue') = Len(queue) - 1 /\ Len(queue) \in Nat \ {0}
        /\ \A i \in 1 .. Len(queue) - 1 : queue'[i] = queue[i + 1]
    BY <1>1, <2>1, ElementsOfTail
  <2>3. Unfinished' = Unfinished
    BY <2>1 DEF Unfinished
  <2>4. ASSUME NEW i \in 1 .. Len(queue'), queue'[i] = None
        PROVE  Len(queue') - i + u < max_concurrent_samples
    <3>1. i + 1 \in 1 .. Len(queue) /\ queue[i + 1] = None
      BY <2>2, <2>4
    <3>2. Len(queue) - (i + 1) + u < max_concurrent_samples
      BY <3>1 DEF SignalInv
    <3> QED
      BY <1>1, <2>2, <3>2
  <2>5. Len(queue') <= max_required_samples
    BY <1>1, <2>2, Budget
  <2> QED
    BY <2>3, <2>4, <2>5 DEF SignalInv
<1>9. CASE TrainStep \/ TrainSync \/ ResetEnter \/ ResetLocked \/ ResetEnd \/ TrainFinal
  <2>1. UNCHANGED <<queue, active_tasks, task>>
    BY <1>9 DEF TrainStep, TrainSync, ResetEnter, ResetLocked, ResetEnd, TrainFinal,
                queueVars, rolloutVars
  <2>2. Unfinished' = Unfinished
    BY <2>1 DEF Unfinished
  <2> QED
    BY <1>2, <2>1, <2>2
<1> QED
  BY <1>3, <1>4, <1>5, <1>6, <1>7, <1>8, <1>9 DEF Next, RollouterNext, TrainerNext, Main

LEMMA SignalInvHolds == Spec => []SignalInv
<1>1. Init => SignalInv
  BY Budget DEF Init, SignalInv
<1>2. TypeOK /\ TypeOK' /\ PlaceInv /\ TaskInv /\ SignalInv /\ [Next]_vars => SignalInv'
  BY SignalKept
<1> QED
  BY <1>1, <1>2, TypeCorrect, PlaceInvHolds, TaskInvHolds, PTL DEF Spec

-----------------------------------------------------------------------------
(* The budget is kept. *)

\* int(spv * (1 + staleness_threshold)) is at least what a version consumes, and
\* that without a staleness allowance.
LEMMA BudgetOfVersion ==
  /\ max_required_samples >= SamplesPerVersion
  /\ StaleNum = 0 => max_required_samples = SamplesPerVersion
<1> DEFINE n == SamplesPerVersion
           d == StaleDen
           y == n * (StaleNum + d)
<1>1. n \in Nat \ {0} /\ d \in Nat \ {0} /\ StaleNum \in Nat
  BY Products, FullyAsyncAssumption
<1>2. y = n * StaleNum + n * d /\ n * StaleNum \in Nat /\ n * d \in Nat
  BY <1>1
<1>3. y \in Nat /\ y >= n * d
  BY <1>2
<1>4. \A a \in Nat, b \in Nat \ {0} :
        (a \div b) \in Nat /\ (a \div b) * b <= a /\ a < ((a \div b) + 1) * b
  OBVIOUS
<1> DEFINE q == y \div d
<1>5. q \in Nat /\ q * d <= y /\ y < (q + 1) * d
  BY <1>1, <1>3, <1>4
<1>6. q >= n
  <2>1. n * d < (q + 1) * d
    BY <1>1, <1>2, <1>3, <1>5
  <2>2. \A a, b, c \in Nat : a >= b => a * c >= b * c
    OBVIOUS
  <2>3. n >= q + 1 => n * d >= (q + 1) * d
    BY <1>1, <1>5, <2>2
  <2> QED
    BY <1>1, <1>5, <2>1, <2>3
<1>7. ASSUME StaleNum = 0 PROVE q = n
  <2>1. n * StaleNum = 0
    BY <1>1, <1>7
  <2>2. q * d <= n * d
    BY <1>2, <1>5, <2>1
  <2>3. \A a, b, c \in Nat : a >= b => a * c >= b * c
    OBVIOUS
  <2>4. q >= n + 1 => q * d >= (n + 1) * d
    BY <1>1, <1>5, <2>3
  <2>5. (n + 1) * d = n * d + d
    BY <1>1
  <2> QED
    BY <1>1, <1>2, <1>5, <1>6, <2>2, <2>4, <2>5
<1> QED
  BY <1>6, <1>7 DEF max_required_samples

LEMMA BaseProducts ==
  /\ \A v \in Int : v * SamplesPerVersion \in Int
  /\ \A v \in Int : (v + 1) * SamplesPerVersion = v * SamplesPerVersion + SamplesPerVersion
<1>1. SamplesPerVersion \in Int
  BY Products
<1>2. \A v, s \in Int : v * s \in Int /\ (v + 1) * s = v * s + s
  OBVIOUS
<1> QED
  BY <1>1, <1>2

\* What the version counted for has consumed was trained on.
LEMMA BaseTrained ==
  ASSUME TypeOK, CountInv
  PROVE  /\ Base \in Int /\ Base <= rollout_version
         /\ Base * SamplesPerVersion \in Int
         /\ Base * SamplesPerVersion <= rollout_version * SamplesPerVersion
         /\ rollout_version * SamplesPerVersion \in Int
         /\ Base * SamplesPerVersion <= Cardinality(trained)
<1>1. rollout_version \in Nat /\ Base \in {rollout_version, rollout_version - 1}
  BY CountType DEF Base
<1>2. current_param_version \in {rollout_version, rollout_version + 1}
  BY <1>1 DEF CountInv
<1>3. SamplesPerVersion \in Nat \ {0}
  BY Products
<1>4. Base * SamplesPerVersion \in Int
      /\ Base * SamplesPerVersion <= rollout_version * SamplesPerVersion
      /\ rollout_version * SamplesPerVersion \in Int
  <2>1. (rollout_version - 1) + 1 = rollout_version /\ rollout_version - 1 \in Int
    BY <1>1
  <2>2. rollout_version * SamplesPerVersion =
          (rollout_version - 1) * SamplesPerVersion + SamplesPerVersion
    BY <2>1, BaseProducts
  <2> QED
    BY <1>1, <1>3, <2>1, <2>2, BaseProducts
<1>5. /\ current_param_version * SamplesPerVersion \in Int
      /\ rollout_version * SamplesPerVersion <= current_param_version * SamplesPerVersion
  BY <1>1, <1>2, <1>3, BaseProducts
<1>6. /\ (local_trigger_step - 1) * required_samples \in Nat
      /\ Cardinality(trained) =
           current_param_version * SamplesPerVersion + (local_trigger_step - 1) * required_samples
  BY CountType, Products DEF CountInv
<1> QED
  BY <1>1, <1>4, <1>5, <1>6

LEMMA DroppedType ==
  ASSUME TypeOK
  PROVE  IsFiniteSet(dropped) /\ Cardinality(dropped) \in Nat
<1>1. IsFiniteSet(Sample)
  BY SampleSetFinite
<1>2. IsFiniteSet(Sample \cup {None})
  BY <1>1, FS_AddElement
<1>3. dropped \in SUBSET (Sample \cup {None})
  BY DEF TypeOK, QueueType
<1> QED
  BY <1>2, <1>3, FS_Subset, FS_CardinalityType

LEMMA UnderwayType ==
  ASSUME TypeOK
  PROVE  /\ Underway \in Nat /\ Cardinality(Unfinished) \in Nat /\ Holding \in {0, 1}
         /\ Underway = Cardinality(trained) + Len(batch) + Len(queue) + Load
  BY CountType, UnfinishedType, LoadType DEF Underway, Load

\* Steps that take nothing from pending_queue and count nothing anew.
LEMMA SameBudget ==
  ASSUME TypeOK, CountInv, BudgetInv, Underway' \in Nat, Underway' <= Underway,
         Base' = Base, UNCHANGED <<dropped, staleness_samples, processor>>
  PROVE  BudgetInv'
<1>1. PICK x \in {0, 1} : Allows(x)
  BY DEF BudgetInv
<1>2. /\ Underway \in Nat /\ max_required_samples \in Nat /\ staleness_samples \in Nat
      /\ Base * SamplesPerVersion \in Int
  BY UnderwayType, Budget, BaseTrained DEF TypeOK, ControlType
<1>3. Allows(x)'
  BY <1>1, <1>2 DEF Allows
<1> QED
  BY <1>3 DEF BudgetInv

LEMMA BudgetOfProcessor ==
  ASSUME TypeOK, TypeOK', PlaceInv, TaskInv, CountInv, BudgetInv, Processor
  PROVE  BudgetInv'
<1>1. PICK x \in {0, 1} : Allows(x)
  BY DEF BudgetInv
<1>2. UNCHANGED <<queue, dropped, trained, batch, trainer, rollout_version, stopping>>
  BY ProcessorSteps
<1>3. Base' = Base
  BY <1>2 DEF Base
<1> DEFINE p == Cardinality(trained) + Len(batch) + Len(queue)
           b == Base * SamplesPerVersion
<1>4. /\ p \in Nat /\ b \in Int /\ max_required_samples \in Nat /\ staleness_samples \in Nat
      /\ Load \in Nat /\ Underway = p + Load
  BY CountType, LoadType, UnderwayType, Budget, BaseTrained DEF TypeOK, ControlType
<1>5. Load' \in Nat /\ Underway' = p + Load'
  <2>1. Unfinished' \in SUBSET Sample
    BY DEF TypeOK, TaskType, Unfinished
  <2>2. Cardinality(Unfinished') \in Nat /\ Holding' \in {0, 1}
    BY <2>1, SampleSets DEF Holding
  <2>3. p \in Nat
    BY CountType
  <2>4. Underway' = p + Cardinality(Unfinished') + Holding'
    BY <1>2 DEF Underway
  <2> QED
    BY <2>2, <2>3, <2>4 DEF Load
<1>6. /\ x \in {0, 1}
      /\ x <= max_required_samples - SamplesPerVersion /\ x + Cardinality(dropped) <= Base
      /\ Underway <= b + max_required_samples + x
      /\ processor \notin {"done", "dead"} => Underway <= b + staleness_samples + x
      /\ processor = "get" => Underway < b + max_required_samples + x
  BY <1>1 DEF Allows
<1>7. processor \notin {"done", "dead"}
  BY DEF Processor, ProcCheck, ProcDecide, ProcPauseLocked, ProcDrain, ProcDrainLocked,
         ProcResume, ProcGet, ProcWaitDone, ProcSubmitLocked
<1> HIDE DEF b, p
<1>8. /\ Underway' <= b + max_required_samples + x
      /\ Underway' <= b + staleness_samples' + x
      /\ processor' = "get" => Underway' < b + max_required_samples + x
  <2>1. CASE /\ staleness_samples' = staleness_samples /\ Load' <= Load
             /\ processor' = "get" => staleness_samples < max_required_samples
    <3>1. Underway' \in Nat /\ Underway \in Nat /\ Underway' <= Underway
      <4>1. Load' <= Load /\ Load \in Nat /\ Load' \in Nat /\ p \in Nat
        BY <1>4, <1>5, <2>1
      <4>2. Underway = p + Load /\ Underway' = p + Load'
        BY <1>4, <1>5
      <4>3. \A i, j, k \in Nat : i <= j => k + i \in Nat /\ k + j \in Nat /\ k + i <= k + j
        OBVIOUS
      <4> QED
        BY <4>1, <4>2, <4>3
    <3>2. Underway' <= b + max_required_samples + x /\ Underway' <= b + staleness_samples + x
      BY <1>4, <1>6, <1>7, <3>1
    <3>3. staleness_samples < max_required_samples =>
            Underway' < b + max_required_samples + x
      BY <1>4, <1>6, <3>1, <3>2
    <3> QED
      BY <2>1, <3>2, <3>3
  <2>2. CASE /\ staleness_samples' = staleness_samples + 1 /\ Load' <= Load + 1
             /\ processor' # "get"
             /\ \/ processor = "get"
                \/ processor = "decide" /\ staleness_samples < max_required_samples
    <3>1. Underway' \in Nat /\ Underway \in Nat /\ Underway' <= Underway + 1
      <4>1. Load' <= Load + 1 /\ Load \in Nat /\ Load' \in Nat /\ p \in Nat
        BY <1>4, <1>5, <2>2
      <4>2. Underway = p + Load /\ Underway' = p + Load'
        BY <1>4, <1>5
      <4>3. \A i, j, k \in Nat : i <= j + 1 =>
              k + i \in Nat /\ k + j \in Nat /\ k + i <= (k + j) + 1
        OBVIOUS
      <4> QED
        BY <4>1, <4>2, <4>3
    <3>2. Underway <= b + staleness_samples + x
      BY <1>6, <1>7
    <3>3. Underway < b + max_required_samples + x
      BY <1>4, <1>6, <2>2, <3>1, <3>2
    <3>4. Underway' <= b + max_required_samples + x
      BY <1>4, <1>6, <3>1, <3>3
    <3>5. Underway' <= b + (staleness_samples + 1) + x
      BY <1>4, <1>6, <3>1, <3>2
    <3> QED
      BY <2>2, <3>4, <3>5
  <2> QED
    BY <2>1, <2>2, ProcessorLoad
<1>9. Allows(x)'
  BY <1>2, <1>3, <1>6, <1>8 DEF Allows, b
<1> QED
  BY <1>9 DEF BudgetInv

\* An entry finds the queue full only because of the sample that the last
\* reset_staleness did not count; evicting the oldest entry makes up for it.
LEMMA BudgetOfPut ==
  ASSUME TypeOK, TypeOK', CountInv, SignalInv, BudgetInv, NEW entry \in Sample \cup {None},
         Put(entry), Load \in Nat, Load >= 1, Load' = Load - 1,
         UNCHANGED <<trained, batch, trainer, rollout_version, stopping, staleness_samples,
                     processor>>
  PROVE  /\ BudgetInv'
         /\ dropped' = dropped \/ Cardinality(dropped) < rollout_version
<1>1. PICK x \in {0, 1} : Allows(x)
  BY DEF BudgetInv
<1>2. Base' = Base
  BY DEF Base
<1> DEFINE p == Cardinality(trained) + Len(batch)
           b == Base * SamplesPerVersion
           d == Cardinality(dropped)
<1>3. /\ p \in Nat /\ Len(queue) \in Nat /\ b \in Int /\ max_required_samples \in Nat
      /\ staleness_samples \in Nat /\ d \in Nat /\ b <= p
      /\ Underway = p + Len(queue) + Load /\ Underway \in Nat
      /\ Base \in Int /\ rollout_version \in Nat /\ Base <= rollout_version
      /\ SamplesPerVersion \in Nat
  <2>1. /\ Cardinality(trained) \in Nat /\ Len(batch) \in Nat /\ Len(queue) \in Nat
        /\ Underway = Cardinality(trained) + Len(batch) + Len(queue) + Load
        /\ Underway \in Nat /\ rollout_version \in Nat /\ SamplesPerVersion \in Nat
    BY CountType, UnderwayType, Products
  <2>2. /\ max_required_samples \in Nat /\ staleness_samples \in Nat /\ d \in Nat
    BY Budget, DroppedType DEF TypeOK, ControlType
  <2>3. b \in Int /\ b <= Cardinality(trained) /\ Base \in Int /\ Base <= rollout_version
    BY BaseTrained
  <2>4. b <= p
    BY <2>1, <2>3
  <2> QED
    BY <2>1, <2>2, <2>3, <2>4
<1>4. /\ Len(queue') \in Nat
      /\ \/ Len(queue') = Len(queue) + 1 /\ dropped' = dropped
         \/ /\ Len(queue') = Len(queue) /\ Len(queue) = max_required_samples
            /\ dropped' = dropped \cup {Head(queue)}
  BY CountType, PutPositions DEF SignalInv
<1>5. Underway' = p + Len(queue') + Load'
  <2>1. Unfinished' \in SUBSET Sample
    BY DEF TypeOK, TaskType, Unfinished
  <2>2. Cardinality(Unfinished') \in Nat /\ Holding' \in {0, 1}
    BY <2>1, SampleSets DEF Holding
  <2>3. Underway' = p + Len(queue') + Cardinality(Unfinished') + Holding'
    BY DEF Underway
  <2> QED
    BY <1>3, <1>4, <2>2, <2>3 DEF Load
<1>6. /\ x \in {0, 1}
      /\ x <= max_required_samples - SamplesPerVersion /\ x + d <= Base
      /\ Underway <= b + max_required_samples + x
      /\ processor \notin {"done", "dead"} => Underway <= b + staleness_samples + x
      /\ processor = "get" => Underway < b + max_required_samples + x
  BY <1>1 DEF Allows
<1>7. CASE Len(queue') = Len(queue) + 1 /\ dropped' = dropped
  <2>1. Underway' = Underway
    BY <1>3, <1>5, <1>7
  <2>2. Allows(x)'
    BY <1>2, <1>6, <1>7, <2>1 DEF Allows
  <2> QED
    BY <1>7, <2>2 DEF BudgetInv
<1>8. CASE /\ Len(queue') = Len(queue) /\ Len(queue) = max_required_samples
           /\ dropped' = dropped \cup {Head(queue)}
  <2>1. Underway' = Underway - 1
    BY <1>3, <1>5, <1>8
  <2>2. x = 1
    BY <1>3, <1>6, <1>8
  <2>3. Cardinality(dropped') \in {d, d + 1}
    BY <1>8, DroppedType, FS_AddElement
  <2>4. /\ 0 <= max_required_samples - SamplesPerVersion
        /\ 0 + Cardinality(dropped') <= Base /\ d < rollout_version
    BY <1>3, <1>6, <2>2, <2>3
  <2>5. /\ Underway' <= b + max_required_samples + 0
        /\ processor \notin {"done", "dead"} => Underway' <= b + staleness_samples + 0
    BY <1>3, <1>6, <2>1, <2>2
  <2>6. processor = "get" => Underway' < b + max_required_samples + 0
    BY <1>3, <1>6, <2>1, <2>2
  <2>7. Allows(0)'
    BY <1>2, <2>4, <2>5, <2>6 DEF Allows
  <2> QED
    BY <2>4, <2>7 DEF BudgetInv
<1> QED
  BY <1>4, <1>7, <1>8

\* reset_staleness counts the active tasks and the queue anew; with a staleness
\* allowance it may miss the sample in the processor's hand, and without one
\* there is none: the version has used its budget up.
LEMMA BudgetOfReset ==
  ASSUME TypeOK, TaskInv, CountInv, BudgetInv, ResetEnd
  PROVE  BudgetInv'
<1>1. PICK x \in {0, 1} : Allows(x)
  BY DEF BudgetInv
<1>2. /\ trainer = "resetting" /\ staleness_samples' = active_seen + Len(queue)
      /\ trainer' = (IF stopping THEN "done" ELSE "collect")
      /\ UNCHANGED <<processor, main, active_tasks, task, queue, dropped, batch, trained,
                     rollout_version, stopping>>
  BY DEF ResetEnd, rolloutVars, procVars, mainVars, queueVars
<1>3. Underway' = Underway
  <2>1. Unfinished' = Unfinished /\ Holding' = Holding
    BY <1>2 DEF Unfinished, Holding
  <2> QED
    BY <1>2, <2>1 DEF Underway
<1> DEFINE b == Base * SamplesPerVersion
           spv == SamplesPerVersion
           m == max_required_samples
           u == Cardinality(Unfinished)
<1>4. /\ Underway \in Nat /\ b \in Int /\ m \in Nat /\ spv \in Nat \ {0}
      /\ u \in Nat /\ Len(queue) \in Nat /\ active_seen \in Nat /\ Holding \in {0, 1}
      /\ Base \in Int /\ Cardinality(dropped) \in Nat /\ Cardinality(trained) \in Nat
  BY CountType, UnderwayType, UnfinishedType, Budget, BaseTrained, DroppedType, Products
  DEF TypeOK, TrainType
<1>5. /\ x \in {0, 1} /\ x <= m - spv /\ x + Cardinality(dropped) <= Base
      /\ Underway <= b + m + x
      /\ processor = "get" => Underway < b + m + x
  BY <1>1 DEF Allows
<1>6. CASE stopping
  <2>1. Base' = Base /\ processor \in {"done", "dead"}
    BY <1>2, <1>6 DEF Base, CountInv, TaskInv
  <2>2. Allows(x)'
    BY <1>1, <1>2, <1>3, <2>1 DEF Allows
  <2> QED
    BY <2>2 DEF BudgetInv
<1>7. CASE ~stopping
  <2>1. Base = rollout_version - 1 /\ Base' = rollout_version
    BY <1>2, <1>7 DEF Base
  <2>2. Base' = Base + 1 /\ Base' * spv = b + spv
    <3>1. Base' = Base + 1
      BY <2>1, CountType
    <3> QED
      BY <1>4, <3>1, BaseProducts
  <2>3. Cardinality(trained) = b + spv /\ Len(batch) = 0
    <3>1. /\ current_param_version = rollout_version /\ local_trigger_step = 1
          /\ batch = <<>>
      BY <1>2, <1>7, CountType DEF CountInv
    <3>2. (local_trigger_step - 1) * required_samples = 0 /\ Len(batch) = 0
      BY <3>1, Products
    <3>3. Cardinality(trained) = rollout_version * spv + 0
      BY <3>1, <3>2 DEF CountInv
    <3> QED
      BY <1>4, <2>1, <2>2, <3>2, <3>3
  <2>4. Underway = b + spv + Len(queue) + u + Holding
    BY <1>4, <2>3 DEF Underway
  <2>5. u <= active_seen
    BY <1>2, <1>4, UnfinishedType DEF TaskInv
  <2>6. Underway <= b + spv + staleness_samples' + Holding
    BY <1>2, <1>4, <2>4, <2>5
  <2>7. CASE m > spv
    <3>1. /\ 1 <= m - spv /\ 1 + Cardinality(dropped) <= Base'
          /\ Underway <= b + spv + m + 1
          /\ Underway <= b + spv + staleness_samples' + 1
      BY <1>2, <1>4, <1>5, <2>2, <2>6, <2>7
    <3>2. processor = "get" => Underway < b + spv + m + 1
      BY <1>4, <1>5
    <3>3. Allows(1)'
      BY <1>2, <1>3, <2>2, <3>1, <3>2 DEF Allows
    <3> QED
      BY <3>3 DEF BudgetInv
  <2>8. CASE ~(m > spv)
    <3>1. m = spv /\ x = 0
      BY <1>4, <1>5, <2>8
    <3>2. Holding = 0 /\ Underway = b + spv
      BY <1>4, <1>5, <2>4, <3>1
    <3>3. /\ 0 <= m - spv /\ 0 + Cardinality(dropped) <= Base'
          /\ Underway <= b + spv + m + 0
          /\ Underway <= b + spv + staleness_samples' + 0
      BY <1>2, <1>4, <1>5, <2>2, <2>6, <3>1, <3>2
    <3>4. Underway < b + spv + m + 0
      BY <1>4, <3>1, <3>2
    <3>5. Allows(0)'
      BY <1>2, <1>3, <2>2, <3>3, <3>4 DEF Allows
    <3> QED
      BY <3>5 DEF BudgetInv
  <2> QED
    BY <2>7, <2>8
<1> QED
  BY <1>6, <1>7

LEMMA BudgetOfTrainer ==
  ASSUME TypeOK, TypeOK', PlaceInv, TaskInv, CountInv, BudgetInv, TrainerNext
  PROVE  BudgetInv'
<1>1. UNCHANGED <<processor, main, active_tasks, task, dropped>>
  BY DEF TrainerNext, TrainCollect, TrainStep, TrainSync, ResetEnter, ResetLocked, ResetEnd,
         TrainFinal, rolloutVars, procVars, mainVars, queueVars
<1>2. Unfinished' = Unfinished /\ Holding' = Holding
  BY <1>1 DEF Unfinished, Holding
<1> DEFINE n == Cardinality(trained) + Len(batch) + Len(queue)
<1>3. n \in Nat /\ Load \in Nat /\ Underway = n + Load
  BY CountType, UnderwayType, LoadType
<1>4. Underway' = n' + Load
  <2>1. Underway' = n' + Cardinality(Unfinished) + Holding
    BY <1>2 DEF Underway
  <2>2. n' \in Nat
    <3>1. /\ trained' \in SUBSET Sample /\ batch' \in Seq(Sample)
          /\ queue' \in Seq(Sample \cup {None})
      BY DEF TypeOK, TrainType, QueueType
    <3>2. Cardinality(trained') \in Nat /\ Len(batch') \in Nat /\ Len(queue') \in Nat
      BY <3>1, SampleSets
    <3> QED
      BY <3>2
  <2> QED
    BY <2>1, <2>2, UnderwayType DEF Load
<1>5. ASSUME n' \in Nat, n' <= n, Base' = Base, UNCHANGED staleness_samples
      PROVE  BudgetInv'
  <2>1. Underway' \in Nat /\ Underway' <= Underway
    BY <1>3, <1>4, <1>5
  <2> QED
    BY <1>1, <1>5, <2>1, SameBudget
<1>6. CASE TrainCollect
  <2>1. /\ queue # <<>> /\ queue' = Tail(queue) /\ trained' = trained
        /\ UNCHANGED <<staleness_samples, rollout_version>>
        /\ trainer = "collect" /\ trainer' \in {"final", "train", "collect"}
        /\ batch' = batch \/ (Head(queue) \in Sample /\ batch' = Append(batch, Head(queue)))
    BY <1>6, CollectCases DEF TrainCollect, ctlVars
  <2>2. Len(queue') = Len(queue) - 1 /\ Len(queue) \in Nat \ {0}
    BY <2>1, CountType, ElementsOfTail
  <2>3. Len(batch') \in {Len(batch), Len(batch) + 1} /\ Len(batch) \in Nat
    BY <2>1, CountType, ElementsOfAppend
  <2>4. Base' = Base
    BY <2>1 DEF Base
  <2>5. n' \in Nat /\ n' <= n
    BY <2>1, <2>2, <2>3, CountType
  <2> QED
    BY <1>5, <2>1, <2>4, <2>5
<1>7. CASE TrainStep
  <2>1. /\ Cardinality(trained') = Cardinality(trained) + Len(batch)
        /\ Len(batch') = 0 /\ queue' = queue
    BY <1>7, TrainedGrows DEF TrainStep, queueVars
  <2>2. /\ UNCHANGED <<staleness_samples, rollout_version, stopping>>
        /\ trainer = "train" /\ trainer' \in {"collect", "sync"}
    BY <1>7 DEF TrainStep, ctlVars
  <2>3. Base' = Base
    BY <2>2 DEF Base
  <2>4. n' = n
    BY <2>1, CountType
  <2> QED
    BY <1>3, <1>5, <2>2, <2>3, <2>4
<1>8. CASE TrainSync \/ ResetEnter \/ ResetLocked \/ TrainFinal
  <2>1. UNCHANGED <<trained, batch, queue, staleness_samples>>
    BY <1>8 DEF TrainSync, ResetEnter, ResetLocked, ResetBegin, TrainFinal, queueVars, ctlVars
  <2>2. n' = n
    BY <2>1
  <2>3. Base' = Base
    <3>1. CASE TrainSync
      <4>1. /\ trainer = "sync" /\ trainer' = "reset" /\ stopping' = stopping
            /\ rollout_version' = current_param_version
        BY <3>1 DEF TrainSync
      <4> QED
        BY <4>1, CountType DEF Base, CountInv
    <3>2. CASE ResetEnter \/ ResetLocked
      BY <3>2 DEF ResetEnter, ResetLocked, ResetBegin, Base
    <3>3. CASE TrainFinal
      BY <3>3 DEF TrainFinal, Base
    <3> QED
      BY <1>8, <3>1, <3>2, <3>3
  <2> QED
    BY <1>3, <1>5, <2>1, <2>2, <2>3
<1> QED
  BY <1>6, <1>7, <1>8, BudgetOfReset DEF TrainerNext

\* The end signal, or a task, hands its place to what it puts.
LEMMA PutLoad ==
  ASSUME TypeOK, TypeOK', TaskInv, NEW s \in Sample, MainClose \/ TaskPut(s)
  PROVE  /\ Load \in Nat /\ Load >= 1 /\ Load' = Load - 1
         /\ UNCHANGED <<trained, batch, trainer, rollout_version, stopping, staleness_samples,
                        processor>>
<1>1. UNCHANGED <<trained, batch, trainer, rollout_version, stopping, staleness_samples, processor>>
  BY DEF MainClose, TaskPut, trainVars, ctlVars, procVars
<1>2. Cardinality(Unfinished) \in Nat /\ Holding \in {0, 1} /\ Load \in Nat
  BY UnfinishedType, LoadType
<1>3. CASE MainClose
  <2>1. /\ UNCHANGED <<active_tasks, task, processor>> /\ main = "stream" /\ main' = "closing"
        /\ processor \in {"done", "dead"}
    BY <1>3 DEF MainClose, procVars
  <2>2. Unfinished' = Unfinished /\ Holding = 1 /\ Holding' = 0
    BY <2>1 DEF Unfinished, Holding
  <2> QED
    BY <1>1, <1>2, <2>2 DEF Load
<1>4. CASE TaskPut(s)
  <2>1. /\ Cardinality(Unfinished) >= 1 /\ Holding' = Holding
        /\ Cardinality(Unfinished') = Cardinality(Unfinished) - 1
    BY <1>4, TaskUnfinished
  <2> QED
    BY <1>1, <1>2, <2>1 DEF Load
<1> QED
  BY <1>3, <1>4

LEMMA BudgetKept ==
  TypeOK /\ TypeOK' /\ PlaceInv /\ TaskInv /\ CountInv /\ SignalInv /\ BudgetInv /\ [Next]_vars
    => BudgetInv'
<1> SUFFICES ASSUME TypeOK, TypeOK', PlaceInv, TaskInv, CountInv, SignalInv, BudgetInv,
                    [Next]_vars
             PROVE  BudgetInv'
  OBVIOUS
<1>1. ASSUME Unfinished' = Unfinished, Holding' = Holding,
             UNCHANGED <<trained, batch, queue, dropped, staleness_samples, processor,
                         trainer, stopping, rollout_version>>
      PROVE  BudgetInv'
  <2>1. Underway' = Underway /\ Base' = Base
    BY <1>1 DEF Underway, Base
  <2>2. Underway \in Nat
    BY UnderwayType
  <2> QED
    BY <1>1, <2>1, <2>2, SameBudget
<1>2. CASE Feeder \/ Monitor \/ MainStop \/ UNCHANGED vars
  <2>1. UNCHANGED <<trained, batch, queue, dropped, staleness_samples, processor, trainer,
                    stopping, rollout_version, active_tasks, task>>
    BY <1>2
    DEF Feeder, FeedSample, FeedEnd, Monitor, MonitorHead, MonitorCheck, MonitorDecide, Unpause,
        MonitorResumeLocked, MainStop, vars, queueVars, trainVars, ctlVars, procVars
  <2>2. main' = main \/ (main = "closing" /\ main' = "stopped")
    BY <1>2
    DEF Feeder, FeedSample, FeedEnd, Monitor, MonitorHead, MonitorCheck, MonitorDecide,
        MonitorResumeLocked, MainStop, vars, mainVars
  <2>3. Unfinished' = Unfinished /\ Holding' = Holding
    BY <2>1, <2>2 DEF Unfinished, Holding
  <2> QED
    BY <1>1, <2>1, <2>3
<1>3. ASSUME NEW s \in Sample, TaskFail(s)
      PROVE  BudgetInv'
  <2>1. UNCHANGED <<trained, batch, queue, dropped, staleness_samples, processor, trainer,
                    stopping, rollout_version>>
    BY <1>3 DEF TaskFail, trainVars, queueVars, ctlVars, procVars
  <2> QED
    BY <1>1, <1>3, <2>1, TaskUnfinished
<1>4. ASSUME NEW s \in Sample, TaskPut(s)
      PROVE  BudgetInv'
  <2>1. Put(s) /\ s \in Sample \cup {None}
    BY <1>4 DEF TaskPut
  <2> QED
    BY <1>4, <2>1, PutLoad, BudgetOfPut
<1>5. CASE MainClose
  <2>1. Put(None) /\ None \in Sample \cup {None} /\ 1 \in Sample
    BY <1>5, FullyAsyncAssumption DEF MainClose, Sample
  <2> QED
    BY <1>5, <2>1, PutLoad, BudgetOfPut
<1> QED
  BY <1>2, <1>3, <1>4, <1>5, BudgetOfProcessor, BudgetOfTrainer DEF Next, RollouterNext, Main

LEMMA BudgetInvHolds == Spec => []BudgetInv
<1>1. Init => BudgetInv
  <2> SUFFICES ASSUME Init PROVE BudgetInv
    OBVIOUS
  <2>1. Cardinality({}) = 0 /\ 0 * SamplesPerVersion = 0
    BY FS_EmptySet, Products
  <2>2. Base = 0 /\ Holding = 0 /\ Unfinished = {}
    BY DEF Init, Base, Holding, Unfinished
  <2>3. Underway = 0
    BY <2>1, <2>2 DEF Init, Underway
  <2>4. Allows(0)
    BY <2>1, <2>2, <2>3, Budget, BudgetOfVersion, Products DEF Init, Allows
  <2> QED
    BY <2>4 DEF BudgetInv
<1>2. TypeOK /\ TypeOK' /\ PlaceInv /\ TaskInv /\ CountInv /\ SignalInv /\ BudgetInv
        /\ [Next]_vars => BudgetInv'
  BY BudgetKept
<1> QED
  BY <1>1, <1>2, TypeCorrect, PlaceInvHolds, TaskInvHolds, CountInvHolds, SignalInvHolds, PTL
  DEF Spec

-----------------------------------------------------------------------------
(* How long a sample waits. *)

LEMMA LatestType == \A v \in Int : Latest(v) \in Int
  BY BaseProducts, Budget DEF Latest

\* What is trained on or in the batch belongs to the version being trained.
LEMMA TrainedBound ==
  ASSUME TypeOK, CountInv
  PROVE  Cardinality(trained) + Len(batch) <= (current_param_version + 1) * SamplesPerVersion
<1> DEFINE l == local_trigger_step
           v == current_param_version
<1>1. /\ l \in 1 .. trigger_parameter_sync_step /\ v \in Nat /\ Len(batch) \in Nat
      /\ Cardinality(trained) = v * SamplesPerVersion + (l - 1) * required_samples
  BY CountType DEF CountInv
<1>2. Len(batch) <= required_samples
  BY <1>1, Products DEF CountInv
<1>3. /\ (l - 1) * required_samples \in Nat /\ v * SamplesPerVersion \in Nat
      /\ (l - 1) * required_samples + required_samples = l * required_samples
      /\ l * required_samples <= SamplesPerVersion
      /\ (v + 1) * SamplesPerVersion = v * SamplesPerVersion + SamplesPerVersion
      /\ SamplesPerVersion \in Nat /\ required_samples \in Nat
  BY <1>1, Products
<1>4. (l - 1) * required_samples + Len(batch) <= SamplesPerVersion
  BY <1>1, <1>2, <1>3
<1> QED
  BY <1>1, <1>3, <1>4

LEMMA LagOfPut ==
  ASSUME TypeOK, TypeOK', PlaceInv, CountInv, SignalInv, LagInv,
         NEW entry \in Sample \cup {None}, Put(entry), UNCHANGED <<trained, batch>>,
         \A s \in Sample : put_version'[s] =
           IF s = entry THEN current_param_version ELSE put_version[s],
         entry \notin Elements(queue), entry \notin Elements(batch)
  PROVE  LagInv'
<1> DEFINE n == Cardinality(trained) + Len(batch)
<1>1. /\ n \in Nat /\ Len(queue) \in Nat /\ queue \in Seq(Sample \cup {None})
      /\ batch \in Seq(Sample) /\ put_version \in [Sample -> Int]
      /\ current_param_version \in Nat
  BY CountType DEF TypeOK, QueueType
<1>2. /\ Len(queue') \in Nat \ {0} /\ Len(queue') <= max_required_samples
      /\ queue'[Len(queue')] = entry
      /\ \/ /\ Len(queue') = Len(queue) + 1
            /\ \A i \in 1 .. Len(queue) : queue'[i] = queue[i]
         \/ /\ Len(queue') = Len(queue)
            /\ \A i \in 1 .. Len(queue) - 1 : queue'[i] = queue[i + 1]
  BY <1>1, PutPositions DEF SignalInv
<1>3. \A i \in 1 .. Len(batch) : batch[i] \in Sample /\ batch[i] # entry
  BY <1>1 DEF Elements
<1>4. ASSUME NEW i \in 1 .. Len(batch)
      PROVE  Cardinality(trained) + i <= Latest(put_version'[batch[i]])
  BY <1>3 DEF LagInv
<1>5. ASSUME NEW i \in 1 .. Len(queue), queue[i] # None
      PROVE  /\ queue[i] \in Sample /\ put_version'[queue[i]] = put_version[queue[i]]
             /\ n + i <= Latest(put_version[queue[i]]) /\ Latest(put_version[queue[i]]) \in Int
  <2>1. queue[i] \in Sample /\ queue[i] # entry
    BY <1>1, <1>5 DEF Elements
  <2> QED
    BY <1>1, <1>5, <2>1, LatestType DEF LagInv
<1>6. ASSUME NEW i \in 1 .. Len(queue'), queue'[i] # None
      PROVE  n + i <= Latest(put_version'[queue'[i]])
  <2>1. CASE i = Len(queue')
    <3>1. queue'[i] = entry /\ entry \in Sample
      BY <1>2, <1>6, <2>1
    <3>2. n <= (current_param_version + 1) * SamplesPerVersion
      BY TrainedBound
    <3>3. (current_param_version + 1) * SamplesPerVersion \in Int
      BY <1>1, BaseProducts
    <3>4. n + i <= (current_param_version + 1) * SamplesPerVersion + max_required_samples
      BY <1>1, <1>2, <2>1, <3>2, <3>3, Budget
    <3> QED
      BY <3>1, <3>4 DEF Latest
  <2>2. CASE i # Len(queue')
    <3>1. CASE i \in 1 .. Len(queue) /\ queue'[i] = queue[i]
      BY <1>5, <1>6, <3>1
    <3>2. CASE i + 1 \in 1 .. Len(queue) /\ queue'[i] = queue[i + 1]
      <4>1. n + (i + 1) <= Latest(put_version'[queue'[i]]) /\ Latest(put_version'[queue'[i]]) \in Int
        BY <1>5, <1>6, <3>2
      <4> QED
        BY <1>1, <4>1
    <3> QED
      BY <1>1, <1>2, <2>2, <3>1, <3>2
  <2> QED
    BY <2>1, <2>2
<1> QED
  BY <1>4, <1>6 DEF LagInv

LEMMA LagKept ==
  TypeOK /\ TypeOK' /\ PlaceInv /\ TaskInv /\ CountInv /\ SignalInv /\ LagInv /\ [Next]_vars
    => LagInv'
<1> SUFFICES ASSUME TypeOK, TypeOK', PlaceInv, TaskInv, CountInv, SignalInv, LagInv,
                    [Next]_vars
             PROVE  LagInv'
  OBVIOUS
<1>1. ASSUME UNCHANGED <<trained, batch, queue, put_version>>
      PROVE  LagInv'
  BY <1>1 DEF LagInv
<1>2. CASE Feeder \/ Monitor \/ MainStop \/ UNCHANGED vars
  BY <1>1, <1>2
  DEF Feeder, FeedSample, FeedEnd, Monitor, MonitorHead, MonitorCheck, MonitorDecide,
      MonitorResumeLocked, MainStop, vars, queueVars, trainVars, stampVars
<1>3. CASE Processor
  BY <1>1, <1>3, ProcessorSteps
<1>4. ASSUME NEW s \in Sample, TaskFail(s) PROVE LagInv'
  BY <1>1, <1>4 DEF TaskFail, queueVars, trainVars, stampVars
<1>5. CASE TrainSync \/ ResetEnter \/ ResetLocked \/ ResetEnd \/ TrainFinal
  BY <1>1, <1>5 DEF TrainSync, ResetEnter, ResetLocked, ResetEnd, TrainFinal, queueVars, stampVars
<1>6. ASSUME NEW s \in Sample, TaskPut(s) PROVE LagInv'
  <2>1. Put(s) /\ UNCHANGED <<trained, batch>> /\ task[s] = "running"
    BY <1>6 DEF TaskPut, trainVars
  <2>2. \A t \in Sample : put_version'[t] =
          IF t = s THEN current_param_version ELSE put_version[t]
    BY <1>6 DEF TaskPut, TypeOK, QueueType
  <2>3. s \notin Elements(queue) /\ s \notin Elements(batch) /\ s \in Sample \cup {None}
    BY <2>1 DEF PlaceInv, AfterTask
  <2> QED
    BY <2>1, <2>2, <2>3, LagOfPut
<1>7. CASE MainClose
  <2>1. Put(None) /\ UNCHANGED <<trained, batch, put_version>> /\ main = "stream"
    BY <1>7 DEF MainClose, trainVars, stampVars
  <2>2. None \notin Elements(queue) /\ None \notin Elements(batch) /\ None \in Sample \cup {None}
    BY <2>1, CountType, NoneIsNoSample DEF PlaceInv, LineInv, Elements
  <2>3. \A t \in Sample : put_version'[t] =
          IF t = None THEN current_param_version ELSE put_version[t]
    BY <2>1, NoneIsNoSample
  <2> QED
    BY <2>1, <2>2, <2>3, LagOfPut
<1>8. CASE TrainCollect
  <2>1. /\ queue # <<>> /\ queue' = Tail(queue) /\ UNCHANGED <<trained, put_version>>
        /\ \/ Head(queue) = None /\ batch' = batch
           \/ Head(queue) \in Sample /\ batch' = Append(batch, Head(queue))
    BY <1>8, CollectCases DEF TrainCollect, stampVars
  <2>2. /\ Len(queue') = Len(queue) - 1 /\ Len(queue) \in Nat \ {0} /\ Head(queue) = queue[1]
        /\ \A i \in 1 .. Len(queue) - 1 : queue'[i] = queue[i + 1]
    BY <2>1, CountType, ElementsOfTail
  <2>3. /\ Cardinality(trained) \in Nat /\ Len(batch) \in Nat /\ batch \in Seq(Sample)
        /\ put_version \in [Sample -> Int] /\ queue \in Seq(Sample \cup {None})
    BY CountType DEF TypeOK, QueueType
  <2>4. Len(batch') \in Nat /\ Len(batch') <= Len(batch) + 1
    BY <2>1, <2>3
  <2>5. ASSUME NEW i \in 1 .. Len(queue'), queue'[i] # None
        PROVE  Cardinality(trained) + Len(batch') + i <= Latest(put_version[queue'[i]])
    <3>1. i + 1 \in 1 .. Len(queue) /\ queue'[i] = queue[i + 1] /\ queue[i + 1] \in Sample
      BY <2>2, <2>3, <2>5
    <3>2. /\ Cardinality(trained) + Len(batch) + (i + 1) <= Latest(put_version[queue[i + 1]])
          /\ Latest(put_version[queue[i + 1]]) \in Int
      BY <2>3, <2>5, <3>1, LatestType DEF LagInv
    <3> QED
      BY <2>3, <2>4, <3>1, <3>2
  <2>6. ASSUME NEW i \in 1 .. Len(batch')
        PROVE  Cardinality(trained) + i <= Latest(put_version[batch'[i]])
    <3>1. CASE i \in 1 .. Len(batch) /\ batch'[i] = batch[i]
      BY <3>1 DEF LagInv
    <3>2. CASE i = Len(batch) + 1 /\ batch'[i] = queue[1] /\ queue[1] \in Sample
      <4>1. Cardinality(trained) + Len(batch) + 1 <= Latest(put_version[queue[1]])
        BY <2>2, <3>2, NoneIsNoSample DEF LagInv
      <4> QED
        BY <2>3, <3>2, <4>1
    <3>3. \/ i \in 1 .. Len(batch) /\ batch'[i] = batch[i]
          \/ i = Len(batch) + 1 /\ batch'[i] = queue[1] /\ queue[1] \in Sample
      <4>1. CASE batch' = batch
        BY <4>1
      <4>2. CASE Head(queue) \in Sample /\ batch' = Append(batch, Head(queue))
        BY <2>2, <2>3, <4>2
      <4> QED
        BY <2>1, <4>1, <4>2
    <3> QED
      BY <3>1, <3>2, <3>3
  <2> QED
    BY <2>1, <2>5, <2>6 DEF LagInv
<1>9. CASE TrainStep
  <2>1. /\ queue' = queue /\ batch' = <<>> /\ put_version' = Forget(put_version)
        /\ Cardinality(trained') = Cardinality(trained) + Len(batch)
    BY <1>9, TrainedGrows DEF TrainStep, queueVars
  <2>2. Len(batch') = 0 /\ Cardinality(trained) \in Nat /\ Len(batch) \in Nat
        /\ queue \in Seq(Sample \cup {None})
    BY <2>1, CountType
  <2>3. ASSUME NEW i \in 1 .. Len(queue), queue[i] # None
        PROVE  Cardinality(trained') + Len(batch') + i <= Latest(put_version'[queue[i]])
    <3>1. queue[i] \in Sample /\ queue[i] \in Elements(queue)
      BY <2>2, <2>3 DEF Elements
    <3>2. queue[i] \notin Elements(batch)
      BY <3>1 DEF PlaceInv, AfterTask
    <3>3. put_version'[queue[i]] = put_version[queue[i]]
      BY <2>1, <3>1, <3>2 DEF Forget, InBatch, Elements
    <3>4. Cardinality(trained) + Len(batch) + i <= Latest(put_version[queue[i]])
      BY <2>3 DEF LagInv
    <3> QED
      BY <2>1, <2>2, <3>3, <3>4
  <2> QED
    BY <2>1, <2>2, <2>3 DEF LagInv
<1> QED
  BY <1>2, <1>3, <1>4, <1>5, <1>6, <1>7, <1>8, <1>9 DEF Next, RollouterNext, TrainerNext, Main

LEMMA LagInvHolds == Spec => []LagInv
<1>1. Init => LagInv
  BY DEF Init, LagInv
<1>2. TypeOK /\ TypeOK' /\ PlaceInv /\ TaskInv /\ CountInv /\ SignalInv /\ LagInv
        /\ [Next]_vars => LagInv'
  BY LagKept
<1> QED
  BY <1>1, <1>2, TypeCorrect, PlaceInvHolds, TaskInvHolds, CountInvHolds, SignalInvHolds, PTL
  DEF Spec

LEMMA Quotients ==
  ASSUME NEW v \in Int, NEW w \in Int, NEW n \in Nat \ {0}, NEW m \in Nat \ {0},
         v * n + 1 <= (w + 1) * n + m
  PROVE  v - w <= 1 + ((m - 1) \div n)
<1> DEFINE k == v - (w + 1)
           q == (m - 1) \div n
<1>1. k \in Int /\ k * n = v * n - (w + 1) * n
  OBVIOUS
<1>2. v * n \in Int /\ (w + 1) * n \in Int
  OBVIOUS
<1>3. k * n <= m - 1
  BY <1>1, <1>2
<1>4. m - 1 \in Nat /\ q \in Nat /\ m - 1 < (q + 1) * n
  OBVIOUS
<1>5. ASSUME k >= q + 1 PROVE FALSE
  <2>1. k - (q + 1) \in Nat
    BY <1>1, <1>4, <1>5
  <2>2. (k - (q + 1)) * n >= 0
    BY <2>1
  <2>3. k * n = (k - (q + 1)) * n + (q + 1) * n
    BY <1>1, <1>4
  <2>4. (k - (q + 1)) * n \in Int /\ (q + 1) * n \in Int
    BY <1>4, <2>1
  <2> QED
    BY <1>3, <1>4, <2>2, <2>3, <2>4
<1> QED
  BY <1>1, <1>4, <1>5

LEMMA LagBound == TypeOK /\ CountInv /\ LagInv => QueueLag
<1> SUFFICES ASSUME TypeOK, CountInv, LagInv, NEW i \in 1 .. Len(batch)
             PROVE  current_param_version - put_version[batch[i]] <= MaxLag
  BY DEF QueueLag
<1> DEFINE v == current_param_version
           w == put_version[batch[i]]
           n == SamplesPerVersion
           m == max_required_samples
<1>1. /\ v \in Int /\ w \in Int /\ n \in Nat \ {0} /\ m \in Nat \ {0}
      /\ Cardinality(trained) \in Nat /\ Len(batch) \in Nat
  BY CountType, Products, Budget DEF TypeOK, QueueType
<1>2. Cardinality(trained) + i <= (w + 1) * n + m
  BY DEF LagInv, Latest
<1>3. Cardinality(trained) >= v * n
  <2>1. (local_trigger_step - 1) * required_samples \in Nat
    BY CountType, Products
  <2>2. v * n \in Int
    BY <1>1, BaseProducts
  <2> QED
    BY <2>1, <2>2 DEF CountInv
<1>4. v * n + 1 <= (w + 1) * n + m
  <2>1. w + 1 \in Int
    BY <1>1
  <2> DEFINE a == v * n
             c == (w + 1) * n
  <2>2. a \in Int /\ c \in Int
    BY <1>1, <2>1, BaseProducts
  <2>3. Cardinality(trained) + i <= c + m /\ Cardinality(trained) >= a
    BY <1>2, <1>3
  <2>4. Cardinality(trained) \in Nat /\ m \in Nat /\ i >= 1 /\ i \in Nat
    BY <1>1
  <2> HIDE DEF a, c, m
  <2>5. a + 1 <= c + m
    BY <2>2, <2>3, <2>4
  <2> QED
    BY <2>5 DEF a, c, m
<1>5. v - w <= 1 + ((m - 1) \div n)
  <2> HIDE DEF v, w, n, m
  <2> QED
    BY <1>1, <1>4, Quotients
<1> QED
  BY <1>5 DEF MaxLag

\* The staleness of a batch is bounded for every configuration: it is trained on
\* at most 1 + (max_required_samples - 1) \div (samples of a version) versions after
\* its samples entered the queue.
THEOREM LagBounded == Spec => []QueueLag
  BY LagInvHolds, CountInvHolds, TypeCorrect, LagBound, PTL

-----------------------------------------------------------------------------
(* Without a staleness allowance training is synchronous. *)

\* When the weights are sent, the budget of the version has been trained on.
LEMMA NothingUnderway ==
  ASSUME TypeOK, PlaceInv, TaskInv, CountInv, BudgetInv, StaleNum = 0, TrainSync, ~stopping,
         NEW s \in Sample
  PROVE  task[s] # "running" /\ s \notin Elements(queue) /\ s \notin Elements(batch)
<1>1. PICK x \in {0, 1} : Allows(x)
  BY DEF BudgetInv
<1>2. max_required_samples = SamplesPerVersion /\ SamplesPerVersion \in Nat
  BY BudgetOfVersion, Products
<1>3. x = 0 /\ Underway <= Base * SamplesPerVersion + SamplesPerVersion
  <2>1. x \in {0, 1} /\ x <= max_required_samples - SamplesPerVersion
        /\ Underway <= Base * SamplesPerVersion + max_required_samples + x
    BY <1>1 DEF Allows
  <2>2. x = 0
    BY <1>2, <2>1
  <2>3. Base * SamplesPerVersion \in Int
    BY BaseTrained
  <2> QED
    BY <1>2, <2>1, <2>2, <2>3
<1>4. Cardinality(trained) = Base * SamplesPerVersion + SamplesPerVersion /\ batch = <<>>
  <2>1. /\ Base = rollout_version /\ local_trigger_step = 1 /\ batch = <<>>
        /\ current_param_version = rollout_version + 1 /\ rollout_version \in Int
    BY CountType DEF TrainSync, Base, CountInv
  <2>2. (local_trigger_step - 1) * required_samples = 0
    BY <2>1, Products
  <2>3. current_param_version * SamplesPerVersion =
          Base * SamplesPerVersion + SamplesPerVersion
    BY <2>1, BaseProducts
  <2>4. Base * SamplesPerVersion \in Int
    BY BaseTrained
  <2> QED
    BY <1>2, <2>1, <2>2, <2>3, <2>4 DEF CountInv
<1>5. /\ Cardinality(trained) \in Nat /\ Len(batch) \in Nat /\ Len(queue) \in Nat
      /\ Cardinality(Unfinished) \in Nat /\ Holding \in Nat /\ Unfinished \in SUBSET Sample
      /\ queue \in Seq(Sample \cup {None})
  BY CountType, UnfinishedType, UnderwayType
<1>6. Len(queue) = 0 /\ Cardinality(Unfinished) = 0
  BY <1>3, <1>4, <1>5 DEF Underway
<1>7. Unfinished = {} /\ queue = <<>>
  BY <1>5, <1>6, SampleSets
<1>8. task[s] # "running"
  BY <1>7 DEF TaskInv, Unfinished
<1> QED
  BY <1>4, <1>7, <1>8, ElementsOfEmpty

LEMMA BornKept ==
  TypeOK /\ PlaceInv /\ TaskInv /\ CountInv /\ BudgetInv /\ BornInv /\ [Next]_vars => BornInv'
<1> SUFFICES ASSUME TypeOK, PlaceInv, TaskInv, CountInv, BudgetInv, BornInv, [Next]_vars,
                    StaleNum = 0, NEW s \in Sample,
                    task'[s] = "running" \/ s \in Elements(queue') \/ s \in Elements(batch')
             PROVE  born'[s] = rollout_version'
  BY DEF BornInv
<1>1. /\ task \in [Sample -> {"new", "running", "done", "failed"}] /\ born \in [Sample -> Int]
      /\ Distinct(queue) /\ queue \in Seq(Sample \cup {None}) /\ batch \in Seq(Sample)
  BY DEF TypeOK, TaskType, QueueType, TrainType, PlaceInv, LineInv
<1>2. ASSUME task[s] = "running" \/ s \in Elements(queue) \/ s \in Elements(batch),
             born'[s] = born[s], rollout_version' = rollout_version
      PROVE  born'[s] = rollout_version'
  BY <1>2 DEF BornInv
<1>3. CASE Feeder \/ Monitor \/ MainStop \/ UNCHANGED vars
  <2>1. UNCHANGED <<task, queue, batch, born, rollout_version>>
    BY <1>3
    DEF Feeder, FeedSample, FeedEnd, Monitor, MonitorHead, MonitorCheck, MonitorDecide,
        MonitorResumeLocked, MainStop, vars, queueVars, trainVars, stampVars
  <2> QED
    BY <1>2, <2>1
<1>4. CASE Processor
  <2>1. UNCHANGED <<queue, batch, rollout_version>>
    BY <1>4, ProcessorSteps
  <2>2. PICK T \in SUBSET Ended : ProcessorStep(T)
    BY <1>4, ProcessorSteps
  <2>3. CASE Rests(T) \/ Dies(T) \/ Keeps(T)
    <3>1. UNCHANGED <<task, born>>
      BY <2>3 DEF Rests, Dies, Keeps, Retires
    <3> QED
      BY <1>2, <2>1, <3>1
  <2>4. ASSUME NEW t \in Sample, Creates(T, t) PROVE born'[s] = rollout_version'
    <3>1. /\ task'[s] = (IF s = t THEN "running" ELSE task[s])
          /\ born'[s] = (IF s = t THEN rollout_version ELSE born[s])
      BY <1>1, <2>4 DEF Creates
    <3> QED
      BY <1>2, <2>1, <3>1
  <2> QED
    BY <2>2, <2>3, <2>4 DEF ProcessorStep
<1>5. ASSUME NEW t \in Sample, TaskFail(t) PROVE born'[s] = rollout_version'
  <2>1. /\ UNCHANGED <<queue, batch, born, rollout_version>>
        /\ task'[s] = "running" => task[s] = "running"
    BY <1>1, <1>5 DEF TaskFail, queueVars, trainVars, stampVars
  <2> QED
    BY <1>2, <2>1
<1>6. ASSUME NEW entry \in Sample \cup {None}, Put(entry), entry \notin Elements(queue),
             UNCHANGED <<batch, born, rollout_version>>,
             task'[s] = "running" => task[s] = "running",
             entry = s => task[s] = "running"
      PROVE  born'[s] = rollout_version'
  <2>1. s \in Elements(queue') => s \in Elements(queue) \/ s = entry
    BY <1>1, <1>6, PutPlaces
  <2> QED
    BY <1>2, <1>6, <2>1
<1>7. ASSUME NEW t \in Sample, TaskPut(t) PROVE born'[s] = rollout_version'
  <2>1. /\ Put(t) /\ UNCHANGED <<batch, born, rollout_version>> /\ task[t] = "running"
        /\ task'[s] = "running" => task[s] = "running"
    BY <1>1, <1>7 DEF TaskPut, trainVars
  <2>2. t \notin Elements(queue) /\ t \in Sample \cup {None}
    BY <2>1 DEF PlaceInv, AfterTask
  <2> QED
    BY <1>6, <2>1, <2>2
<1>8. CASE MainClose
  <2>1. Put(None) /\ UNCHANGED <<batch, born, rollout_version, task>> /\ main = "stream"
    BY <1>8 DEF MainClose, trainVars, stampVars
  <2>2. None \notin Elements(queue) /\ None # s /\ None \in Sample \cup {None}
    BY <2>1, NoneIsNoSample DEF PlaceInv, LineInv
  <2> QED
    BY <1>6, <2>1, <2>2
<1>9. CASE TrainCollect
  <2>1. /\ queue # <<>> /\ queue' = Tail(queue) /\ UNCHANGED <<task, born, rollout_version>>
        /\ \/ Head(queue) = None /\ batch' = batch
           \/ Head(queue) \in Sample /\ batch' = Append(batch, Head(queue))
    BY <1>9, CollectCases DEF TrainCollect, stampVars
  <2>2. Head(queue) \in Elements(queue) /\ Elements(queue') \subseteq Elements(queue)
    BY <1>1, <2>1, ElementsOfTail
  <2>3. s \in Elements(batch') => s \in Elements(batch) \/ s = Head(queue)
    <3>1. CASE batch' = batch
      BY <3>1
    <3>2. CASE Head(queue) \in Sample /\ batch' = Append(batch, Head(queue))
      BY <1>1, <3>2, ElementsOfAppend
    <3> QED
      BY <2>1, <3>1, <3>2
  <2> QED
    BY <1>2, <2>1, <2>2, <2>3
<1>10. CASE TrainStep
  <2>1. /\ UNCHANGED <<task, queue, rollout_version>> /\ batch' = <<>> /\ born' = Forget(born)
    BY <1>10 DEF TrainStep, queueVars, rolloutVars
  <2>2. s \notin Elements(batch')
    BY <2>1, ElementsOfEmpty
  <2>3. s \notin Elements(batch)
    BY <2>1, <2>2 DEF PlaceInv, AfterTask
  <2>4. born'[s] = born[s]
    BY <2>1, <2>3 DEF Forget, InBatch, Elements
  <2> QED
    BY <1>2, <2>1, <2>2, <2>4
<1>11. CASE TrainSync
  <2>1. /\ UNCHANGED <<task, queue, batch, born>> /\ rollout_version' = current_param_version
    BY <1>11 DEF TrainSync, queueVars, rolloutVars, stampVars
  <2>2. CASE stopping
    <3>1. rollout_version' = rollout_version
      BY <2>1, <2>2, CountType DEF CountInv
    <3> QED
      BY <1>2, <2>1, <3>1
  <2>3. CASE ~stopping
    BY <1>11, <2>1, <2>3, NothingUnderway
  <2> QED
    BY <2>2, <2>3
<1>12. CASE ResetEnter \/ ResetLocked \/ ResetEnd \/ TrainFinal
  <2>1. UNCHANGED <<task, queue, batch, born, rollout_version>>
    BY <1>12 DEF ResetEnter, ResetLocked, ResetEnd, TrainFinal, queueVars, rolloutVars, stampVars
  <2> QED
    BY <1>2, <2>1
<1> QED
  BY <1>3, <1>4, <1>5, <1>7, <1>8, <1>9, <1>10, <1>11, <1>12
  DEF Next, RollouterNext, TrainerNext, Main

LEMMA BornInvHolds == Spec => []BornInv
<1>1. Init => BornInv
  BY ElementsOfEmpty DEF Init, BornInv
<1>2. TypeOK /\ PlaceInv /\ TaskInv /\ CountInv /\ BudgetInv /\ BornInv /\ [Next]_vars
        => BornInv'
  BY BornKept
<1> QED
  BY <1>1, <1>2, TypeCorrect, PlaceInvHolds, TaskInvHolds, CountInvHolds, BudgetInvHolds, PTL
  DEF Spec

\* staleness_threshold = 0 is synchronous training, whatever the batch sizes, the
\* number of replicas and the interleaving: every sample of a batch was generated
\* with the weights of the version that trains on it.
THEOREM SynchronousWithoutStaleness ==
  ASSUME StaleNum = 0
  PROVE  Spec => []Synchronous
<1>1. TypeOK /\ CountInv /\ BornInv => Synchronous
  <2> SUFFICES ASSUME TypeOK, CountInv, BornInv, trainer = "train", NEW i \in 1 .. Len(batch)
               PROVE  born[batch[i]] = current_param_version
    BY DEF Synchronous
  <2>1. batch[i] \in Sample /\ batch[i] \in Elements(batch)
    BY CountType DEF Elements
  <2>2. current_param_version = rollout_version
    BY CountType DEF CountInv
  <2> QED
    BY <2>1, <2>2 DEF BornInv
<1> QED
  BY <1>1, BornInvHolds, CountInvHolds, TypeCorrect, PTL

-----------------------------------------------------------------------------
(* The rollouter, the queue and the trainer implement the pipeline of      *)
(* SamplePipeline: Submit is Start, put_sample Finish, the end signal      *)
(* Close, get_sample Take, the optimizer step Train and the weight sync    *)
(* Publish; the rest stutters.                                             *)

Inv ==
    TypeOK /\ PlaceInv /\ TaskInv /\ CountInv /\ SignalInv /\ BudgetInv

LEMMA InvHolds == Spec => []Inv
<1>1. TypeOK /\ PlaceInv /\ TaskInv /\ CountInv /\ SignalInv /\ BudgetInv => Inv
  BY DEF Inv
<1> QED
  BY <1>1, TypeCorrect, PlaceInvHolds, TaskInvHolds, CountInvHolds, SignalInvHolds,
     BudgetInvHolds, PTL

\* The abstract place of a sample, before and after a step.
LEMMA PlaceNow ==
  ASSUME TypeOK, PlaceInv, NEW s \in Sample
  PROVE  /\ s \in trained => PlaceOf(s) = "trained"
         /\ s \in Elements(batch) => PlaceOf(s) = "batch"
         /\ s \in Elements(queue) => PlaceOf(s) = "line"
         /\ s \in dropped \/ task[s] = "failed" => PlaceOf(s) = "lost"
         /\ task[s] = "running" => PlaceOf(s) = "generating"
         /\ task[s] = "new" => PlaceOf(s) = "new"
         /\ \/ s \in trained \/ s \in Elements(batch) \/ s \in Elements(queue)
            \/ s \in dropped \/ task[s] \in {"failed", "running", "new"}
<1>1. InBatch = Elements(batch) /\ task[s] \in {"new", "running", "done", "failed"}
  BY DEF InBatch, Elements, TypeOK, TaskType
<1>2. AfterTask(s)
  BY DEF PlaceInv
<1> QED
  BY <1>1, <1>2 DEF PlaceOf, AfterTask

LEMMA PlaceNext ==
  ASSUME TypeOK', PlaceInv', NEW s \in Sample
  PROVE  /\ s \in trained' => PlaceOf(s)' = "trained"
         /\ s \in Elements(batch') => PlaceOf(s)' = "batch"
         /\ s \in Elements(queue') => PlaceOf(s)' = "line"
         /\ s \in dropped' \/ task'[s] = "failed" => PlaceOf(s)' = "lost"
         /\ task'[s] = "running" => PlaceOf(s)' = "generating"
         /\ task'[s] = "new" => PlaceOf(s)' = "new"
<1>1. InBatch' = Elements(batch') /\ task'[s] \in {"new", "running", "done", "failed"}
  BY DEF InBatch, Elements, TypeOK, TaskType
<1>2. AfterTask(s)'
  BY DEF PlaceInv
<1> QED
  BY <1>1, <1>2 DEF PlaceOf, AfterTask

Abstract == [s \in Sample |-> PlaceOf(s)]

LEMMA AbstractType ==
  /\ Abstract \in [Sample -> Pipeline!Place] /\ \A s \in Sample : Abstract[s] = PlaceOf(s)
<1>1. \A s \in Sample : PlaceOf(s) \in Pipeline!Place
  BY DEF PlaceOf, Pipeline!Place
<1> QED
  BY <1>1 DEF Abstract

LEMMA Stutters ==
  ASSUME UNCHANGED <<trained, batch, queue, dropped, task, local_trigger_step,
                     current_param_version, rollout_version, stopping>>
  PROVE  UNCHANGED Pipeline!vars
<1>1. \A s \in Sample : PlaceOf(s)' = PlaceOf(s)
  BY DEF PlaceOf, InBatch, Elements
<1> QED
  BY <1>1 DEF Pipeline!vars

-----------------------------------------------------------------------------
(* Submit is Start. *)

LEMMA UnionBound ==
  ASSUME NEW S, NEW T, IsFiniteSet(S), IsFiniteSet(T)
  PROVE  /\ IsFiniteSet(S \cup T)
         /\ Cardinality(S \cup T) <= Cardinality(S) + Cardinality(T)
<1>1. /\ IsFiniteSet(S \cup T)
      /\ Cardinality(S \cup T) = Cardinality(S) + Cardinality(T) - Cardinality(S \cap T)
  BY FS_Union
<1>2. Cardinality(S) \in Nat /\ Cardinality(T) \in Nat /\ Cardinality(S \cap T) \in Nat
  BY FS_Subset, FS_CardinalityType
<1> QED
  BY <1>1, <1>2

\* What the pipeline calls started, evicted samples apart, is under way.
LEMMA StartedBound ==
  ASSUME TypeOK, PlaceInv, TaskInv, processor # "dead"
  PROVE  /\ Cardinality(Pipeline!Started \ dropped) \in Nat
         /\ Cardinality(Pipeline!Started \ dropped) <=
              Cardinality(trained) + Len(batch) + Len(queue) + Cardinality(Unfinished)
<1> DEFINE A == trained \cup Elements(batch)
           B == Elements(queue) \cup Unfinished
           S == Pipeline!Started \ dropped
<1>1. /\ IsFiniteSet(trained) /\ Cardinality(trained) \in Nat
      /\ IsFiniteSet(Unfinished) /\ Cardinality(Unfinished) \in Nat
  BY CountType, UnfinishedType, SampleSetFinite
<1>2. /\ IsFiniteSet(Elements(batch)) /\ Cardinality(Elements(batch)) = Len(batch)
      /\ IsFiniteSet(Elements(queue)) /\ Cardinality(Elements(queue)) = Len(queue)
      /\ Len(batch) \in Nat /\ Len(queue) \in Nat
  BY CountType, DistinctCounts DEF PlaceInv, LineInv
<1>3. IsFiniteSet(A) /\ Cardinality(A) <= Cardinality(trained) + Len(batch)
  BY <1>1, <1>2, UnionBound
<1>4. IsFiniteSet(B) /\ Cardinality(B) <= Len(queue) + Cardinality(Unfinished)
  BY <1>1, <1>2, UnionBound
<1>5. IsFiniteSet(A \cup B) /\ Cardinality(A \cup B) <= Cardinality(A) + Cardinality(B)
  BY <1>3, <1>4, UnionBound
<1>6. S \in SUBSET (A \cup B)
  <2> SUFFICES ASSUME NEW s \in Sample, PlaceOf(s) # "new", s \notin dropped
               PROVE  s \in A \cup B
    BY DEF Pipeline!Started
  <2>1. task[s] \in {"failed", "running"} => s \in Unfinished
    BY DEF TaskInv, Unfinished
  <2> QED
    BY <2>1, PlaceNow
<1>7. /\ Cardinality(S) \in Nat /\ Cardinality(S) <= Cardinality(A \cup B)
      /\ Cardinality(A) \in Nat /\ Cardinality(B) \in Nat /\ Cardinality(A \cup B) \in Nat
  BY <1>3, <1>4, <1>5, <1>6, FS_Subset, FS_CardinalityType
<1> HIDE DEF A, B, S
<1>8. Cardinality(S) <= Cardinality(trained) + Len(batch) + Len(queue) + Cardinality(Unfinished)
  <2>1. PICK a \in Nat, b \in Nat : a = Cardinality(A) /\ b = Cardinality(B)
    BY <1>7
  <2>2. PICK c \in Nat, d \in Nat : c = Cardinality(trained) /\ d = Len(batch)
    BY <1>1, <1>2
  <2>3. PICK e \in Nat, f \in Nat : e = Len(queue) /\ f = Cardinality(Unfinished)
    BY <1>1, <1>2
  <2>4. a <= c + d /\ b <= e + f
    BY <1>3, <1>4, <2>1, <2>2, <2>3
  <2>5. Cardinality(S) <= a + b
    BY <1>5, <1>7, <2>1
  <2>6. Cardinality(S) <= c + d + e + f
    BY <1>7, <2>4, <2>5
  <2> QED
    BY <2>2, <2>3, <2>6
<1> QED
  BY <1>7, <1>8 DEF S

\* The instance has its own copy of FiniteSets.
LEMMA SameCardinality == \A S : Pipeline!Cardinality(S) = Cardinality(S)
  BY DEF Pipeline!Cardinality, Cardinality

LEMMA StartStep ==
  ASSUME Inv, Inv', NEW T \in SUBSET Ended, NEW s \in Sample, Creates(T, s), Processor
  PROVE  Pipeline!Start(s)
<1> USE DEF Inv
<1>1. UNCHANGED <<queue, dropped, trained, batch, trainer, local_trigger_step, main,
                  current_param_version, rollout_version, stopping>>
  BY ProcessorSteps
<1>2. /\ task \in [Sample -> {"new", "running", "done", "failed"}] /\ task[s] = "new"
      /\ task' = [task EXCEPT ![s] = "running"] /\ processor' = "check" /\ processor # "dead"
  BY DEF TypeOK, TaskType, Creates, Draws
<1>3. Abstract[s] = "new"
  BY <1>2, PlaceNow DEF Abstract
<1>4. ASSUME NEW t \in Sample
      PROVE  PlaceOf(t)' = IF t = s THEN "generating" ELSE PlaceOf(t)
  <2>1. CASE t = s
    BY <1>2, <2>1, PlaceNext
  <2>2. CASE t # s
    <3>1. task'[t] = task[t]
      BY <1>2, <2>2
    <3> QED
      BY <1>1, <2>2, <3>1 DEF PlaceOf, InBatch, Elements
  <2> QED
    BY <2>1, <2>2
<1>5. Abstract' = [Abstract EXCEPT ![s] = "generating"]
  BY <1>4 DEF Abstract
<1> DEFINE n == Cardinality(trained) + Len(batch) + Len(queue)
           u == Cardinality(Unfinished)
           b == Base * SamplesPerVersion
<1>6. Cardinality(Unfinished') = u + 1 /\ Holding' = 0
  <2>1. s \notin active_tasks
    BY <1>2 DEF TaskInv
  <2>2. active_tasks \subseteq Sample
    BY DEF TypeOK, TaskType
  <2>3. Unfinished' = Unfinished \cup {s} /\ s \notin Unfinished
    BY <1>2, <2>1, <2>2 DEF Creates, AllWell, Ended, Unfinished
  <2> QED
    BY <1>2, <2>3, UnfinishedType, SampleSets DEF Holding
<1>7. /\ n \in Nat /\ u \in Nat /\ b \in Int /\ rollout_version * SamplesPerVersion \in Int
      /\ b <= rollout_version * SamplesPerVersion /\ max_required_samples \in Nat
  BY CountType, UnfinishedType, BaseTrained, Budget
<1>8. n + u + 1 <= b + max_required_samples + 1
  <2>1. PICK x \in {0, 1} : Allows(x)'
    BY DEF BudgetInv
  <2>2. x \in {0, 1} /\ Underway' <= b + max_required_samples + x
    BY <1>1, <2>1 DEF Allows, Base
  <2>3. Underway' = n + (u + 1) + 0
    BY <1>1, <1>6 DEF Underway
  <2> QED
    BY <1>7, <2>2, <2>3
<1>9. rollout_version * required_samples * trigger_parameter_sync_step =
        rollout_version * SamplesPerVersion
  <2>1. \A i, j, k \in Nat : i * j * k = i * (j * k)
    OBVIOUS
  <2> QED
    BY <2>1, CountType, Products DEF SamplesPerVersion
<1>10. Cardinality(Pipeline!Started \ dropped) <=
         rollout_version * required_samples * trigger_parameter_sync_step + max_required_samples
  <2>1. Cardinality(Pipeline!Started \ dropped) \in Nat
        /\ Cardinality(Pipeline!Started \ dropped) <= n + u
    BY <1>2, StartedBound
  <2>2. n + u <= rollout_version * SamplesPerVersion + max_required_samples
    BY <1>7, <1>8
  <2> QED
    BY <1>7, <1>9, <2>1, <2>2
<1>11. UNCHANGED <<queue, batch, local_trigger_step - 1, current_param_version,
                   rollout_version, stopping, dropped>>
  BY <1>1
<1> QED
  BY <1>3, <1>5, <1>10, <1>11, SameCardinality DEF Pipeline!Start, Abstract

-----------------------------------------------------------------------------
(* put_sample is Finish, and Close for the end signal. *)

\* An entry enters the line: what is evicted is a sample, and the eviction is
\* within the one that a version allows.
LEMMA EnteringStep ==
  ASSUME Inv, Inv', NEW entry \in Sample \cup {None}, Put(entry),
         entry \notin Elements(queue), NEW s \in Sample, MainClose \/ TaskPut(s),
         NEW from \in [Sample -> Pipeline!Place],
         \A t \in Sample : t \in Elements(queue) => from[t] = "line",
         \A t \in Sample : t \notin Elements(queue) \/ t \in Elements(queue') =>
           PlaceOf(t)' = from[t]
  PROVE  Pipeline!Entering(entry, from)
<1> USE DEF Inv
<1>1. /\ queue \in Seq(Sample \cup {None}) /\ Distinct(queue) /\ Len(queue) \in Nat
      /\ Len(queue) <= max_required_samples /\ max_required_samples \in Nat \ {0}
  BY CountType, Budget DEF PlaceInv, LineInv, SignalInv
<1>2. dropped' = dropped \/ Cardinality(dropped) < rollout_version
  BY PutLoad, BudgetOfPut
<1>3. CASE /\ Len(queue) < max_required_samples
           /\ queue' = Append(queue, entry) /\ dropped' = dropped
  <2>1. Elements(queue') = Elements(queue) \cup {entry}
    BY <1>1, <1>3, ElementsOfAppend
  <2>2. Abstract' = from
    BY <2>1 DEF Abstract
  <2> QED
    BY <1>1, <1>3, <2>2 DEF Pipeline!Entering, Abstract
<1>4. CASE /\ Len(queue) >= max_required_samples /\ queue # <<>>
           /\ queue' = Append(Tail(queue), entry) /\ dropped' = dropped \cup {Head(queue)}
  <2> DEFINE h == Head(queue)
  <2>1. /\ Tail(queue) \in Seq(Sample \cup {None}) /\ h \in Elements(queue) /\ h = queue[1]
        /\ h \in Sample \cup {None}
        /\ Elements(Tail(queue)) = Elements(queue) \ {h} /\ Len(queue) \in Nat \ {0}
    BY <1>1, <1>4, ElementsOfTail
  <2>2. h # None
    <3>1. CASE MainClose
      BY <2>1, <3>1 DEF MainClose, PlaceInv, LineInv
    <3>2. CASE TaskPut(s)
      <4>1. Cardinality(Unfinished) >= 1 /\ Cardinality(Unfinished) \in Nat
        BY <3>2, TaskUnfinished, UnfinishedType
      <4>2. queue[1] = None => Len(queue) - 1 + Cardinality(Unfinished) < max_concurrent_samples
        BY <2>1 DEF SignalInv
      <4> QED
        BY <1>1, <1>4, <2>1, <4>1, <4>2, Slots
    <3> QED
      BY <3>1, <3>2
  <2>3. Elements(queue') = (Elements(queue) \ {h}) \cup {entry}
    <3> DEFINE All == Sample \cup {None}
    <3>1. entry \in All /\ Tail(queue) \in Seq(All)
      BY <2>1
    <3> HIDE DEF All
    <3>2. \A q \in Seq(All) : Elements(Append(q, entry)) = Elements(q) \cup {entry}
      BY <3>1, ElementsOfAppend
    <3> QED
      BY <1>4, <2>1, <3>1, <3>2, Zenon
  <2>4. h \in Sample /\ h \notin Elements(queue') /\ h \notin dropped /\ h \in dropped'
    BY <1>4, <2>1, <2>2, <2>3 DEF PlaceInv, AfterTask
  <2>5. ASSUME NEW t \in Sample
        PROVE  PlaceOf(t)' = IF t = h THEN "lost" ELSE from[t]
    <3>1. CASE t = h
      BY <2>4, <3>1, PlaceNext
    <3>2. CASE t # h
      BY <2>3, <3>2
    <3> QED
      BY <3>1, <3>2
  <2>6. Abstract' = [from EXCEPT ![h] = "lost"]
    BY <2>4, <2>5 DEF Abstract
  <2>7. Cardinality(dropped) < rollout_version
    BY <1>2, <2>4
  <2>8. ~(Len(queue) < max_required_samples)
    BY <1>1, <1>4
  <2> QED
    BY <1>4, <2>2, <2>6, <2>7, <2>8, SameCardinality DEF Pipeline!Entering, Abstract
<1> QED
  BY <1>1, <1>3, <1>4, PutCases

LEMMA FinishStep ==
  ASSUME Inv, Inv', NEW s \in Sample, TaskPut(s)
  PROVE  Pipeline!Finish(s)
<1> USE DEF Inv
<1>1. /\ Put(s) /\ task[s] = "running" /\ task' = [task EXCEPT ![s] = "done"]
      /\ UNCHANGED <<trained, batch, local_trigger_step, current_param_version,
                     rollout_version, stopping>>
  BY DEF TaskPut, trainVars
<1>2. /\ task \in [Sample -> {"new", "running", "done", "failed"}]
      /\ queue \in Seq(Sample \cup {None}) /\ Distinct(queue)
  BY DEF TypeOK, TaskType, QueueType, PlaceInv, LineInv
<1>3. /\ s \notin Elements(queue) /\ Abstract[s] = "generating"
  BY <1>1, PlaceNow DEF Abstract, PlaceInv, AfterTask
<1> DEFINE from == [Abstract EXCEPT ![s] = "line"]
<1>4. from \in [Sample -> Pipeline!Place]
  BY AbstractType DEF Pipeline!Place
<1>5. \A t \in Sample : from[t] = IF t = s THEN "line" ELSE PlaceOf(t)
  BY DEF Abstract
<1>6. \A t \in Sample : t \in Elements(queue) => from[t] = "line"
  BY <1>3, <1>5, PlaceNow
<1>7. ASSUME NEW t \in Sample, t \notin Elements(queue) \/ t \in Elements(queue')
      PROVE  PlaceOf(t)' = from[t]
  <2>1. /\ s \in Elements(queue')
        /\ \A e \in Elements(queue') : e \in Elements(queue) \/ e = s
        /\ \A e \in dropped' : e \in dropped \/ e \in Elements(queue) \ Elements(queue')
    <3>1. \/ dropped' = dropped /\ Elements(queue') = Elements(queue) \cup {s}
          \/ \E old \in Elements(queue) :
               /\ dropped' = dropped \cup {old}
               /\ Elements(queue') = (Elements(queue) \ {old}) \cup {s}
      BY <1>1, <1>2, <1>3, PutPlaces
    <3> QED
      BY <1>3, <3>1
  <2>2. CASE t = s
    BY <1>5, <2>1, <2>2, PlaceNext
  <2>3. CASE t # s
    <3>1. task'[t] = task[t]
      BY <1>1, <1>2, <2>3
    <3>2. CASE t \in Elements(queue)
      BY <1>5, <1>7, <2>3, <3>2, PlaceNow, PlaceNext
    <3>3. CASE t \notin Elements(queue)
      <4>1. t \notin Elements(queue') /\ (t \in dropped' => t \in dropped)
        BY <2>1, <2>3, <3>3
      <4>2. t \in dropped => t \in dropped'
        BY <1>2, <1>1, PutCases
      <4> QED
        BY <1>1, <1>5, <2>3, <3>1, <3>3, <4>1, <4>2 DEF PlaceOf, InBatch
    <3> QED
      BY <3>2, <3>3
  <2> QED
    BY <2>2, <2>3
<1>8. Pipeline!Entering(s, from)
  <2> HIDE DEF from
  <2>1. s \in Sample \cup {None}
    OBVIOUS
  <2> QED
    BY <1>1, <1>3, <1>4, <1>6, <1>7, <2>1, EnteringStep
<1>9. UNCHANGED <<batch, local_trigger_step - 1, current_param_version, rollout_version, stopping>>
  BY <1>1
<1> QED
  BY <1>3, <1>8, <1>9 DEF Pipeline!Finish, Abstract

LEMMA CloseStep ==
  ASSUME Inv, Inv', MainClose
  PROVE  Pipeline!Close
<1> USE DEF Inv
<1>1. /\ Put(None) /\ main = "stream"
      /\ UNCHANGED <<trained, batch, local_trigger_step, current_param_version,
                     rollout_version, stopping, task>>
  BY DEF MainClose, trainVars
<1>2. /\ ~stopping /\ None \notin Elements(queue)
      /\ queue \in Seq(Sample \cup {None}) /\ Distinct(queue)
  BY <1>1 DEF CountInv, PlaceInv, LineInv, TypeOK, QueueType
<1>3. \A i \in 1 .. Len(queue) : queue[i] # None
  BY <1>2 DEF Elements
<1>4. Abstract \in [Sample -> Pipeline!Place] /\ \A t \in Sample : Abstract[t] = PlaceOf(t)
  BY AbstractType
<1>5. \A t \in Sample : t \in Elements(queue) => Abstract[t] = "line"
  BY <1>4, PlaceNow
<1>6. ASSUME NEW t \in Sample, t \notin Elements(queue) \/ t \in Elements(queue')
      PROVE  PlaceOf(t)' = Abstract[t]
  <2>1. /\ \A e \in Elements(queue') : e \in Elements(queue) \/ e = None
        /\ \A e \in dropped' : e \in dropped \/ e \in Elements(queue)
    <3>1. \/ dropped' = dropped /\ Elements(queue') = Elements(queue) \cup {None}
          \/ \E old \in Elements(queue) :
               /\ dropped' = dropped \cup {old}
               /\ Elements(queue') = (Elements(queue) \ {old}) \cup {None}
      BY <1>1, <1>2, PutPlaces
    <3> QED
      BY <3>1
  <2>2. CASE t \in Elements(queue)
    BY <1>4, <1>6, <2>2, PlaceNow, PlaceNext
  <2>3. CASE t \notin Elements(queue)
    <3>1. t \notin Elements(queue') /\ (t \in dropped' => t \in dropped)
      BY <2>1, <2>3, NoneIsNoSample
    <3>2. t \in dropped => t \in dropped'
      BY <1>1, <1>2, PutCases
    <3> QED
      BY <1>1, <1>4, <2>3, <3>1, <3>2 DEF PlaceOf, InBatch
  <2> QED
    BY <2>2, <2>3
<1>7. Pipeline!Entering(None, Abstract)
  <2>1. None \in Sample \cup {None} /\ 1 \in Sample
    BY FullyAsyncAssumption DEF Sample
  <2> QED
    BY <1>1, <1>2, <1>4, <1>5, <1>6, <2>1, EnteringStep
<1>8. UNCHANGED <<batch, local_trigger_step - 1, current_param_version, rollout_version, stopping>>
  BY <1>1
<1> QED
  BY <1>2, <1>3, <1>7, <1>8 DEF Pipeline!Close, Abstract

-----------------------------------------------------------------------------
(* The other steps. *)

LEMMA FailStep ==
  ASSUME Inv, Inv', NEW s \in Sample, TaskFail(s)
  PROVE  Pipeline!Fail(s)
<1> USE DEF Inv
<1>1. /\ task[s] = "running" /\ task' = [task EXCEPT ![s] = "failed"]
      /\ UNCHANGED <<queue, dropped, trained, batch, local_trigger_step, current_param_version,
                     rollout_version, stopping>>
  BY DEF TaskFail, queueVars, trainVars
<1>2. task \in [Sample -> {"new", "running", "done", "failed"}]
  BY DEF TypeOK, TaskType
<1>3. ASSUME NEW t \in Sample
      PROVE  PlaceOf(t)' = IF t = s THEN "lost" ELSE PlaceOf(t)
  <2>1. CASE t = s
    BY <1>1, <1>2, <2>1, PlaceNext
  <2>2. CASE t # s
    <3>1. task'[t] = task[t]
      BY <1>1, <1>2, <2>2
    <3> QED
      BY <1>1, <2>2, <3>1 DEF PlaceOf, InBatch, Elements
  <2> QED
    BY <2>1, <2>2
<1>4. Abstract[s] = "generating" /\ Abstract' = [Abstract EXCEPT ![s] = "lost"]
  BY <1>1, <1>3, PlaceNow DEF Abstract
<1>5. UNCHANGED <<queue, batch, local_trigger_step - 1, current_param_version, rollout_version,
                  stopping, dropped>>
  BY <1>1
<1> QED
  BY <1>4, <1>5 DEF Pipeline!Fail, Abstract

LEMMA TakeStep ==
  ASSUME Inv, Inv', TrainCollect
  PROVE  Pipeline!Take
<1> USE DEF Inv
<1> DEFINE h == Head(queue)
<1>1. /\ queue # <<>> /\ queue' = Tail(queue) /\ trainer = "collect"
      /\ UNCHANGED <<task, dropped, trained, local_trigger_step, current_param_version,
                     rollout_version>>
      /\ \/ h = None /\ batch' = batch /\ stopping' = TRUE
         \/ h \in Sample /\ batch' = Append(batch, h) /\ stopping' = stopping
  BY CollectCases DEF TrainCollect
<1>2. /\ queue \in Seq(Sample \cup {None}) /\ Distinct(queue) /\ batch \in Seq(Sample)
      /\ ~stopping /\ Len(batch) < required_samples
  BY <1>1, CountType DEF PlaceInv, LineInv, CountInv
<1>3. h \in Elements(queue) /\ Elements(queue') = Elements(queue) \ {h}
  BY <1>1, <1>2, ElementsOfTail
<1>4. UNCHANGED <<local_trigger_step - 1, current_param_version, rollout_version, dropped>>
  BY <1>1
<1>5. CASE h = None /\ batch' = batch /\ stopping' = TRUE
  <2>1. ASSUME NEW t \in Sample PROVE PlaceOf(t)' = PlaceOf(t)
    <3>1. t \in Elements(queue') <=> t \in Elements(queue)
      BY <1>3, <1>5, NoneIsNoSample
    <3> QED
      BY <1>1, <1>5, <3>1 DEF PlaceOf, InBatch
  <2>2. Abstract' = Abstract
    BY <2>1 DEF Abstract
  <2> QED
    BY <1>1, <1>2, <1>4, <1>5, <2>2 DEF Pipeline!Take, Abstract
<1>6. CASE h \in Sample /\ batch' = Append(batch, h) /\ stopping' = stopping
  <2>1. Elements(batch') = Elements(batch) \cup {h} /\ h # None
    BY <1>2, <1>6, ElementsOfAppend, NoneIsNoSample
  <2>2. ASSUME NEW t \in Sample
        PROVE  PlaceOf(t)' = IF t = h THEN "batch" ELSE PlaceOf(t)
    <3>1. CASE t = h
      BY <2>1, <3>1, PlaceNext
    <3>2. CASE t # h
      <4>1. /\ t \in Elements(queue') <=> t \in Elements(queue)
            /\ t \in Elements(batch') <=> t \in Elements(batch)
        BY <1>3, <2>1, <3>2
      <4>2. InBatch = Elements(batch) /\ InBatch' = Elements(batch')
        BY DEF InBatch, Elements
      <4> QED
        BY <1>1, <3>2, <4>1, <4>2 DEF PlaceOf
    <3> QED
      BY <3>1, <3>2
  <2>3. Abstract' = [Abstract EXCEPT ![h] = "batch"]
    BY <1>6, <2>2 DEF Abstract
  <2> QED
    BY <1>1, <1>2, <1>4, <1>6, <2>1, <2>3 DEF Pipeline!Take, Abstract
<1> QED
  BY <1>1, <1>5, <1>6

LEMMA TrainStepStep ==
  ASSUME Inv, Inv', TrainStep
  PROVE  Pipeline!Train
<1> USE DEF Inv
<1> DEFINE l == local_trigger_step
           v == current_param_version
           n == trigger_parameter_sync_step
<1>1. /\ trainer = "train" /\ trained' = trained \cup Elements(batch) /\ batch' = <<>>
      /\ UNCHANGED <<task, queue, dropped, rollout_version, stopping>>
  BY DEF TrainStep, InBatch, Elements, queueVars, rolloutVars
<1>2. /\ ~stopping /\ Len(batch) = required_samples /\ rollout_version = v
      /\ l \in 1 .. n /\ v \in Nat /\ n \in Nat \ {0}
  BY <1>1, CountType, Products DEF CountInv
<1>3. /\ l' - 1 = ((l - 1) + 1) % n
      /\ v' = IF l' - 1 = 0 THEN v + 1 ELSE v
  <2>1. (l - 1) + 1 = l
    BY <1>2
  <2>2. CASE l < n
    <3>1. l' = l + 1 /\ v' = v
      BY <2>2 DEF TrainStep
    <3>2. l % n = l /\ l' - 1 = l /\ l # 0
      BY <1>2, <2>2, <3>1
    <3> QED
      BY <2>1, <3>1, <3>2
  <2>3. CASE ~(l < n)
    <3>1. l' = 1 /\ v' = v + 1
      BY <2>3 DEF TrainStep
    <3>2. l = n /\ n % n = 0 /\ l' - 1 = 0
      BY <1>2, <2>3, <3>1
    <3> QED
      BY <2>1, <3>1, <3>2
  <2> QED
    BY <2>2, <2>3
<1>4. ASSUME NEW t \in Sample
      PROVE  PlaceOf(t)' = IF PlaceOf(t) = "batch" THEN "trained" ELSE PlaceOf(t)
  <2>1. InBatch = Elements(batch) /\ InBatch' = {}
    BY <1>1 DEF InBatch, Elements
  <2>2. CASE t \in Elements(batch)
    BY <1>1, <2>2, PlaceNow, PlaceNext
  <2>3. CASE t \notin Elements(batch)
    <3>1. PlaceOf(t) # "batch"
      BY <2>1, <2>3 DEF PlaceOf
    <3> QED
      BY <1>1, <2>1, <2>3, <3>1 DEF PlaceOf
  <2> QED
    BY <2>2, <2>3
<1>5. Abstract' = [t \in Sample |-> IF Abstract[t] = "batch" THEN "trained" ELSE Abstract[t]]
  BY <1>4 DEF Abstract
<1> QED
  BY <1>1, <1>2, <1>3, <1>5 DEF Pipeline!Train, Abstract

\* The weight sync publishes the version; the last one, after the end signal, finds
\* it published.
LEMMA PublishStep ==
  ASSUME Inv, TrainSync
  PROVE  Pipeline!Publish \/ UNCHANGED Pipeline!vars
<1> USE DEF Inv
<1>1. /\ trainer = "sync" /\ rollout_version' = current_param_version
      /\ UNCHANGED <<task, queue, dropped, batch, trained, local_trigger_step,
                     current_param_version, stopping>>
  BY DEF TrainSync, queueVars, rolloutVars
<1>2. current_param_version \in Nat /\ rollout_version \in Nat
  BY CountType
<1>3. CASE stopping
  <2>1. rollout_version' = rollout_version
    BY <1>1, <1>2, <1>3 DEF CountInv
  <2> QED
    BY <1>1, <2>1, Stutters
<1>4. CASE ~stopping
  <2>1. rollout_version < current_param_version
    BY <1>1, <1>2, <1>4 DEF CountInv
  <2>2. \A s \in Sample : PlaceOf(s)' = PlaceOf(s)
    BY <1>1 DEF PlaceOf, InBatch, Elements
  <2>3. Abstract' = Abstract
    BY <2>2 DEF Abstract
  <2>4. UNCHANGED <<queue, batch, local_trigger_step - 1, current_param_version, stopping, dropped>>
    BY <1>1
  <2> QED
    BY <1>1, <2>1, <2>3, <2>4 DEF Pipeline!Publish, Abstract
<1> QED
  BY <1>3, <1>4

LEMMA Simulates ==
  Inv /\ Inv' /\ [Next]_vars => [Pipeline!Next]_(Pipeline!vars)
<1> SUFFICES ASSUME Inv, Inv', [Next]_vars
             PROVE  Pipeline!Next \/ UNCHANGED Pipeline!vars
  OBVIOUS
<1>1. CASE Feeder \/ Monitor \/ MainStop \/ UNCHANGED vars
  <2>1. UNCHANGED <<trained, batch, queue, dropped, task, local_trigger_step,
                    current_param_version, rollout_version, stopping>>
    BY <1>1
    DEF Feeder, FeedSample, FeedEnd, Monitor, MonitorHead, MonitorCheck, MonitorDecide,
        MonitorResumeLocked, MainStop, vars, queueVars, trainVars
  <2> QED
    BY <2>1, Stutters
<1>2. CASE Processor
  <2>1. PICK T \in SUBSET Ended : ProcessorStep(T)
    BY <1>2, ProcessorSteps DEF Inv
  <2>2. CASE \E s \in Sample : Creates(T, s)
    <3>1. PICK s \in Sample : Creates(T, s)
      BY <2>2
    <3>2. Pipeline!Start(s)
      BY <1>2, <3>1, StartStep
    <3> QED
      BY <3>2 DEF Pipeline!Next
  <2>3. CASE Rests(T) \/ Dies(T) \/ Keeps(T)
    <3>1. UNCHANGED task
      BY <2>3 DEF Rests, Dies, Keeps, Retires
    <3>2. UNCHANGED <<trained, batch, queue, dropped, local_trigger_step,
                      current_param_version, rollout_version, stopping>>
      BY <1>2, ProcessorSteps DEF Inv
    <3> QED
      BY <3>1, <3>2, Stutters
  <2> QED
    BY <2>1, <2>2, <2>3 DEF ProcessorStep
<1>3. ASSUME NEW s \in Sample, TaskPut(s) PROVE Pipeline!Next
  BY <1>3, FinishStep DEF Pipeline!Next
<1>4. ASSUME NEW s \in Sample, TaskFail(s) PROVE Pipeline!Next
  BY <1>4, FailStep DEF Pipeline!Next
<1>5. CASE MainClose
  BY <1>5, CloseStep DEF Pipeline!Next
<1>6. CASE TrainCollect
  BY <1>6, TakeStep DEF Pipeline!Next
<1>7. CASE TrainStep
  BY <1>7, TrainStepStep DEF Pipeline!Next
<1>8. CASE TrainSync
  BY <1>8, PublishStep DEF Pipeline!Next
<1>9. CASE ResetEnter \/ ResetLocked \/ ResetEnd \/ TrainFinal
  <2>1. UNCHANGED <<trained, batch, queue, dropped, task, local_trigger_step,
                    current_param_version, rollout_version, stopping>>
    BY <1>9 DEF ResetEnter, ResetLocked, ResetEnd, TrainFinal, queueVars, rolloutVars
  <2> QED
    BY <2>1, Stutters
<1> QED
  BY <1>1, <1>2, <1>3, <1>4, <1>5, <1>6, <1>7, <1>8, <1>9
  DEF Next, RollouterNext, TrainerNext, Main

LEMMA AbstractStart == Init => Pipeline!Init
<1> SUFFICES ASSUME Init PROVE Pipeline!Init
  OBVIOUS
<1>1. \A s \in Sample : PlaceOf(s) = "new"
  BY ElementsOfEmpty DEF Init, PlaceOf, InBatch
<1> QED
  BY <1>1 DEF Init, Pipeline!Init

\* The three actors implement the abstract pipeline, for every value of the
\* constants and every interleaving: samples are generated within the budget of a
\* version, leave the queue in order, are trained on once in full batches, and
\* are lost only to a failed generation or to one eviction per version.
THEOREM PipelineImplemented == Spec => ImplementsPipeline
<1>1. Init => Pipeline!Init
  BY AbstractStart
<1>2. Inv /\ Inv' /\ [Next]_vars => [Pipeline!Next]_(Pipeline!vars)
  BY Simulates
<1> QED
  BY <1>1, <1>2, InvHolds, PTL DEF Spec, ImplementsPipeline, Pipeline!Spec
=============================================================================
