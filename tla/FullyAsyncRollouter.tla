------------------------- MODULE FullyAsyncRollouter -------------------------
(***************************************************************************)
(* The FullyAsyncRollouter actor: the feeder, the processor, one task per  *)
(* submitted sample, the monitor and the main coroutine that ends them.    *)
(***************************************************************************)
EXTENDS FullyAsyncBase

-----------------------------------------------------------------------------
(* _feed_samples *)

\* Faulty variant: `>' for `>=' in the check for the last step.
FeedSample_OneMore ==
    /\ feeder = "feed"
    /\ Len(pending_queue) < pending_maxsize
    /\ pending_queue' = Append(pending_queue, global_steps)
    /\ IF global_steps > total_rollout_steps
       THEN feeder' = "end" /\ UNCHANGED global_steps
       ELSE global_steps' = global_steps + 1 /\ UNCHANGED feeder
    /\ UNCHANGED <<procVars, active_tasks, task, ctlVars, lock, mainVars, monVars,
                   queueVars, trainVars, stampVars>>

\* The check for the last step comes after the put.
FeedSample ==
    /\ feeder = "feed"
    /\ Len(pending_queue) < pending_maxsize
    /\ pending_queue' = Append(pending_queue, global_steps)
    /\ IF global_steps >= total_rollout_steps
       THEN feeder' = "end" /\ UNCHANGED global_steps
       ELSE global_steps' = global_steps + 1 /\ UNCHANGED feeder
    /\ UNCHANGED <<procVars, active_tasks, task, ctlVars, lock, mainVars, monVars,
                   queueVars, trainVars, stampVars>>

FeedEnd ==
    /\ feeder = "end"
    /\ Len(pending_queue) < pending_maxsize
    /\ pending_queue' = Append(pending_queue, None)
    /\ feeder' = "done"
    /\ UNCHANGED <<global_steps, procVars, active_tasks, task, ctlVars, lock, mainVars,
                   monVars, queueVars, trainVars, stampVars>>

-----------------------------------------------------------------------------
(* _processor_worker *)

\* Faulty variant: the staleness budget is not consulted.
ShouldPause_QueueOnly(size) == size >= max_queue_size

\* _should_pause_generation: the queue size arrived with the RPC's reply, the
\* staleness counter is read now.
ShouldPause(size) ==
    size >= max_queue_size \/ staleness_samples >= max_required_samples

\* Top of the loop: the get_statistics RPC is answered by the queue actor. The
\* code skips the RPC when paused, which it never is here (ResumeSignal).
ProcCheck ==
    /\ processor = "check"
    /\ queue_size' = Len(queue)
    /\ processor' = "decide"
    /\ UNCHANGED <<feedVars, pending_queue, hand, finished, active_tasks, task, ctlVars,
                   lock, mainVars, monVars, queueVars, trainVars, stampVars>>

\* The section that stops generation; nothing in it awaits.
Pause ==
    /\ paused' = TRUE
    /\ resume_event' = FALSE
    /\ resume_future' = "waiting"
    /\ processor' = "drain"
    /\ UNCHANGED staleness_samples

AtLimit(active) == Cardinality(active) >= max_concurrent_samples

\* safe_create_task under the lock.
Submit(sample, active) ==
    /\ active_tasks' = active \cup {sample}
    /\ task' = [task EXCEPT ![sample] = "running"]
    /\ born' = [born EXCEPT ![sample] = rollout_version]
    /\ hand' = None
    /\ processor' = "check"

\* What follows the get, up to the next suspension, when the active tasks are
\* `active' and the lock is `L'. With the end signal: wait for all tasks. Else
\* wait for a slot, then submit. Both waits hold the lock until a task ends.
\* `if self.paused' before the submit is never taken (ResumeSignal).
Proceed(sample, active, L) ==
    \/ /\ sample = None /\ active = {}
       /\ processor' = "done"
       /\ hand' = None
       /\ active_tasks' = active
       /\ lock' = L
       /\ UNCHANGED <<task, born>>
    \/ /\ IF sample = None THEN active # {} ELSE AtLimit(active)
       /\ processor' = "wait"
       /\ hand' = sample
       /\ active_tasks' = active
       /\ lock' = Append(L, "processor")
       /\ UNCHANGED <<task, born>>
    \/ /\ sample # None /\ ~AtLimit(active)
       /\ IF L = <<>>
          THEN Submit(sample, active) /\ lock' = L
          ELSE /\ processor' = "submitting"
               /\ hand' = sample
               /\ active_tasks' = active
               /\ lock' = Append(L, "processor")
               /\ UNCHANGED <<task, born>>

\* A sample is taken; the end signal is counted in staleness_samples too.
Get ==
    /\ pending_queue' = Tail(pending_queue)
    /\ staleness_samples' = staleness_samples + 1
    /\ Proceed(Head(pending_queue), active_tasks, lock)
    /\ UNCHANGED <<paused, resume_event, resume_future>>

ProcDecide ==
    /\ processor = "decide"
    /\ queue_size' = 0
    /\ \/ /\ paused \/ ShouldPause(queue_size)
          /\ IF Free THEN Pause /\ UNCHANGED lock
             ELSE /\ Arrive("processor")
                  /\ processor' = "pausing"
                  /\ UNCHANGED ctlVars
          /\ UNCHANGED <<pending_queue, hand, active_tasks, task, born>>
       \/ /\ ~paused /\ ~ShouldPause(queue_size)
          /\ IF pending_queue # <<>> THEN Get
             ELSE /\ processor' = "get"
                  /\ UNCHANGED <<pending_queue, hand, active_tasks, task, born, ctlVars, lock>>
    /\ UNCHANGED <<feedVars, finished, mainVars, monVars, queueVars, trainVars, put_version>>

ProcPauseLocked ==
    /\ processor = "pausing"
    /\ Holds("processor")
    /\ Pause
    /\ lock' = Tail(lock)
    /\ UNCHANGED <<feedVars, pending_queue, hand, queue_size, finished, active_tasks, task, mainVars, monVars,
                   queueVars, trainVars, stampVars>>

\* Tasks asyncio.wait would report now.
Ended == {s \in active_tasks : task[s] \in {"done", "failed"}}

\* Retire the tasks in T; awaiting a failed one raises and ends the processor.
Retire(T, next) ==
    /\ active_tasks' = active_tasks \ T
    /\ finished' = {}
    /\ processor' = IF \E s \in T : task[s] = "failed" THEN "dead" ELSE next

\* Retire inside the drain, which goes on unless the resume signal came; the
\* finally clause drops the wait on it if the processor dies.
RetireDrained(T) ==
    /\ Retire(T, IF resume_future = "done" THEN "check" ELSE "drain")
    /\ resume_future' = IF processor' = "drain" THEN resume_future ELSE "none"

\* Drain: some task ended, retire what asyncio.wait reported under the lock.
ProcDrain ==
    /\ processor = "drain"
    /\ Ended # {}
    /\ \/ Free /\ RetireDrained(Ended) /\ UNCHANGED lock
       \/ /\ Arrive("processor")
          /\ finished' = Ended
          /\ processor' = "draining"
          /\ UNCHANGED <<active_tasks, resume_future>>
    /\ UNCHANGED <<feedVars, pending_queue, hand, queue_size, task, staleness_samples, paused,
                   resume_event, mainVars, monVars, queueVars, trainVars, stampVars>>

ProcDrainLocked ==
    /\ processor = "draining"
    /\ Holds("processor")
    /\ RetireDrained(finished)
    /\ lock' = Tail(lock)
    /\ UNCHANGED <<feedVars, pending_queue, hand, queue_size, task, staleness_samples, paused,
                   resume_event, mainVars, monVars, queueVars, trainVars, stampVars>>

\* The resume signal alone ends the drain, also with tasks still active.
ProcResume ==
    /\ processor = "drain"
    /\ resume_future = "done"
    /\ Ended = {}
    /\ resume_future' = "none"
    /\ processor' = "check"
    /\ UNCHANGED <<feedVars, pending_queue, hand, queue_size, finished, active_tasks, task,
                   staleness_samples, paused, resume_event, lock, mainVars, monVars,
                   queueVars, trainVars, stampVars>>

\* pending_queue.get() had to wait for the feeder.
ProcGet ==
    /\ processor = "get"
    /\ pending_queue # <<>>
    /\ Get
    /\ UNCHANGED <<feedVars, queue_size, finished, mainVars, monVars, queueVars, trainVars,
                   put_version>>

\* Some task ended: retire, release the lock, go on with the sample in hand.
ProcWaitDone ==
    /\ processor = "wait"
    /\ Holds("processor")
    /\ Ended # {}
    /\ IF \E s \in Ended : task[s] = "failed"
       THEN /\ active_tasks' = active_tasks \ Ended
            /\ processor' = "dead"
            /\ lock' = Tail(lock)
            /\ UNCHANGED <<hand, task, born>>
       ELSE Proceed(hand, active_tasks \ Ended, Tail(lock))
    /\ UNCHANGED <<feedVars, pending_queue, queue_size, finished, ctlVars, mainVars, monVars,
                   queueVars, trainVars, put_version>>

ProcSubmitLocked ==
    /\ processor = "submitting"
    /\ Holds("processor")
    /\ Submit(hand, active_tasks)
    /\ lock' = Tail(lock)
    /\ UNCHANGED <<feedVars, pending_queue, queue_size, finished, ctlVars, mainVars, monVars,
                   queueVars, trainVars, put_version>>

-----------------------------------------------------------------------------
(* _process_single_sample_streaming *)

\* Generation returned and put_sample was answered.
TaskPut(s) ==
    /\ task[s] = "running"
    /\ Put(s)
    /\ task' = [task EXCEPT ![s] = "done"]
    /\ put_version' = [put_version EXCEPT ![s] = current_param_version]
    /\ UNCHANGED <<feedVars, pending_queue, procVars, active_tasks, ctlVars, lock, mainVars,
                   monVars, trainVars, born>>

\* generate_sequences_single raised (a dead agent loop worker, a tool error).
TaskFail(s) ==
    /\ task[s] = "running"
    /\ Cardinality({t \in Sample : task[t] = "failed"}) < MaxFailures
    /\ task' = [task EXCEPT ![s] = "failed"]
    /\ UNCHANGED <<feedVars, pending_queue, procVars, active_tasks, ctlVars, lock, mainVars,
                   monVars, queueVars, trainVars, stampVars>>

-----------------------------------------------------------------------------
(* _async_monitor_loop *)

\* Loop head: its locked section only reads running. A sleep that finds the
\* rollouter not paused comes straight back here.
MonitorHead ==
    /\ monitor = "head" \/ (monitor = "sleep" /\ ~paused)
    /\ Free
    /\ monitor' = IF running THEN "sleep" ELSE "exit"
    /\ UNCHANGED <<feedVars, pending_queue, procVars, active_tasks, task, ctlVars, lock,
                   mainVars, monitor_queue_size, queueVars, trainVars, stampVars>>

\* After the sleep, `if self.paused` and the RPC of _should_pause_generation.
MonitorCheck ==
    /\ monitor = "sleep"
    /\ paused
    /\ monitor' = "decide"
    /\ monitor_queue_size' = Len(queue)
    /\ UNCHANGED <<feedVars, pending_queue, procVars, active_tasks, task, ctlVars, lock,
                   mainVars, queueVars, trainVars, stampVars>>

Unpause ==
    /\ paused' = FALSE
    /\ SetEvent
    /\ UNCHANGED staleness_samples

MonitorDecide ==
    /\ monitor = "decide"
    /\ monitor_queue_size' = 0
    /\ IF ShouldPause(monitor_queue_size)
       THEN monitor' = "head" /\ UNCHANGED <<ctlVars, lock>>
       ELSE \/ Free /\ Unpause /\ monitor' = "head" /\ UNCHANGED lock
            \/ Arrive("monitor") /\ monitor' = "resuming" /\ UNCHANGED ctlVars
    /\ UNCHANGED <<feedVars, pending_queue, procVars, active_tasks, task, mainVars,
                   queueVars, trainVars, stampVars>>

\* Faulty variant: the lock is not released.
MonitorResumeLocked_KeepsLock ==
    /\ monitor = "resuming"
    /\ Holds("monitor")
    /\ Unpause
    /\ monitor' = "head"
    /\ UNCHANGED <<feedVars, pending_queue, procVars, active_tasks, task, lock, mainVars,
                   monitor_queue_size, queueVars, trainVars, stampVars>>

MonitorResumeLocked ==
    /\ monitor = "resuming"
    /\ Holds("monitor")
    /\ Unpause
    /\ monitor' = "head"
    /\ lock' = Tail(lock)
    /\ UNCHANGED <<feedVars, pending_queue, procVars, active_tasks, task, mainVars,
                   monitor_queue_size, queueVars, trainVars, stampVars>>

-----------------------------------------------------------------------------
(* _streaming_generation_main *)

\* Feeder and processor are over, or the processor raised: the feeder is
\* cancelled if need be and the finish signal is put. Tasks still in
\* active_tasks are not cancelled.
MainClose ==
    /\ main = "stream"
    /\ \/ processor = "done" /\ feeder = "done"
       \/ processor = "dead"
    /\ feeder' = "done"
    /\ Put(None)
    /\ main' = "closing"
    /\ UNCHANGED <<global_steps, pending_queue, procVars, active_tasks, task, ctlVars, lock,
                   running, monVars, trainVars, stampVars>>

\* running = False under the lock.
MainStop ==
    /\ main = "closing"
    /\ Free
    /\ main' = "stopped"
    /\ running' = FALSE
    /\ UNCHANGED <<feedVars, pending_queue, procVars, active_tasks, task, ctlVars, lock,
                   monVars, queueVars, trainVars, stampVars>>

Processor ==
    \/ ProcCheck \/ ProcDecide \/ ProcPauseLocked \/ ProcDrain \/ ProcDrainLocked
    \/ ProcResume \/ ProcGet \/ ProcWaitDone \/ ProcSubmitLocked
Feeder == FeedSample \/ FeedEnd
Monitor == MonitorHead \/ MonitorCheck \/ MonitorDecide \/ MonitorResumeLocked
Main == MainClose \/ MainStop

RollouterNext ==
    \/ Feeder \/ Processor \/ Monitor \/ Main
    \/ \E s \in Sample : TaskPut(s) \/ TaskFail(s)
=============================================================================
