--------------------------- MODULE SamplePipeline ---------------------------
(***************************************************************************)
(* What the fully asynchronous trainer promises of its samples, with its   *)
(* coroutines, locks, events and counters left out: samples are generated  *)
(* in any order within a budget per version of the weights, stand in a     *)
(* bounded line, and leave it first come, first served, in batches of one  *)
(* size, each batch trained on once. A new version follows a fixed number  *)
(* of batches. Only a failed generation, and one overrun of the line per   *)
(* version, loses a sample. FullyAsync implements it.                      *)
(***************************************************************************)
EXTENDS Integers, Sequences, FiniteSets

CONSTANTS
    Sample,
    None,            \* the end signal in the line
    batch_size,      \* samples of an optimizer step
    batches,         \* optimizer steps per version
    budget           \* samples a version may add to those consumed before it

VARIABLES
    place,       \* of each sample
    line,        \* samples generated and not yet taken, and the end signal
    taken,       \* the batch being collected
    steps,       \* optimizer steps since the last version
    version,     \* of the trainer's weights
    published,   \* version of the weights that generate
    ended,       \* the end signal was taken
    evicted      \* samples pushed out of the full line

vars == <<place, line, taken, steps, version, published, ended, evicted>>

Place == {"new", "generating", "line", "batch", "trained", "lost"}

Init ==
    /\ place = [s \in Sample |-> "new"]
    /\ line = <<>> /\ taken = <<>>
    /\ steps = 0 /\ version = 0 /\ published = 0
    /\ ended = FALSE /\ evicted = {}

Started == {s \in Sample : place[s] # "new"}

\* README of the package: between two parameter updates at most
\* (1+staleness_threshold)*(trigger_parameter_sync_step*required_samples) -
\* num_staleness_sample samples are generated, so that `budget' more than were
\* consumed before are ever started. The code keeps to one more, evicted samples
\* apart: reset_staleness does not see the sample in the processor's hand, and
\* what was evicted is neither in the queue nor among the active tasks.
Start(s) ==
    /\ place[s] = "new"
    /\ Cardinality(Started \ evicted) <= published * batch_size * batches + budget
    /\ place' = [place EXCEPT ![s] = "generating"]
    /\ UNCHANGED <<line, taken, steps, version, published, ended, evicted>>

Fail(s) ==
    /\ place[s] = "generating"
    /\ place' = [place EXCEPT ![s] = "lost"]
    /\ UNCHANGED <<line, taken, steps, version, published, ended, evicted>>

\* The line holds `budget' entries; once per version, an entry may overrun it and
\* push the oldest sample out (never the end signal): the other side of the sample
\* above.
Entering(entry, from) ==
    IF Len(line) < budget
    THEN line' = Append(line, entry) /\ place' = from /\ UNCHANGED evicted
    ELSE /\ Head(line) # None
         /\ Cardinality(evicted) < published /\ evicted' = evicted \cup {Head(line)}
         /\ line' = Append(Tail(line), entry)
         /\ place' = [from EXCEPT ![Head(line)] = "lost"]

Finish(s) ==
    /\ place[s] = "generating"
    /\ Entering(s, [place EXCEPT ![s] = "line"])
    /\ UNCHANGED <<taken, steps, version, published, ended>>

\* The end signal, at most once.
Close ==
    /\ \A i \in 1 .. Len(line) : line[i] # None
    /\ ~ended
    /\ Entering(None, place)
    /\ UNCHANGED <<taken, steps, version, published, ended>>

Take ==
    /\ ~ended /\ Len(taken) < batch_size
    /\ line # <<>> /\ line' = Tail(line)
    /\ IF Head(line) = None
       THEN ended' = TRUE /\ UNCHANGED <<taken, place>>
       ELSE /\ taken' = Append(taken, Head(line))
            /\ place' = [place EXCEPT ![Head(line)] = "batch"]
            /\ UNCHANGED ended
    /\ UNCHANGED <<steps, version, published, evicted>>

\* A version is published before the next batch is trained on.
Train ==
    /\ ~ended /\ Len(taken) = batch_size
    /\ published = version
    /\ place' = [s \in Sample |-> IF place[s] = "batch" THEN "trained" ELSE place[s]]
    /\ taken' = <<>>
    /\ steps' = (steps + 1) % batches
    /\ version' = IF steps' = 0 THEN version + 1 ELSE version
    /\ UNCHANGED <<line, published, ended, evicted>>

Publish ==
    /\ published < version
    /\ published' = version
    /\ UNCHANGED <<place, line, taken, steps, version, ended, evicted>>

Next ==
    \/ \E s \in Sample : Start(s) \/ Fail(s) \/ Finish(s)
    \/ Close \/ Take \/ Train \/ Publish

Spec == Init /\ [][Next]_vars
=============================================================================
