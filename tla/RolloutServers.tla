--------------------------- MODULE RolloutServers ---------------------------
(***************************************************************************)
(* Generation while weights are synchronised: the clients that resume an   *)
(* aborted generation (FullyAsyncLLMServerClient), the load balancer that  *)
(* gives them a server (GlobalRequestLoadBalancer), the servers            *)
(* (vLLMHttpServer on a vLLM that pauses on abort, >= 0.12), and the       *)
(* trainer's sequence of operations on them: a weight sync and, with       *)
(* use_trainer_do_validate, the switch of the hybrid replicas to rollout   *)
(* mode and back (CheckpointEngineManager, _trainer_side_validate).        *)
(*                                                                         *)
(* A token is the version of the weights that computed it; only the number *)
(* of tokens and the first and last version are kept.                      *)
(***************************************************************************)
EXTENDS Integers, Sequences, FiniteSets

CONSTANTS
    Server,           \* replicas
    Request,          \* generate() calls of the agent loops, each in its own worker
    NoServer,
    Setups,           \* the deployments a run starts from
    prompt_length,    \* configured length
    PromptLen,        \* tokens in the prompt of a request
    partial_rollout,
    test_freq,
    MaxVersion        \* bound: weight syncs explored

\* standalone: replicas on rollout GPUs, always in the load balancer; hybrid: on
\* trainer GPUs, {} without use_trainer_do_validate; max_cache_size: of the
\* sticky-session LRU cache; has_limit: is "max_tokens" in sampling_params
\* (= response_length); response_length: the configured length.
ASSUME ServersAssumption ==
    /\ NoServer \notin Server
    /\ IsFiniteSet(Server) /\ IsFiniteSet(Request)
    /\ Setups \subseteq [standalone : (SUBSET Server) \ {{}}, hybrid : SUBSET Server,
                         max_cache_size : Nat \ {0}, has_limit : BOOLEAN,
                         response_length : Nat \ {0}]
    /\ \A c \in Setups : c.standalone \cap c.hybrid = {}
    /\ prompt_length \in Nat /\ PromptLen \in 0 .. prompt_length
    /\ partial_rollout \in BOOLEAN
    /\ test_freq \in Nat \ {0} /\ MaxVersion \in Nat

VARIABLES
    setup,
    place,            \* of a key of _inflight_requests in the order of insertion, 0: no key
    inflight,         \* _inflight_requests (0 outside the pool)
    sticky,           \* _request_id_to_server, least recently used first
    phase,            \* a request: "want", "sent", "running", "done"
    at,               \* the server it was given
    releasing,        \* the server of its release_server call in flight
    total,            \* len(final_output.token_ids)
    segment,          \* tokens of the generation under way
    first, last,      \* version of the first and of the last token, -1: none yet
    min_global_steps, max_global_steps,   \* -1: None
    stop_reason,
    paused,           \* engine paused by abort_all_requests
    awake,            \* weights and kv cache are on the GPU
    weights,          \* version of the loaded weights, -1 when asleep
    global_steps,     \* set_global_steps of a server
    version,          \* current_param_version of the trainer
    step, todo,       \* where the trainer is: operation, servers still to be handled
    rollout_replicas, alive_replicas      \* lists of FullyAsyncLLMServerManager

lbVars     == <<place, inflight, sticky>>
clientVars == <<phase, at, releasing, total, segment, first, last,
                min_global_steps, max_global_steps, stop_reason>>
serverVars == <<paused, awake, weights, global_steps>>
driverVars == <<version, step, todo, rollout_replicas, alive_replicas>>
vars == <<setup, lbVars, clientVars, serverVars, driverVars>>

Standalone == setup.standalone
Hybrid == setup.hybrid
max_cache_size == setup.max_cache_size
has_limit == setup.has_limit
response_length == setup.response_length

-----------------------------------------------------------------------------
(* GlobalRequestLoadBalancer: one actor, one call at a time. *)

InPool(s) == place[s] > 0
Pool == {s \in Server : InPool(s)}

\* The ways to insert the servers of S one after the other.
Orders(S) == {p \in [Server -> 0 .. Cardinality(S)] :
                /\ \A s \in Server : p[s] > 0 <=> s \in S
                /\ \A s, t \in S : p[s] = p[t] => s = t}

\* min() over the dict: the first of the least loaded in insertion order.
LeastLoaded(s) ==
    /\ InPool(s)
    /\ \A t \in Pool : \/ inflight[s] < inflight[t]
                       \/ inflight[s] = inflight[t] /\ place[s] <= place[t]

Entry(r) == {i \in 1 .. Len(sticky) : sticky[i].request = r}
Without(r) ==
    IF Entry(r) = {} THEN sticky
    ELSE LET i == CHOOSE i \in Entry(r) : TRUE
         IN  SubSeq(sticky, 1, i - 1) \o SubSeq(sticky, i + 1, Len(sticky))

\* The session's server; one that left the pool is dropped.
Sticky(r, s) == InPool(s) /\ \E i \in Entry(r) : sticky[i].server = s
ServerFor(r, s) ==
    IF \E t \in Server : Sticky(r, t) THEN Sticky(r, s) ELSE LeastLoaded(s)

\* Faulty variant: nothing is evicted.
Touch_NoEvict(r, s) == Append(Without(r), [request |-> r, server |-> s])

\* LRUCache: a use moves the entry to the end, an insertion evicts the first.
Touch(r, s) ==
    LET rest == Without(r) IN
    Append(IF Len(rest) >= max_cache_size THEN Tail(rest) ELSE rest,
           [request |-> r, server |-> s])

\* A worker's own release arrives before its next acquire: Ray keeps the order
\* of one caller's calls to an actor.
acquire_server(r) ==
    /\ phase[r] = "want" /\ releasing[r] = NoServer
    /\ \E s \in Server :
       /\ ServerFor(r, s)
       /\ inflight' = [inflight EXCEPT ![s] = @ + 1]
       /\ sticky' = Touch(r, s)
       /\ at' = [at EXCEPT ![r] = s]
    /\ phase' = [phase EXCEPT ![r] = "sent"]
    /\ segment' = [segment EXCEPT ![r] = 0]
    /\ UNCHANGED <<place, releasing, total, first, last, min_global_steps,
                   max_global_steps, stop_reason, serverVars, driverVars>>

\* Faulty variant: the release is lost.
release_server_Lost(r) ==
    /\ releasing[r] # NoServer
    /\ releasing' = [releasing EXCEPT ![r] = NoServer]
    /\ UNCHANGED <<lbVars, phase, at, total, segment, first, last,
                   min_global_steps, max_global_steps, stop_reason, serverVars, driverVars>>

release_server(r) ==
    /\ releasing[r] # NoServer
    /\ inflight' = IF InPool(releasing[r]) /\ inflight[releasing[r]] > 0
                   THEN [inflight EXCEPT ![releasing[r]] = @ - 1] ELSE inflight
    /\ releasing' = [releasing EXCEPT ![r] = NoServer]
    /\ UNCHANGED <<place, sticky, phase, at, total, segment, first, last,
                   min_global_steps, max_global_steps, stop_reason, serverVars, driverVars>>

-----------------------------------------------------------------------------
(* Servers: generate, and the tokens of one call. *)

Smaller(a, b) == IF a < b THEN a ELSE b

\* Faulty variants: the limit is not reduced by the tokens the response already
\* has; the default does not look at the room left in the context.
MaxTokens_Whole(r) == response_length
MaxTokens_NoContext(r) == IF has_limit THEN response_length - total[r] ELSE response_length

\* max_tokens of a call: the client's remaining limit, or the server's default,
\* which knows the configured lengths and the prompt it was sent.
MaxTokens(r) ==
    IF has_limit THEN response_length - total[r]
    ELSE Smaller(response_length, prompt_length + response_length - (PromptLen + total[r]))

\* A call that arrives while the engine is paused waits for resume_generation, one
\* at an engine that is asleep computes nothing before the engine wakes up.
Start(r) ==
    /\ phase[r] = "sent"
    /\ ~paused[at[r]] /\ awake[at[r]]
    /\ phase' = [phase EXCEPT ![r] = "running"]
    /\ UNCHANGED <<lbVars, at, releasing, total, segment, first, last, min_global_steps,
                   max_global_steps, stop_reason, serverVars, driverVars>>

\* A token was computed with the weights its server holds.
Computed(r) ==
    /\ first' = [first EXCEPT ![r] = IF total[r] + segment[r] = 0 THEN weights[at[r]] ELSE @]
    /\ last' = [last EXCEPT ![r] = weights[at[r]]]

\* One more token, not the last one of the call.
Token(r) ==
    /\ phase[r] = "running" /\ awake[at[r]]
    /\ segment[r] + 1 < MaxTokens(r)
    /\ segment' = [segment EXCEPT ![r] = @ + 1]
    /\ Computed(r)
    /\ UNCHANGED <<lbVars, phase, at, releasing, total, min_global_steps, max_global_steps,
                   stop_reason, serverVars, driverVars>>

-----------------------------------------------------------------------------
(* FullyAsyncLLMServerClient.generate: what it does with an answer. *)

\* Faulty variant: an aborted generation is taken for a finished one.
Again_Never(reason, over) == FALSE

\* The loop goes on after an abort with partial_rollout.
Again(reason, over) == reason = "aborted" /\ partial_rollout /\ ~over

\* The requests in R get an answer for `reason' with `new' tokens besides the
\* segment; `steps' is the stamp each carries, -1 for none.
Answer(R, reason, new, steps) ==
    LET all(r) == total[r] + segment[r] + new
        over(r) == has_limit /\ all(r) >= response_length
    IN
    /\ total' = [r \in Request |-> IF r \in R THEN all(r) ELSE total[r]]
    /\ segment' = [r \in Request |-> IF r \in R THEN 0 ELSE segment[r]]
    /\ min_global_steps' = [r \in Request |->
            IF r \in R /\ min_global_steps[r] = -1 THEN steps[r] ELSE min_global_steps[r]]
    /\ max_global_steps' = [r \in Request |->
            IF r \in R THEN steps[r] ELSE max_global_steps[r]]
    /\ stop_reason' = [r \in Request |->
            IF r \notin R THEN stop_reason[r] ELSE IF over(r) THEN "length" ELSE reason]
    /\ phase' = [r \in Request |->
            IF r \notin R THEN phase[r] ELSE IF Again(reason, over(r)) THEN "want" ELSE "done"]
    /\ releasing' = [r \in Request |-> IF r \in R THEN at[r] ELSE releasing[r]]
    /\ at' = [r \in Request |-> IF r \in R THEN NoServer ELSE at[r]]

\* The last token of a call, a stop token or the max_tokens-th, ends it.
Finish(r) ==
    /\ phase[r] = "running" /\ awake[at[r]]
    /\ segment[r] < MaxTokens(r)
    /\ Computed(r)
    /\ Answer({r}, "completed", 1, [q \in Request |-> global_steps[at[r]]])
    /\ UNCHANGED <<lbVars, serverVars, driverVars>>

-----------------------------------------------------------------------------
(* The trainer's operations, one after the other; an operation is a gather  *)
(* over a group of servers.                                                 *)

Op(do, on, next) == [do |-> do, on |-> on, next |-> next]

\* update_weights, then _trainer_side_validate phases 1 and 3.
Plan ==
    [train          |-> Op("train", "none", "sync_abort"),
     sync_abort     |-> Op("abort", "standalone", "sync_load"),
     sync_load      |-> Op("load", "standalone", "sync_resume"),
     sync_resume    |-> Op("resume", "standalone", "check"),
     check          |-> Op("check", "none", "val_load"),
     val_load       |-> Op("load", "hybrid", "val_abort_s"),
     val_abort_s    |-> Op("abort", "standalone", "val_abort_h"),
     val_abort_h    |-> Op("abort", "hybrid", "add"),
     add            |-> Op("add", "none", "val_resume_s"),
     val_resume_s   |-> Op("resume", "standalone", "val_resume_h"),
     val_resume_h   |-> Op("resume", "hybrid", "validate"),
     validate       |-> Op("validate", "none", "end_abort_s"),
     end_abort_s    |-> Op("abort", "standalone", "end_abort_h"),
     end_abort_h    |-> Op("abort", "hybrid", "remove"),
     remove         |-> Op("remove", "none", "sleep"),
     sleep          |-> Op("sleep", "hybrid", "end_resume_s"),
     end_resume_s   |-> Op("resume", "standalone", "end_resume_h"),
     end_resume_h   |-> Op("resume", "hybrid", "train")]

Group(on) == CASE on = "standalone" -> Standalone
               [] on = "hybrid" -> Hybrid
               [] on = "none" -> {}

Goto(next) == step' = next /\ todo' = Group(Plan[next].on)

\* Server s is handled; the gather returns with the last one.
Handled(s) ==
    IF todo = {s} THEN Goto(Plan[step].next)
    ELSE todo' = todo \ {s} /\ UNCHANGED step

Doing(op, s) == Plan[step].do = op /\ s \in todo

\* A training version is complete: _fit_update_weights starts.
NextVersion ==
    /\ Plan[step].do = "train"
    /\ version < MaxVersion
    /\ version' = version + 1
    /\ Goto("sync_abort")
    /\ UNCHANGED <<lbVars, clientVars, serverVars, rollout_replicas, alive_replicas>>

\* abort_all_requests pauses the engine, aborts what runs and waits until it
\* drained. An aborted call that made no token has no outputs and no stamp, or
\* an empty output with a stamp.
Abort(s) ==
    /\ Doing("abort", s)
    /\ paused' = [paused EXCEPT ![s] = TRUE]
    /\ \E empty \in BOOLEAN :
         Answer({r \in Request : phase[r] = "running" /\ at[r] = s}, "aborted", 0,
                [r \in Request |-> IF segment[r] = 0 /\ empty THEN -1 ELSE global_steps[s]])
    /\ Handled(s)
    /\ UNCHANGED <<lbVars, first, last, awake, weights, global_steps, version,
                   rollout_replicas, alive_replicas>>

\* update_weights of one server's workers; a sleeping one is woken first. The
\* stamp is set by a call of its own when the transfer is over.
Load(s) ==
    /\ Doing("load", s)
    /\ weights[s] # version
    /\ weights' = [weights EXCEPT ![s] = version]
    /\ awake' = [awake EXCEPT ![s] = TRUE]
    /\ UNCHANGED <<lbVars, clientVars, paused, global_steps, driverVars>>

\* Faulty variant: the stamp is not updated.
set_global_steps_Skipped(s) ==
    /\ Doing("load", s)
    /\ weights[s] = version
    /\ Handled(s)
    /\ UNCHANGED <<lbVars, clientVars, serverVars, version, rollout_replicas, alive_replicas>>

set_global_steps(s) ==
    /\ Doing("load", s)
    /\ weights[s] = version
    /\ global_steps' = [global_steps EXCEPT ![s] = version]
    /\ Handled(s)
    /\ UNCHANGED <<lbVars, clientVars, paused, awake, weights, version, rollout_replicas,
                   alive_replicas>>

\* Faulty variant: the servers stay paused.
Resume_Skipped(s) ==
    /\ Doing("resume", s)
    /\ Handled(s)
    /\ UNCHANGED <<lbVars, clientVars, serverVars, version, rollout_replicas, alive_replicas>>

Resume(s) ==
    /\ Doing("resume", s)
    /\ paused' = [paused EXCEPT ![s] = FALSE]
    /\ Handled(s)
    /\ UNCHANGED <<lbVars, clientVars, awake, weights, global_steps, version,
                   rollout_replicas, alive_replicas>>

\* _fit_validate: on the trainer's side only with use_trainer_do_validate.
CheckValidate ==
    /\ Plan[step].do = "check"
    /\ Goto(IF Hybrid # {} /\ version % test_freq = 0 THEN "val_load" ELSE "train")
    /\ UNCHANGED <<lbVars, clientVars, serverVars, version, rollout_replicas, alive_replicas>>

\* add_replicas of the manager with add_servers of the load balancer: a server
\* that is new to the pool goes to its end, its count starts at zero.
add_replicas ==
    /\ Plan[step].do = "add"
    /\ place' \in {p \in Orders(Pool \cup Hybrid) : \A s \in Pool : p[s] = place[s]}
    /\ inflight' = [s \in Server |-> IF s \in Hybrid \ alive_replicas THEN 0 ELSE inflight[s]]
    /\ rollout_replicas' = rollout_replicas \cup Hybrid
    /\ alive_replicas' = Hybrid
    /\ Goto(Plan[step].next)
    /\ UNCHANGED <<sticky, clientVars, serverVars, version>>

\* do_validate: its requests are requests like any other.
Validate ==
    /\ Plan[step].do = "validate"
    /\ Goto(Plan[step].next)
    /\ UNCHANGED <<lbVars, clientVars, serverVars, version, rollout_replicas, alive_replicas>>

\* remove_replicas with remove_servers. Sticky sessions stay behind.
remove_replicas ==
    /\ Plan[step].do = "remove"
    /\ place' = [s \in Server |-> IF s \in alive_replicas THEN 0 ELSE place[s]]
    /\ inflight' = [s \in Server |-> IF s \in alive_replicas THEN 0 ELSE inflight[s]]
    /\ rollout_replicas' = rollout_replicas \ alive_replicas
    /\ alive_replicas' = {}
    /\ Goto(Plan[step].next)
    /\ UNCHANGED <<sticky, clientVars, serverVars, version>>

\* sleep_replicas: level 2, the weights are gone.
Sleep(s) ==
    /\ Doing("sleep", s)
    /\ awake' = [awake EXCEPT ![s] = FALSE]
    /\ weights' = [weights EXCEPT ![s] = -1]
    /\ Handled(s)
    /\ UNCHANGED <<lbVars, clientVars, paused, global_steps, version, rollout_replicas,
                   alive_replicas>>

-----------------------------------------------------------------------------
\* After the weight sync before fit, with the hybrid replicas asleep.
Init ==
    /\ setup \in Setups
    /\ place \in Orders(Standalone)
    /\ inflight = [s \in Server |-> 0]
    /\ sticky = <<>>
    /\ phase = [r \in Request |-> "want"]
    /\ at = [r \in Request |-> NoServer]
    /\ releasing = [r \in Request |-> NoServer]
    /\ total = [r \in Request |-> 0]
    /\ segment = [r \in Request |-> 0]
    /\ first = [r \in Request |-> -1] /\ last = [r \in Request |-> -1]
    /\ min_global_steps = [r \in Request |-> -1]
    /\ max_global_steps = [r \in Request |-> -1]
    /\ stop_reason = [r \in Request |-> "none"]
    /\ paused = [s \in Server |-> FALSE]
    /\ awake = [s \in Server |-> s \in Standalone]
    /\ weights = [s \in Server |-> IF s \in Standalone THEN 0 ELSE -1]
    /\ global_steps = [s \in Server |-> IF s \in Standalone THEN 0 ELSE -1]
    /\ version = 0
    /\ step = "train" /\ todo = {}
    /\ rollout_replicas = Standalone /\ alive_replicas = {}

Client(r) == acquire_server(r) \/ release_server(r)
Generate(r) == Start(r) \/ Token(r) \/ Finish(r)
ServerStep(s) == Abort(s) \/ Load(s) \/ set_global_steps(s) \/ Resume(s) \/ Sleep(s)
Sequencing == CheckValidate \/ add_replicas \/ Validate \/ remove_replicas

Next ==
    /\ \/ \E r \in Request : Client(r) \/ Generate(r)
       \/ \E s \in Server : ServerStep(s)
       \/ Sequencing
       \/ NextVersion
    /\ UNCHANGED setup

\* Calls are answered, running requests make progress, and an operation the
\* trainer has begun is carried through; it need not begin another.
Kept == UNCHANGED setup
Fairness ==
    /\ \A r \in Request : WF_vars(Client(r) /\ Kept) /\ WF_vars(Generate(r) /\ Kept)
    /\ WF_vars((Sequencing \/ \E s \in Server : ServerStep(s)) /\ Kept)

Spec == Init /\ [][Next]_vars /\ Fairness

-----------------------------------------------------------------------------
MaybeServer == Server \cup {NoServer}

\* Type invariant.
TypeOK ==
    /\ setup \in Setups
    /\ place \in [Server -> Nat]
    /\ inflight \in [Server -> Nat]
    /\ sticky \in Seq([request : Request, server : Server])
    /\ Len(sticky) <= max_cache_size
    /\ phase \in [Request -> {"want", "sent", "running", "done"}]
    /\ at \in [Request -> MaybeServer]
    /\ releasing \in [Request -> MaybeServer]
    /\ total \in [Request -> Nat] /\ segment \in [Request -> Nat]
    /\ first \in [Request -> Int] /\ last \in [Request -> Int]
    /\ min_global_steps \in [Request -> Int] /\ max_global_steps \in [Request -> Int]
    /\ stop_reason \in [Request -> {"none", "completed", "length", "aborted"}]
    /\ paused \in [Server -> BOOLEAN] /\ awake \in [Server -> BOOLEAN]
    /\ weights \in [Server -> Int] /\ global_steps \in [Server -> Int]
    /\ version \in 0 .. MaxVersion
    /\ step \in DOMAIN Plan /\ todo \in SUBSET Server
    /\ rollout_replicas \in SUBSET Server /\ alive_replicas \in SUBSET Hybrid

\* assemble_batch_from_rollout_samples computes how many versions a response
\* spans from min_global_steps and max_global_steps, and the trainer takes
\* max_global_steps for the version of the trajectory: the stamps of a finished
\* response enclose the versions that really computed its tokens. Without hybrid
\* replicas: a call left waiting in a hybrid engine that was put to sleep starts as
\* soon as the next validation wakes it, before the new stamp is set. And with
\* partial_rollout: without it an aborted call that made no token is returned as it
\* is, and may have no stamp.
VersionsBracket ==
    Hybrid = {} /\ partial_rollout => \A r \in Request : phase[r] = "done" =>
        /\ 0 <= min_global_steps[r] /\ min_global_steps[r] <= first[r]
        /\ last[r] = max_global_steps[r]

\* With partial_rollout a response is never cut off by a weight sync: what
\* generate() returns ended with a stop token or at a length limit.
NeverCut == partial_rollout => \A r \in Request : phase[r] = "done" => stop_reason[r] # "aborted"

\* However often it is aborted, a response has at most response_length tokens
\* when the client was given a limit.
WithinResponseLength ==
    has_limit => \A r \in Request : total[r] + segment[r] <= response_length

\* With or without max_tokens, prompt and response fit the context.
WithinContext ==
    \A r \in Request : PromptLen + total[r] + segment[r] <= prompt_length + response_length

\* What generate() returns is a whole response: not cut off by a weight sync, and
\* however often it was aborted and resumed within the configured lengths.
WholeResponse == NeverCut /\ WithinResponseLength /\ WithinContext

\* Calls that hold server s, or whose release has not reached the balancer.
Holding(s) == {r \in Request : at[r] = s}
Leaving(s) == {r \in Request : releasing[r] = s}

\* The balancer's count of a standalone server is exact up to releases that are
\* on their way: every way out of generate() releases, none releases twice.
ExactLoad ==
    \A s \in Standalone : inflight[s] = Cardinality(Holding(s)) + Cardinality(Leaving(s))

\* A hybrid server never looks busier than it is, also when it leaves the pool
\* and comes back with calls of its previous stay still being released.
NoGhostLoad ==
    \A s \in Server : inflight[s] <= Cardinality(Holding(s)) + Cardinality(Leaving(s))

\* The load balancer's in-flight counts tell the truth about every server, through
\* late releases and replicas that leave and come back.
TrueLoad == ExactLoad /\ NoGhostLoad

\* A call that reached a hybrid engine after its abort and before it left the load
\* balancer: the engine was put to sleep with the call waiting in it.
LeftAsleep(r) == phase[r] = "sent" /\ at[r] \in Hybrid /\ ~awake[at[r]]

\* Every request is finished, whatever syncs and validations come in between, or the
\* engine it was sent to sleeps: it goes on when the next validation wakes that one,
\* and without hybrid replicas every request ends.
EveryRequestEnds == \A r \in Request : <>[](phase[r] = "done" \/ LeftAsleep(r))
=============================================================================
