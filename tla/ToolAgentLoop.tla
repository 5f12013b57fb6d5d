---------------------------- MODULE ToolAgentLoop ----------------------------
(***************************************************************************)
(* One trajectory of the multi-turn tool agent: the state machine of       *)
(* ToolAgentLoop.run, the tool calls it runs in parallel (_call_tool), and *)
(* the AgentLoopOutput it returns. The model's weights may change while it *)
(* waits for the rollout server.                                           *)
(*                                                                         *)
(* A token is what it comes from: "prompt", "model" or "tool". Messages,   *)
(* tool rewards and timings are left out: the loop only passes them on.    *)
(***************************************************************************)
EXTENDS Integers, Sequences, FiniteSets

CONSTANTS
    prompt_length, response_length,
    max_assistant_turns, max_user_turns,   \* 0: no limit (null)
    max_parallel_calls,
    calculate_log_probs,   \* does the server return log_probs
    image_processor,       \* has the processor an image_processor
    may_be_cut,            \* can generate() return a generation aborted by a sync
    Truncations,           \* tool_response_truncate_side and max_tool_response_length
    TextLengths,           \* lengths of the texts that tools return
    MaxToolTokens,         \* bound: tokens of the tool responses of one turn
    MaxImages,             \* bound: images of one tool response
    MaxVersion             \* bound: weight syncs during the trajectory

ASSUME AgentAssumption ==
    /\ prompt_length \in Nat \ {0} /\ response_length \in Nat \ {0}
    /\ max_assistant_turns \in Nat /\ max_user_turns \in Nat
    /\ max_parallel_calls \in Nat \ {0}
    /\ calculate_log_probs \in BOOLEAN /\ image_processor \in BOOLEAN
    /\ may_be_cut \in BOOLEAN
    /\ Truncations \subseteq [side : {"left", "right", "middle"}, limit : Nat]
    /\ TextLengths \subseteq Nat
    /\ MaxToolTokens \in Nat \ {0} /\ MaxImages \in Nat /\ MaxVersion \in Nat

VARIABLES
    state,              \* AgentState; "waiting" inside generate(); "returned", "raised"
    prompt_ids,         \* AgentData.prompt_ids: prompt and response so far
    response_mask,
    response_logprobs,  \* 1 for a log prob of the server, 0 for a filled-in 0.0
    assistant_turns, user_turns,
    image_data,         \* number of images
    placeholders,       \* image placeholders in prompt_ids
    min_global_steps, max_global_steps,   \* of extra_fields, -1: None
    call,               \* the _call_tool coroutines of the turn
    shown,              \* what each of them answers with
    open,               \* tool instances created and not yet released
    began, ended,       \* versions at the start of the first and the end of the last turn
    truncate,           \* the truncation this loop was configured with
    version,            \* version of the weights of the server
    output              \* the AgentLoopOutput

data == <<prompt_ids, response_mask, response_logprobs, assistant_turns, user_turns,
          image_data, placeholders, min_global_steps, max_global_steps, began, ended>>
tools == <<call, shown, open>>
vars == <<state, data, tools, truncate, version, output>>

Calls == 1 .. max_parallel_calls
NoCalls == [i \in Calls |-> "none"]
\* The message of an error, which is not truncated.
ErrorText == [images |-> 0, video |-> FALSE, text |-> 0, error |-> TRUE]
Repeat(x, n) == [i \in 1 .. n |-> x]
NoOutput == [prompt_ids |-> <<>>, response_ids |-> <<>>, response_mask |-> <<>>,
             response_logprobs |-> <<>>]

Init ==
    /\ state = "pending"
    /\ prompt_ids = <<>> /\ response_mask = <<>> /\ response_logprobs = <<>>
    /\ assistant_turns = 0 /\ user_turns = 0
    /\ image_data = 0 /\ placeholders = 0
    /\ min_global_steps = -1 /\ max_global_steps = -1
    /\ call = NoCalls /\ shown = [i \in Calls |-> ErrorText] /\ open = 0
    /\ began = -1 /\ ended = -1
    /\ truncate \in Truncations
    /\ version = 0
    /\ output = NoOutput

-----------------------------------------------------------------------------
\* The trainer synchronises weights at any time.
NewVersion ==
    /\ version < MaxVersion
    /\ version' = version + 1
    /\ UNCHANGED <<state, data, tools, output, truncate>>

handle_pending_state ==
    /\ state = "pending"
    /\ \E n \in 1 .. prompt_length : prompt_ids' = Repeat("prompt", n)
    /\ state' = "generating"
    /\ UNCHANGED <<response_mask, response_logprobs, assistant_turns, user_turns, image_data,
                   placeholders, min_global_steps, max_global_steps, began, ended, tools,
                   version, output, truncate>>

\* _handle_generating_state up to the await of generate().
GenerateCall ==
    /\ state = "generating"
    /\ began' = IF assistant_turns = 0 THEN version ELSE began
    /\ state' = "waiting"
    /\ UNCHANGED <<prompt_ids, response_mask, response_logprobs, assistant_turns, user_turns,
                   image_data, placeholders, min_global_steps, max_global_steps, ended, tools,
                   version, output, truncate>>

Smaller(a, b) == IF a < b THEN a ELSE b

\* Faulty variant: the room left in the context is not looked at.
MaxTokens_NoContext == response_length

\* The tokens the server may make when sampling_params has no max_tokens.
MaxTokens == Smaller(response_length, prompt_length + response_length - Len(prompt_ids))

\* Faulty variant: later turns are not recorded.
RecordSteps_FirstOnly(lo, hi) ==
    /\ min_global_steps' = IF assistant_turns = 0 THEN lo ELSE min_global_steps
    /\ max_global_steps' = IF assistant_turns = 0 THEN hi ELSE max_global_steps

\* extra_fields: all of the first turn, then only a max_global_steps that is
\* neither None nor zero.
RecordSteps(lo, hi) ==
    /\ min_global_steps' = IF assistant_turns = 0 THEN lo ELSE min_global_steps
    /\ max_global_steps' = IF assistant_turns = 0 \/ hi > 0 THEN hi ELSE max_global_steps

\* The state that follows a turn with n tokens in which `calls' were parsed.
AfterGenerate(n, calls) ==
    IF \/ Len(response_mask) + n >= response_length
       \/ max_assistant_turns > 0 /\ assistant_turns + 1 >= max_assistant_turns
       \/ max_user_turns > 0 /\ user_turns >= max_user_turns
       \/ calls = 0
    THEN "terminated" ELSE "processing_tools"

\* _handle_generating_state after the await: n tokens, with the version stamps
\* of the client; an aborted call without tokens may carry none.
handle_generating_state ==
    /\ state = "waiting"
    /\ \E n \in (IF may_be_cut THEN 0 ELSE 1) .. MaxTokens :
       \E calls \in 0 .. (IF n = 0 THEN 0 ELSE max_parallel_calls + 1) :
       \E stamped \in (IF n = 0 THEN BOOLEAN ELSE {TRUE}) :
         /\ prompt_ids' = prompt_ids \o Repeat("model", n)
         /\ response_mask' = response_mask \o Repeat(1, n)
         /\ response_logprobs' =
                response_logprobs \o Repeat(1, IF calculate_log_probs THEN n ELSE 0)
         /\ RecordSteps(IF stamped THEN began ELSE -1, IF stamped THEN version ELSE -1)
         /\ state' = AfterGenerate(n, calls)
         /\ call' = IF state' = "processing_tools"
                    THEN [i \in Calls |-> IF i <= calls THEN "started" ELSE "none"]
                    ELSE NoCalls
    /\ ended' = version
    /\ assistant_turns' = assistant_turns + 1
    /\ UNCHANGED <<user_turns, image_data, placeholders, began, shown, open, version, output, truncate>>

-----------------------------------------------------------------------------
(* _call_tool: the calls of one turn run side by side. *)

Step(i, from, to) == call[i] = from /\ call' = [call EXCEPT ![i] = to]

\* text[-k:] of Python for a text of n characters: the last zero are all of them.
LastKept(n, k) == IF k = 0 THEN n ELSE Smaller(n, k)

\* Faulty variant: each half of the middle truncation has the whole length.
Truncated_NotHalved(n) ==
    IF n <= truncate.limit THEN n
    ELSE IF truncate.side = "middle" THEN Smaller(n, truncate.limit) + LastKept(n, truncate.limit)
    ELSE Smaller(n, truncate.limit)

\* The characters kept of a text of n.
Truncated(n) ==
    LET half == truncate.limit \div 2 IN
    IF n <= truncate.limit THEN n
    ELSE IF truncate.side = "left" THEN truncate.limit
    ELSE IF truncate.side = "right" THEN LastKept(n, truncate.limit)
    ELSE half + LastKept(n, half)

\* What a tool that returns is answered with.
Response ==
    {[images |-> m, video |-> v, text |-> Truncated(n), error |-> FALSE] :
        m \in 0 .. MaxImages, v \in BOOLEAN, n \in TextLengths}

\* An unknown tool, arguments that are no JSON, a create or a function tool
\* that raises: the error is the answer.
CallRefused(i) ==
    /\ Step(i, "started", "answered")
    /\ shown' = [shown EXCEPT ![i] = ErrorText]
    /\ UNCHANGED <<state, data, open, version, output, truncate>>

CallFunction(i) ==
    /\ Step(i, "started", "answered")
    /\ \E r \in Response : shown' = [shown EXCEPT ![i] = r]
    /\ UNCHANGED <<state, data, open, version, output, truncate>>

CallCreate(i) ==
    /\ Step(i, "started", "created")
    /\ open' = open + 1
    /\ UNCHANGED <<state, data, shown, version, output, truncate>>

\* Faulty variant: an execute that raises is answered at once.
CallExecute_NoFinally(i) ==
    /\ \/ /\ Step(i, "created", "answered")
          /\ shown' = [shown EXCEPT ![i] = ErrorText]
       \/ /\ Step(i, "created", "releasing")
          /\ \E r \in Response : shown' = [shown EXCEPT ![i] = r]
    /\ UNCHANGED <<state, data, open, version, output, truncate>>

\* execute returns or raises; release follows in the finally clause.
CallExecute(i) ==
    /\ Step(i, "created", "releasing")
    /\ \E r \in Response \cup {ErrorText} : shown' = [shown EXCEPT ![i] = r]
    /\ UNCHANGED <<state, data, open, version, output, truncate>>

CallRelease(i) ==
    /\ Step(i, "releasing", "answered")
    /\ open' = open - 1
    /\ UNCHANGED <<state, data, shown, version, output, truncate>>

\* release raises: gather raises at once and run() ends; the other calls of the
\* turn go on by themselves.
CallReleaseRaises(i) ==
    /\ Step(i, "releasing", "raised")
    /\ open' = open - 1
    /\ state' = "raised"
    /\ UNCHANGED <<data, shown, version, output, truncate>>

CallTool(i) ==
    \/ CallRefused(i) \/ CallFunction(i) \/ CallCreate(i) \/ CallExecute(i)
    \/ CallRelease(i) \/ CallReleaseRaises(i)

-----------------------------------------------------------------------------
\* Faulty variants: gather returns with the first answer; it waits for as many
\* answers as calls are allowed.
Gathered_First ==
    /\ state = "processing_tools"
    /\ \E i \in Calls : call[i] = "answered"

Gathered_EverySlot ==
    /\ state = "processing_tools"
    /\ \A i \in Calls : call[i] = "answered"

Gathered ==
    /\ state = "processing_tools"
    /\ \A i \in Calls : call[i] \in {"none", "answered"}

WithImages == {i \in Calls : call[i] = "answered" /\ shown[i].images > 0}
Unsupported ==
    \/ \E i \in Calls : call[i] = "answered" /\ shown[i].video
    \/ WithImages # {} /\ ~image_processor

\* A video, or an image without an image processor, is an error.
handle_processing_tools_state_Raises ==
    /\ Gathered /\ Unsupported
    /\ state' = "raised"
    /\ call' = NoCalls /\ shown' = [i \in Calls |-> ErrorText]
    /\ UNCHANGED <<data, open, version, output, truncate>>

\* Every image of every response, in whatever order.
new_images_this_turn ==
    {image \in WithImages \X (1 .. MaxImages) : image[2] <= shown[image[1]].images}

\* Faulty variant: a response that just fills the length is kept.
TooLong_OffByOne(n) == Len(response_mask) + n > response_length

ToolTokens(n) ==
    /\ prompt_ids' = prompt_ids \o Repeat("tool", n)
    /\ response_mask' = response_mask \o Repeat(0, n)
    /\ response_logprobs' =
           response_logprobs \o Repeat(0, IF response_logprobs = <<>> THEN 0 ELSE n)

TooLong(n) == Len(response_mask) + n >= response_length

\* Faulty variant: the images of a dropped response are kept.
handle_processing_tools_state_KeepImages ==
    /\ Gathered /\ ~Unsupported
    /\ call' = NoCalls /\ shown' = [i \in Calls |-> ErrorText]
    /\ \E n \in 1 .. MaxToolTokens :
         \/ /\ TooLong(n)
            /\ state' = "terminated"
            /\ image_data' = image_data + Cardinality(new_images_this_turn)
            /\ UNCHANGED <<prompt_ids, response_mask, response_logprobs, user_turns,
                           placeholders, truncate>>
         \/ /\ ~TooLong(n)
            /\ state' = "generating"
            /\ image_data' = image_data + Cardinality(new_images_this_turn)
            /\ placeholders' = placeholders + Cardinality(WithImages)
            /\ ToolTokens(n)
            /\ user_turns' = user_turns + 1
    /\ UNCHANGED <<assistant_turns, min_global_steps, max_global_steps, began, ended, open,
                   version, output, truncate>>

\* The tool responses of the turn, n tokens of them, are added to the prompt,
\* unless the response would get too long. One placeholder per response with
\* images.
handle_processing_tools_state ==
    /\ Gathered /\ ~Unsupported
    /\ call' = NoCalls /\ shown' = [i \in Calls |-> ErrorText]
    /\ \E n \in 1 .. MaxToolTokens :
         \/ /\ TooLong(n)
            /\ state' = "terminated"
            /\ UNCHANGED <<prompt_ids, response_mask, response_logprobs, user_turns,
                           image_data, placeholders, truncate>>
         \/ /\ ~TooLong(n)
            /\ state' = "generating"
            /\ image_data' = image_data + Cardinality(new_images_this_turn)
            /\ placeholders' = placeholders + Cardinality(WithImages)
            /\ ToolTokens(n)
            /\ user_turns' = user_turns + 1
    /\ UNCHANGED <<assistant_turns, min_global_steps, max_global_steps, began, ended, open,
                   version, output, truncate>>

\* seq[-k:] and seq[:k] of Python: the last zero elements are all of them.
LastOf(s, k) == IF k = 0 THEN s ELSE SubSeq(s, Len(s) - k + 1, Len(s))
FirstOf(s, k) == SubSeq(s, 1, Smaller(k, Len(s)))

\* Faulty variant: the mask is not cut.
Finalize_MaskUncut ==
    /\ state = "terminated"
    /\ output' = [prompt_ids |-> FirstOf(prompt_ids, Len(prompt_ids) - Len(response_mask)),
                  response_ids |->
                      FirstOf(LastOf(prompt_ids, Len(response_mask)), response_length),
                  response_mask |-> response_mask,
                  response_logprobs |-> FirstOf(response_logprobs, response_length)]
    /\ state' = "returned"
    /\ UNCHANGED <<data, tools, version, truncate>>

\* Finalize output, at the end of run().
Finalize ==
    /\ state = "terminated"
    /\ output' = [prompt_ids |-> FirstOf(prompt_ids, Len(prompt_ids) - Len(response_mask)),
                  response_ids |->
                      FirstOf(LastOf(prompt_ids, Len(response_mask)), response_length),
                  response_mask |-> FirstOf(response_mask, response_length),
                  response_logprobs |-> FirstOf(response_logprobs, response_length)]
    /\ state' = "returned"
    /\ UNCHANGED <<data, tools, version, truncate>>

-----------------------------------------------------------------------------
Loop ==
    \/ handle_pending_state \/ GenerateCall \/ handle_generating_state
    \/ handle_processing_tools_state \/ handle_processing_tools_state_Raises
    \/ Finalize

Next == Loop \/ NewVersion \/ \E i \in Calls : CallTool(i)

\* The event loop runs what is ready, servers answer, tools return.
Fairness == WF_vars(Loop) /\ \A i \in Calls : WF_vars(CallTool(i))

Spec == Init /\ [][Next]_vars /\ Fairness

-----------------------------------------------------------------------------
Token == {"prompt", "model", "tool"}

\* Type invariant; prompt and response fit the context.
TypeOK ==
    /\ state \in {"pending", "generating", "waiting", "processing_tools", "terminated",
                  "returned", "raised"}
    /\ prompt_ids \in Seq(Token) /\ Len(prompt_ids) <= prompt_length + response_length
    /\ response_mask \in Seq({0, 1}) /\ response_logprobs \in Seq({0, 1})
    /\ assistant_turns \in Nat /\ user_turns \in Nat
    /\ image_data \in Nat /\ placeholders \in Nat
    /\ min_global_steps \in Int /\ max_global_steps \in Int
    /\ call \in [Calls -> {"none", "started", "created", "releasing", "answered", "raised"}]
    /\ shown \in [Calls -> Response \cup {ErrorText}]
    /\ open \in Nat /\ truncate \in Truncations
    /\ began \in Int /\ ended \in Int /\ version \in 0 .. MaxVersion
    /\ output \in [prompt_ids : Seq(Token), response_ids : Seq(Token),
                   response_mask : Seq({0, 1}), response_logprobs : Seq({0, 1})]

\* What run() returns lines up: the prompt is the prompt, the mask has a 1 for
\* every token of the model and a 0 for every token of a tool, and so have the
\* log probs if there are any.
Aligned ==
    state = "returned" =>
        LET ids == output.response_ids mask == output.response_mask IN
        /\ \A i \in DOMAIN output.prompt_ids : output.prompt_ids[i] = "prompt"
        /\ Len(ids) = Len(mask) /\ Len(ids) <= response_length
        /\ \A i \in DOMAIN ids : ids[i] = IF mask[i] = 1 THEN "model" ELSE "tool"
        /\ output.response_logprobs \in {<<>>, mask}

\* A trajectory starts and ends with tokens of the model, also after the cut to
\* response_length: tool tokens that nothing follows would only dilute the loss.
EndsWithModel ==
    state = "returned" =>
        LET mask == output.response_mask IN
        mask # <<>> /\ mask[1] = 1 /\ mask[Len(mask)] = 1

\* The recorded span reaches from the weights the first turn began with to the
\* weights the last turn ended with, however many turns and syncs lie between.
StepsSpan ==
    state = "returned" => min_global_steps = began /\ max_global_steps = ended

\* No tool instance is alive when the model generates or the loop has returned.
NoOpenInstance ==
    state \in {"generating", "waiting", "terminated", "returned"} => open = 0

\* One placeholder in the prompt for every image given to the processor.
ImagesMatch == state = "generating" \/ state = "returned" => image_data = placeholders

\* What the trainer gets from run() is well formed and usable as it is: ids, mask and
\* log probs line up, it starts and ends with tokens of the model, images match
\* placeholders, and the recorded versions are those of its turns.
UsableTrajectory == TypeOK /\ Aligned /\ EndsWithModel /\ ImagesMatch /\ StepsSpan

\* _call_tool: no more of a tool's text than max_tool_response_length gets into the
\* prompt, whichever side is cut, except where the number of characters to keep at
\* the end comes to zero, and text[-0:] is the whole text.
ToolTextBounded ==
    \A i \in Calls : call[i] = "answered" /\ ~shown[i].error =>
        \/ shown[i].text <= truncate.limit
        \/ truncate.side = "middle" /\ truncate.limit <= 1
        \/ truncate.side = "right" /\ truncate.limit = 0

\* Instances are released before the model goes on, and in the end every one of them
\* is, also when one call of a turn makes run() raise while the others still run.
EveryInstanceReleased == []NoOpenInstance /\ <>[](open = 0)

\* The loop ends, also without a limit on the turns, and leaves no instance open.
LoopEnds == <>(state \in {"returned", "raised"}) /\ EveryInstanceReleased
=============================================================================
