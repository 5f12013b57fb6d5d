------------------------- MODULE ToolAgentLoopProofs -------------------------
(***************************************************************************)
(* Proofs about one trajectory of the tool agent, for all lengths, turn    *)
(* limits, numbers of parallel calls, truncations and weight versions.     *)
(***************************************************************************)
EXTENDS ToolAgentLoop, FiniteSetTheorems, SequenceTheorems, TLAPS

-----------------------------------------------------------------------------
(* Sequences that grow by a run of equal elements. *)

\* A sequence followed by n times x.
Grown(s, x, n) == s \o Repeat(x, n)

LEMMA LongerIds ==
  ASSUME NEW s \in Seq(Token), NEW x \in Token, NEW n \in Nat
  PROVE  /\ Grown(s, x, n) \in Seq(Token)
         /\ Len(Grown(s, x, n)) = Len(s) + n
         /\ \A i \in 1 .. Len(s) : Grown(s, x, n)[i] = s[i]
         /\ \A i \in Len(s) + 1 .. Len(s) + n : Grown(s, x, n)[i] = x
BY DEF Grown, Repeat

LEMMA LongerMask ==
  ASSUME NEW s \in Seq({0, 1}), NEW x \in {0, 1}, NEW n \in Nat
  PROVE  /\ Grown(s, x, n) \in Seq({0, 1})
         /\ Len(Grown(s, x, n)) = Len(s) + n
         /\ \A i \in 1 .. Len(s) : Grown(s, x, n)[i] = s[i]
         /\ \A i \in Len(s) + 1 .. Len(s) + n : Grown(s, x, n)[i] = x
<1>1. Grown(s, x, n) \in Seq({0, 1})
  BY DEF Grown, Repeat
<1>2. Len(Grown(s, x, n)) = Len(s) + n
  BY DEF Grown, Repeat
<1>3. \A i \in 1 .. Len(s) : Grown(s, x, n)[i] = s[i]
  BY DEF Grown, Repeat
<1>4. \A i \in Len(s) + 1 .. Len(s) + n : Grown(s, x, n)[i] = x
  BY DEF Grown, Repeat
<1> QED
  BY <1>1, <1>2, <1>3, <1>4

LEMMA RepeatNone ==
  ASSUME NEW S, NEW s \in Seq(S), NEW x
  PROVE  Grown(s, x, 0) = s
<1>1. Repeat(x, 0) = <<>>
  BY DEF Repeat
<1> QED
  BY <1>1, ConcatEmptySeq DEF Grown

-----------------------------------------------------------------------------
(* Token ids and mask, as they are while the loop runs. *)

\* Behind the prompt the ids and the mask line up, token by token.
Lines(ids, mask) ==
    /\ Len(mask) <= Len(ids) /\ Len(ids) - Len(mask) <= prompt_length
    /\ \A i \in 1 .. Len(ids) - Len(mask) : ids[i] = "prompt"
    /\ \A i \in 1 .. Len(mask) :
         ids[Len(ids) - Len(mask) + i] = IF mask[i] = 1 THEN "model" ELSE "tool"

Source(bit) == IF bit = 1 THEN "model" ELSE "tool"

LEMMA LinesGrow ==
  ASSUME NEW ids \in Seq(Token), NEW mask \in Seq({0, 1}), Lines(ids, mask),
         NEW bit \in {0, 1}, NEW n \in Nat
  PROVE  Lines(Grown(ids, Source(bit), n), Grown(mask, bit, n))
<1> DEFINE I == Grown(ids, Source(bit), n)
           M == Grown(mask, bit, n)
           p == Len(ids) - Len(mask)
<1>1. Source(bit) \in Token
  BY DEF Source, Token
<1>2. /\ I \in Seq(Token) /\ Len(I) = Len(ids) + n
      /\ \A i \in 1 .. Len(ids) : I[i] = ids[i]
      /\ \A i \in Len(ids) + 1 .. Len(ids) + n : I[i] = Source(bit)
  BY <1>1, LongerIds
<1>3. /\ M \in Seq({0, 1}) /\ Len(M) = Len(mask) + n
      /\ \A i \in 1 .. Len(mask) : M[i] = mask[i]
      /\ \A i \in Len(mask) + 1 .. Len(mask) + n : M[i] = bit
  BY LongerMask
<1>4. Len(ids) \in Nat /\ Len(mask) \in Nat /\ Len(mask) <= Len(ids) /\ p <= prompt_length
  BY LenProperties DEF Lines
<1> HIDE DEF I, M
<1>5. Len(I) - Len(M) = p /\ p \in Nat /\ Len(M) <= Len(I)
  BY <1>2, <1>3, <1>4
<1>6. ASSUME NEW i \in 1 .. p  PROVE I[i] = "prompt"
  <2>1. i \in 1 .. Len(ids)
    BY <1>4
  <2> QED
    BY <2>1, <1>2 DEF Lines
<1>7. ASSUME NEW i \in 1 .. Len(M)  PROVE I[p + i] = Source(M[i])
  <2>1. CASE i <= Len(mask)
    <3>1. i \in 1 .. Len(mask) /\ p + i \in 1 .. Len(ids)
      BY <2>1, <1>3, <1>4, <1>5
    <3>2. ids[p + i] = Source(mask[i])
      BY <3>1 DEF Lines, Source
    <3> QED
      BY <3>1, <3>2, <1>2, <1>3
  <2>2. CASE ~(i <= Len(mask))
    <3>1. i \in Len(mask) + 1 .. Len(mask) + n /\ p + i \in Len(ids) + 1 .. Len(ids) + n
      BY <2>2, <1>3, <1>4, <1>5
    <3> QED
      BY <3>1, <1>2, <1>3
  <2> QED
    BY <2>1, <2>2
<1>8. Lines(I, M)
  BY <1>4, <1>5, <1>6, <1>7 DEF Lines, Source
<1> QED
  BY <1>8 DEF I, M

-----------------------------------------------------------------------------
(* The inductive invariants. *)

Running == state \in {"pending", "generating", "waiting"}

\* Tokens: ids and mask line up, log probs are there for all of the mask or for
\* none, a response begins with the model and is cut behind one of its tokens.
TokenInv ==
    /\ Lines(prompt_ids, response_mask)
    /\ response_logprobs = IF calculate_log_probs THEN response_mask ELSE <<>>
    /\ state = "pending" => prompt_ids = <<>> /\ response_mask = <<>>
    /\ response_mask # <<>> => response_mask[1] = 1
    /\ Running => Len(response_mask) < response_length
    /\ state = "processing_tools" =>
         /\ response_mask # <<>> /\ Len(response_mask) < response_length
         /\ response_mask[Len(response_mask)] = 1
    /\ ~may_be_cut /\ state \in {"terminated", "returned"} =>
         /\ response_mask # <<>>
         /\ response_mask[Smaller(response_length, Len(response_mask))] = 1

\* Versions: stamps are those of the turns, and of no later version.
SpanInv ==
    /\ assistant_turns > 0 => /\ min_global_steps = began /\ max_global_steps = ended
                              /\ ended \in 0 .. version
    /\ state \in {"processing_tools", "terminated", "returned"} => assistant_turns > 0

\* Tool instances: those that are open belong to calls between create and release,
\* and only a turn of tools, or a raised one, has calls.
Alive == {i \in Calls : call[i] \in {"created", "releasing"}}
InstanceInv ==
    /\ open = Cardinality(Alive)
    /\ state \notin {"processing_tools", "raised"} => call = NoCalls

-----------------------------------------------------------------------------
(* Types and tokens are preserved together: that the context is never exceeded *)
(* rests on the number of prompt tokens, which only the mask tells.            *)

Tokens == TypeOK /\ TokenInv

LEMMA SameResponses ==
  ASSUME truncate' = truncate
  PROVE  Response' = Response
BY DEF Response, Truncated

LEMMA ResponseText == \A r \in Response : \E n \in TextLengths : r.text = Truncated(n)
BY DEF Response

LEMMA TokensInit == Init => Tokens
<1> SUFFICES ASSUME Init PROVE Tokens
  OBVIOUS
<1> USE AgentAssumption
<1>1. /\ state = "pending" /\ prompt_ids = <<>> /\ response_mask = <<>>
      /\ response_logprobs = <<>> /\ version = 0
  BY DEF Init
<1>2. call \in [Calls -> {"none", "started", "created", "releasing", "answered", "raised"}]
  BY DEF Init, NoCalls
<1>3. shown \in [Calls -> Response \cup {ErrorText}]
  BY DEF Init
<1>4. output \in [prompt_ids : Seq(Token), response_ids : Seq(Token),
                  response_mask : Seq({0, 1}), response_logprobs : Seq({0, 1})]
  <2>1. <<>> \in Seq(Token) /\ <<>> \in Seq({0, 1})
    OBVIOUS
  <2> QED
    BY <2>1 DEF Init, NoOutput
<1>5. prompt_ids \in Seq(Token) /\ response_mask \in Seq({0, 1}) /\ response_logprobs \in Seq({0, 1})
  BY <1>1
<1>6. TypeOK
  BY <1>1, <1>2, <1>3, <1>4, <1>5 DEF Init, TypeOK
<1>7. Lines(<<>>, <<>>)
  BY DEF Lines
<1>8. TokenInv
  BY <1>1, <1>7 DEF TokenInv, Running
<1> QED
  BY <1>6, <1>8 DEF Tokens

LEMMA TokensPending ==
  ASSUME Tokens, handle_pending_state
  PROVE  Tokens'
<1> USE AgentAssumption
<1>1. PICK n \in 1 .. prompt_length : prompt_ids' = Repeat("prompt", n)
  BY DEF handle_pending_state
<1>2. /\ prompt_ids' \in Seq(Token) /\ Len(prompt_ids') = n
      /\ \A i \in 1 .. n : prompt_ids'[i] = "prompt"
  BY <1>1 DEF Repeat, Token
<1>3. /\ response_mask' = <<>> /\ response_logprobs' = <<>> /\ state' = "generating"
  BY DEF handle_pending_state, Tokens, TokenInv
<1>4. TypeOK'
  <2>1. Len(prompt_ids') <= prompt_length + response_length
    BY <1>2
  <2>2. response_mask' \in Seq({0, 1}) /\ response_logprobs' \in Seq({0, 1})
    BY <1>3
  <2> QED
    BY <1>2, <1>3, <2>1, <2>2, SameResponses DEF Tokens, TypeOK, handle_pending_state, tools
<1>5. Lines(prompt_ids', response_mask')
  <2>1. Len(response_mask') = 0
    BY <1>3
  <2> QED
    BY <1>2, <2>1 DEF Lines
<1>6. TokenInv'
  BY <1>3, <1>5 DEF TokenInv, Running
<1> QED
  BY <1>4, <1>6 DEF Tokens

LEMMA TokensCall ==
  ASSUME Tokens, GenerateCall
  PROVE  Tokens'
<1>1. TypeOK'
  BY SameResponses DEF Tokens, TypeOK, GenerateCall, tools
<1>2. TokenInv'
  BY DEF Tokens, TokenInv, GenerateCall, Running
<1> QED
  BY <1>1, <1>2 DEF Tokens

\* A turn of the model: n tokens, within the context, all of them masked in.
LEMMA TokensGenerated ==
  ASSUME Tokens, handle_generating_state
  PROVE  Tokens'
<1> USE AgentAssumption
<1>1. PICK n \in (IF may_be_cut THEN 0 ELSE 1) .. MaxTokens :
      \E calls \in 0 .. (IF n = 0 THEN 0 ELSE max_parallel_calls + 1) :
      \E stamped \in (IF n = 0 THEN BOOLEAN ELSE {TRUE}) :
         /\ prompt_ids' = prompt_ids \o Repeat("model", n)
         /\ response_mask' = response_mask \o Repeat(1, n)
         /\ response_logprobs' =
                response_logprobs \o Repeat(1, IF calculate_log_probs THEN n ELSE 0)
         /\ RecordSteps(IF stamped THEN began ELSE -1, IF stamped THEN version ELSE -1)
         /\ state' = AfterGenerate(n, calls)
         /\ call' = IF state' = "processing_tools"
                    THEN [i \in Calls |-> IF i <= calls THEN "started" ELSE "none"]
                    ELSE NoCalls
  BY DEF handle_generating_state
<1>2. PICK calls \in 0 .. (IF n = 0 THEN 0 ELSE max_parallel_calls + 1) :
      \E stamped \in (IF n = 0 THEN BOOLEAN ELSE {TRUE}) :
         /\ RecordSteps(IF stamped THEN began ELSE -1, IF stamped THEN version ELSE -1)
         /\ state' = AfterGenerate(n, calls)
         /\ call' = IF state' = "processing_tools"
                    THEN [i \in Calls |-> IF i <= calls THEN "started" ELSE "none"]
                    ELSE NoCalls
  BY <1>1
<1>3. /\ prompt_ids \in Seq(Token) /\ response_mask \in Seq({0, 1})
      /\ Len(prompt_ids) \in Nat /\ Len(response_mask) \in Nat
      /\ Len(prompt_ids) <= prompt_length + response_length
  BY DEF Tokens, TypeOK
<1>4. n \in Nat /\ (~may_be_cut => n > 0) /\ n <= response_length
      /\ Len(prompt_ids) + n <= prompt_length + response_length
  <2>1. n \in Int /\ n <= MaxTokens /\ n >= (IF may_be_cut THEN 0 ELSE 1)
    BY <1>3 DEF MaxTokens, Smaller
  <2> QED
    BY <2>1, <1>3 DEF MaxTokens, Smaller
<1>5. /\ prompt_ids' = Grown(prompt_ids, Source(1), n)
      /\ response_mask' = Grown(response_mask, 1, n)
  BY <1>1 DEF Grown, Source
<1>6. "model" \in Token /\ Source(1) = "model"
  BY DEF Token, Source
<1>7. /\ prompt_ids' \in Seq(Token) /\ Len(prompt_ids') = Len(prompt_ids) + n
  BY <1>3, <1>4, <1>5, <1>6 DEF Grown, Repeat
<1>8. /\ response_mask' \in Seq({0, 1}) /\ Len(response_mask') = Len(response_mask) + n
      /\ \A i \in 1 .. Len(response_mask) : response_mask'[i] = response_mask[i]
      /\ \A i \in Len(response_mask) + 1 .. Len(response_mask) + n : response_mask'[i] = 1
  <2>1. response_mask' \in Seq({0, 1}) /\ Len(response_mask') = Len(response_mask) + n
    BY <1>3, <1>4, <1>5 DEF Grown, Repeat
  <2>2. \A i \in 1 .. Len(response_mask) : response_mask'[i] = response_mask[i]
    BY <1>3, <1>4, <1>5 DEF Grown, Repeat
  <2>3. \A i \in Len(response_mask) + 1 .. Len(response_mask) + n : response_mask'[i] = 1
    BY <1>3, <1>4, <1>5 DEF Grown, Repeat
  <2> QED
    BY <2>1, <2>2, <2>3
<1>9. response_logprobs' = IF calculate_log_probs THEN response_mask' ELSE <<>>
  <2>1. CASE calculate_log_probs
    BY <1>1, <2>1 DEF Tokens, TokenInv
  <2>2. CASE ~calculate_log_probs
    <3>1. <<>> \in Seq({0, 1}) /\ response_logprobs = <<>>
      BY <2>2 DEF Tokens, TokenInv
    <3>2. response_logprobs' = Grown(response_logprobs, 1, 0)
      BY <1>1, <2>2 DEF Grown
    <3> QED
      BY <2>2, <3>1, <3>2, RepeatNone
  <2> QED
    BY <2>1, <2>2
<1>10. Lines(prompt_ids', response_mask')
  BY <1>3, <1>4, <1>5, LinesGrow DEF Tokens, TokenInv
<1>11. /\ state' \in {"terminated", "processing_tools"}
       /\ state' = "processing_tools" => n # 0 /\ Len(response_mask') < response_length
  <2>1. state' = "processing_tools" => calls # 0 /\ ~(Len(response_mask) + n >= response_length)
    BY <1>2 DEF AfterGenerate
  <2> QED
    BY <1>2, <1>3, <1>4, <1>8, <2>1 DEF AfterGenerate
<1>12. Len(response_mask) < response_length /\ (response_mask # <<>> => response_mask[1] = 1)
  BY DEF Tokens, TokenInv, Running, handle_generating_state
<1>13. TypeOK'
  <2>1. call' \in [Calls -> {"none", "started", "created", "releasing", "answered", "raised"}]
    BY <1>2 DEF NoCalls
  <2>2. response_logprobs' \in Seq({0, 1})
    BY <1>8, <1>9
  <2>3. min_global_steps' \in Int /\ max_global_steps' \in Int
    BY <1>2 DEF RecordSteps, Tokens, TypeOK
  <2>4. assistant_turns' \in Nat /\ ended' \in Int
    BY DEF Tokens, TypeOK, handle_generating_state
  <2>5. Len(prompt_ids') <= prompt_length + response_length
    BY <1>4, <1>7
  <2> QED
    BY <1>7, <1>8, <1>11, <2>1, <2>2, <2>3, <2>4, <2>5, SameResponses
    DEF Tokens, TypeOK, handle_generating_state
<1>14. response_mask' # <<>> => response_mask'[1] = 1
  <2>1. CASE response_mask = <<>>
    <3> SUFFICES ASSUME response_mask' # <<>> PROVE response_mask'[1] = 1
      OBVIOUS
    <3>1. Len(response_mask) = 0 /\ n # 0
      BY <2>1, <1>8
    <3>2. 1 \in Len(response_mask) + 1 .. Len(response_mask) + n
      BY <3>1, <1>4
    <3> QED
      BY <3>2, <1>8
  <2>2. CASE response_mask # <<>>
    <3>1. 1 \in 1 .. Len(response_mask)
      BY <2>2, <1>3
    <3> QED
      BY <3>1, <2>2, <1>8, <1>12
  <2> QED
    BY <2>1, <2>2
<1>15. n # 0 => /\ response_mask' # <<>>
                /\ response_mask'[Len(response_mask')] = 1
                /\ response_mask'[Smaller(response_length, Len(response_mask'))] = 1
  <2> SUFFICES ASSUME n # 0
               PROVE  /\ response_mask' # <<>>
                      /\ response_mask'[Len(response_mask')] = 1
                      /\ response_mask'[Smaller(response_length, Len(response_mask'))] = 1
    OBVIOUS
  <2>1. Len(response_mask') > 0
    BY <1>3, <1>4, <1>8
  <2>2. Len(response_mask') \in Len(response_mask) + 1 .. Len(response_mask) + n
    BY <1>3, <1>4, <1>8
  <2>3. Smaller(response_length, Len(response_mask'))
            \in Len(response_mask) + 1 .. Len(response_mask) + n
    BY <1>3, <1>4, <1>8, <1>12 DEF Smaller
  <2> QED
    BY <2>1, <2>2, <2>3, <1>8
<1>16. TokenInv'
  BY <1>4, <1>9, <1>10, <1>11, <1>14, <1>15 DEF TokenInv, Running
<1> QED
  BY <1>13, <1>16 DEF Tokens

LEMMA TokensTools ==
  ASSUME Tokens, handle_processing_tools_state
  PROVE  Tokens'
<1> USE AgentAssumption
<1>1. /\ state = "processing_tools"
      /\ call' = NoCalls /\ shown' = [i \in Calls |-> ErrorText]
      /\ UNCHANGED <<assistant_turns, min_global_steps, max_global_steps, began, ended, open,
                     version, output, truncate>>
  BY DEF handle_processing_tools_state, Gathered
<1>2. /\ prompt_ids \in Seq(Token) /\ response_mask \in Seq({0, 1})
      /\ Len(prompt_ids) \in Nat /\ Len(response_mask) \in Nat
      /\ Len(prompt_ids) <= prompt_length + response_length
  BY DEF Tokens, TypeOK
<1>3. /\ response_mask # <<>> /\ Len(response_mask) < response_length
      /\ response_mask[1] = 1 /\ response_mask[Len(response_mask)] = 1
  BY <1>1 DEF Tokens, TokenInv
<1>4. /\ call' \in [Calls -> {"none", "started", "created", "releasing", "answered", "raised"}]
      /\ shown' \in [Calls -> Response \cup {ErrorText}]
  BY <1>1 DEF NoCalls
<1>5. PICK n \in 1 .. MaxToolTokens :
         \/ /\ TooLong(n)
            /\ state' = "terminated"
            /\ UNCHANGED <<prompt_ids, response_mask, response_logprobs, user_turns,
                           image_data, placeholders>>
         \/ /\ ~TooLong(n)
            /\ state' = "generating"
            /\ image_data' = image_data + Cardinality(new_images_this_turn)
            /\ placeholders' = placeholders + Cardinality(WithImages)
            /\ ToolTokens(n)
            /\ user_turns' = user_turns + 1
  BY DEF handle_processing_tools_state
<1>6. CASE /\ state' = "terminated"
           /\ UNCHANGED <<prompt_ids, response_mask, response_logprobs, user_turns,
                          image_data, placeholders>>
  <2>1. TypeOK'
    BY <1>1, <1>4, <1>6, SameResponses DEF Tokens, TypeOK
  <2>2. Smaller(response_length, Len(response_mask)) = Len(response_mask)
    BY <1>2, <1>3 DEF Smaller
  <2>3. TokenInv'
    BY <1>3, <1>6, <2>2 DEF Tokens, TokenInv, Running
  <2> QED
    BY <2>1, <2>3 DEF Tokens
<1>7. CASE /\ ~TooLong(n)
           /\ state' = "generating"
           /\ image_data' = image_data + Cardinality(new_images_this_turn)
           /\ placeholders' = placeholders + Cardinality(WithImages)
           /\ ToolTokens(n)
           /\ user_turns' = user_turns + 1
  <2>1. n \in Nat /\ Len(response_mask) + n < response_length
    BY <1>2, <1>7 DEF TooLong
  <2>2. /\ prompt_ids' = Grown(prompt_ids, Source(0), n)
        /\ response_mask' = Grown(response_mask, 0, n)
    BY <1>7 DEF ToolTokens, Grown, Source
  <2>3. "tool" \in Token /\ Source(0) = "tool"
    BY DEF Token, Source
  <2>4. /\ prompt_ids' \in Seq(Token) /\ Len(prompt_ids') = Len(prompt_ids) + n
    BY <1>2, <2>1, <2>2, <2>3 DEF Grown, Repeat
  <2>5. response_mask' \in Seq({0, 1}) /\ Len(response_mask') = Len(response_mask) + n
    BY <1>2, <2>1, <2>2 DEF Grown, Repeat
  <2>6. \A i \in 1 .. Len(response_mask) : response_mask'[i] = response_mask[i]
    BY <1>2, <2>1, <2>2 DEF Grown, Repeat
  <2>7. response_logprobs' = IF calculate_log_probs THEN response_mask' ELSE <<>>
    <3>1. CASE calculate_log_probs
      BY <1>3, <1>7, <3>1 DEF Tokens, TokenInv, ToolTokens
    <3>2. CASE ~calculate_log_probs
      <4>1. <<>> \in Seq({0, 1}) /\ response_logprobs = <<>>
        BY <3>2 DEF Tokens, TokenInv
      <4>2. response_logprobs' = Grown(response_logprobs, 0, 0)
        BY <1>7, <4>1 DEF Grown, ToolTokens
      <4> QED
        BY <3>2, <4>1, <4>2, RepeatNone
    <3> QED
      BY <3>1, <3>2
  <2>8. Lines(prompt_ids, response_mask)
    BY DEF Tokens, TokenInv
  <2>9. Lines(prompt_ids', response_mask')
    BY <1>2, <2>1, <2>2, <2>8, LinesGrow
  <2>10. Len(prompt_ids') <= prompt_length + response_length
    BY <1>2, <2>1, <2>4, <2>8 DEF Lines
  <2>11. image_data' \in Nat /\ placeholders' \in Nat /\ user_turns' \in Nat
    <3>1. IsFiniteSet(Calls) /\ IsFiniteSet(1 .. MaxImages)
      BY FS_Interval DEF Calls
    <3>2. WithImages \in SUBSET Calls
      BY DEF WithImages
    <3>3. IsFiniteSet(WithImages) /\ Cardinality(WithImages) \in Nat
      BY <3>1, <3>2, FS_Subset, FS_CardinalityType
    <3>4. IsFiniteSet(WithImages \X (1 .. MaxImages))
      BY <3>1, <3>3, FS_Product
    <3>5. new_images_this_turn \in SUBSET (WithImages \X (1 .. MaxImages))
      BY DEF new_images_this_turn
    <3>6. Cardinality(new_images_this_turn) \in Nat
      BY <3>4, <3>5, FS_Subset, FS_CardinalityType
    <3>7. image_data \in Nat /\ placeholders \in Nat /\ user_turns \in Nat
      BY DEF Tokens, TypeOK
    <3> QED
      BY <1>7, <3>3, <3>6, <3>7
  <2>12. TypeOK'
    <3>1. response_logprobs' \in Seq({0, 1})
      BY <2>5, <2>7
    <3> QED
      BY <1>1, <1>4, <1>7, <2>4, <2>5, <2>10, <2>11, <3>1, SameResponses DEF Tokens, TypeOK
  <2>13. response_mask'[1] = 1
    <3>1. 1 \in 1 .. Len(response_mask)
      BY <1>2, <1>3
    <3> QED
      BY <3>1, <1>3, <2>6
  <2>14. TokenInv'
    BY <1>7, <2>1, <2>5, <2>7, <2>9, <2>13 DEF TokenInv, Running
  <2> QED
    BY <2>12, <2>14 DEF Tokens
<1> QED
  BY <1>5, <1>6, <1>7

LEMMA TokensRaises ==
  ASSUME Tokens, handle_processing_tools_state_Raises
  PROVE  Tokens'
<1>1. /\ call' \in [Calls -> {"none", "started", "created", "releasing", "answered", "raised"}]
      /\ shown' \in [Calls -> Response \cup {ErrorText}]
  BY DEF NoCalls, handle_processing_tools_state_Raises
<1>2. TypeOK'
  BY <1>1, SameResponses DEF Tokens, TypeOK, handle_processing_tools_state_Raises, data
<1>3. TokenInv'
  BY DEF Tokens, TokenInv, handle_processing_tools_state_Raises, data, Running
<1> QED
  BY <1>2, <1>3 DEF Tokens

LEMMA TokensNewVersion ==
  ASSUME Tokens, NewVersion
  PROVE  Tokens'
<1>1. version' \in 0 .. MaxVersion
  BY AgentAssumption DEF Tokens, TypeOK, NewVersion
<1>2. TypeOK'
  BY <1>1, SameResponses DEF Tokens, TypeOK, NewVersion, data, tools
<1>3. TokenInv'
  BY DEF Tokens, TokenInv, NewVersion, data, Running
<1> QED
  BY <1>2, <1>3 DEF Tokens

LEMMA TokensCallTool ==
  ASSUME Tokens, NEW i \in Calls, CallTool(i), open' \in Nat
  PROVE  Tokens'
<1>1. call' \in [Calls -> {"none", "started", "created", "releasing", "answered", "raised"}]
  BY DEF Tokens, TypeOK, CallTool, CallRefused, CallFunction, CallCreate, CallExecute,
         CallRelease, CallReleaseRaises, Step
<1>2. shown' \in [Calls -> Response \cup {ErrorText}]
  BY DEF Tokens, TypeOK, CallTool, CallRefused, CallFunction, CallCreate, CallExecute,
         CallRelease, CallReleaseRaises
<1>3. /\ UNCHANGED <<data, version, output, truncate>>
      /\ state' \in {state, "raised"}
  BY DEF CallTool, CallRefused, CallFunction, CallCreate, CallExecute, CallRelease,
         CallReleaseRaises
<1>4. TypeOK'
  BY <1>1, <1>2, <1>3, SameResponses DEF Tokens, TypeOK, data
<1>5. TokenInv'
  <2>1. CASE state' = state
    BY <1>3, <2>1 DEF Tokens, TokenInv, data, Running
  <2>2. CASE state' = "raised"
    BY <1>3, <2>2 DEF Tokens, TokenInv, data, Running
  <2> QED
    BY <1>3, <2>1, <2>2
<1> QED
  BY <1>4, <1>5 DEF Tokens

\* The first k elements, or all of them if there are fewer.
LEMMA FirstOfSeq ==
  ASSUME NEW S, NEW s \in Seq(S), NEW k \in Nat
  PROVE  /\ FirstOf(s, k) \in Seq(S)
         /\ Len(FirstOf(s, k)) = Smaller(k, Len(s))
         /\ \A i \in 1 .. Smaller(k, Len(s)) : FirstOf(s, k)[i] = s[i]
<1> DEFINE m == Smaller(k, Len(s))
<1>1. m \in Nat /\ m <= Len(s)
  BY LenProperties DEF Smaller
<1>2. \A i \in 1 .. m : s[i] \in S
  BY <1>1, ElementOfSeq, LenProperties
<1> HIDE DEF m
<1>3. /\ SubSeq(s, 1, m) \in Seq(S)
      /\ Len(SubSeq(s, 1, m)) = IF 1 <= m THEN m - 1 + 1 ELSE 0
      /\ \A i \in 1 .. m - 1 + 1 : SubSeq(s, 1, m)[i] = s[1 + i - 1]
  BY <1>1, <1>2, SubSeqProperties
<1>4. \A i \in 1 .. m : SubSeq(s, 1, m)[i] = s[i]
  BY <1>1, <1>3
<1> QED
  BY <1>1, <1>3, <1>4 DEF FirstOf, m

\* The last k elements, k > 0.
LEMMA LastOfSeq ==
  ASSUME NEW S, NEW s \in Seq(S), NEW k \in 1 .. Len(s)
  PROVE  /\ LastOf(s, k) \in Seq(S)
         /\ Len(LastOf(s, k)) = k
         /\ \A i \in 1 .. k : LastOf(s, k)[i] = s[Len(s) - k + i]
<1> DEFINE m == Len(s) - k + 1
           l == Len(s)
<1>1. l \in Nat /\ m \in 1 .. l /\ l - m + 1 = k
  BY LenProperties
<1>2. \A i \in m .. l : s[i] \in S
  BY <1>1, ElementOfSeq
<1> HIDE DEF m, l
<1>3. /\ SubSeq(s, m, l) \in Seq(S)
      /\ Len(SubSeq(s, m, l)) = IF m <= l THEN l - m + 1 ELSE 0
      /\ \A i \in 1 .. l - m + 1 : SubSeq(s, m, l)[i] = s[m + i - 1]
  BY <1>1, <1>2, SubSeqProperties
<1>4. LastOf(s, k) = SubSeq(s, m, l)
  BY <1>1 DEF LastOf, m, l
<1>5. \A i \in 1 .. k : SubSeq(s, m, l)[i] = s[m + i - 1]
  BY <1>1, <1>3
<1>6. \A i \in 1 .. k : m + i - 1 = Len(s) - k + i
  BY <1>1 DEF m, l
<1>7. \A i \in 1 .. k : LastOf(s, k)[i] = s[Len(s) - k + i]
  BY <1>4, <1>5, <1>6
<1>8. LastOf(s, k) \in Seq(S) /\ Len(LastOf(s, k)) = k
  BY <1>1, <1>3, <1>4
<1> QED
  BY <1>7, <1>8

-----------------------------------------------------------------------------
(* What run() returns. *)

LEMMA TokensFinalize ==
  ASSUME Tokens, Finalize
  PROVE  Tokens'
<1> USE AgentAssumption
<1> DEFINE L == Len(response_mask)
<1>1. /\ prompt_ids \in Seq(Token) /\ response_mask \in Seq({0, 1})
      /\ response_logprobs \in Seq({0, 1})
      /\ Len(prompt_ids) \in Nat /\ L \in Nat /\ L <= Len(prompt_ids)
  BY DEF Tokens, TypeOK, TokenInv, Lines
<1>2. LastOf(prompt_ids, L) \in Seq(Token)
  <2>1. CASE L = 0
    BY <1>1, <2>1 DEF LastOf
  <2>2. CASE L # 0
    <3>1. L \in 1 .. Len(prompt_ids)
      BY <1>1, <2>2
    <3> QED
      BY <1>1, <3>1, LastOfSeq
  <2> QED
    BY <2>1, <2>2
<1>3. /\ FirstOf(prompt_ids, Len(prompt_ids) - L) \in Seq(Token)
      /\ FirstOf(LastOf(prompt_ids, L), response_length) \in Seq(Token)
  <2>1. Len(prompt_ids) - L \in Nat /\ response_length \in Nat
    BY <1>1
  <2> QED
    BY <1>1, <1>2, <2>1, FirstOfSeq
<1>4. /\ FirstOf(response_mask, response_length) \in Seq({0, 1})
      /\ FirstOf(response_logprobs, response_length) \in Seq({0, 1})
  BY <1>1, FirstOfSeq
<1>5. output' \in [prompt_ids : Seq(Token), response_ids : Seq(Token),
                   response_mask : Seq({0, 1}), response_logprobs : Seq({0, 1})]
  BY <1>3, <1>4 DEF Finalize
<1>6. TypeOK'
  BY <1>5, SameResponses DEF Tokens, TypeOK, Finalize, data, tools
<1>7. TokenInv'
  BY DEF Tokens, TokenInv, Finalize, data, Running
<1> QED
  BY <1>6, <1>7 DEF Tokens

LEMMA FinalizeAligned ==
  ASSUME Tokens, Finalize, ~may_be_cut
  PROVE  Aligned' /\ EndsWithModel'
<1> USE AgentAssumption
<1> DEFINE L == Len(response_mask)
           p == Len(prompt_ids) - L
           c == Smaller(response_length, L)
           tail == LastOf(prompt_ids, L)
           ids == FirstOf(tail, response_length)
           mask == FirstOf(response_mask, response_length)
           head == FirstOf(prompt_ids, p)
<1>1. /\ prompt_ids \in Seq(Token) /\ response_mask \in Seq({0, 1})
      /\ response_logprobs \in Seq({0, 1})
      /\ Len(prompt_ids) \in Nat /\ L \in Nat /\ L <= Len(prompt_ids)
  BY DEF Tokens, TypeOK, TokenInv, Lines
<1>2. state = "terminated"
  BY DEF Finalize
<1>3. response_mask # <<>> /\ response_mask[1] = 1 /\ response_mask[c] = 1
  BY <1>2 DEF Tokens, TokenInv
<1>4. L \in 1 .. Len(prompt_ids) /\ p \in Nat /\ p <= Len(prompt_ids)
  BY <1>1, <1>3
<1>5. /\ tail \in Seq(Token) /\ Len(tail) = L
      /\ \A i \in 1 .. L : tail[i] = prompt_ids[p + i]
  BY <1>1, <1>4, LastOfSeq
<1>6. c \in 1 .. L /\ c <= response_length
  BY <1>4, <1>1 DEF Smaller
<1> HIDE DEF tail
<1>7. /\ ids \in Seq(Token) /\ Len(ids) = c
      /\ \A i \in 1 .. c : ids[i] = tail[i]
  BY <1>5, FirstOfSeq
<1>8. /\ mask \in Seq({0, 1}) /\ Len(mask) = c
      /\ \A i \in 1 .. c : mask[i] = response_mask[i]
  BY <1>1, FirstOfSeq
<1>9. /\ head \in Seq(Token) /\ Len(head) = p
      /\ \A i \in 1 .. p : head[i] = prompt_ids[i]
  <2>1. Smaller(p, Len(prompt_ids)) = p
    BY <1>1, <1>4 DEF Smaller
  <2> QED
    BY <1>1, <1>4, <2>1, FirstOfSeq
<1>10. /\ \A i \in 1 .. p : prompt_ids[i] = "prompt"
       /\ \A i \in 1 .. L : prompt_ids[p + i] = IF response_mask[i] = 1 THEN "model" ELSE "tool"
  BY DEF Tokens, TokenInv, Lines
<1>11. /\ output'.prompt_ids = head /\ output'.response_ids = ids
       /\ output'.response_mask = mask
       /\ output'.response_logprobs = FirstOf(response_logprobs, response_length)
  BY DEF Finalize, tail
<1> HIDE DEF head, ids, mask, c, p
<1>12. \A i \in DOMAIN head : head[i] = "prompt"
  <2>1. DOMAIN head = 1 .. p
    BY <1>9, LenProperties
  <2> QED
    BY <1>9, <1>10, <2>1
<1>13. \A i \in DOMAIN ids : ids[i] = IF mask[i] = 1 THEN "model" ELSE "tool"
  <2>1. DOMAIN ids = 1 .. c
    BY <1>7, LenProperties
  <2>2. \A i \in 1 .. c : i \in 1 .. L
    BY <1>6
  <2> QED
    BY <1>5, <1>7, <1>8, <1>10, <2>1, <2>2
<1>14. output'.response_logprobs \in {<<>>, mask}
  <2>1. CASE calculate_log_probs
    BY <1>11, <2>1 DEF Tokens, TokenInv, mask
  <2>2. CASE ~calculate_log_probs
    <3>1. response_logprobs = <<>>
      BY <2>2 DEF Tokens, TokenInv
    <3>2. Smaller(response_length, Len(<<>>)) = 0
      BY DEF Smaller
    <3>3. FirstOf(<<>>, response_length) = <<>>
      BY <3>2, SubSeqEmpty DEF FirstOf
    <3> QED
      BY <1>11, <3>1, <3>3
  <2> QED
    BY <2>1, <2>2
<1>15. Aligned'
  BY <1>6, <1>7, <1>8, <1>11, <1>12, <1>13, <1>14 DEF Aligned
<1>16. mask # <<>> /\ mask[1] = 1 /\ mask[Len(mask)] = 1
  <2>1. 1 \in 1 .. c /\ c \in 1 .. c
    BY <1>6
  <2>2. mask # <<>>
    BY <1>8, <2>1
  <2> QED
    BY <1>3, <1>8, <2>1, <2>2
<1>17. EndsWithModel'
  BY <1>11, <1>16 DEF EndsWithModel
<1> QED
  BY <1>15, <1>17

-----------------------------------------------------------------------------
(* Tool instances. *)

LEMMA AliveFinite == IsFiniteSet(Alive) /\ Cardinality(Alive) \in Nat
<1>1. IsFiniteSet(Calls)
  BY AgentAssumption, FS_Interval DEF Calls
<1>2. Alive \in SUBSET Calls
  BY DEF Alive
<1> QED
  BY <1>1, <1>2, FS_Subset, FS_CardinalityType

LEMMA InstancesInit == Init => InstanceInv
<1> SUFFICES ASSUME Init PROVE InstanceInv
  OBVIOUS
<1>1. Alive = {}
  BY DEF Init, NoCalls, Alive
<1> QED
  BY <1>1, FS_EmptySet DEF Init, InstanceInv

\* A step that leaves the calls alone, or ends a turn in which none has an instance.
LEMMA InstancesQuiet ==
  ASSUME InstanceInv, open' = open,
         Alive' = Alive,
         state' \notin {"processing_tools", "raised"} => call' = NoCalls
  PROVE  InstanceInv'
BY DEF InstanceInv

LEMMA InstancesCall ==
  ASSUME TypeOK, InstanceInv, NEW i \in Calls, CallTool(i)
  PROVE  InstanceInv' /\ open' \in Nat
<1> DEFINE Kinds == {"none", "started", "created", "releasing", "answered", "raised"}
<1>1. call \in [Calls -> Kinds] /\ open \in Nat /\ open = Cardinality(Alive)
  BY DEF TypeOK, InstanceInv
<1>2. call[i] # "none"
  BY DEF CallTool, CallRefused, CallFunction, CallCreate, CallExecute, CallRelease,
         CallReleaseRaises, Step
<1>3. state \in {"processing_tools", "raised"} /\ state' \in {"processing_tools", "raised"}
  <2>1. state \in {"processing_tools", "raised"}
    BY <1>2 DEF InstanceInv, NoCalls
  <2> QED
    BY <2>1 DEF CallTool, CallRefused, CallFunction, CallCreate, CallExecute, CallRelease,
                CallReleaseRaises
<1>4. CASE CallCreate(i)
  <2>1. i \notin Alive /\ Alive' = Alive \cup {i}
    BY <1>1, <1>4 DEF CallCreate, Step, Alive
  <2>2. Cardinality(Alive') = open + 1
    BY <1>1, <2>1, AliveFinite, FS_AddElement
  <2> QED
    BY <1>1, <1>3, <1>4, <2>2 DEF CallCreate, InstanceInv
<1>5. CASE CallRelease(i) \/ CallReleaseRaises(i)
  <2>1. i \in Alive /\ Alive' = Alive \ {i}
    BY <1>1, <1>5 DEF CallRelease, CallReleaseRaises, Step, Alive
  <2>2. Cardinality(Alive') = open - 1
    BY <1>1, <2>1, AliveFinite, FS_RemoveElement
  <2>3. open # 0
    BY <1>1, <2>1, AliveFinite, FS_EmptySet
  <2>4. open' = open - 1
    BY <1>5 DEF CallRelease, CallReleaseRaises
  <2> QED
    BY <1>1, <1>3, <2>2, <2>3, <2>4 DEF InstanceInv
<1>6. CASE CallRefused(i) \/ CallFunction(i) \/ CallExecute(i)
  <2>1. Alive' = Alive
    BY <1>1, <1>6 DEF CallRefused, CallFunction, CallExecute, Step, Alive
  <2>2. open' = open
    BY <1>6 DEF CallRefused, CallFunction, CallExecute
  <2> QED
    BY <1>1, <1>3, <2>1, <2>2 DEF InstanceInv
<1> QED
  BY <1>4, <1>5, <1>6 DEF CallTool

LEMMA InstancesLoop ==
  ASSUME TypeOK, InstanceInv, Loop
  PROVE  InstanceInv'
<1>1. CASE handle_pending_state \/ GenerateCall \/ Finalize
  <2>1. /\ call = NoCalls /\ call' = call /\ open' = open
    BY <1>1 DEF handle_pending_state, GenerateCall, Finalize, tools, InstanceInv
  <2>2. Alive' = Alive
    BY <2>1 DEF Alive
  <2> QED
    BY <2>1, <2>2, InstancesQuiet
<1>2. CASE handle_generating_state
  <2>1. call = NoCalls /\ open' = open
    BY <1>2 DEF handle_generating_state, InstanceInv
  <2>2. /\ state' # "processing_tools" => call' = NoCalls
        /\ \A i \in Calls : call'[i] \in {"none", "started"}
    BY <1>2 DEF handle_generating_state, NoCalls
  <2>3. Alive = {} /\ Alive' = {}
    BY <2>1, <2>2 DEF Alive, NoCalls
  <2> QED
    BY <2>1, <2>2, <2>3, InstancesQuiet
<1>3. CASE handle_processing_tools_state \/ handle_processing_tools_state_Raises
  <2>1. open' = open /\ call' = NoCalls /\ \A i \in Calls : call[i] \in {"none", "answered"}
    BY <1>3 DEF handle_processing_tools_state, handle_processing_tools_state_Raises, Gathered
  <2>2. Alive = {} /\ Alive' = {}
    BY <2>1 DEF Alive, NoCalls
  <2> QED
    BY <2>1, <2>2, InstancesQuiet
<1> QED
  BY <1>1, <1>2, <1>3 DEF Loop

-----------------------------------------------------------------------------
(* Versions. *)

LEMMA SpanStep ==
  ASSUME TypeOK, SpanInv, ~may_be_cut, [Next]_vars
  PROVE  SpanInv'
<1> USE AgentAssumption
<1>1. CASE handle_generating_state
  <2>1. PICK n \in 1 .. MaxTokens :
        \E calls \in 0 .. (IF n = 0 THEN 0 ELSE max_parallel_calls + 1) :
        \E stamped \in (IF n = 0 THEN BOOLEAN ELSE {TRUE}) :
          RecordSteps(IF stamped THEN began ELSE -1, IF stamped THEN version ELSE -1)
    BY <1>1 DEF handle_generating_state
  <2>2. RecordSteps(began, version)
    <3>1. n # 0
      BY <2>1 DEF MaxTokens, Smaller
    <3> QED
      BY <2>1, <3>1
  <2>3. /\ assistant_turns' = assistant_turns + 1 /\ ended' = version /\ began' = began
        /\ version' = version /\ version \in Nat /\ assistant_turns \in Nat
    BY <1>1 DEF handle_generating_state, TypeOK
  <2>4. min_global_steps' = began
    BY <2>2, <2>3 DEF RecordSteps, SpanInv
  <2>5. max_global_steps' = version
    <3>1. CASE assistant_turns = 0 \/ version > 0
      BY <2>2, <3>1 DEF RecordSteps
    <3>2. CASE assistant_turns > 0 /\ version = 0
      <4>1. max_global_steps = ended /\ ended \in 0 .. version
        BY <3>2 DEF SpanInv
      <4> QED
        BY <2>2, <3>2, <4>1 DEF RecordSteps
    <3> QED
      BY <2>3, <3>1, <3>2
  <2> QED
    BY <2>3, <2>4, <2>5 DEF SpanInv
<1>2. CASE GenerateCall
  BY <1>2 DEF GenerateCall, SpanInv, TypeOK
<1>3. CASE handle_pending_state
  BY <1>3 DEF handle_pending_state, SpanInv, TypeOK
<1>4. CASE handle_processing_tools_state \/ handle_processing_tools_state_Raises
  BY <1>4 DEF handle_processing_tools_state, handle_processing_tools_state_Raises, Gathered,
              SpanInv, data
<1>5. CASE Finalize
  BY <1>5 DEF Finalize, SpanInv, data
<1>6. CASE NewVersion
  BY <1>6 DEF NewVersion, SpanInv, data, TypeOK
<1>7. ASSUME NEW i \in Calls, CallTool(i) PROVE SpanInv'
  BY <1>7 DEF CallTool, CallRefused, CallFunction, CallCreate, CallExecute, CallRelease,
              CallReleaseRaises, SpanInv, data
<1>8. CASE UNCHANGED vars
  BY <1>8 DEF vars, data, SpanInv
<1> QED
  BY <1>1, <1>2, <1>3, <1>4, <1>5, <1>6, <1>7, <1>8 DEF Next, Loop

-----------------------------------------------------------------------------
(* Images: with at most one a response, a placeholder for each of them. *)

LEMMA OneImageEach ==
  ASSUME TypeOK, MaxImages <= 1
  PROVE  Cardinality(new_images_this_turn) = Cardinality(WithImages)
<1> USE AgentAssumption
<1>1. IsFiniteSet(WithImages)
  <2>1. IsFiniteSet(Calls)
    BY FS_Interval DEF Calls
  <2>2. WithImages \in SUBSET Calls
    BY DEF WithImages
  <2> QED
    BY <2>1, <2>2, FS_Subset
<1>2. \A i \in WithImages : shown[i].images = 1 /\ MaxImages = 1
  <2> SUFFICES ASSUME NEW i \in WithImages PROVE shown[i].images = 1 /\ MaxImages = 1
    OBVIOUS
  <2>1. shown[i] \in Response \cup {ErrorText} /\ shown[i].images > 0
    BY DEF TypeOK, WithImages
  <2>2. shown[i].images \in 0 .. MaxImages
    BY <2>1 DEF Response, ErrorText
  <2> QED
    BY <2>1, <2>2
<1> DEFINE f == [i \in WithImages |-> <<i, 1>>]
<1>3. \A i \in WithImages : <<i, 1>> \in new_images_this_turn
  BY <1>2 DEF new_images_this_turn
<1>4. \A image \in new_images_this_turn : \E i \in WithImages : image = <<i, 1>>
  BY <1>2 DEF new_images_this_turn
<1>5. f \in Bijection(WithImages, new_images_this_turn)
  BY <1>3, <1>4 DEF Bijection, Injection, Surjection, IsInjective
<1>6. ExistsBijection(WithImages, new_images_this_turn)
  BY <1>5 DEF ExistsBijection
<1> QED
  BY <1>1, <1>6, FS_Bijection

LEMMA ImagesStep ==
  ASSUME TypeOK, image_data = placeholders, MaxImages <= 1, [Next]_vars
  PROVE  image_data' = placeholders'
<1>1. CASE handle_processing_tools_state
  BY <1>1, OneImageEach DEF handle_processing_tools_state
<1>2. CASE handle_pending_state \/ GenerateCall \/ handle_generating_state
  BY <1>2 DEF handle_pending_state, GenerateCall, handle_generating_state
<1>3. CASE handle_processing_tools_state_Raises \/ Finalize \/ NewVersion
  BY <1>3 DEF handle_processing_tools_state_Raises, Finalize, NewVersion, data
<1>4. ASSUME NEW i \in Calls, CallTool(i) PROVE image_data' = placeholders'
  BY <1>4 DEF CallTool, CallRefused, CallFunction, CallCreate, CallExecute, CallRelease,
              CallReleaseRaises, data
<1>5. CASE UNCHANGED vars
  BY <1>5 DEF vars, data
<1> QED
  BY <1>1, <1>2, <1>3, <1>4, <1>5 DEF Next, Loop

-----------------------------------------------------------------------------
(* The theorems. *)

LEMMA InvariantStep ==
  ASSUME Tokens, InstanceInv, [Next]_vars
  PROVE  Tokens' /\ InstanceInv'
<1>0. TypeOK
  BY DEF Tokens
<1>1. CASE Loop
  <2>1. InstanceInv'
    BY <1>0, <1>1, InstancesLoop
  <2>2. Tokens'
    BY <1>1, TokensPending, TokensCall, TokensGenerated, TokensTools, TokensRaises,
       TokensFinalize DEF Loop
  <2> QED
    BY <2>1, <2>2
<1>2. CASE NewVersion
  <2>1. InstanceInv'
    BY <1>2 DEF NewVersion, tools, InstanceInv, Alive
  <2> QED
    BY <1>2, <2>1, TokensNewVersion
<1>3. ASSUME NEW i \in Calls, CallTool(i) PROVE Tokens' /\ InstanceInv'
  BY <1>0, <1>3, InstancesCall, TokensCallTool
<1>4. CASE UNCHANGED vars
  <2>1. TypeOK'
    BY <1>0, <1>4, SameResponses DEF vars, data, tools, TypeOK
  <2>2. TokenInv'
    BY <1>4 DEF Tokens, TokenInv, Running, vars, data
  <2>3. InstanceInv'
    BY <1>4 DEF InstanceInv, Alive, vars, tools
  <2> QED
    BY <2>1, <2>2, <2>3 DEF Tokens
<1> QED
  BY <1>1, <1>2, <1>3, <1>4 DEF Next

\* Types hold, and prompt and response together never exceed the context, whatever
\* the tools return; the tokens line up while the loop runs, and open instances
\* belong to calls between create and release.
LEMMA AgentInvariant == Spec => [](Tokens /\ InstanceInv)
<1>1. Init => Tokens /\ InstanceInv
  BY TokensInit, InstancesInit
<1>2. Tokens /\ InstanceInv /\ [Next]_vars => (Tokens /\ InstanceInv)'
  BY InvariantStep
<1> QED
  BY <1>1, <1>2, PTL DEF Spec

\* While the model generates, and after run() has returned, no tool instance is left
\* unreleased, however many calls a turn makes and whichever of them fail.
THEOREM InstancesReleased == Spec => []NoOpenInstance
<1>1. Tokens /\ InstanceInv => NoOpenInstance
  <2> SUFFICES ASSUME InstanceInv, state \in {"generating", "waiting", "terminated", "returned"}
               PROVE  open = 0
    BY DEF NoOpenInstance
  <2>1. Alive = {}
    BY DEF InstanceInv, Alive, NoCalls
  <2> QED
    BY <2>1, FS_EmptySet DEF InstanceInv
<1> QED
  BY <1>1, AgentInvariant, PTL

\* Whichever side is cut, a tool's text in the prompt is within
\* max_tool_response_length, except where text[-0:] keeps all of it.
THEOREM ToolTextWithinLimit == Spec => []ToolTextBounded
<1>1. Tokens /\ InstanceInv => ToolTextBounded
  <2> SUFFICES ASSUME TypeOK, NEW i \in Calls, ~shown[i].error
               PROVE  \/ shown[i].text <= truncate.limit
                      \/ truncate.side = "middle" /\ truncate.limit <= 1
                      \/ truncate.side = "right" /\ truncate.limit = 0
    BY DEF ToolTextBounded, Tokens
  <2> USE AgentAssumption
  <2>1. truncate.limit \in Nat /\ truncate.side \in {"left", "right", "middle"}
    BY DEF TypeOK
  <2>2. shown[i] \in Response
    BY DEF TypeOK, ErrorText
  <2>3. PICK n \in TextLengths : shown[i].text = Truncated(n)
    BY <2>2, ResponseText
  <2> DEFINE half == truncate.limit \div 2
  <2>4. n \in Nat /\ half \in Nat /\ half + half <= truncate.limit
                  /\ (half = 0 => truncate.limit <= 1)
    BY <2>1
  <2>5. CASE n <= truncate.limit \/ truncate.side = "left"
    BY <2>1, <2>3, <2>4, <2>5 DEF Truncated
  <2>6. CASE n > truncate.limit /\ truncate.side = "right"
    BY <2>1, <2>3, <2>4, <2>6 DEF Truncated, LastKept, Smaller
  <2>7. CASE n > truncate.limit /\ truncate.side = "middle"
    <3>1. shown[i].text = half + LastKept(n, half)
      BY <2>1, <2>3, <2>4, <2>7 DEF Truncated
    <3> HIDE DEF half
    <3>2. half # 0 => LastKept(n, half) <= half /\ LastKept(n, half) \in Nat
      BY <2>4 DEF LastKept, Smaller
    <3> QED
      BY <2>1, <2>4, <2>7, <3>1, <3>2
  <2> QED
    BY <2>1, <2>4, <2>5, <2>6, <2>7
<1> QED
  BY <1>1, AgentInvariant, PTL

\* Where generate() resumes what a sync interrupted, and tools return at most one
\* image a response, what run() returns is usable: ids, mask and log probs line up,
\* it begins and ends with the model, images match placeholders, and the versions
\* recorded are those of its first and last turn.
THEOREM TrajectoryUsable ==
  ASSUME ~may_be_cut, MaxImages <= 1
  PROVE  Spec => []UsableTrajectory
<1> DEFINE All == /\ Tokens /\ InstanceInv /\ SpanInv /\ image_data = placeholders
                  /\ Aligned /\ EndsWithModel
<1>1. Init => All
  <2>1. Init => SpanInv /\ image_data = placeholders /\ Aligned /\ EndsWithModel
    BY DEF Init, SpanInv, Aligned, EndsWithModel
  <2> QED
    BY <2>1, TokensInit, InstancesInit
<1>2. All /\ [Next]_vars => All'
  <2> SUFFICES ASSUME All, [Next]_vars PROVE All'
    OBVIOUS
  <2>1. TypeOK
    BY DEF Tokens
  <2>2. Tokens' /\ InstanceInv' /\ SpanInv' /\ image_data' = placeholders'
    BY <2>1, InvariantStep, SpanStep, ImagesStep
  <2>3. Aligned' /\ EndsWithModel'
    <3>1. CASE Finalize
      BY <3>1, FinalizeAligned
    <3>2. CASE state' # "returned"
      BY <3>2 DEF Aligned, EndsWithModel
    <3>3. CASE state' = "returned" /\ ~Finalize
      <4>1. state = "returned" /\ output' = output
        <5>1. CASE Loop
          BY <3>3, <5>1 DEF Loop, handle_pending_state, GenerateCall, handle_generating_state,
             AfterGenerate, handle_processing_tools_state, handle_processing_tools_state_Raises
        <5>2. CASE NewVersion
          BY <3>3, <5>2 DEF NewVersion
        <5>3. ASSUME NEW i \in Calls, CallTool(i) PROVE state = "returned" /\ output' = output
          BY <3>3, <5>3 DEF CallTool, CallRefused, CallFunction, CallCreate, CallExecute,
             CallRelease, CallReleaseRaises
        <5>4. CASE UNCHANGED vars
          BY <3>3, <5>4 DEF vars
        <5> QED
          BY <5>1, <5>2, <5>3, <5>4 DEF Next
      <4> QED
        BY <4>1, <3>3 DEF Aligned, EndsWithModel
    <3> QED
      BY <3>1, <3>2, <3>3
  <2> QED
    BY <2>2, <2>3
<1>3. All => UsableTrajectory
  <2> SUFFICES ASSUME All PROVE UsableTrajectory
    OBVIOUS
  <2>1. StepsSpan
    BY DEF SpanInv, StepsSpan
  <2>2. ImagesMatch
    BY DEF ImagesMatch
  <2> QED
    BY <2>1, <2>2 DEF UsableTrajectory, Tokens
<1> QED
  BY <1>1, <1>2, <1>3, PTL DEF Spec
=============================================================================
