------------------------ MODULE RolloutServersProofs ------------------------
(***************************************************************************)
(* Proofs about generation under weight synchronisation, for any number of *)
(* servers, requests and weight versions and any cache size and lengths.   *)
(***************************************************************************)
EXTENDS RolloutServers, FiniteSetTheorems, SequenceTheorems, TLAPS

-----------------------------------------------------------------------------
(* The constants, and the trainer's plan. *)

LEMMA SetupFacts ==
  ASSUME setup \in Setups
  PROVE  /\ Standalone \in SUBSET Server /\ Hybrid \in SUBSET Server
         /\ Standalone # {} /\ Standalone \cap Hybrid = {}
         /\ max_cache_size \in Nat \ {0} /\ has_limit \in BOOLEAN
         /\ response_length \in Nat \ {0}
BY ServersAssumption DEF Standalone, Hybrid, max_cache_size, has_limit, response_length

LEMMA PlanFacts ==
  /\ DOMAIN Plan =
       {"train", "sync_abort", "sync_load", "sync_resume", "check", "val_load",
        "val_abort_s", "val_abort_h", "add", "val_resume_s", "val_resume_h", "validate",
        "end_abort_s", "end_abort_h", "remove", "sleep", "end_resume_s", "end_resume_h"}
  /\ \A x \in DOMAIN Plan : /\ Plan[x].next \in DOMAIN Plan
                            /\ Plan[x].on \in {"none", "standalone", "hybrid"}
BY DEF Plan, Op

LEMMA GotoType ==
  ASSUME setup \in Setups, NEW x \in DOMAIN Plan, Goto(x)
  PROVE  step' \in DOMAIN Plan /\ todo' \in SUBSET Server
<1>1. Group(Plan[x].on) \in SUBSET Server
  BY SetupFacts, PlanFacts DEF Group
<1> QED
  BY <1>1 DEF Goto

LEMMA HandledType ==
  ASSUME setup \in Setups, step \in DOMAIN Plan, todo \in SUBSET Server,
         NEW s \in Server, Handled(s)
  PROVE  step' \in DOMAIN Plan /\ todo' \in SUBSET Server
<1>1. CASE todo = {s}
  BY <1>1, PlanFacts, GotoType DEF Handled
<1>2. CASE todo # {s}
  BY <1>2 DEF Handled
<1> QED
  BY <1>1, <1>2

-----------------------------------------------------------------------------
(* The sticky-session cache. *)

LEMMA WithoutType ==
  ASSUME NEW r \in Request, sticky \in Seq([request : Request, server : Server])
  PROVE  /\ Without(r) \in Seq([request : Request, server : Server])
         /\ Len(Without(r)) <= Len(sticky)
<1> DEFINE E == [request : Request, server : Server]
<1>1. CASE Entry(r) = {}
  BY <1>1 DEF Without
<1>2. CASE Entry(r) # {}
  <2> DEFINE i == CHOOSE i \in Entry(r) : TRUE
             head == SubSeq(sticky, 1, i - 1)
             rest == SubSeq(sticky, i + 1, Len(sticky))
  <2>1. i \in 1 .. Len(sticky)
    BY <1>2 DEF Entry
  <2> HIDE DEF i
  <2>0. \A j \in 1 .. Len(sticky) : sticky[j] \in E
    BY ElementOfSeq
  <2>2. head \in Seq(E) /\ Len(head) = i - 1
    <3>1. /\ 1 \in Int /\ i - 1 \in Int
          /\ \A j \in 1 .. i - 1 : sticky[j] \in E
      BY <2>0, <2>1
    <3> HIDE DEF E
    <3> QED
      BY <2>1, <3>1, SubSeqProperties
  <2>3. rest \in Seq(E) /\ Len(rest) = Len(sticky) - i
    <3>1. /\ i + 1 \in Int /\ Len(sticky) \in Int
          /\ \A j \in i + 1 .. Len(sticky) : sticky[j] \in E
      BY <2>0, <2>1
    <3> HIDE DEF E
    <3> QED
      BY <2>1, <3>1, SubSeqProperties
  <2> HIDE DEF head, rest
  <2>4. head \o rest \in Seq(E) /\ Len(head \o rest) = Len(sticky) - 1
    BY <2>1, <2>2, <2>3
  <2>5. Without(r) = head \o rest
    BY <1>2 DEF Without, i, head, rest
  <2> QED
    BY <2>4, <2>5
<1> QED
  BY <1>1, <1>2

LEMMA TouchType ==
  ASSUME NEW r \in Request, NEW s \in Server, setup \in Setups,
         sticky \in Seq([request : Request, server : Server]),
         Len(sticky) <= max_cache_size
  PROVE  /\ Touch(r, s) \in Seq([request : Request, server : Server])
         /\ Len(Touch(r, s)) <= max_cache_size
<1> DEFINE E == [request : Request, server : Server]
           rest == Without(r)
<1>1. rest \in Seq(E) /\ Len(rest) <= max_cache_size /\ max_cache_size \in Nat \ {0}
  <2>1. rest \in Seq(E) /\ Len(rest) <= Len(sticky) /\ max_cache_size \in Nat \ {0}
    BY WithoutType, SetupFacts
  <2>2. Len(rest) \in Nat /\ Len(sticky) \in Nat
    BY <2>1
  <2> HIDE DEF rest
  <2> QED
    BY <2>1, <2>2
<1>2. [request |-> r, server |-> s] \in E
  OBVIOUS
<1> HIDE DEF rest, E
<1>3. CASE Len(rest) >= max_cache_size
  <2>1. Tail(rest) \in Seq(E) /\ Len(Tail(rest)) = Len(rest) - 1
    BY <1>1, <1>3
  <2> QED
    BY <1>1, <1>2, <1>3, <2>1 DEF Touch, rest, E
<1>4. CASE ~(Len(rest) >= max_cache_size)
  BY <1>1, <1>2, <1>4 DEF Touch, rest, E
<1> QED
  BY <1>3, <1>4

-----------------------------------------------------------------------------
(* Type correctness. *)

\* Who holds a server, and who has one to release, is decided by the phase.
Placed ==
    \A r \in Request :
        /\ phase[r] \in {"sent", "running"} <=> at[r] # NoServer
        /\ at[r] # NoServer => releasing[r] = NoServer

TypeInv == TypeOK /\ Placed

LEMMA AnswerType ==
  ASSUME TypeOK, NEW R \in SUBSET Request, NEW reason \in {"completed", "aborted"},
         NEW new \in Nat, NEW steps \in [Request -> Int],
         Answer(R, reason, new, steps)
  PROVE  /\ phase' \in [Request -> {"want", "sent", "running", "done"}]
         /\ at' \in [Request -> MaybeServer]
         /\ releasing' \in [Request -> MaybeServer]
         /\ total' \in [Request -> Nat] /\ segment' \in [Request -> Nat]
         /\ min_global_steps' \in [Request -> Int]
         /\ max_global_steps' \in [Request -> Int]
         /\ stop_reason' \in [Request -> {"none", "completed", "length", "aborted"}]
<1>1. phase' \in [Request -> {"want", "sent", "running", "done"}]
  BY DEF Answer, TypeOK
<1>2. at' \in [Request -> MaybeServer] /\ releasing' \in [Request -> MaybeServer]
  BY DEF Answer, TypeOK, MaybeServer
<1>3. total' \in [Request -> Nat] /\ segment' \in [Request -> Nat]
  <2>1. total \in [Request -> Nat] /\ segment \in [Request -> Nat]
    BY DEF TypeOK
  <2>2. \A r \in Request : total[r] + segment[r] + new \in Nat
    BY <2>1
  <2> QED
    BY <2>1, <2>2 DEF Answer
<1>4. min_global_steps' \in [Request -> Int] /\ max_global_steps' \in [Request -> Int]
  BY DEF Answer, TypeOK
<1>5. stop_reason' \in [Request -> {"none", "completed", "length", "aborted"}]
  BY DEF Answer, TypeOK
<1> QED
  BY <1>1, <1>2, <1>3, <1>4, <1>5

LEMMA AnswerPlaced ==
  ASSUME TypeOK, Placed, NEW R \in SUBSET Request, NEW reason, NEW new, NEW steps,
         Answer(R, reason, new, steps)
  PROVE  Placed'
BY ServersAssumption DEF Answer, TypeOK, Placed, MaybeServer

LEMMA ComputedType ==
  ASSUME TypeInv, NEW r \in Request, phase[r] = "running", Computed(r)
  PROVE  first' \in [Request -> Int] /\ last' \in [Request -> Int]
<1>1. at[r] \in Server
  BY DEF TypeInv, TypeOK, Placed, MaybeServer
<1> QED
  BY <1>1 DEF Computed, TypeInv, TypeOK

\* Types and Placed are inductive: what Next leaves alone is left out of the
\* lemmas on its actions.
LEMMA ClientTypes ==
  ASSUME TypeInv, UNCHANGED setup, NEW r \in Request, Client(r)
  PROVE  TypeInv'
<1> USE DEF TypeInv
<1>1. CASE acquire_server(r)
  <2>1. PICK s \in Server : /\ inflight' = [inflight EXCEPT ![s] = @ + 1]
                            /\ sticky' = Touch(r, s)
                            /\ at' = [at EXCEPT ![r] = s]
    BY <1>1 DEF acquire_server
  <2>2. sticky' \in Seq([request : Request, server : Server]) /\ Len(sticky') <= max_cache_size
    BY <2>1, TouchType DEF TypeOK
  <2>3. TypeOK'
    <3>1. inflight' \in [Server -> Nat] /\ at' \in [Request -> MaybeServer]
      BY <2>1 DEF TypeOK, MaybeServer
    <3>2. /\ phase' \in [Request -> {"want", "sent", "running", "done"}]
          /\ segment' \in [Request -> Nat]
      BY <1>1 DEF acquire_server, TypeOK
    <3> QED
      BY <1>1, <2>2, <3>1, <3>2 DEF acquire_server, TypeOK, max_cache_size, Hybrid,
         serverVars, driverVars
  <2>4. Placed'
    BY <1>1, <2>1, ServersAssumption DEF acquire_server, TypeOK, Placed
  <2> QED
    BY <2>3, <2>4
<1>2. CASE release_server(r)
  <2>1. inflight' \in [Server -> Nat] /\ releasing' \in [Request -> MaybeServer]
    BY <1>2 DEF release_server, TypeOK, MaybeServer
  <2>2. TypeOK'
    BY <1>2, <2>1 DEF release_server, TypeOK, max_cache_size, Hybrid, serverVars, driverVars
  <2>3. Placed'
    BY <1>2 DEF release_server, TypeOK, Placed
  <2> QED
    BY <2>2, <2>3
<1> QED
  BY <1>1, <1>2 DEF Client

LEMMA GenerateTypes ==
  ASSUME TypeInv, UNCHANGED setup, NEW r \in Request, Generate(r)
  PROVE  TypeInv'
<1> USE DEF TypeInv
<1>1. CASE Start(r)
  BY <1>1 DEF Start, TypeOK, Placed, max_cache_size, Hybrid, lbVars, serverVars, driverVars
<1>2. CASE Token(r)
  <2>1. first' \in [Request -> Int] /\ last' \in [Request -> Int]
    BY <1>2, ComputedType DEF Token
  <2>2. segment' \in [Request -> Nat]
    BY <1>2 DEF Token, TypeOK
  <2> QED
    BY <1>2, <2>1, <2>2 DEF Token, TypeOK, Placed, max_cache_size, Hybrid, lbVars,
       serverVars, driverVars
<1>3. CASE Finish(r)
  <2>1. at[r] \in Server
    BY <1>3 DEF Finish, TypeOK, Placed, MaybeServer
  <2> DEFINE stamp == [q \in Request |-> global_steps[at[r]]]
  <2>2. stamp \in [Request -> Int] /\ Answer({r}, "completed", 1, stamp)
    BY <1>3, <2>1 DEF Finish, TypeOK
  <2> HIDE DEF stamp
  <2>3. first' \in [Request -> Int] /\ last' \in [Request -> Int]
    BY <1>3, ComputedType DEF Finish
  <2>4. Placed'
    BY <2>2, AnswerPlaced
  <2>5. TypeOK'
    BY <1>3, <2>2, <2>3, AnswerType DEF Finish, TypeOK, max_cache_size, Hybrid, lbVars,
       serverVars, driverVars
  <2> QED
    BY <2>4, <2>5
<1> QED
  BY <1>1, <1>2, <1>3 DEF Generate

LEMMA ServerTypes ==
  ASSUME TypeInv, UNCHANGED setup, NEW s \in Server, ServerStep(s)
  PROVE  TypeInv'
<1> USE DEF TypeInv
<1>0. setup \in Setups /\ step \in DOMAIN Plan /\ todo \in SUBSET Server
  BY DEF TypeOK
<1>1. CASE Abort(s)
  <2> DEFINE R == {r \in Request : phase[r] = "running" /\ at[r] = s}
  <2>1. PICK empty \in BOOLEAN :
          Answer(R, "aborted", 0,
                 [r \in Request |-> IF segment[r] = 0 /\ empty THEN -1 ELSE global_steps[s]])
    BY <1>1 DEF Abort
  <2> DEFINE stamp == [r \in Request |-> IF segment[r] = 0 /\ empty THEN -1 ELSE global_steps[s]]
  <2>2. stamp \in [Request -> Int] /\ R \in SUBSET Request /\ Answer(R, "aborted", 0, stamp)
    BY <2>1 DEF TypeOK
  <2> HIDE DEF stamp, R
  <2>3. Placed'
    BY <2>2, AnswerPlaced
  <2>4. step' \in DOMAIN Plan /\ todo' \in SUBSET Server
    BY <1>0, <1>1, HandledType DEF Abort
  <2>5. TypeOK'
    BY <1>1, <2>2, <2>4, AnswerType DEF Abort, TypeOK, max_cache_size, Hybrid, lbVars
  <2> QED
    BY <2>3, <2>5
<1>2. CASE Load(s)
  BY <1>2 DEF Load, TypeOK, Placed, max_cache_size, Hybrid, lbVars, clientVars, driverVars
<1>3. CASE set_global_steps(s)
  <2>1. step' \in DOMAIN Plan /\ todo' \in SUBSET Server
    BY <1>0, <1>3, HandledType DEF set_global_steps
  <2> QED
    BY <1>3, <2>1 DEF set_global_steps, TypeOK, Placed, max_cache_size, Hybrid, lbVars, clientVars
<1>4. CASE Resume(s)
  <2>1. step' \in DOMAIN Plan /\ todo' \in SUBSET Server
    BY <1>0, <1>4, HandledType DEF Resume
  <2> QED
    BY <1>4, <2>1 DEF Resume, TypeOK, Placed, max_cache_size, Hybrid, lbVars, clientVars
<1>5. CASE Sleep(s)
  <2>1. step' \in DOMAIN Plan /\ todo' \in SUBSET Server
    BY <1>0, <1>5, HandledType DEF Sleep
  <2> QED
    BY <1>5, <2>1 DEF Sleep, TypeOK, Placed, max_cache_size, Hybrid, lbVars, clientVars
<1> QED
  BY <1>1, <1>2, <1>3, <1>4, <1>5 DEF ServerStep

LEMMA SequencingTypes ==
  ASSUME TypeInv, UNCHANGED setup, Sequencing \/ NextVersion
  PROVE  TypeInv'
<1> USE DEF TypeInv
<1>0. /\ setup \in Setups /\ step \in DOMAIN Plan /\ Plan[step].next \in DOMAIN Plan
      /\ {"sync_abort", "val_load", "train"} \subseteq DOMAIN Plan
      /\ Hybrid \in SUBSET Server
  BY PlanFacts, SetupFacts DEF TypeOK
<1> USE DEF Placed, max_cache_size, Hybrid, lbVars, clientVars, serverVars
<1>1. CASE CheckValidate
  <2>1. step' \in DOMAIN Plan /\ todo' \in SUBSET Server
    BY <1>0, <1>1, GotoType DEF CheckValidate
  <2> QED
    BY <1>1, <2>1 DEF CheckValidate, TypeOK
<1>2. CASE add_replicas
  <2>1. step' \in DOMAIN Plan /\ todo' \in SUBSET Server
    BY <1>0, <1>2, GotoType DEF add_replicas
  <2>2. place' \in [Server -> Nat]
    BY <1>2 DEF add_replicas, Orders
  <2>3. inflight' \in [Server -> Nat]
    BY <1>2 DEF add_replicas, TypeOK
  <2> QED
    BY <1>0, <1>2, <2>1, <2>2, <2>3 DEF add_replicas, TypeOK
<1>3. CASE Validate
  <2>1. step' \in DOMAIN Plan /\ todo' \in SUBSET Server
    BY <1>0, <1>3, GotoType DEF Validate
  <2> QED
    BY <1>3, <2>1 DEF Validate, TypeOK
<1>4. CASE remove_replicas
  <2>1. step' \in DOMAIN Plan /\ todo' \in SUBSET Server
    BY <1>0, <1>4, GotoType DEF remove_replicas
  <2>2. inflight' \in [Server -> Nat] /\ place' \in [Server -> Nat]
    BY <1>4 DEF remove_replicas, TypeOK
  <2> QED
    BY <1>4, <2>1, <2>2 DEF remove_replicas, TypeOK
<1>5. CASE NextVersion
  <2>1. step' \in DOMAIN Plan /\ todo' \in SUBSET Server
    BY <1>0, <1>5, GotoType DEF NextVersion
  <2>2. version' \in 0 .. MaxVersion
    BY <1>5, ServersAssumption DEF NextVersion, TypeOK
  <2> QED
    BY <1>5, <2>1, <2>2 DEF NextVersion, TypeOK
<1> QED
  BY <1>1, <1>2, <1>3, <1>4, <1>5 DEF Sequencing

LEMMA TypeStep == TypeInv /\ [Next]_vars => TypeInv'
<1> SUFFICES ASSUME TypeInv, [Next]_vars PROVE TypeInv'
  OBVIOUS
<1>1. CASE Next
  BY <1>1, ClientTypes, GenerateTypes, ServerTypes, SequencingTypes DEF Next
<1>2. CASE UNCHANGED vars
  BY <1>2 DEF vars, lbVars, clientVars, serverVars, driverVars, TypeInv, TypeOK, Placed,
     max_cache_size, Hybrid
<1> QED
  BY <1>1, <1>2

LEMMA TypeInit == Init => TypeInv
<1> SUFFICES ASSUME Init PROVE TypeInv
  OBVIOUS
<1>1. setup \in Setups /\ Standalone \in SUBSET Server /\ max_cache_size \in Nat
  BY SetupFacts DEF Init
<1>2. sticky \in Seq([request : Request, server : Server]) /\ Len(sticky) = 0
  BY DEF Init
<1>3. place \in [Server -> Nat]
  BY DEF Init, Orders
<1>4. step \in DOMAIN Plan
  BY PlanFacts DEF Init
<1>5. version \in 0 .. MaxVersion
  BY ServersAssumption DEF Init
<1>6. TypeOK
  BY <1>1, <1>2, <1>3, <1>4, <1>5 DEF Init, TypeOK, MaybeServer
<1>7. Placed
  BY DEF Init, Placed
<1> QED
  BY <1>6, <1>7 DEF TypeInv

\* Every count, stamp, queue and phase stays in its range, whatever the trainer
\* does to the servers while requests come, go and are resumed.
THEOREM TypesCorrect == Spec => []TypeOK
<1>1. Spec => []TypeInv
  BY TypeInit, TypeStep, PTL DEF Spec
<1>2. TypeInv => TypeOK
  BY DEF TypeInv
<1> QED
  BY <1>1, <1>2, PTL

-----------------------------------------------------------------------------
(* WholeResponse: it is inductive over the types. *)

LEMMA Room ==
  ASSUME TypeInv, NEW r \in Request, segment[r] < MaxTokens(r)
  PROVE  /\ has_limit => total[r] + segment[r] + 1 <= response_length
         /\ PromptLen + (total[r] + segment[r] + 1) <= prompt_length + response_length
<1>1. /\ total[r] \in Nat /\ segment[r] \in Nat /\ response_length \in Nat
      /\ has_limit \in BOOLEAN
      /\ prompt_length \in Nat /\ PromptLen \in Nat /\ PromptLen <= prompt_length
  BY SetupFacts, ServersAssumption DEF TypeInv, TypeOK
<1>2. CASE has_limit
  BY <1>1, <1>2 DEF MaxTokens
<1>3. CASE ~has_limit
  BY <1>1, <1>3 DEF MaxTokens, Smaller
<1> QED
  BY <1>1, <1>2, <1>3

\* A step of a request that adds at most one token leaves it within the limits.
LEMMA LengthsKept ==
  ASSUME TypeInv, TypeInv', UNCHANGED setup, WholeResponse,
         \A r \in Request :
            \/ total'[r] + segment'[r] = total[r] + segment[r]
            \/ total'[r] + segment'[r] = 0
            \/ /\ segment[r] < MaxTokens(r)
               /\ total'[r] + segment'[r] = total[r] + segment[r] + 1
  PROVE  WithinResponseLength' /\ WithinContext'
<1>1. /\ response_length \in Nat /\ response_length' = response_length
      /\ has_limit' = has_limit
      /\ prompt_length \in Nat /\ PromptLen \in Nat /\ PromptLen <= prompt_length
  BY SetupFacts, ServersAssumption DEF TypeInv, TypeOK, response_length, has_limit
<1>2. ASSUME NEW r \in Request
      PROVE  /\ has_limit => total'[r] + segment'[r] <= response_length
             /\ PromptLen + total'[r] + segment'[r] <= prompt_length + response_length
  <2>1. total[r] \in Nat /\ segment[r] \in Nat /\ total'[r] \in Nat /\ segment'[r] \in Nat
    BY DEF TypeInv, TypeOK
  <2>2. /\ has_limit => total[r] + segment[r] <= response_length
        /\ PromptLen + total[r] + segment[r] <= prompt_length + response_length
    BY DEF WholeResponse, WithinResponseLength, WithinContext
  <2> QED
    BY <1>1, <2>1, <2>2, Room
<1> QED
  BY <1>1, <1>2 DEF WithinResponseLength, WithinContext

LEMMA WholeStep == TypeInv /\ WholeResponse /\ [Next]_vars => WholeResponse'
<1> SUFFICES ASSUME TypeInv, WholeResponse, [Next]_vars PROVE WholeResponse'
  OBVIOUS
<1>0. TypeInv'
  BY TypeStep
<1>1. ASSUME UNCHANGED <<setup, phase, total, segment, stop_reason>> PROVE WholeResponse'
  BY <1>1 DEF WholeResponse, NeverCut, WithinResponseLength, WithinContext, response_length,
     has_limit
<1>2. ASSUME NEW r \in Request, UNCHANGED setup, acquire_server(r) PROVE WholeResponse'
  <2>1. NeverCut'
    BY <1>2 DEF acquire_server, WholeResponse, NeverCut, TypeInv, TypeOK
  <2>3. \A q \in Request : total'[q] = total[q] /\ segment'[q] <= segment[q]
    BY <1>2 DEF acquire_server, TypeInv, TypeOK
  <2>4. /\ response_length \in Nat /\ response_length' = response_length
        /\ has_limit' = has_limit /\ prompt_length \in Nat /\ PromptLen \in Nat
    BY <1>2, SetupFacts, ServersAssumption DEF TypeInv, TypeOK, response_length, has_limit
  <2>5. \A q \in Request : /\ total[q] \in Nat /\ segment[q] \in Nat
                           /\ total'[q] \in Nat /\ segment'[q] \in Nat
    BY <1>0 DEF TypeInv, TypeOK
  <2>6. WithinResponseLength' /\ WithinContext'
    BY <2>3, <2>4, <2>5 DEF WholeResponse, WithinResponseLength, WithinContext
  <2> QED
    BY <2>1, <2>6 DEF WholeResponse
<1>3. ASSUME NEW r \in Request, UNCHANGED setup, Start(r) PROVE WholeResponse'
  <2>1. NeverCut'
    BY <1>3 DEF Start, WholeResponse, NeverCut, TypeInv, TypeOK
  <2> QED
    BY <1>3, <2>1 DEF Start, WholeResponse, WithinResponseLength, WithinContext,
       response_length, has_limit
<1>4. ASSUME NEW r \in Request, UNCHANGED setup, Token(r) PROVE WholeResponse'
  <2>1. NeverCut'
    BY <1>4 DEF Token, WholeResponse, NeverCut
  <2>2. segment[r] < MaxTokens(r)
    <3>0. /\ total[r] \in Nat /\ segment[r] \in Nat /\ response_length \in Nat
          /\ prompt_length \in Nat /\ PromptLen \in Nat
      BY SetupFacts, ServersAssumption DEF TypeInv, TypeOK
    <3>1. MaxTokens(r) \in Int /\ segment[r] \in Nat
      BY <3>0 DEF MaxTokens, Smaller
    <3> QED
      BY <1>4, <3>1 DEF Token
  <2>3. \A q \in Request :
           total'[q] + segment'[q] = IF q = r THEN total[q] + segment[q] + 1
                                              ELSE total[q] + segment[q]
    BY <1>4 DEF Token, TypeInv, TypeOK
  <2>4. WithinResponseLength' /\ WithinContext'
    BY <1>0, <1>4, <2>2, <2>3, LengthsKept
  <2> QED
    BY <2>1, <2>4 DEF WholeResponse
<1>5. ASSUME NEW r \in Request, UNCHANGED setup, Finish(r) PROVE WholeResponse'
  <2>1. NeverCut'
    BY <1>5 DEF Finish, Answer, WholeResponse, NeverCut, TypeInv, TypeOK
  <2>2. \A q \in Request :
           total'[q] + segment'[q] = IF q = r THEN total[q] + segment[q] + 1
                                              ELSE total[q] + segment[q]
    BY <1>5 DEF Finish, Answer, TypeInv, TypeOK
  <2>3. WithinResponseLength' /\ WithinContext'
    BY <1>0, <1>5, <2>2, LengthsKept DEF Finish
  <2> QED
    BY <2>1, <2>3 DEF WholeResponse
<1>6. ASSUME NEW s \in Server, UNCHANGED setup, Abort(s) PROVE WholeResponse'
  <2>1. PICK stamp :
          Answer({r \in Request : phase[r] = "running" /\ at[r] = s}, "aborted", 0, stamp)
    BY <1>6 DEF Abort
  <2>2. NeverCut'
    <3> SUFFICES ASSUME partial_rollout, NEW q \in Request, phase'[q] = "done"
                 PROVE  stop_reason'[q] # "aborted"
      BY DEF NeverCut
    <3>1. CASE phase[q] = "running" /\ at[q] = s
      BY <2>1, <3>1 DEF Answer, Again
    <3>2. CASE ~(phase[q] = "running" /\ at[q] = s)
      BY <2>1, <3>2 DEF Answer, WholeResponse, NeverCut
    <3> QED
      BY <3>1, <3>2
  <2>3. \A q \in Request : total'[q] + segment'[q] = total[q] + segment[q]
    BY <2>1 DEF Answer, TypeInv, TypeOK
  <2>4. WithinResponseLength' /\ WithinContext'
    BY <1>0, <1>6, <2>3, LengthsKept
  <2> QED
    BY <2>2, <2>4 DEF WholeResponse
<1>7. CASE Next
  <2>1. ASSUME NEW s \in Server, ServerStep(s), ~Abort(s)
        PROVE  UNCHANGED <<phase, total, segment, stop_reason>>
    BY <2>1 DEF ServerStep, Load, set_global_steps, Resume, Sleep, clientVars
  <2>2. ASSUME Sequencing \/ NextVersion
        PROVE  UNCHANGED <<phase, total, segment, stop_reason>>
    BY <2>2 DEF Sequencing, CheckValidate, add_replicas, Validate, remove_replicas,
       NextVersion, clientVars
  <2>3. ASSUME NEW r \in Request, release_server(r)
        PROVE  UNCHANGED <<phase, total, segment, stop_reason>>
    BY <2>3 DEF release_server
  <2> QED
    BY <1>1, <1>2, <1>3, <1>4, <1>5, <1>6, <1>7, <2>1, <2>2, <2>3
    DEF Next, Client, Generate
<1>8. CASE UNCHANGED vars
  BY <1>1, <1>8 DEF vars, clientVars
<1> QED
  BY <1>7, <1>8

\* However often weight syncs abort and resume it, and whichever server it
\* lands on, a response ends with a stop token or at a limit, never by the abort
\* (with partial_rollout), and stays within response_length and the context.
THEOREM ResponsesWhole == Spec => []WholeResponse
<1>1. Init => WholeResponse
  <2> SUFFICES ASSUME Init PROVE WholeResponse
    OBVIOUS
  <2>1. response_length \in Nat /\ prompt_length \in Nat /\ PromptLen \in Nat
        /\ PromptLen <= prompt_length
    BY SetupFacts, ServersAssumption DEF Init
  <2> QED
    BY <2>1 DEF Init, WholeResponse, NeverCut, WithinResponseLength, WithinContext
<1>2. Spec => [](TypeInv /\ WholeResponse)
  BY <1>1, TypeInit, TypeStep, WholeStep, PTL DEF Spec
<1> QED
  BY <1>2, PTL

-----------------------------------------------------------------------------
(* TrueLoad. *)

\* The calls the balancer has to count for server s; an answered call moves from
\* holding the server to releasing it and is still one of them.
Held(s) == {r \in Request : at[r] = s \/ releasing[r] = s}

\* The pool is the standalone servers and the replicas the manager has added,
\* and a server outside it has no count.
PoolInv ==
    /\ \A s \in Server : InPool(s) <=> s \in Standalone \cup alive_replicas
    /\ \A s \in Server : ~InPool(s) => inflight[s] = 0

CountInv ==
    \A s \in Server : /\ inflight[s] <= Cardinality(Held(s))
                      /\ s \in Standalone => inflight[s] = Cardinality(Held(s))

LoadInv == PoolInv /\ CountInv

LEMMA HeldFinite == \A s : IsFiniteSet(Held(s)) /\ Cardinality(Held(s)) \in Nat
<1> TAKE s
<1>1. Held(s) \in SUBSET Request
  BY DEF Held
<1> QED
  BY <1>1, FS_Subset, FS_CardinalityType, ServersAssumption

LEMMA HeldSplit ==
  ASSUME TypeInv, NEW s \in Server
  PROVE  Cardinality(Held(s)) = Cardinality(Holding(s)) + Cardinality(Leaving(s))
<1>1. Holding(s) \in SUBSET Request /\ Leaving(s) \in SUBSET Request
  BY DEF Holding, Leaving
<1>2. IsFiniteSet(Holding(s)) /\ IsFiniteSet(Leaving(s))
  BY <1>1, FS_Subset, ServersAssumption
<1>3. Cardinality(Holding(s)) \in Nat /\ Cardinality(Leaving(s)) \in Nat
  BY <1>2, FS_CardinalityType
<1>4. Holding(s) \cap Leaving(s) = {}
  BY ServersAssumption DEF Holding, Leaving, TypeInv, Placed
<1>5. Held(s) = Holding(s) \cup Leaving(s)
  BY DEF Held, Holding, Leaving
<1>6. Cardinality(Holding(s) \cup Leaving(s)) =
        Cardinality(Holding(s)) + Cardinality(Leaving(s)) - Cardinality(Holding(s) \cap Leaving(s))
  BY <1>2, FS_Union
<1>7. Cardinality(Holding(s) \cap Leaving(s)) = 0
  BY <1>4, FS_EmptySet
<1> QED
  BY <1>3, <1>5, <1>6, <1>7

\* Steps that move no server between a request and the balancer.
LEMMA LoadKept ==
  ASSUME LoadInv, UNCHANGED <<setup, inflight, place, alive_replicas>>,
         \A s \in Server : Held(s)' = Held(s)
  PROVE  LoadInv'
<1>1. PoolInv'
  BY DEF LoadInv, PoolInv, InPool, Standalone
<1>2. CountInv'
  BY DEF LoadInv, CountInv, Standalone
<1> QED
  BY <1>1, <1>2 DEF LoadInv

LEMMA AnswerHeld ==
  ASSUME TypeInv, NEW R \in SUBSET Request, \A r \in R : phase[r] = "running",
         NEW reason, NEW new, NEW steps, Answer(R, reason, new, steps)
  PROVE  \A s \in Server : Held(s)' = Held(s)
<1>1. \A r \in R : at[r] # NoServer /\ releasing[r] = NoServer
  BY DEF TypeInv, Placed
<1>2. ASSUME NEW s \in Server, NEW r \in Request
      PROVE  (at'[r] = s \/ releasing'[r] = s) <=> (at[r] = s \/ releasing[r] = s)
  BY <1>1, ServersAssumption DEF Answer
<1> QED
  BY <1>2 DEF Held

LEMMA AcquireLoad ==
  ASSUME TypeInv, LoadInv, UNCHANGED setup, NEW r \in Request, acquire_server(r)
  PROVE  LoadInv'
<1>1. PICK s \in Server : /\ ServerFor(r, s)
                          /\ inflight' = [inflight EXCEPT ![s] = @ + 1]
                          /\ at' = [at EXCEPT ![r] = s]
  BY DEF acquire_server
<1>2. /\ phase[r] = "want" /\ releasing[r] = NoServer
      /\ UNCHANGED <<place, releasing, alive_replicas>>
  BY DEF acquire_server, driverVars
<1>3. InPool(s)
  BY <1>1 DEF ServerFor, Sticky, LeastLoaded
<1>4. at[r] = NoServer /\ at \in [Request -> MaybeServer] /\ inflight \in [Server -> Nat]
  BY <1>2 DEF TypeInv, TypeOK, Placed
<1>5. Held(s)' = Held(s) \cup {r} /\ r \notin Held(s)
  BY <1>1, <1>2, <1>4, ServersAssumption DEF Held
<1>6. \A t \in Server \ {s} : Held(t)' = Held(t)
  BY <1>1, <1>2, <1>4, ServersAssumption DEF Held
<1>7. Cardinality(Held(s)') = Cardinality(Held(s)) + 1
  BY <1>5, HeldFinite, FS_AddElement
<1>8. PoolInv'
  BY <1>1, <1>2, <1>3, <1>4 DEF LoadInv, PoolInv, InPool, Standalone
<1>9. CountInv'
  BY <1>1, <1>4, <1>6, <1>7, HeldFinite DEF LoadInv, CountInv, Standalone
<1> QED
  BY <1>8, <1>9 DEF LoadInv

LEMMA ReleaseLoad ==
  ASSUME TypeInv, LoadInv, UNCHANGED setup, NEW r \in Request, release_server(r)
  PROVE  LoadInv'
<1>0. PICK s \in Server : s = releasing[r]
  BY DEF release_server, TypeInv, TypeOK, MaybeServer
<1>1. /\ UNCHANGED <<place, at, alive_replicas>>
      /\ releasing' = [releasing EXCEPT ![r] = NoServer]
      /\ inflight' = IF InPool(s) /\ inflight[s] > 0
                     THEN [inflight EXCEPT ![s] = @ - 1] ELSE inflight
  BY <1>0 DEF release_server, driverVars
<1>2. /\ releasing \in [Request -> MaybeServer] /\ inflight \in [Server -> Nat]
      /\ at[r] = NoServer
  BY <1>0, ServersAssumption DEF TypeInv, TypeOK, Placed
<1>3. Held(s)' = Held(s) \ {r} /\ r \in Held(s)
  <2>1. Held(s)' = {q \in Request : at'[q] = s \/ releasing'[q] = s}
    BY DEF Held
  <2>2. \A q \in Request : (at'[q] = s \/ releasing'[q] = s)
                             <=> (at[q] = s \/ releasing[q] = s) /\ q # r
    BY <1>0, <1>1, <1>2, ServersAssumption
  <2> QED
    BY <1>0, <2>1, <2>2 DEF Held
<1>4. \A t \in Server : t # s => Held(t)' = Held(t)
  <2> SUFFICES ASSUME NEW t \in Server, t # s PROVE Held(t)' = Held(t)
    OBVIOUS
  <2>1. \A q \in Request : (at'[q] = t \/ releasing'[q] = t) <=> (at[q] = t \/ releasing[q] = t)
    BY <1>0, <1>1, <1>2, ServersAssumption
  <2> QED
    BY <2>1 DEF Held
<1>5. Cardinality(Held(s)') = Cardinality(Held(s)) - 1
  BY <1>3, HeldFinite, FS_RemoveElement
<1>6. Cardinality(Held(s)) >= 1
  BY <1>3, HeldFinite, FS_EmptySet
<1>7. ~InPool(s) => inflight[s] = 0 /\ s \notin Standalone
  BY <1>1 DEF LoadInv, PoolInv
<1>8. /\ inflight[s] <= Cardinality(Held(s))
      /\ s \in Standalone => inflight[s] = Cardinality(Held(s))
  BY <1>1 DEF LoadInv, CountInv
<1>9. Standalone' = Standalone
  BY DEF Standalone
<1>10. Cardinality(Held(s)) \in Nat
  BY HeldFinite
<1>11. PoolInv'
  BY <1>1, <1>2, <1>9 DEF LoadInv, PoolInv, InPool
<1>12. CountInv'
  <2> SUFFICES ASSUME NEW t \in Server
               PROVE  /\ inflight'[t] <= Cardinality(Held(t)')
                      /\ t \in Standalone => inflight'[t] = Cardinality(Held(t)')
    BY <1>9 DEF CountInv
  <2>1. CASE t = s
    BY <1>1, <1>2, <1>5, <1>6, <1>7, <1>8, <1>10, <2>1
  <2>2. CASE t # s
    <3>1. inflight'[t] = inflight[t]
      BY <1>1, <1>2, <2>2
    <3> QED
      BY <1>4, <2>2, <3>1 DEF LoadInv, CountInv
  <2> QED
    BY <2>1, <2>2
<1> QED
  BY <1>11, <1>12 DEF LoadInv

LEMMA ReplicasLoad ==
  ASSUME TypeInv, LoadInv, UNCHANGED setup, add_replicas \/ remove_replicas
  PROVE  LoadInv'
<1>1. /\ Standalone' = Standalone /\ Standalone \subseteq Server /\ Hybrid \subseteq Server
      /\ Standalone \cap Hybrid = {} /\ alive_replicas \subseteq Hybrid
      /\ place \in [Server -> Nat] /\ inflight \in [Server -> Nat]
  BY SetupFacts DEF TypeInv, TypeOK, Standalone
<1>2. \A s \in Server : Held(s)' = Held(s)
  BY DEF add_replicas, remove_replicas, clientVars, Held
<1>3. CASE add_replicas
  <2>1. /\ place' \in Orders(Pool \cup Hybrid) /\ alive_replicas' = Hybrid
        /\ inflight' = [s \in Server |->
                          IF s \in Hybrid \ alive_replicas THEN 0 ELSE inflight[s]]
    BY <1>3 DEF add_replicas
  <2>2. \A s \in Server : place'[s] > 0 <=> s \in Pool \cup Hybrid
    BY <2>1 DEF Orders
  <2>3. PoolInv'
    BY <1>1, <2>1, <2>2 DEF LoadInv, PoolInv, InPool, Pool
  <2>4. CountInv'
    BY <1>1, <1>2, <2>1, HeldFinite DEF LoadInv, CountInv
  <2> QED
    BY <2>3, <2>4 DEF LoadInv
<1>4. CASE remove_replicas
  <2>1. /\ place' = [s \in Server |-> IF s \in alive_replicas THEN 0 ELSE place[s]]
        /\ inflight' = [s \in Server |-> IF s \in alive_replicas THEN 0 ELSE inflight[s]]
        /\ alive_replicas' = {}
    BY <1>4 DEF remove_replicas
  <2>2. PoolInv'
    BY <1>1, <2>1 DEF LoadInv, PoolInv, InPool
  <2>3. CountInv'
    BY <1>1, <1>2, <2>1, HeldFinite DEF LoadInv, CountInv
  <2> QED
    BY <2>2, <2>3 DEF LoadInv
<1> QED
  BY <1>3, <1>4

LEMMA LoadStep == TypeInv /\ LoadInv /\ [Next]_vars => LoadInv'
<1> SUFFICES ASSUME TypeInv, LoadInv, [Next]_vars PROVE LoadInv'
  OBVIOUS
<1>1. ASSUME UNCHANGED <<setup, inflight, place, alive_replicas, at, releasing>> PROVE LoadInv'
  BY <1>1, LoadKept DEF Held
<1>2. ASSUME NEW r \in Request, UNCHANGED setup, Finish(r) PROVE LoadInv'
  <2>1. \A s \in Server : Held(s)' = Held(s)
    BY <1>2, AnswerHeld DEF Finish
  <2> QED
    BY <1>2, <2>1, LoadKept DEF Finish, lbVars, driverVars
<1>3. ASSUME NEW s \in Server, UNCHANGED setup, Abort(s) PROVE LoadInv'
  <2>1. PICK stamp :
          Answer({r \in Request : phase[r] = "running" /\ at[r] = s}, "aborted", 0, stamp)
    BY <1>3 DEF Abort
  <2>2. \A t \in Server : Held(t)' = Held(t)
    BY <2>1, AnswerHeld
  <2> QED
    BY <1>3, <2>2, LoadKept DEF Abort, lbVars
<1>4. CASE Next
  <2>1. ASSUME NEW s \in Server, ServerStep(s), ~Abort(s)
        PROVE  UNCHANGED <<inflight, place, alive_replicas, at, releasing>>
    BY <2>1 DEF ServerStep, Load, set_global_steps, Resume, Sleep, lbVars, clientVars, driverVars
  <2>2. ASSUME CheckValidate \/ Validate \/ NextVersion
        PROVE  UNCHANGED <<inflight, place, alive_replicas, at, releasing>>
    BY <2>2 DEF CheckValidate, Validate, NextVersion, lbVars, clientVars
  <2>3. ASSUME NEW r \in Request, Start(r) \/ Token(r)
        PROVE  UNCHANGED <<inflight, place, alive_replicas, at, releasing>>
    BY <2>3 DEF Start, Token, lbVars, driverVars
  <2> QED
    BY <1>1, <1>2, <1>3, <1>4, <2>1, <2>2, <2>3, AcquireLoad, ReleaseLoad, ReplicasLoad
    DEF Next, Client, Generate, Sequencing
<1>5. CASE UNCHANGED vars
  BY <1>1, <1>5 DEF vars, lbVars, clientVars, driverVars
<1> QED
  BY <1>4, <1>5

LEMMA LoadInit == Init => LoadInv
<1> SUFFICES ASSUME Init PROVE LoadInv
  OBVIOUS
<1>1. \A s \in Server : Held(s) = {}
  BY ServersAssumption DEF Init, Held
<1>2. PoolInv
  BY DEF Init, PoolInv, InPool, Orders
<1>3. CountInv
  <2>1. \A s \in Server : inflight[s] = 0
    BY DEF Init
  <2>2. \A s \in Server : Cardinality(Held(s)) = 0
    BY <1>1, FS_EmptySet
  <2> QED
    BY <2>1, <2>2 DEF CountInv
<1> QED
  BY <1>2, <1>3 DEF LoadInv

\* The balancer's count of a standalone server is the number of calls that hold
\* it or are still releasing it, and no server ever looks busier than it is, for any
\* number of requests, late releases and replicas that leave and come back.
THEOREM LoadTrue == Spec => []TrueLoad
<1>1. TypeInv /\ LoadInv => TrueLoad
  <2> SUFFICES ASSUME TypeInv, LoadInv PROVE TrueLoad
    OBVIOUS
  <2>1. Standalone \subseteq Server
    BY SetupFacts DEF TypeInv, TypeOK
  <2> QED
    BY <2>1, HeldSplit DEF LoadInv, CountInv, TrueLoad, ExactLoad, NoGhostLoad
<1>2. Spec => [](TypeInv /\ LoadInv)
  BY LoadInit, TypeInit, TypeStep, LoadStep, PTL DEF Spec
<1> QED
  BY <1>1, <1>2, PTL

-----------------------------------------------------------------------------
(* VersionsBracket: deployments without hybrid replicas, with partial_rollout. *)

\* Where a weight sync has got to: servers are paused before the first of them
\* loads, weights and stamps are of the version before or of this one, and they
\* differ only on a server whose load is under way.
SyncInv ==
    /\ step \in {"train", "sync_abort", "sync_load", "sync_resume", "check"}
    /\ step = "sync_abort" => \A s \in Standalone \ todo : paused[s]
    /\ step = "sync_load" => \A s \in Standalone : paused[s]
    /\ step \in {"sync_abort", "sync_load"} => version >= 1
    /\ \A s \in Standalone :
        /\ step = "sync_abort" => weights[s] = version - 1 /\ global_steps[s] = version - 1
        /\ step = "sync_load" /\ s \in todo =>
             weights[s] \in {version - 1, version} /\ global_steps[s] = version - 1
        /\ step \in {"train", "sync_resume", "check"} \/ (step = "sync_load" /\ s \notin todo) =>
             weights[s] = version /\ global_steps[s] = version

\* What the stamps of a request say before it is finished: the first one is not
\* above any server's version, so that a token computed later cannot be below it.
StampInv(r) ==
    /\ at[r] # NoServer => at[r] \in Standalone
    /\ phase[r] = "running" => ~paused[at[r]]
    /\ segment[r] > 0 => /\ phase[r] = "running"
                         /\ last[r] = weights[at[r]]
                         /\ total[r] = 0 => first[r] = weights[at[r]]
    /\ has_limit /\ phase[r] # "done" => total[r] + segment[r] < response_length
    /\ total[r] > 0 => min_global_steps[r] # -1
    /\ min_global_steps[r] # -1 =>
         /\ 0 <= min_global_steps[r]
         /\ total[r] + segment[r] > 0 => min_global_steps[r] <= first[r]
         /\ phase[r] # "done" => \A s \in Standalone : min_global_steps[r] <= global_steps[s]
    /\ phase[r] = "done" =>
         /\ 0 <= min_global_steps[r] /\ min_global_steps[r] <= first[r]
         /\ last[r] = max_global_steps[r]

VersionInv == Hybrid = {} /\ partial_rollout => SyncInv /\ \A r \in Request : StampInv(r)

LEMMA SyncPlan ==
  /\ Plan["train"].do = "train"
  /\ Plan["sync_abort"].do = "abort" /\ Plan["sync_abort"].next = "sync_load"
  /\ Plan["sync_load"].do = "load" /\ Plan["sync_load"].next = "sync_resume"
  /\ Plan["sync_resume"].do = "resume" /\ Plan["sync_resume"].next = "check"
  /\ Plan["check"].do = "check"
  /\ Group(Plan["sync_abort"].on) = Standalone /\ Group(Plan["sync_load"].on) = Standalone
BY DEF Plan, Op, Group

\* The operations on servers that do not happen without hybrid replicas, and
\* the step at which the others do.
LEMMA SyncStepOf ==
  ASSUME SyncInv
  PROVE  /\ Plan[step].do = "train" => step = "train"
         /\ Plan[step].do = "abort" => step = "sync_abort"
         /\ Plan[step].do = "load" => step = "sync_load"
         /\ Plan[step].do = "resume" => step = "sync_resume"
         /\ Plan[step].do = "check" => step = "check"
         /\ Plan[step].do \notin {"add", "validate", "remove", "sleep"}
BY SyncPlan DEF SyncInv

LEMMA SyncServerStep ==
  ASSUME TypeInv, Hybrid = {}, SyncInv, UNCHANGED setup, NEW s \in Server, ServerStep(s)
  PROVE  SyncInv'
<1>0. /\ Standalone' = Standalone /\ version \in Nat
      /\ paused \in [Server -> BOOLEAN] /\ weights \in [Server -> Int]
      /\ global_steps \in [Server -> Int] /\ Standalone \subseteq Server
  BY SetupFacts DEF Standalone, TypeInv, TypeOK
<1>1. CASE Abort(s)
  <2>1. /\ step = "sync_abort" /\ s \in todo /\ paused' = [paused EXCEPT ![s] = TRUE]
        /\ UNCHANGED <<weights, global_steps, version>> /\ Handled(s)
    BY <1>1, SyncStepOf DEF Abort, Doing
  <2>2. CASE todo = {s}
    <3>1. step' = "sync_load" /\ todo' = Standalone
      BY <2>1, <2>2, SyncPlan DEF Handled, Goto
    <3> QED
      BY <1>0, <2>1, <2>2, <3>1 DEF SyncInv
  <2>3. CASE todo # {s}
    <3>1. step' = "sync_abort" /\ todo' = todo \ {s}
      BY <2>1, <2>3 DEF Handled
    <3> QED
      BY <1>0, <2>1, <3>1 DEF SyncInv
  <2> QED
    BY <2>2, <2>3
<1>2. CASE Load(s)
  <2>1. /\ step = "sync_load" /\ s \in todo /\ weights' = [weights EXCEPT ![s] = version]
        /\ UNCHANGED <<paused, global_steps, version, step, todo>>
    BY <1>2, SyncStepOf DEF Load, Doing, driverVars
  <2> QED
    BY <1>0, <2>1 DEF SyncInv
<1>3. CASE set_global_steps(s)
  <2>1. /\ step = "sync_load" /\ s \in todo /\ weights[s] = version
        /\ global_steps' = [global_steps EXCEPT ![s] = version]
        /\ UNCHANGED <<paused, weights, version>> /\ Handled(s)
    BY <1>3, SyncStepOf DEF set_global_steps, Doing
  <2>2. CASE todo = {s}
    <3>1. step' = "sync_resume"
      BY <2>1, <2>2, SyncPlan DEF Handled, Goto
    <3> QED
      BY <1>0, <2>1, <2>2, <3>1 DEF SyncInv
  <2>3. CASE todo # {s}
    <3>1. step' = "sync_load" /\ todo' = todo \ {s}
      BY <2>1, <2>3 DEF Handled
    <3> QED
      BY <1>0, <2>1, <3>1 DEF SyncInv
  <2> QED
    BY <2>2, <2>3
<1>4. CASE Resume(s)
  <2>1. step = "sync_resume" /\ UNCHANGED <<weights, global_steps, version>> /\ Handled(s)
    BY <1>4, SyncStepOf DEF Resume, Doing
  <2>2. step' \in {"sync_resume", "check"}
    BY <2>1, SyncPlan DEF Handled, Goto
  <2> QED
    BY <1>0, <2>1, <2>2 DEF SyncInv
<1>5. ~Sleep(s)
  BY SyncStepOf DEF Sleep, Doing
<1> QED
  BY <1>1, <1>2, <1>3, <1>4, <1>5 DEF ServerStep

LEMMA SyncSequencing ==
  ASSUME TypeInv, Hybrid = {}, SyncInv, UNCHANGED setup, Sequencing \/ NextVersion
  PROVE  SyncInv' /\ UNCHANGED <<clientVars, serverVars>>
<1>0. Standalone' = Standalone /\ version \in Nat
  BY DEF Standalone, TypeInv, TypeOK
<1>1. CASE CheckValidate
  <2>1. /\ step = "check" /\ step' = "train"
        /\ UNCHANGED <<clientVars, serverVars, version>>
    BY <1>1, SyncStepOf DEF CheckValidate, Goto
  <2> QED
    BY <1>0, <2>1 DEF SyncInv, serverVars
<1>2. CASE NextVersion
  <2>1. /\ step = "train" /\ step' = "sync_abort" /\ todo' = Standalone
        /\ version' = version + 1 /\ UNCHANGED <<clientVars, serverVars>>
    BY <1>2, SyncStepOf, SyncPlan DEF NextVersion, Goto
  <2> QED
    BY <1>0, <2>1 DEF SyncInv, serverVars
<1>3. ~add_replicas /\ ~Validate /\ ~remove_replicas
  BY SyncStepOf DEF add_replicas, Validate, remove_replicas
<1> QED
  BY <1>1, <1>2, <1>3 DEF Sequencing

\* Outside the load under way, the weights of a server are those of its stamp,
\* and a server that is not paused is never loading.
LEMMA StampsOfServers ==
  ASSUME TypeInv, SyncInv, NEW s \in Standalone
  PROVE  /\ global_steps[s] \in Int /\ weights[s] \in Int /\ 0 <= global_steps[s]
         /\ ~paused[s] => weights[s] = global_steps[s]
         /\ step = "sync_abort" => \A t \in Standalone : global_steps[s] <= global_steps[t]
<1>0. version \in Nat /\ s \in Server /\ Standalone \subseteq Server
  BY SetupFacts DEF TypeInv, TypeOK
<1>1. global_steps[s] \in Int /\ weights[s] \in Int
  BY <1>0 DEF TypeInv, TypeOK
<1> QED
  BY <1>0, <1>1 DEF SyncInv

\* The numbers of one request.
LEMMA RequestTypes ==
  ASSUME TypeInv, NEW r \in Request
  PROVE  /\ total[r] \in Nat /\ segment[r] \in Nat /\ first[r] \in Int /\ last[r] \in Int
         /\ min_global_steps[r] \in Int /\ max_global_steps[r] \in Int
         /\ phase[r] \in {"sent", "running"} <=> at[r] # NoServer
BY DEF TypeInv, TypeOK, Placed

LEMMA StampAcquire ==
  ASSUME TypeInv, LoadInv, Hybrid = {}, UNCHANGED setup,
         NEW r \in Request, acquire_server(r), NEW q \in Request, StampInv(q)
  PROVE  StampInv(q)'
<1>1. PICK s \in Server : ServerFor(r, s) /\ at' = [at EXCEPT ![r] = s]
  BY DEF acquire_server
<1>2. s \in Standalone
  BY <1>1 DEF ServerFor, Sticky, LeastLoaded, LoadInv, PoolInv, TypeInv, TypeOK
<1>3. /\ phase[r] = "want" /\ phase' = [phase EXCEPT ![r] = "sent"]
      /\ segment' = [segment EXCEPT ![r] = 0] /\ Standalone' = Standalone
      /\ has_limit' = has_limit /\ response_length' = response_length
      /\ UNCHANGED <<total, first, last, min_global_steps, max_global_steps, paused, weights,
                     global_steps>>
  BY DEF acquire_server, serverVars, Standalone, has_limit, response_length
<1>4. /\ at \in [Request -> MaybeServer] /\ segment \in [Request -> Nat]
      /\ phase \in [Request -> {"want", "sent", "running", "done"}]
  BY DEF TypeInv, TypeOK
<1>5. CASE q = r
  <2>1. /\ phase'[q] = "sent" /\ at'[q] = s /\ segment'[q] = 0
        /\ total[q] \in Nat /\ segment[q] \in Nat
    BY <1>1, <1>3, <1>4, <1>5, RequestTypes
  <2>2. total'[q] + segment'[q] > 0 => total[q] + segment[q] > 0
    BY <1>3, <2>1
  <2> QED
    BY <1>2, <1>3, <1>5, <2>1, <2>2 DEF StampInv
<1>6. CASE q # r
  <2>1. phase'[q] = phase[q] /\ at'[q] = at[q] /\ segment'[q] = segment[q]
    BY <1>1, <1>3, <1>4, <1>6
  <2> QED
    BY <1>3, <2>1 DEF StampInv
<1> QED
  BY <1>5, <1>6

LEMMA StampStart ==
  ASSUME TypeInv, UNCHANGED setup, NEW r \in Request, Start(r),
         NEW q \in Request, StampInv(q)
  PROVE  StampInv(q)'
<1>1. /\ phase[r] = "sent" /\ ~paused[at[r]] /\ phase' = [phase EXCEPT ![r] = "running"]
      /\ Standalone' = Standalone /\ has_limit' = has_limit
      /\ response_length' = response_length
      /\ UNCHANGED <<at, total, segment, first, last, min_global_steps, max_global_steps,
                     paused, weights, global_steps>>
  BY DEF Start, serverVars, Standalone, has_limit, response_length
<1>2. phase \in [Request -> {"want", "sent", "running", "done"}]
  BY DEF TypeInv, TypeOK
<1> QED
  BY <1>1, <1>2 DEF StampInv

LEMMA StampToken ==
  ASSUME TypeInv, SyncInv, UNCHANGED setup, NEW r \in Request, Token(r),
         NEW q \in Request, StampInv(q)
  PROVE  StampInv(q)'
<1>1. /\ phase[r] = "running" /\ segment' = [segment EXCEPT ![r] = @ + 1] /\ Computed(r)
      /\ Standalone' = Standalone /\ has_limit' = has_limit
      /\ response_length' = response_length
      /\ UNCHANGED <<phase, at, total, min_global_steps, max_global_steps, paused, weights,
                     global_steps>>
  BY DEF Token, serverVars, Standalone, has_limit, response_length
<1>2. /\ segment \in [Request -> Nat] /\ first \in [Request -> Int] /\ last \in [Request -> Int]
  BY DEF TypeInv, TypeOK
<1>3. CASE q = r
  <2>1. /\ segment'[q] = segment[q] + 1 /\ last'[q] = weights[at[q]]
        /\ first'[q] = IF total[q] + segment[q] = 0 THEN weights[at[q]] ELSE first[q]
    BY <1>1, <1>2, <1>3 DEF Computed
  <2>2. at[q] \in Standalone /\ ~paused[at[q]]
    BY <1>1, <1>3, RequestTypes DEF StampInv
  <2>3. weights[at[q]] = global_steps[at[q]] /\ weights[at[q]] \in Int
    BY <2>2, StampsOfServers
  <2>4. min_global_steps[q] # -1 => min_global_steps[q] <= first'[q]
    BY <1>1, <1>3, <2>1, <2>2, <2>3, RequestTypes DEF StampInv
  <2>5. total[q] = 0 => first'[q] = weights[at[q]]
    BY <2>1, RequestTypes DEF StampInv
  <2>6. has_limit => total[q] + segment'[q] < response_length
    <3>1. segment[q] + 1 < MaxTokens(q) /\ response_length \in Nat
      BY <1>3, SetupFacts DEF Token, TypeInv, TypeOK
    <3> QED
      BY <2>1, <3>1, RequestTypes DEF MaxTokens
  <2> QED
    BY <1>1, <1>3, <2>1, <2>4, <2>5, <2>6, RequestTypes DEF StampInv
<1>4. CASE q # r
  <2>1. segment'[q] = segment[q] /\ first'[q] = first[q] /\ last'[q] = last[q]
    BY <1>1, <1>2, <1>4 DEF Computed
  <2> QED
    BY <1>1, <2>1 DEF StampInv
<1> QED
  BY <1>3, <1>4

LEMMA StampFinish ==
  ASSUME TypeInv, SyncInv, UNCHANGED setup, NEW r \in Request, Finish(r),
         NEW q \in Request, StampInv(q)
  PROVE  StampInv(q)'
<1>1. /\ phase[r] = "running" /\ Computed(r) /\ Standalone' = Standalone
      /\ has_limit' = has_limit /\ response_length' = response_length
      /\ Answer({r}, "completed", 1, [t \in Request |-> global_steps[at[r]]])
      /\ UNCHANGED <<paused, weights, global_steps>>
  BY DEF Finish, serverVars, Standalone, has_limit, response_length
<1>2. first \in [Request -> Int] /\ last \in [Request -> Int]
  BY DEF TypeInv, TypeOK
<1>3. CASE q = r
  <2>1. at[q] \in Standalone /\ ~paused[at[q]]
    BY <1>1, <1>3, RequestTypes DEF StampInv
  <2>2. /\ weights[at[q]] = global_steps[at[q]] /\ weights[at[q]] \in Int
        /\ 0 <= global_steps[at[q]]
    BY <2>1, StampsOfServers
  <2>3. /\ phase'[q] = "done" /\ at'[q] = NoServer /\ segment'[q] = 0
        /\ total'[q] = total[q] + segment[q] + 1
        /\ max_global_steps'[q] = global_steps[at[q]]
        /\ min_global_steps'[q] = IF min_global_steps[q] = -1 THEN global_steps[at[q]]
                                                              ELSE min_global_steps[q]
    BY <1>1, <1>3 DEF Answer, Again
  <2>4. /\ last'[q] = weights[at[q]]
        /\ first'[q] = IF total[q] + segment[q] = 0 THEN weights[at[q]] ELSE first[q]
    BY <1>1, <1>2, <1>3 DEF Computed
  <2>5. 0 <= min_global_steps'[q] /\ min_global_steps'[q] <= first'[q]
    <3>1. CASE min_global_steps[q] = -1
      <4>1. total[q] = 0
        BY <3>1, RequestTypes DEF StampInv
      <4>2. first'[q] = weights[at[q]]
        BY <2>4, <4>1, RequestTypes DEF StampInv
      <4> QED
        BY <2>2, <2>3, <3>1, <4>2
    <3>2. CASE min_global_steps[q] # -1
      BY <1>1, <1>3, <2>1, <2>2, <2>3, <2>4, <3>2, RequestTypes DEF StampInv
    <3> QED
      BY <3>1, <3>2
  <2> QED
    BY <2>2, <2>3, <2>4, <2>5 DEF StampInv
<1>4. CASE q # r
  <2>1. /\ phase'[q] = phase[q] /\ at'[q] = at[q] /\ segment'[q] = segment[q]
        /\ total'[q] = total[q] /\ max_global_steps'[q] = max_global_steps[q]
        /\ min_global_steps'[q] = min_global_steps[q]
    BY <1>1, <1>4 DEF Answer
  <2>2. first'[q] = first[q] /\ last'[q] = last[q]
    BY <1>1, <1>2, <1>4 DEF Computed
  <2> QED
    BY <1>1, <2>1, <2>2 DEF StampInv
<1> QED
  BY <1>3, <1>4

LEMMA StampAbort ==
  ASSUME TypeInv, Hybrid = {}, SyncInv, partial_rollout, UNCHANGED setup,
         NEW s \in Server, Abort(s), NEW q \in Request, StampInv(q)
  PROVE  StampInv(q)'
<1>1. /\ step = "sync_abort" /\ paused' = [paused EXCEPT ![s] = TRUE]
      /\ UNCHANGED <<first, last, weights, global_steps>> /\ Standalone' = Standalone
      /\ has_limit' = has_limit /\ response_length' = response_length
  BY SyncStepOf DEF Abort, Doing, Standalone, has_limit, response_length
<1>2. PICK empty \in BOOLEAN :
        Answer({r \in Request : phase[r] = "running" /\ at[r] = s}, "aborted", 0,
               [r \in Request |-> IF segment[r] = 0 /\ empty THEN -1 ELSE global_steps[s]])
  BY DEF Abort
<1>3. paused \in [Server -> BOOLEAN]
  BY DEF TypeInv, TypeOK
<1>4. CASE phase[q] = "running" /\ at[q] = s
  <2>1. s \in Standalone /\ ~paused[s]
    BY <1>4, RequestTypes DEF StampInv
  <2>2. /\ weights[s] = global_steps[s] /\ weights[s] \in Int /\ 0 <= global_steps[s]
        /\ \A t \in Standalone : global_steps[s] <= global_steps[t]
    BY <1>1, <2>1, StampsOfServers
  <2> DEFINE stamp == IF segment[q] = 0 /\ empty THEN -1 ELSE global_steps[s]
  <2>3. /\ at'[q] = NoServer /\ segment'[q] = 0
        /\ total'[q] = total[q] + segment[q]
        /\ max_global_steps'[q] = stamp
        /\ min_global_steps'[q] = IF min_global_steps[q] = -1 THEN stamp ELSE min_global_steps[q]
    BY <1>2, <1>4, RequestTypes DEF Answer
  <2>4. total[q] \in Nat /\ segment[q] \in Nat /\ min_global_steps[q] \in Int
    BY RequestTypes
  <2>5. segment[q] > 0 => stamp = global_steps[s]
    BY <2>4
  <2>6. min_global_steps'[q] # -1 =>
          /\ 0 <= min_global_steps'[q]
          /\ total[q] + segment[q] > 0 => min_global_steps'[q] <= first[q]
          /\ \A t \in Standalone : min_global_steps'[q] <= global_steps[t]
    <3>1. CASE min_global_steps[q] = -1
      <4>1. total[q] = 0
        BY <2>4, <3>1 DEF StampInv
      <4>2. segment[q] > 0 => first[q] = weights[s]
        BY <1>4, <4>1 DEF StampInv
      <4> QED
        BY <2>2, <2>3, <2>4, <2>5, <3>1, <4>1, <4>2
    <3>2. CASE min_global_steps[q] # -1
      BY <1>4, <2>3, <2>4, <3>2 DEF StampInv
    <3> QED
      BY <3>1, <3>2
  <2>7. total'[q] > 0 => min_global_steps'[q] # -1
    BY <2>2, <2>3, <2>4, <2>5 DEF StampInv
  <2>8. /\ phase'[q] = "want"
        /\ has_limit => total'[q] + segment'[q] < response_length
    <3>1. response_length \in Nat
      BY SetupFacts DEF TypeInv, TypeOK
    <3>2. has_limit => total[q] + segment[q] < response_length
      BY <1>4 DEF StampInv
    <3>3. has_limit => ~(total[q] + segment[q] + 0 >= response_length)
      BY <2>4, <3>1, <3>2
    <3>4. phase'[q] = "want"
      BY <1>2, <1>4, <3>3 DEF Answer, Again
    <3> QED
      BY <2>3, <2>4, <3>2, <3>4
  <2> HIDE DEF stamp
  <2> QED
    BY <1>1, <2>3, <2>4, <2>6, <2>7, <2>8 DEF StampInv
<1>5. CASE ~(phase[q] = "running" /\ at[q] = s)
  <2>1. /\ phase'[q] = phase[q] /\ at'[q] = at[q] /\ segment'[q] = segment[q]
        /\ total'[q] = total[q] /\ max_global_steps'[q] = max_global_steps[q]
        /\ min_global_steps'[q] = min_global_steps[q]
    BY <1>2, <1>5 DEF Answer
  <2>2. phase[q] = "running" => paused'[at[q]] = paused[at[q]]
    <3>1. phase[q] = "running" => at[q] \in Server
      BY SetupFacts, RequestTypes DEF StampInv, TypeInv, TypeOK
    <3> QED
      BY <1>1, <1>3, <1>5, <3>1
  <2> QED
    BY <1>1, <2>1, <2>2 DEF StampInv
<1> QED
  BY <1>4, <1>5

\* Loads and stamps: only of servers on which nothing runs.
LEMMA StampServers ==
  ASSUME TypeInv, Hybrid = {}, SyncInv, UNCHANGED setup, NEW s \in Server,
         Load(s) \/ set_global_steps(s) \/ Resume(s), NEW q \in Request, StampInv(q)
  PROVE  StampInv(q)'
<1>0. /\ Standalone' = Standalone /\ has_limit' = has_limit
      /\ response_length' = response_length
      /\ paused \in [Server -> BOOLEAN] /\ weights \in [Server -> Int]
      /\ global_steps \in [Server -> Int] /\ Standalone \subseteq Server /\ version \in Nat
  <2>1. /\ setup \in Setups /\ paused \in [Server -> BOOLEAN] /\ weights \in [Server -> Int]
        /\ global_steps \in [Server -> Int] /\ version \in Nat
    BY DEF TypeInv, TypeOK
  <2>2. Standalone \subseteq Server
    BY <2>1, SetupFacts
  <2> QED
    BY <2>1, <2>2 DEF Standalone, has_limit, response_length
<1>1. CASE Load(s)
  <2>1. /\ step = "sync_load" /\ weights' = [weights EXCEPT ![s] = version]
        /\ UNCHANGED <<clientVars, paused, global_steps>>
    BY <1>1, SyncStepOf DEF Load, Doing
  <2>2. phase[q] = "running" => at[q] \in Standalone /\ at[q] # s
    <3>1. \A t \in Standalone : paused[t]
      BY <2>1 DEF SyncInv
    <3> QED
      BY <3>1, RequestTypes DEF StampInv
  <2>3. phase[q] = "running" => weights'[at[q]] = weights[at[q]]
    BY <1>0, <2>1, <2>2
  <2> QED
    BY <1>0, <2>1, <2>3 DEF StampInv, clientVars
<1>2. CASE set_global_steps(s)
  <2>1. /\ step = "sync_load" /\ s \in todo
        /\ global_steps' = [global_steps EXCEPT ![s] = version]
        /\ UNCHANGED <<clientVars, paused, weights>>
    BY <1>2, SyncStepOf DEF set_global_steps, Doing
  <2>2. \A t \in Standalone : global_steps[t] <= global_steps'[t] /\ global_steps'[t] \in Int
    BY <1>0, <2>1 DEF SyncInv
  <2>3. /\ \A t \in Standalone : global_steps[t] \in Int
        /\ min_global_steps[q] \in Int
    BY <1>0, RequestTypes
  <2>4. (\A t \in Standalone : min_global_steps[q] <= global_steps[t])
          => \A t \in Standalone : min_global_steps[q] <= global_steps'[t]
    BY <2>2, <2>3
  <2> QED
    BY <1>0, <2>1, <2>4 DEF StampInv, clientVars
<1>3. CASE Resume(s)
  <2>1. /\ paused' = [paused EXCEPT ![s] = FALSE]
        /\ UNCHANGED <<clientVars, weights, global_steps>>
    BY <1>3 DEF Resume
  <2>2. phase[q] = "running" => at[q] \in Server
    BY <1>0, RequestTypes DEF StampInv
  <2>3. phase[q] = "running" /\ ~paused[at[q]] => ~paused'[at[q]]
    BY <1>0, <2>1, <2>2
  <2> QED
    BY <1>0, <2>1, <2>3 DEF StampInv, clientVars
<1> QED
  BY <1>1, <1>2, <1>3

LEMMA StampKept ==
  ASSUME UNCHANGED <<setup, phase, at, total, segment, first, last, min_global_steps,
                     max_global_steps, paused, weights, global_steps>>,
         NEW q \in Request, StampInv(q)
  PROVE  StampInv(q)'
BY DEF StampInv, Standalone, has_limit, response_length

LEMMA VersionStep == TypeInv /\ LoadInv /\ VersionInv /\ [Next]_vars => VersionInv'
<1> SUFFICES ASSUME TypeInv, LoadInv, VersionInv, [Next]_vars, Hybrid' = {}, partial_rollout
             PROVE  SyncInv' /\ \A q \in Request : StampInv(q)'
  BY DEF VersionInv
<1>1. UNCHANGED setup /\ Hybrid = {}
  BY DEF Next, vars, Hybrid
<1>2. SyncInv /\ \A q \in Request : StampInv(q)
  BY <1>1 DEF VersionInv
<1>3. ASSUME UNCHANGED <<serverVars, driverVars>> PROVE SyncInv'
  BY <1>1, <1>2, <1>3 DEF SyncInv, serverVars, driverVars, Standalone
<1>4. ASSUME NEW r \in Request, Client(r) PROVE SyncInv' /\ \A q \in Request : StampInv(q)'
  <2>1. UNCHANGED <<serverVars, driverVars>>
    BY <1>4 DEF Client, acquire_server, release_server
  <2>2. ASSUME release_server(r), NEW q \in Request PROVE StampInv(q)'
    BY <1>1, <1>2, <2>1, <2>2, StampKept DEF release_server, serverVars
  <2> QED
    BY <1>1, <1>2, <1>3, <1>4, <2>1, <2>2, StampAcquire DEF Client
<1>5. ASSUME NEW r \in Request, Generate(r) PROVE SyncInv' /\ \A q \in Request : StampInv(q)'
  <2>1. UNCHANGED <<serverVars, driverVars>>
    BY <1>5 DEF Generate, Start, Token, Finish
  <2> QED
    BY <1>1, <1>2, <1>3, <1>5, <2>1, StampStart, StampToken, StampFinish DEF Generate
<1>6. ASSUME NEW s \in Server, ServerStep(s)
      PROVE  SyncInv' /\ \A q \in Request : StampInv(q)'
  <2>1. ~Sleep(s)
    BY <1>2, SyncStepOf DEF Sleep, Doing
  <2> QED
    BY <1>1, <1>2, <1>6, <2>1, SyncServerStep, StampAbort, StampServers DEF ServerStep
<1>7. ASSUME Sequencing \/ NextVersion PROVE SyncInv' /\ \A q \in Request : StampInv(q)'
  <2>1. SyncInv' /\ UNCHANGED <<clientVars, serverVars>>
    BY <1>1, <1>2, <1>7, SyncSequencing
  <2> QED
    BY <1>1, <1>2, <2>1, StampKept DEF clientVars, serverVars
<1>8. CASE UNCHANGED vars
  <2>1. SyncInv'
    BY <1>3, <1>8 DEF vars
  <2> QED
    BY <1>1, <1>2, <1>8, <2>1, StampKept DEF vars, clientVars, serverVars
<1> QED
  BY <1>4, <1>5, <1>6, <1>7, <1>8 DEF Next

\* The version stamps of a finished response enclose the versions that computed
\* its tokens, through any number of weight syncs, aborts and resumptions on other
\* servers (without hybrid replicas, with partial_rollout).
THEOREM StampsBracket == Spec => []VersionsBracket
<1>1. Init => VersionInv
  <2> SUFFICES ASSUME Init PROVE VersionInv
    OBVIOUS
  <2>1. /\ \A s \in Standalone : weights[s] = 0 /\ global_steps[s] = 0
        /\ response_length \in Nat \ {0} /\ version = 0 /\ step = "train"
    BY SetupFacts DEF Init
  <2>2. SyncInv
    BY <2>1 DEF SyncInv
  <2>3. ASSUME NEW r \in Request PROVE StampInv(r)
    <3>1. /\ phase[r] = "want" /\ at[r] = NoServer /\ total[r] = 0 /\ segment[r] = 0
          /\ min_global_steps[r] = -1
      BY DEF Init
    <3> QED
      BY <2>1, <3>1 DEF StampInv
  <2> QED
    BY <2>2, <2>3 DEF VersionInv
<1>2. Spec => [](TypeInv /\ LoadInv /\ VersionInv)
  BY <1>1, LoadInit, TypeInit, TypeStep, LoadStep, VersionStep, PTL DEF Spec
<1>3. VersionInv => VersionsBracket
  BY DEF VersionInv, VersionsBracket, StampInv
<1> QED
  BY <1>2, <1>3, PTL
=============================================================================
