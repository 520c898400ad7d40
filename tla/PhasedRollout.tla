---------------------------- MODULE PhasedRollout ----------------------------
(***************************************************************************)
(* The two other loops over the samples of a rank.                         *)
(*                                                                         *)
(* "tts", generate_sequences_tts: all samples first think, where </T>      *)
(* stops the generation and is replaced by <sep> as long as there is       *)
(* thinking budget left; then they answer, calling the environment.        *)
(*                                                                         *)
(* "nostop", generate_multi_turn_sequences_no_stop: nothing stops the      *)
(* generation; each round is short, and cut after the first chess move,    *)
(* which is the call of the environment.                                   *)
(*                                                                         *)
(* Neither sorts its samples, so a sample is its place in the batch.  In   *)
(* both, MaxModelTokens is rollout.response_length.                        *)
(***************************************************************************)
EXTENDS SampleState, FiniteSets, FiniteSetsExt

CONSTANTS
    Modes,           \* the loops that are explored
    Places,          \* the samples of the batch
    PromptLens,      \* lengths a prompt may have
    Queues,          \* env_replies a prompt may come with
    ThinkingBudget,  \* rollout.interactive_mode.thinking_budget
    RoundMaxTokens   \* rollout.multi_turn.round_max_tokens

ASSUME PhasedAssumption ==
    /\ Modes \subseteq {"tts", "nostop"}
    /\ Places # {} /\ IsFiniteSet(Places) /\ Places \subseteq Nat
    /\ PromptLens \subseteq 0..MaxCtx
    /\ Queues \subseteq Seq(Nat \cup {Blank})
    /\ ThinkingBudget \in Nat /\ RoundMaxTokens \in Nat \ {0}

VARIABLES
    mode,
    prompts,      \* prompts[i]: length and env_replies
    states,       \* states[i]
    in_thinking,  \* in_thinking[i]
    pc,           \* "thinking", "answer"; "done", "raised", "rejected"
    pending,      \* samples whose output is still to be processed
    roundTokens   \* max_tokens of the running round

vars == <<mode, prompts, states, in_thinking, pc, pending, roundTokens>>

TotalBudget == ThinkingBudget + MaxModelTokens

\* The answers of "tts" are turns with the total budget.
Tts == INSTANCE SampleState WITH MaxModelTokens <- TotalBudget

Init ==
    /\ mode \in Modes
    /\ prompts \in [Places -> [len : PromptLens, queue : Queues]]
    /\ states = [i \in Places |-> NewSample(i, prompts[i].len, prompts[i].queue)]
    /\ in_thinking = [i \in Places |-> mode = "tts"]
    /\ pc = IF mode = "tts" THEN "thinking" ELSE "answer"
    /\ pending = {}
    /\ roundTokens = 0

-----------------------------------------------------------------------------
Thinking(i) ==
    in_thinking[i] /\ ~ states[i].finished /\ states[i].n_model_tokens < ThinkingBudget

\* Mutant of Answering: the context limit is not tested.
Answering_NoCtx(i) ==
    /\ ~ states[i].finished
    /\ states[i].n_env_calls < MaxEnvCalls
    /\ states[i].n_model_tokens < (IF mode = "tts" THEN TotalBudget ELSE MaxModelTokens)

\* Only "nostop" tests the context limit.
Answering(i) ==
    IF mode = "nostop" THEN Active(states[i])
    ELSE /\ ~ states[i].finished
         /\ states[i].n_env_calls < MaxEnvCalls
         /\ states[i].n_model_tokens < TotalBudget

ActivePlaces == {i \in Places : IF pc = "thinking" THEN Thinking(i) ELSE Answering(i)}

LeastUsed == Min({states[i].n_model_tokens : i \in ActivePlaces})

\* max_tokens of the next round.
NextRoundTokens ==
    IF pc = "thinking" THEN Max({ThinkingBudget - LeastUsed, 1})
    ELSE IF mode = "tts" THEN Max({TotalBudget - LeastUsed, 1})
    ELSE Min({RoundMaxTokens, Max({MaxModelTokens - LeastUsed, 1})})

\* One generation for all active samples.  vLLM raises on a request longer
\* than max_model_len.
StartRound ==
    /\ pc \in {"thinking", "answer"} /\ pending = {}
    /\ ActivePlaces # {}
    /\ IF \E i \in ActivePlaces : states[i].ctx > MaxCtx
       THEN /\ pc' = "rejected"
            /\ UNCHANGED <<pending, roundTokens>>
       ELSE /\ pending' = ActivePlaces
            /\ roundTokens' = NextRoundTokens
            /\ UNCHANGED pc
    /\ UNCHANGED <<mode, prompts, states, in_thinking>>

\* What may be generated for a sample: it stops at the stop token of the
\* loop, at <eos>, at the limit, or is cut at a generated padding token.
OutputLimit(s) == Min({roundTokens, Max({MaxCtx - s.ctx, 1})})

Generated(s, endings) ==
    {[n |-> 0, ending |-> "none"]} \cup [n : 1..OutputLimit(s), ending : endings]

-----------------------------------------------------------------------------
(* Thinking.                                                               *)

\* Mutant of ForceClose: thinking is left without </T>.
ForceClose_Silent(s) == s

\* append_model([t_end_id])
ForceClose(s) == AppendModel(s, 1, "close")

\* Mutant of Think: the output is not clipped to the sample's own budget.
Think_Unclipped(s, out) ==
    IF out.n = 0 THEN [sample |-> ForceClose(s), goesOn |-> FALSE]
    ELSE IF out.ending # "close"
    THEN [sample |-> ForceClose(AppendModel(s, out.n, out.ending)), goesOn |-> FALSE]
    ELSE IF s.n_model_tokens + out.n < ThinkingBudget
    THEN [sample |-> AppendModel(s, out.n, "sep"), goesOn |-> TRUE]
    ELSE [sample |-> AppendModel(s, out.n, "close"), goesOn |-> FALSE]

\* Mutant of Think: an empty output leaves the sample thinking.
Think_EmptyGoesOn(s, out) ==
    LET tokens == Clip(out, ThinkingBudget - s.n_model_tokens)
    IN  IF tokens.n = 0 THEN [sample |-> s, goesOn |-> TRUE]
        ELSE IF tokens.ending # "close"
        THEN [sample |-> ForceClose(AppendModel(s, tokens.n, tokens.ending)), goesOn |-> FALSE]
        ELSE IF s.n_model_tokens + tokens.n < ThinkingBudget
        THEN [sample |-> AppendModel(s, tokens.n, "sep"), goesOn |-> TRUE]
        ELSE [sample |-> AppendModel(s, tokens.n, "close"), goesOn |-> FALSE]

\* A thinking sample that was given an output, and whether it goes on.
Think(s, out) ==
    LET tokens == Clip(out, ThinkingBudget - s.n_model_tokens)
    IN  IF tokens.n = 0 THEN [sample |-> ForceClose(s), goesOn |-> FALSE]
        ELSE IF tokens.ending # "close"
        THEN [sample |-> ForceClose(AppendModel(s, tokens.n, tokens.ending)), goesOn |-> FALSE]
        ELSE IF s.n_model_tokens + tokens.n < ThinkingBudget
        THEN [sample |-> AppendModel(s, tokens.n, "sep"), goesOn |-> TRUE]
        ELSE [sample |-> AppendModel(s, tokens.n, "close"), goesOn |-> FALSE]

ProcessThought ==
    /\ pc = "thinking" /\ pending # {}
    /\ LET i == Min(pending)
       IN  /\ \E out \in Generated(states[i], {"close", "none"}) :
                 LET thought == Think(states[i], out)
                 IN  /\ states' = [states EXCEPT ![i] = thought.sample]
                     /\ in_thinking' = [in_thinking EXCEPT ![i] = thought.goesOn]
           /\ pending' = pending \ {i}
    /\ UNCHANGED <<mode, prompts, pc, roundTokens>>

ClosedByItself(s) == s.response # << >> /\ Last(s.response).ending = "close"

\* Thinking is closed for the samples that never left it, which are all of
\* them if there is no thinking budget.
EndThinking ==
    /\ pc = "thinking" /\ pending = {}
    /\ ActivePlaces = {}
    /\ states' = [i \in Places |->
                     IF in_thinking[i] /\ ~ states[i].finished /\ ~ ClosedByItself(states[i])
                     THEN ForceClose(states[i]) ELSE states[i]]
    /\ in_thinking' = [i \in Places |-> in_thinking[i] /\ states[i].finished]
    /\ pc' = "answer"
    /\ UNCHANGED <<mode, prompts, pending, roundTokens>>

-----------------------------------------------------------------------------
(* Answers, and the rounds of "nostop".                                    *)

\* The body of an output is what precedes <eos>; its first move, if it has
\* one, ends after move tokens.
Body(tokens) == IF tokens.ending = "eos" THEN tokens.n - 1 ELSE tokens.n

PlayMove(s, tokens, move) ==
    IF tokens.n = 0 THEN Finish(s)
    ELSE IF Body(tokens) = 0 THEN Finish(AppendModel(s, tokens.n, "none"))
    ELSE IF move = 0 THEN Finish(AppendModel(s, Body(tokens), "none"))
    ELSE CallEnv(AppendModel(s, move, "call"))

Answer(s) ==
    {Tts!TakeTurn(s, out) : out \in Generated(s, {"call", "none"})}

Play(s) ==
    UNION {LET tokens == Clip(out, MaxModelTokens - s.n_model_tokens)
           IN  {PlayMove(s, tokens, move) : move \in 0..Body(tokens)}
           : out \in Generated(s, {"eos", "none"})}

ProcessAnswer ==
    /\ pc = "answer" /\ pending # {}
    /\ LET i == Min(pending)
       IN  /\ \E s \in (IF mode = "tts" THEN Answer(states[i]) ELSE Play(states[i])) :
                 states' = [states EXCEPT ![i] = s]
           /\ pending' = pending \ {i}
    /\ UNCHANGED <<mode, prompts, in_thinking, pc, roundTokens>>

\* The batch is assembled: every row must hold a token of the model.
Assemble ==
    /\ pc = "answer" /\ pending = {}
    /\ ActivePlaces = {}
    /\ pc' = IF \A i \in Places : states[i].n_model_tokens > 0 THEN "done" ELSE "raised"
    /\ UNCHANGED <<mode, prompts, states, in_thinking, pending, roundTokens>>

Next == StartRound \/ ProcessThought \/ EndThinking \/ ProcessAnswer \/ Assemble

\* Generation always returns, and the loop goes on.
Spec == Init /\ [][Next]_vars /\ WF_vars(Next)

-----------------------------------------------------------------------------
Closings(s) == {j \in DOMAIN s.response : s.response[j].ending = "close"}

(* Every sample of "tts" has closed its thinking when the answers begin,   *)
(* with exactly one </T>: what precedes it is thinking, in which earlier   *)
(* ones became <sep> and no reply was heard, and no <sep> follows it.      *)
ThinkingClosedOnce ==
    mode = "tts" =>
        \A i \in Places :
            LET s == states[i]
            IN  /\ ~ in_thinking[i] <=> Cardinality(Closings(s)) = 1
                /\ \A j \in Closings(s), k \in DOMAIN s.response :
                      IF k < j THEN s.response[k].by = "model" /\ s.response[k].ending # "call"
                      ELSE s.response[k].ending # "sep"
                /\ pc = "answer" => ~ in_thinking[i]

(* No sample outgrows its budgets although a round is given the budget of  *)
(* the sample that used least of it; only a forced </T> may come on top of *)
(* the thinking budget.  The counters agree with the response.             *)
PhaseBudgets ==
    \A i \in Places :
        LET s == states[i]
        IN  /\ s.n_model_tokens = Tokens(SegmentsBy(s, "model"))
            /\ s.ctx = prompts[i].len + Tokens(s.response)
            /\ pc = "thinking" => s.n_model_tokens <= ThinkingBudget + 1
            /\ s.n_model_tokens <= (IF mode = "tts" THEN TotalBudget ELSE MaxModelTokens)
            /\ s.n_env_calls <= MaxEnvCalls

(* Only the loop without a stop token tests the context limit, and only    *)
(* the one that thinks writes a token for every sample: the first never    *)
(* sends a request that is too long, the second never fails the assertions *)
(* on its batch.                                                           *)
FailuresOfModes ==
    /\ pc = "rejected" => mode = "tts"
    /\ pc = "raised" => mode = "nostop" /\ \E i \in Places : states[i].response = << >>

(* Both phases end: every output moves a sample towards the end of its     *)
(* thinking or of its calls, even one that is empty.                       *)
PhasesEnd == <>(pc \in {"done", "raised", "rejected"})
=============================================================================
