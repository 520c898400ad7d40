--------------------------- MODULE MultiTurnRollout ---------------------------
(***************************************************************************)
(* generate_multi_turn_sequences: every data-parallel rank plays its       *)
(* samples in rounds, one blocking generation for all active samples at a  *)
(* time, and all ranks meet in an all_reduce to pad to the same width.     *)
(***************************************************************************)
EXTENDS SampleState, FiniteSets, FiniteSetsExt

CONSTANTS
    Ranks,       \* data-parallel ranks
    Size,        \* samples of a rank, after repetition
    PromptLens,  \* lengths a prompt may have
    Queues,      \* env_replies a prompt may come with
    Batches      \* the prompts that the ranks may be given together

ASSUME RolloutAssumption ==
    /\ IsFiniteSet(Ranks) /\ Ranks # {}
    /\ Size \in Nat \ {0}
    /\ PromptLens \subseteq Nat
    /\ Queues \subseteq Seq(Nat \cup {Blank})
    /\ Batches \subseteq [Ranks -> [1..Size -> [len : PromptLens, queue : Queues]]]

VARIABLES
    prompts,     \* prompts[r][i]: length and env_replies of the i-th prompt
    states,      \* states[r]: the samples of the rank, in the order of the loop
    pc,          \* "loop", "round", "reduce", then "done" or "raised"
    pending,     \* places in states[r] whose output is still to be processed
    roundTokens, \* max_tokens of the running round
    rounds,      \* history: generations so far
    outputs,     \* outputs[r][i]: the sample in the i-th row of the result
    width        \* resp_len after the all_reduce

vars == <<prompts, states, pc, pending, roundTokens, rounds, outputs, width>>

Places == 1..Size

\* Where the i-th prompt is in the loop: a stable sort by the number of
\* replies, descending.
PlaceOf(r, i) ==
    LET n(j) == Len(prompts[r][j].queue)
    IN 1 + Cardinality({j \in Places : n(j) > n(i) \/ (n(j) = n(i) /\ j < i)})

\* sort_order
SortOrder(r) == [k \in Places |-> CHOOSE i \in Places : PlaceOf(r, i) = k]

ActivePlaces(r) == {k \in Places : Active(states[r][k])}

ResponseLen(s) == Tokens(s.response)

-----------------------------------------------------------------------------
Init ==
    /\ prompts \in Batches
    /\ states = [r \in Ranks |-> [k \in Places |->
                    LET i == SortOrder(r)[k]
                    IN NewSample(<<r, i>>, prompts[r][i].len, prompts[r][i].queue)]]
    /\ pc = [r \in Ranks |-> "loop"]
    /\ pending = [r \in Ranks |-> {}]
    /\ roundTokens = [r \in Ranks |-> 0]
    /\ rounds = [r \in Ranks |-> 0]
    /\ outputs = [r \in Ranks |-> << >>]
    /\ width = [r \in Ranks |-> 0]

\* Every active sample gets the budget of the one that used least of it.
StartRound(r) ==
    /\ pc[r] = "loop"
    /\ ActivePlaces(r) # {}
    /\ pending' = [pending EXCEPT ![r] = ActivePlaces(r)]
    /\ roundTokens' = [roundTokens EXCEPT ![r] =
                          MaxModelTokens - Min({states[r][k].n_model_tokens : k \in ActivePlaces(r)})]
    /\ rounds' = [rounds EXCEPT ![r] = @ + 1]
    /\ pc' = [pc EXCEPT ![r] = "round"]
    /\ UNCHANGED <<prompts, states, outputs, width>>

\* vLLM generates at most max_tokens tokens, and never past max_model_len.
OutputLimit(r, s) == Min({roundTokens[r], MaxCtx - s.ctx})

\* The output of the next sample of the round is processed.
ProcessOutput(r) ==
    /\ pc[r] = "round"
    /\ LET k == Min(pending[r])
           s == states[r][k]
       IN /\ \E out \in Outputs(OutputLimit(r, s)) :
                states' = [states EXCEPT ![r][k] = TakeTurn(s, out)]
          /\ pending' = [pending EXCEPT ![r] = @ \ {k}]
          /\ pc' = [pc EXCEPT ![r] = IF pending[r] = {k} THEN "loop" ELSE "round"]
    /\ UNCHANGED <<prompts, roundTokens, rounds, outputs, width>>

\* Mutant of Restored: the samples stay in the order of the loop.
Restored_Sorted(r) == [i \in Places |-> states[r][i]]

\* restored[sort_order[k]] = states[k]
Restored(r) ==
    [i \in Places |-> states[r][CHOOSE k \in Places : SortOrder(r)[k] = i]]

\* Mutant of EndLoop: the loop waits until every sample has finished.
EndLoop_AllFinished(r) ==
    /\ pc[r] = "loop"
    /\ \A k \in Places : states[r][k].finished
    /\ outputs' = [outputs EXCEPT ![r] = Restored(r)]
    /\ pc' = [pc EXCEPT ![r] = "reduce"]
    /\ UNCHANGED <<prompts, states, pending, roundTokens, rounds, width>>

\* No sample is active: the rank is ready for the all_reduce.
EndLoop(r) ==
    /\ pc[r] = "loop"
    /\ ActivePlaces(r) = {}
    /\ outputs' = [outputs EXCEPT ![r] = Restored(r)]
    /\ pc' = [pc EXCEPT ![r] = "reduce"]
    /\ UNCHANGED <<prompts, states, pending, roundTokens, rounds, width>>

\* The longest response of all ranks.
Width(r) == Max({ResponseLen(outputs[q][i]) : q \in Ranks, i \in Places})

\* The assertions on the assembled batch.
BatchIsValid(r) == \A i \in Places : outputs[r][i].n_model_tokens > 0

\* all_reduce(MAX): completes once every rank has called it.  A rank whose
\* assertions fail raises afterwards.
AllReduce ==
    /\ \A r \in Ranks : pc[r] = "reduce"
    /\ width' = [r \in Ranks |-> Width(r)]
    /\ pc' = [r \in Ranks |-> IF BatchIsValid(r) THEN "done" ELSE "raised"]
    /\ UNCHANGED <<prompts, states, pending, roundTokens, rounds, outputs>>

RankStep(r) == StartRound(r) \/ ProcessOutput(r) \/ EndLoop(r)

Next == AllReduce \/ \E r \in Ranks : RankStep(r)

\* A rank that can run does; generation always returns.
Spec == Init /\ [][Next]_vars /\ WF_vars(AllReduce) /\ \A r \in Ranks : WF_vars(RankStep(r))

-----------------------------------------------------------------------------
AllSamples == {states[r][k] : r \in Ranks, k \in Places}

Segment == [by : {"model", "env"}, n : Nat, ending : {"call", "none"}]

Reply == Nat \cup {Blank}

SampleType ==
    [ id               : Ranks \X Places,
      ctx              : Nat,
      response         : Seq(Segment),
      n_model_tokens   : Nat,
      n_env_calls      : Nat,
      finished         : BOOLEAN,
      env_replies      : Seq(Reply),
      env_replies_used : Seq(Reply) ]

TypeOK ==
    /\ prompts \in [Ranks -> [Places -> [len : PromptLens, queue : Queues]]]
    /\ states \in [Ranks -> [Places -> SampleType]]
    /\ pc \in [Ranks -> {"loop", "round", "reduce", "done", "raised"}]
    /\ pending \in [Ranks -> SUBSET Places]
    /\ roundTokens \in [Ranks -> 0..MaxModelTokens]
    /\ rounds \in [Ranks -> Nat]
    /\ outputs \in [Ranks -> {<< >>} \cup [Places -> SampleType]]

\* The segments of a response that call the environment.
Calls(s) == Only(s.response, [by : {"model", "env"}, n : Nat, ending : {"call"}])

(* The counters agree with the response: n_model_tokens counts its model   *)
(* tokens, n_env_calls its <call_env>, and the context the model sees is   *)
(* the prompt followed by the whole response.  ("env token count mismatch" *)
(* and the assertions on policy_mask rest on this.)                        *)
CountersMatchResponse ==
    \A s \in AllSamples :
        /\ s.n_model_tokens = Tokens(SegmentsBy(s, "model"))
        /\ s.n_env_calls = Len(Calls(s))
        /\ s.ctx = prompts[s.id[1]][s.id[2]].len + Tokens(s.response)

(* The replies used are the first ones of the sample's own prompt, in      *)
(* order, and those with tokens appear in the response in that order, each *)
(* directly after a segment of the model that ends in <call_env>.          *)
RepliesAnswerCallsInOrder ==
    \A s \in AllSamples :
        LET queue == prompts[s.id[1]][s.id[2]].queue
            heard == SegmentsBy(s, "env")
        IN /\ IsPrefix(s.env_replies_used, queue)
           /\ [j \in DOMAIN heard |-> heard[j].n] = Only(s.env_replies_used, Nat \ {0})
           /\ \A j \in DOMAIN s.response :
                 s.response[j].by = "env" => j > 1 /\ s.response[j - 1].ending = "call"

(* The response of a sample, its counters and the replies it used belong   *)
(* together.                                                               *)
ResponseIsConsistent == CountersMatchResponse /\ RepliesAnswerCallsInOrder

(* No sample outgrows its own budgets, although a round is given the       *)
(* budget of the sample that used least: replies are not charged to the    *)
(* model, and only a last reply may reach past the context limit.          *)
BudgetsHold ==
    \A s \in AllSamples :
        /\ s.n_model_tokens <= MaxModelTokens
        /\ s.n_env_calls <= MaxEnvCalls
        /\ s.response # << >> =>
              LET reply == IF Last(s.response).by = "env" THEN Last(s.response).n ELSE 0
              IN  s.ctx - reply <= MaxCtx

(* A rank calls the blocking generation at most max_env_calls times,       *)
(* however its samples are mixed.                                          *)
RoundsBounded == \A r \in Ranks : rounds[r] <= MaxEnvCalls

(* Row i of the result is the sample of prompt i, despite the sort.        *)
RowsMatchPrompts ==
    \A r \in Ranks : pc[r] \in {"reduce", "done"} =>
        \A i \in Places : outputs[r][i].id = <<r, i>>

(* All ranks pad to one width, and no response is cut by it.               *)
OneWidth ==
    \A r \in Ranks : pc[r] \in {"done", "raised"} =>
        /\ \A q \in Ranks : width[q] = width[r]
        /\ \A i \in Places : ResponseLen(outputs[r][i]) <= width[r]

(* The rollout is the episodes of its samples, each played alone: batching *)
(* is not visible in what a sample may become.                             *)
Solo == INSTANCE Episode WITH
            Ids <- Ranks \X Places,
            episodes <- [id \in Ranks \X Places |->
                            states[id[1]][PlaceOf(id[1], id[2])]]

ImplementsEpisodes == Solo!Spec

(* Every rank leaves the all_reduce: none waits there for ever for a rank  *)
(* that loops or that raised before it; and they leave it with one width.  *)
AllRanksFinish == <>(OneWidth /\ \A r \in Ranks : pc[r] \in {"done", "raised"})
=============================================================================
