----------------------------- MODULE SampleState -----------------------------
(***************************************************************************)
(* The state of one sample of a multi-turn rollout (_SampleState) and what *)
(* one generation does to it: the body of the loop over the active samples *)
(* in generate_multi_turn_sequences.                                       *)
(*                                                                         *)
(* Tokens are counted, not spelled: a response is the sequence of its      *)
(* segments, each the tokens of one append_model or append_env.  Of a      *)
(* model segment it matters whether it ends in <call_env>; of a reply of   *)
(* the environment, how many tokens it has, or that it is Blank (None or   *)
(* the empty string).                                                      *)
(***************************************************************************)
EXTENDS Integers, Sequences, SequencesExt

CONSTANTS
    MaxEnvCalls,     \* rollout.multi_turn.max_env_calls
    MaxModelTokens,  \* rollout.response_length
    MaxCtx,          \* rollout.max_model_len, or prompt and response lengths
    Blank            \* a reply without text

ASSUME SampleAssumption ==
    /\ MaxEnvCalls \in Nat \ {0}
    /\ MaxModelTokens \in Nat \ {0}
    /\ MaxCtx \in Nat \ {0}
    /\ Blank \notin Nat

NewSample(id, prompt_token_count, queue) ==
    [ id               |-> id,
      ctx              |-> prompt_token_count,
      response         |-> << >>,
      n_model_tokens   |-> 0,
      n_env_calls      |-> 0,
      finished         |-> FALSE,
      env_replies      |-> queue,
      env_replies_used |-> << >> ]

AppendModel(s, n, ending) ==
    [s EXCEPT !.ctx = @ + n,
              !.response = Append(@, [by |-> "model", n |-> n, ending |-> ending]),
              !.n_model_tokens = @ + n]

AppendEnv(s, n) ==
    [s EXCEPT !.ctx = @ + n,
              !.response = Append(@, [by |-> "env", n |-> n, ending |-> "none"])]

Finish(s) == [s EXCEPT !.finished = TRUE]

\* The samples that take part in the next round.
Active(s) ==
    /\ ~ s.finished
    /\ s.n_env_calls < MaxEnvCalls
    /\ s.n_model_tokens < MaxModelTokens
    /\ s.ctx < MaxCtx

\* What _extract_response_tokens may return when at most limit tokens are
\* generated: the model stops at <call_env>; or at <eos> or the limit, or its
\* output is cut where it generated a padding token, which all end a sample.
Outputs(limit) ==
    {[n |-> 0, ending |-> "none"]} \cup [n : 1..limit, ending : {"call", "none"}]

\* tokens[:remaining]: the token that ended the generation may be lost.
Clip(out, remaining) ==
    IF out.n <= remaining THEN out ELSE [n |-> remaining, ending |-> "none"]

\* Mutant of NextReply: the newest reply is taken first.
NextReply_Last(s) ==
    IF s.env_replies = << >> THEN << Blank, s >>
    ELSE << Last(s.env_replies), [s EXCEPT !.env_replies = Front(@)] >>

\* env_replies.pop(0), and the sample that is left.
NextReply(s) ==
    IF s.env_replies = << >> THEN << Blank, s >>
    ELSE << Head(s.env_replies), [s EXCEPT !.env_replies = Tail(@)] >>

\* The environment is called: one more reply is used, if there is one.
CallEnv(s) ==
    LET called == [s EXCEPT !.n_env_calls = @ + 1]
        reply  == NextReply(called)[1]
        popped == NextReply(called)[2]
        used   == [popped EXCEPT !.env_replies_used = Append(@, reply)]
        heard  == IF reply = Blank THEN Finish(popped)
                  ELSE IF reply = 0 THEN used
                  ELSE AppendEnv(used, reply)
    IN IF heard.n_env_calls >= MaxEnvCalls THEN Finish(heard) ELSE heard

\* Mutant of TakeTurn: the output is not clipped to the sample's own budget.
TakeTurn_Unclipped(s, out) ==
    IF out.n = 0 THEN Finish(s)
    ELSE IF out.ending = "call" THEN CallEnv(AppendModel(s, out.n, "call"))
    ELSE Finish(AppendModel(s, out.n, out.ending))

\* Mutant of TakeTurn: an empty output does not finish the sample.
TakeTurn_EmptyGoesOn(s, out) ==
    LET tokens == Clip(out, MaxModelTokens - s.n_model_tokens)
    IN  IF tokens.n = 0 THEN s
        ELSE IF tokens.ending = "call" THEN CallEnv(AppendModel(s, tokens.n, "call"))
        ELSE Finish(AppendModel(s, tokens.n, tokens.ending))

\* A sample that was given an output of the model.
TakeTurn(s, out) ==
    LET tokens == Clip(out, MaxModelTokens - s.n_model_tokens)
    IN  IF tokens.n = 0 THEN Finish(s)
        ELSE IF tokens.ending = "call" THEN CallEnv(AppendModel(s, tokens.n, "call"))
        ELSE Finish(AppendModel(s, tokens.n, tokens.ending))

-----------------------------------------------------------------------------
(* What a sample should look like, whatever loop built it.                 *)

\* The elements of seq that are in S: SelectSeq, as a fold.
Only(seq, S) ==
    FoldLeft(LAMBDA kept, x : IF x \in S THEN Append(kept, x) ELSE kept, << >>, seq)

\* How a segment may end: in a call of the environment, with thinking that is
\* closed or goes on after a separator, or otherwise.
Endings == {"call", "close", "sep", "none"}

SegmentsBy(s, who) == Only(s.response, [by : {who}, n : Nat, ending : Endings])

Tokens(segments) == FoldLeft(LAMBDA total, seg : total + seg.n, 0, segments)
=============================================================================
