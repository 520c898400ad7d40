------------------------------ MODULE Evaluation ------------------------------
(***************************************************************************)
(* BaseEvaluator and SFTEvaluator: from the outputs of batched inference   *)
(* to the metrics.  An evaluation is a record of the evaluator, its        *)
(* operation, the states and what the model says.  A state is the side to  *)
(* move, the move to be found ("invalid" if the text of it is no move) and *)
(* whether its prompt fits the context.  What the model says in an output  *)
(* is a move, nothing ("empty") or no move ("none").  Moves are castling   *)
(* or one quiet move, because of castling only the text does not name the  *)
(* squares.  The file of predictions is left out.                          *)
(***************************************************************************)
EXTENDS BatchedInference, FiniteSets

CONSTANTS
    BatchSize,  \* batch_size
    K           \* k of pass@k

\* Of each state one output, or K of them.
Outputs(e) ==
    LET fits == [i \in DOMAIN e.problems |-> e.problems[i].fits]
    IN  CASE e.operation # "pass_at_k" -> generate_moves_batch(fits, BatchSize)
          [] e.evaluator = "base"      -> generate_moves_batch_k(fits, K)
          [] OTHER                     -> generate_moves_batch_sft_k(fits, K, BatchSize)

\* lan_to_uci, as all callers call it: castling is White's.
lan_to_uci(move) ==
    CASE move = "castles" -> <<"white", "castles">>
      [] move = "quiet"   -> <<"quiet">>
      [] OTHER            -> << >>

san_to_uci(problem) ==
    CASE problem.target = "castles" -> <<problem.side, "castles">>
      [] problem.target = "quiet"   -> <<"quiet">>
      [] OTHER                      -> << >>

Said(e, output) == IF output = None THEN "none" ELSE e.answer[output]

\* BaseEvaluator.evaluate hands None to lan_to_uci, which raises what is not
\* caught there.
Unconverted(e) ==
    /\ e.evaluator = "base" /\ e.operation = "evaluate"
    /\ "none" \in {Said(e, output) : output \in ToSet(Outputs(e))}

\* The assertions of calculate_legal_move_accuracy and of calculate_pass_at_k.
LengthsAgree(e) == Len(Outputs(e)) = Len(e.problems)

Raises(e) == Unconverted(e) \/ ~ LengthsAgree(e)

Predictions(e, output) ==
    IF e.operation = "pass_at_k" THEN {lan_to_uci(Said(e, output[j])) : j \in 1..K}
    ELSE {lan_to_uci(Said(e, output))}

\* The states counted as matches, or as passed; zip drops those that have no
\* prediction.
Matches(e) ==
    LET outputs == Outputs(e)
    IN  {i \in DOMAIN outputs : san_to_uci(e.problems[i]) \in Predictions(e, outputs[i])}

-----------------------------------------------------------------------------
\* The outputs that are a state's own.
Own(e, i) == IF e.operation = "pass_at_k" THEN ((i - 1) * K + 1)..(i * K) ELSE {i}

\* The base evaluator's pass@k does not test whether a prompt fits.
Answered(e, i) == e.problems[i].fits \/ (e.evaluator = "base" /\ e.operation = "pass_at_k")

Found(e, i) == Answered(e, i) /\ \E id \in Own(e, i) : e.answer[id] = e.problems[i].target

(* A state is counted only for what the model said of that very state: one *)
(* of its own outputs is its move.  (A state whose target is no move is    *)
(* counted for an output without a move.)                                  *)
MatchesAreEarned(e, matches) ==
    \A i \in matches :
        \/ Found(e, i)
        \/ /\ e.problems[i].target = "invalid"
           /\ ~ Answered(e, i) \/ \E id \in Own(e, i) : e.answer[id] \in {"empty", "none"}

(* And every state for which the model finds the move is counted, unless   *)
(* Black castles.                                                          *)
FoundIsCounted(e, matches) ==
    \A i \in DOMAIN e.problems :
        Found(e, i) /\ ~ (e.problems[i].side = "black" /\ e.problems[i].target = "castles")
            => i \in matches
=============================================================================
