------------------------------ MODULE Algorithms ------------------------------
(***************************************************************************)
(* What runs on its own in one process: one algorithm is taken, on any of  *)
(* its inputs, and its result is compared with what it should be.  The     *)
(* expansion of a puzzle and the differencing method go step by step.  The *)
(* others keep no state: an input is taken, then whatever an engine or a    *)
(* model answers to it.                                                    *)
(***************************************************************************)
EXTENDS TreeSynthesis, BatchBalancing, SFTDataset

CONSTANTS
    Candidates,    \* candidate moves of a position
    Weights,       \* their weights
    MaxTotal,      \* bound: trajectories shared out
    LineSets,      \* the sequences of lines looked at
    Labels,        \* what get_leaf_label may return
    Scorings,      \* how an engine may score nodes: functions of a node
    BatchSize, K, PadTo, MaxCtx,   \* of RolloutBatch and Evaluation
    PromptLengths, RolloutDepths, Says, Slots,  \* inputs of RolloutBatch; Slots bounds them
    States, MaxAnswers,      \* bounds of Evaluation
    MaxPuzzles, MaxLength, MaxPuzzleMoves  \* PuzzleEvaluation and its bounds

Finalized == INSTANCE TreeEvaluation
Batched   == INSTANCE RolloutBatch WITH TrajectoryDepth <- MaxTreeDepth, Solution <- Tail(Solution)
Evaluated == INSTANCE Evaluation
Puzzled   == INSTANCE PuzzleEvaluation

\* Candidates are named by their place; without any, nothing is shared out.
ASSUME AllocationAssumption ==
    /\ IsFiniteSet(Candidates) /\ Candidates # {} /\ Candidates \subseteq Int
    /\ Weights \subseteq Nat /\ MaxTotal \in Nat

\* An evaluation that asks for no move evaluates nothing.
ASSUME PuzzleAssumption == {MaxPuzzles, MaxLength} \subseteq Nat /\ MaxPuzzleMoves \in Nat \ {0}

VARIABLES
    task,     \* the algorithm
    input,
    answered  \* the input has its answers

algorithmVars == <<vars, balanceVars, task, input, answered>>

BalanceAtRest == job = "none" /\ lens = << >> /\ k = 0 /\ heap = {} /\ order = << >> /\ rows = << >>
ExpandAtRest == budget = 0 /\ stack = << >> /\ lines = << >> /\ done = FALSE

-----------------------------------------------------------------------------
\* The positions of a batch: up to two candidates with up to two rollouts each.
BatchCandidates == [length : PromptLengths, depths : BoundedSeq(RolloutDepths, 2)]

BatchSpecs ==
    {p \in [cands : BoundedSeq(BatchCandidates, 2) \ {<< >>},
            gt : IF InjectAnswer THEN 1..2 ELSE {0}] : p.gt <= Len(p.cands)}

Batches ==
    {b \in [batched : BOOLEAN, specs : BoundedSeq(BatchSpecs, 2)] :
        /\ Len(Batched!FlatSlots(b.specs)) <= Slots
        /\ Len(FlattenSeq([p \in DOMAIN b.specs |-> b.specs[p].cands])) <= Slots
        /\ ~ b.batched => Len(b.specs) = 1}

\* States with their targets, in three operations.
Problems ==
    {p \in [side : {"white", "black"}, target : {"castles", "quiet", "invalid"}, fits : BOOLEAN] :
        p.target # "castles" => p.side = "white"}

NumOutputs(e) == IF e.operation = "pass_at_k" THEN Len(e.problems) * K ELSE Len(e.problems)

Evaluations ==
    {e \in [evaluator : {"base", "sft"}, operation : {"evaluate", "save", "pass_at_k"},
            problems : BoundedSeq(Problems, States)] : NumOutputs(e) <= MaxAnswers}

\* For pass@k two moves are enough to tell the outputs apart.
SaidIn(e) == {"castles", "quiet"} \cup (IF e.operation = "pass_at_k" THEN {} ELSE {"empty", "none"})

\* What happens after a game has failed does not matter.
Games ==
    {g \in [moves : 0..MaxLength, parses : BOOLEAN, closes : BOOLEAN,
            hits : 0..MaxPuzzleMoves, miss : Puzzled!Misses,
            promotes : SUBSET {2 * i : i \in 1..(MaxPuzzleMoves - 1)}] :
        /\ ~ g.parses => g.closes
        /\ ~ g.parses \/ ~ g.closes => g.hits = 0
        /\ ~ g.parses \/ ~ g.closes \/ g.hits = MaxPuzzleMoves => g.miss = "wrong"
        /\ \A n \in g.promotes : n < g.moves /\ n <= 2 * g.hits}

Inputs ==
    [ mask     |-> Samples,
      allocate |-> [weights : [Candidates -> Weights], total : 0..MaxTotal],
      finalize |-> LineSets,
      batch    |-> Batches,
      evaluate |-> Evaluations,
      puzzles  |-> [use_thinking : BOOLEAN, games : BoundedSeq(Games, MaxPuzzles)] ]

AlgorithmInit ==
    /\ answered = FALSE
    /\ \/ task = "expand" /\ input = {} /\ Init /\ BalanceAtRest
       \/ task = "balance" /\ input = {} /\ ExpandAtRest /\ BalanceInit
       \/ /\ task \in DOMAIN Inputs /\ ExpandAtRest /\ BalanceAtRest
          /\ input \in Inputs[task]

Expand == task = "expand" /\ Next /\ UNCHANGED <<balanceVars, task, input, answered>>

Balance == task = "balance" /\ BalanceNext /\ UNCHANGED <<vars, task, input, answered>>

Answer ==
    /\ ~ answered /\ answered' = TRUE
    /\ UNCHANGED <<vars, balanceVars, task>>

Compute == task \in {"mask", "allocate", "puzzles"} /\ Answer /\ UNCHANGED input

\* The engine labels the leaves of the tree and scores its nodes.
Annotate ==
    /\ task = "finalize" /\ Answer
    /\ \E label \in [Leaves(build_tree_from_trajectories(input)) -> Labels], score \in Scorings :
          input' = [lines |-> input, label |-> label, score |-> score]

\* The model writes something in each slot, or a call fails.
Generate ==
    /\ task = "batch" /\ Answer
    /\ \E fails \in BOOLEAN, at \in {1, 3} :
          \E said \in [DOMAIN Batched!FlatSlots(input.specs) ->
                          IF fails THEN {<< >>} ELSE Says] :
              input' = [batched |-> input.batched, specs |-> input.specs,
                        fails |-> fails, said |-> said, at |-> at]

\* The model says something in each output.
Infer ==
    /\ task = "evaluate" /\ Answer
    /\ \E answer \in [1..NumOutputs(input) -> SaidIn(input)] :
          input' = [evaluator |-> input.evaluator, operation |-> input.operation,
                    problems |-> input.problems, answer |-> answer]

AlgorithmNext == Expand \/ Balance \/ Compute \/ Annotate \/ Generate \/ Infer

AlgorithmSpec == AlgorithmInit /\ [][AlgorithmNext]_algorithmVars

-----------------------------------------------------------------------------
Done(t) == task = t /\ answered

(* Rows are dealt out evenly and completely, and found again.              *)
RowsDealtOut == task = "balance" => BalancedPartition /\ RowsRestored

(* What a model is trained on is its own: its moves, its <call_env> tags   *)
(* and its thinking, and neither the prompt nor a reply of the environment,*)
(* however the data set strips, masks or keeps the replies, with castling  *)
(* and promotions anywhere.                                                *)
OwnTokensTrained == Done("mask") => TrainedLabels(input) = OwnLabels(input)

(* The budget is shared out completely and fairly.                         *)
BudgetsFair ==
    Done("allocate") =>
        IsFair(input.weights, input.total, Budgets(input.weights, input.total))

(* The values of the candidates and the move chosen are what the side to   *)
(* move can force.                                                         *)
MinimaxIsForced ==
    Done("finalize") =>
        Finalized!ValuesAreForced(input, Finalized!finalize_position_puzzle(input))

(* The tree is the lines' and no more.  A text with directions, layers or   *)
(* levels retraces it; one with verdicts has after each candidate the moves *)
(* of its subtree and the verdict on it.                                   *)
TextsRetrace ==
    Done("finalize") =>
        LET e == Finalized!finalize_position_puzzle(input)
        IN  Finalized!TreeIsPrefixes(input.lines, e.tree) /\ Finalized!TextsAgree(input, e)

(* A rollout is of its own state, with the tokens its depth asks for; and  *)
(* no line is lost, the solution of the puzzle least of all.               *)
RolloutsOfOwnState ==
    Done("batch") =>
        /\ Batched!OutputsOfOwnState(input) /\ Batched!LimitsFitDepths(input)
        /\ ~ Batched!Raises(input) => Batched!AnswerKept(input)

(* Exactly the states whose move was found in their own output are counted,*)
(* where an evaluation ends.                                               *)
MatchesAreFound ==
    Done("evaluate") /\ ~ Evaluated!Raises(input) =>
        LET matches == Evaluated!Matches(input)
        IN  Evaluated!MatchesAreEarned(input, matches) /\ Evaluated!FoundIsCounted(input, matches)

(* The counters agree with the results, and the failures with their        *)
(* reasons.                                                                *)
PuzzlesCounted ==
    Done("puzzles") =>
        LET c == Puzzled!evaluate_multiturn_puzzle(input.games, input.use_thinking)
        IN  Puzzled!FailuresPartition(c, input.games) /\ Puzzled!CountersMatchResults(c)

(* The board of a puzzle is never behind or ahead of the moves played, and *)
(* the context lacks only what could not be converted.                     *)
ContextsFollowBoards ==
    Done("puzzles") => \A i \in DOMAIN input.games : Puzzled!ContextFollowsBoard(input.games[i])

(* Every reply of the environment is injected into the context.  It is not *)
(* so for promotions.                                                      *)
RepliesInjected ==
    Done("puzzles") => \A i \in DOMAIN input.games : Puzzled!ContextIsPosition(input.games[i])
=============================================================================
