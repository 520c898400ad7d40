--------------------------- MODULE PuzzleEvaluation ---------------------------
(***************************************************************************)
(* evaluate_multiturn_puzzle: a model plays puzzles turn by turn.  Move 0  *)
(* of a puzzle is the opponent's, played before the model is asked; the    *)
(* model has the odd moves, and the even ones are put into its context as  *)
(* replies.  The moves of the puzzles are legal.  A game is a record:      *)
(*   moves, parses  the number of moves of the puzzle, and whether its     *)
(*                  position can be parsed                                 *)
(*   closes         the model ends its thinking with </T>                  *)
(*   hits           the right moves it makes before it misses              *)
(*   promotes       the numbers of the replies that promote a pawn         *)
(*   miss           what it then produces: another legal move, one that is *)
(*                  not legal, a text without a move, or no call for the   *)
(*                  reply                                                  *)
(***************************************************************************)
EXTENDS Integers, Sequences, SequencesExt, FiniteSetsExt, FiniteSets

CONSTANT MaxPuzzleMoves  \* max_puzzle_moves

Misses == {"wrong", "illegal", "no_move", "no_call"}
Reasons == {"cot_format", "move_format", "illegal_move", "wrong_move"}
Depths == 1..MaxPuzzleMoves

num_model_moves(g) == Min({g.moves \div 2, MaxPuzzleMoves})

\* A puzzle without a move for the model, or without a position, is left out.
LeftOut(g) == g.moves < 2 \/ ~ g.parses

\* There are replies to the first (moves - 1) \div 2 moves of the model.
HasReply(g, i) == i < (g.moves - 1) \div 2

\* The numbers of the moves in the context and on board_copy.
Start == [context |-> << >>, board |-> <<0>>]

\* The reply as the model reads it.  The piece of a promotion is a number,
\* which is asked for its symbol: that raises, and None is returned.
uci_to_lan(g, n) == IF n \in g.promotes THEN << >> ELSE <<n>>

\* Mutant of PlayTurn: the board has only the replies that are converted.
PlayTurn_BoardWaits(g, s, i) ==
    LET new == <<2 * i + 1>> \o (IF HasReply(g, i) THEN uci_to_lan(g, 2 * i + 2) ELSE << >>)
    IN  [context |-> s.context \o new, board |-> s.board \o new]

\* The right move and the reply to it, if there is one: the board has the
\* reply, whether or not it could be converted for the context.
PlayTurn(g, s, i) ==
    LET move == <<2 * i + 1>>
    IN  IF HasReply(g, i)
        THEN [context |-> s.context \o move \o uci_to_lan(g, 2 * i + 2),
              board   |-> s.board \o move \o <<2 * i + 2>>]
        ELSE [context |-> s.context \o move, board |-> s.board \o move]

\* When the model is asked for its move i (from 0).
Turn(g, i) == FoldLeft(LAMBDA s, j : PlayTurn(g, s, j - 1), Start, [j \in 1..i |-> j])

Zero ==
    [ first_move |-> 0, full_puzzle |-> 0, failures |-> [r \in Reasons |-> 0],
      per_depth_total |-> [d \in Depths |-> 0], per_depth_correct |-> [d \in Depths |-> 0],
      per_puzzle_results |-> << >> ]

Record(c, g, reason, first, all) ==
    [c EXCEPT !.per_puzzle_results = Append(@,
        [reason |-> reason, first |-> first, all |-> all, depth |-> num_model_moves(g)])]

\* Mutant of FailThinking: a puzzle without an answer has no result.
FailThinking_NoResult(c, g) == [c EXCEPT !.failures["cot_format"] = @ + 1]

\* The thinking ends without </T>: the puzzle is over before the first move.
FailThinking(c, g) ==
    Record([c EXCEPT !.failures["cot_format"] = @ + 1], g, "cot_format", FALSE, FALSE)

Reason(miss) ==
    CASE miss = "no_call" -> "move_format"
      [] miss = "wrong"   -> "wrong_move"
      [] OTHER            -> "illegal_move"

\* The first move that is not the right one ends the puzzle.
Miss(c, g) ==
    Record([c EXCEPT !.failures[Reason(g.miss)] = @ + 1], g, Reason(g.miss), g.hits > 0, FALSE)

Solve(c, g) ==
    Record([c EXCEPT !.full_puzzle = @ + 1, !.per_depth_correct[num_model_moves(g)] = @ + 1],
           g, "none", TRUE, TRUE)

\* The model is asked for moves.
Ask(c, g) ==
    LET asked == [c EXCEPT !.per_depth_total[num_model_moves(g)] = @ + 1,
                           !.first_move = IF g.hits > 0 THEN @ + 1 ELSE @]
    IN  IF g.hits < num_model_moves(g) THEN Miss(asked, g) ELSE Solve(asked, g)

evaluate_multiturn_puzzle(games, use_thinking) ==
    FoldLeft(LAMBDA c, g :
                 IF LeftOut(g) THEN c
                 ELSE IF use_thinking /\ ~ g.closes THEN FailThinking(c, g)
                 ELSE Ask(c, g),
             Zero, games)

-----------------------------------------------------------------------------
Results(c, Test(_)) == Cardinality({i \in DOMAIN c.per_puzzle_results : Test(c.per_puzzle_results[i])})

(* Every puzzle that is counted is solved or fails for one reason, its     *)
(* first: the breakdown adds up to the total, which is that of the puzzles.*)
FailuresPartition(c, games) ==
    /\ Len(c.per_puzzle_results) = Cardinality({i \in DOMAIN games : ~ LeftOut(games[i])})
    /\ Len(c.per_puzzle_results) = c.full_puzzle + MapThenSumSet(LAMBDA r : c.failures[r], Reasons)
    /\ \A r \in Reasons : c.failures[r] = Results(c, LAMBDA x : x.reason = r)

(* The metrics are those of the results, row by row.  A puzzle counts at   *)
(* its depth once the model has been asked for a move.                     *)
CountersMatchResults(c) ==
    /\ c.first_move = Results(c, LAMBDA x : x.first) /\ c.full_puzzle = Results(c, LAMBDA x : x.all)
    /\ \A d \in Depths :
          /\ c.per_depth_total[d] = Results(c, LAMBDA x : x.depth = d /\ x.reason # "cot_format")
          /\ c.per_depth_correct[d] = Results(c, LAMBDA x : x.depth = d /\ x.all)

(* Whenever the model is to move, the board it is judged on has all moves   *)
(* so far, and its context those in order but for the promoting replies.    *)
ContextFollowsBoard(g) ==
    \A i \in 0..(num_model_moves(g) - 1) :
        LET s == Turn(g, i)
        IN  /\ Len(s.board) = 2 * i + 1 /\ \A n \in DOMAIN s.board : s.board[n] = n - 1
            /\ ToSet(s.context) = (1..(2 * i)) \ g.promotes
            /\ \A m, n \in DOMAIN s.context : m < n => s.context[m] < s.context[n]

(* Whenever the model is to move, its context names the moves that lead to *)
(* the position it is judged in ("inject the ground-truth env move, and    *)
(* continue").  A promoting reply is missing from it.                      *)
ContextIsPosition(g) ==
    \A i \in 0..(num_model_moves(g) - 1) : Turn(g, i).board = <<0>> \o Turn(g, i).context
=============================================================================
