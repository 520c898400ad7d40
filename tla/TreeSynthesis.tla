---------------------------- MODULE TreeSynthesis ----------------------------
(***************************************************************************)
(* The lines of a puzzle under the stockfish policy of                     *)
(* process_one_position_puzzle: the recursion of _expand_node_stockfish,   *)
(* call by call in the order of the code, and what is done with its lines. *)
(* A position is the line of moves that leads to it.  The engine decides   *)
(* which moves are candidates, in which order, how its evaluations weigh   *)
(* them and whether it is sure enough to follow one line: all of that is   *)
(* arbitrary here.                                                         *)
(***************************************************************************)
EXTENDS TrajectoryTree, BudgetAllocation

CONSTANTS
    Legal,          \* the moves; all are legal where the game is not over
    Over,           \* the lines after which it is over
    MaxCandidates,  \* num_candidates
    MaxTreeDepth,   \* trajectory_depth
    RootBudgets,    \* what _compute_total_budget may return
    MaxWeight,      \* bound: the largest weight of a candidate
    Solution,       \* the moves of the puzzle
    InjectAnswer    \* inject_answer

Line == Seq(Legal)

ASSUME SynthesisAssumption ==
    /\ MaxCandidates \in Nat \ {0} /\ MaxTreeDepth \in Nat \ {0}
    /\ RootBudgets \subseteq Nat /\ MaxWeight \in Nat \ {0}
    /\ Over \subseteq Line
    /\ Solution \in Line /\ Solution # << >>
    /\ InjectAnswer \in BOOLEAN

VARIABLES
    budget,  \* of the root
    stack,   \* the calls still to be made: the line and the budget of each
    lines,   \* all_trajectories
    done

vars == <<budget, stack, lines, done>>

Init ==
    /\ budget \in RootBudgets
    /\ stack = << [line |-> Root, budget |-> budget] >>
    /\ lines = << >> /\ done = FALSE

-----------------------------------------------------------------------------
call == Head(stack)

\* The line of a call that goes no further is kept, unless it is empty.
Keep(line) == IF line = Root THEN lines ELSE Append(lines, line)

Exhausted(c) == c.budget <= 0 \/ Len(c.line) >= MaxTreeDepth

\* The call returns: it has no budget or depth left, the game is over, or the
\* engine has no candidates.
Stop ==
    /\ stack # << >>
    /\ lines' = Keep(call.line) /\ stack' = Tail(stack)
    /\ UNCHANGED <<budget, done>>

\* The moves of a rollout, each at the cost of one unit: as far as budget,
\* depth and the game allow, or until the engine has no line.
Rollouts(c) ==
    {r \in UNION {[1..n -> Legal] : n \in 0..MaxTreeDepth} :
        /\ Len(r) <= c.budget /\ Len(c.line) + Len(r) <= MaxTreeDepth
        /\ \A n \in 0..(Len(r) - 1) : c.line \o SubSeq(r, 1, n) \notin Over}

\* _principal_rollout_stockfish, where the engine is sure of its move; at the
\* root it never is.
Rollout ==
    /\ stack # << >> /\ ~ Exhausted(call)
    /\ call.line \notin Over /\ call.line # Root
    /\ \E r \in Rollouts(call) : lines' = Append(lines, call.line \o r)
    /\ stack' = Tail(stack)
    /\ UNCHANGED <<budget, done>>

\* The selected candidates in the engine's order: seen keeps them distinct.
Selections ==
    {s \in UNION {[1..n -> Legal] : n \in 1..MaxCandidates} :
        \A i, j \in DOMAIN s : i # j => s[i] # s[j]}

\* Mutant of ChildTotal: branching is free.
ChildTotal_Free(c) == c.budget

ChildTotal(c) == c.budget - 1

Calls(c, moves, shares) ==
    [i \in DOMAIN moves |-> [line |-> Append(c.line, moves[i]), budget |-> shares[i]]]

\* One unit is spent and the rest shared out; the children are expanded in
\* the order of the candidates, each with all that is below it.
Branch ==
    /\ stack # << >> /\ ~ Exhausted(call) /\ call.line \notin Over
    /\ \E moves \in Selections :
          \E weights \in [DOMAIN moves -> 1..MaxWeight] :
              stack' = Calls(call, moves, Budgets(weights, ChildTotal(call))) \o Tail(stack)
    /\ UNCHANGED <<budget, lines, done>>

-----------------------------------------------------------------------------
\* build_puzzle_solution_trajectory: the solution up to trajectory_depth or to
\* the end of the game.  There is one.
SolutionLines ==
    { SubSeq(Solution, 1, n) : n \in
        {k \in 0..Len(Solution) :
            /\ k <= MaxTreeDepth /\ \A i \in 0..(k - 1) : SubSeq(Solution, 1, i) \notin Over
            /\ k = Len(Solution) \/ k = MaxTreeDepth \/ SubSeq(Solution, 1, k) \in Over} }

\* Mutant of Injected: the solution is added whatever has been explored.
Injected_Always(solution) == IF InjectAnswer /\ solution # Root THEN << solution >> ELSE << >>

\* Mutant of Injected: the solution is added only where nothing was explored.
Injected_IfNone(solution) ==
    IF InjectAnswer /\ solution # Root /\ lines = << >> THEN << solution >> ELSE << >>

\* The solution is injected if no line begins with its first move.
Injected(solution) ==
    IF /\ InjectAnswer /\ solution # Root
       /\ \A i \in DOMAIN lines : lines[i][1] # Solution[1]
    THEN << solution >> ELSE << >>

\* Each line once, where it came first.
Dedup(ls) ==
    LET firsts   == {i \in DOMAIN ls : \A j \in 1..(i - 1) : ls[j] # ls[i]}
        place(i) == Cardinality({j \in firsts : j <= i})
    IN  [p \in 1..Cardinality(firsts) |-> ls[CHOOSE i \in firsts : place(i) = p]]

Finish ==
    /\ stack = << >> /\ ~ done
    /\ \E solution \in SolutionLines : lines' = Dedup(lines \o Injected(solution))
    /\ done' = TRUE
    /\ UNCHANGED <<budget, stack>>

Next == Stop \/ Rollout \/ Branch \/ Finish

Spec == Init /\ [][Next]_vars

-----------------------------------------------------------------------------
Apart(a, b) == \E k \in 1..Len(a) : k <= Len(b) /\ a[k] # b[k]

(* No line is the beginning of another, kept or still to be expanded: each *)
(* will end in a leaf of the tree, with a label of its own, and none is    *)
(* lost as a duplicate.  The injected solution keeps to it.                *)
LinesApart ==
    /\ \A i, j \in DOMAIN lines : i # j => Apart(lines[i], lines[j])
    /\ \A i \in DOMAIN lines, j \in DOMAIN stack : Apart(lines[i], stack[j].line)
    /\ \A i, j \in DOMAIN stack : i # j => Apart(stack[i].line, stack[j].line)

(* The lines are played within the depth, from a candidate on, and no move *)
(* is played after the game is over.                                       *)
LinesPlayable ==
    \A i \in DOMAIN lines :
        /\ lines[i] \in Line /\ Len(lines[i]) \in 1..MaxTreeDepth
        /\ \A n \in 1..(Len(lines[i]) - 1) : SubSeq(lines[i], 1, n) \notin Over

(* The lines of a puzzle are those of a tree: apart from each other, and   *)
(* played by the rules.                                                    *)
LinesSound == LinesApart /\ LinesPlayable

\* The positions that a line has moved on from.
Passed(line) == {SubSeq(line, 1, n) : n \in 0..(Len(line) - 1)}

PassedByAll ==
    (UNION {Passed(lines[i]) : i \in DOMAIN lines})
        \cup (UNION {Passed(stack[i].line) : i \in DOMAIN stack})

(* However the budget is shared out on the way down, what is still to be   *)
(* spent and the positions that have been moved on from never exceed it.   *)
(* (The solution comes on top.)                                            *)
WorkWithinBudget ==
    ~ done =>
        Cardinality(PassedByAll) + SumOf([i \in DOMAIN stack |-> stack[i].budget]) <= budget

(* With the answer injected its first move is a candidate of the tree,     *)
(* whatever the engine proposed; and nodes are generated depth first, so   *)
(* the text of a depth-first traversal in policy order names them in the   *)
(* order of their generation.                                              *)
TreeOfPuzzle ==
    done =>
        LET tree == build_tree_from_trajectories(lines)
        IN  /\ InjectAnswer /\ Root \notin Over =>
                  Contains(Children(tree, Root), <<Solution[1]>>)
            /\ Moves(dfs_order(tree, << >>, "policy", Root))
                  = [i \in DOMAIN tree |-> Move(tree[i])[1]]
=============================================================================
