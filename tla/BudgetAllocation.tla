--------------------------- MODULE BudgetAllocation ---------------------------
(***************************************************************************)
(* allocate_child_budgets_from_weights of puzzle_sequence_generator: a     *)
(* number of trajectories is shared out among candidate moves in           *)
(* proportion to their weights.  The weights, floats in the code, are      *)
(* natural numbers here and the shares are exact.                          *)
(***************************************************************************)
EXTENDS Integers, FiniteSets, FiniteSetsExt

SumOf(f) == MapThenSumSet(LAMBDA i : f[i], DOMAIN f)

\* Weights that are all zero count alike.
Positive(weights) == IF SumOf(weights) > 0 THEN weights ELSE [i \in DOMAIN weights |-> 1]

Floors(weights, total) ==
    [i \in DOMAIN weights |-> (weights[i] * total) \div SumOf(weights)]

\* Mutant of Before: the candidate with the lowest weight comes first.
Before_Lowest(weights, i, j) == weights[i] < weights[j] \/ (weights[i] = weights[j] /\ i < j)

\* Where the rest is handed out: by weight, descending; a stable sort.
Before(weights, i, j) == weights[i] > weights[j] \/ (weights[i] = weights[j] /\ i < j)

\* What is left goes round in that order, one unit each.
Budgets(weights, total) ==
    LET w     == Positive(weights)
        n     == Cardinality(DOMAIN w)
        floor == Floors(w, total)
        left  == total - SumOf(floor)
        place == [i \in DOMAIN w |-> Cardinality({j \in DOMAIN w : Before(w, j, i)})]
        extra == [i \in DOMAIN w |-> Cardinality({u \in 0..(left - 1) : u % n = place[i]})]
    IN  [i \in DOMAIN w |-> floor[i] + extra[i]]

-----------------------------------------------------------------------------
(* A fair apportionment hands out the total, gives every candidate at most *)
(* one unit more than its quota and less than one unit less, and a heavier *)
(* one no less than a lighter one.  (The rest goes to the heaviest, not to *)
(* the largest remainders: a candidate may get one unit on top of a whole  *)
(* quota.)                                                                 *)
IsFair(weights, total, budgets) ==
    LET w == Positive(weights)
    IN  /\ SumOf(budgets) = total
        /\ \A i \in DOMAIN w :
              LET error == budgets[i] * SumOf(w) - w[i] * total
              IN  error <= SumOf(w) /\ -error < SumOf(w)
        /\ \A i, j \in DOMAIN w : w[i] > w[j] => budgets[i] >= budgets[j]
=============================================================================
