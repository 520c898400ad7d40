---------------------------- MODULE TreeEvaluation ----------------------------
(***************************************************************************)
(* Steps 4 to 8 of finalize_position_puzzle (and of                        *)
(* process_one_position_puzzle, which repeats them): from the lines of a   *)
(* position to its tree, the labels and scores of an engine, the values of *)
(* the candidates, the move chosen, and the texts a model is trained on.   *)
(* A position is a record of its lines and of what the engine answers for  *)
(* the nodes of their tree: label, of the leaves, and score, of all of     *)
(* them.  The answers are arbitrary; one that fails counts as zero.        *)
(***************************************************************************)
EXTENDS TrajectoryTree

\* The tree, the values of its nodes and the move chosen, if any.
finalize_position_puzzle(p) ==
    LET tree  == build_tree_from_trajectories(p.lines)
        value == minimax_on_tree(tree, p.label)
    IN  [ tree |-> tree, value |-> value,
          target |-> select_best_move_by_minimax(tree, value, p.score) ]

-----------------------------------------------------------------------------
(* The tree is the lines' and no more: its nodes are their beginnings, each*)
(* once and after its parent, so that a move two lines share is one node.  *)
TreeIsPrefixes(lines, tree) ==
    /\ ToSet(tree) = UNION {Prefixes(lines[i]) : i \in DOMAIN lines} \ {Root}
    /\ \A i, j \in DOMAIN tree : i < j => tree[i] # tree[j] /\ ~ IsPrefix(tree[j], tree[i])

(* What the side to move at the root can force below a node, whatever the  *)
(* other side does: it picks one move wherever it is its turn.             *)
Plans(tree) ==
    LET own  == {n \in Nodes(tree) \ Leaves(tree) : Len(n) % 2 = 0}
        kids == [n \in own |-> Children(tree, n)]
        most == Max({0} \cup {Len(kids[n]) : n \in own})
        ways == {way \in [own -> 1..most] : \A n \in own : way[n] <= Len(kids[n])}
    IN  {[n \in own |-> kids[n][way[n]]] : way \in ways}

CanForce(plans, leaves, label, node, v) ==
    \E plan \in plans :
        \A leaf \in leaves :
            /\ IsPrefix(node, leaf)
            /\ \A n \in DOMAIN plan :
                  IsPrefix(node, n) /\ IsPrefix(n, leaf) => IsPrefix(plan[n], leaf)
            => label[leaf] >= v

(* Minimax gives each candidate exactly what can be forced below it, and   *)
(* the move chosen forces as much as any, with the best score among those. *)
ValuesAreForced(p, e) ==
    LET cands  == {n \in Nodes(e.tree) : Len(n) = 1}
        plans  == Plans(e.tree)
        leaves == Leaves(e.tree)
        best(v) == {c \in cands : CanForce(plans, leaves, p.label, c, v)}
    IN  /\ \A c \in cands : c \in best(e.value[c]) \ best(e.value[c] + 1)
        /\ e.target = << >> <=> cands = {}
        /\ \A t \in ToSet(e.target) :
              /\ best(e.value[t] + 1) = {} /\ t \in best(e.value[t])
              /\ \A c \in best(e.value[t]) : p.score[t] >= p.score[c]

Orders == {"policy", "verifier"}

\* A reader of directions, who knows only the moves.
ReadDirections(text) ==
    FoldLeft(LAMBDA s, mark :
        CASE mark[1] = "move"   -> [s EXCEPT !.at = Append(@, mark[2]),
                                             !.seen = Append(@, Append(s.at, mark[2]))]
          [] mark[1] = "up"     -> [s EXCEPT !.at = IF @ = Root THEN @ ELSE Front(@)]
          [] mark[1] = "result" -> [s EXCEPT !.results = @ \cup {<<s.at, mark[2]>>}]
          [] OTHER              -> s,
        [at |-> Root, seen |-> << >>, results |-> {}], text)

\* A reader of layers: a move of layer d follows the last one of layer d - 1.
ReadLayers(text) ==
    FoldLeft(LAMBDA s, mark :
        CASE mark[1] = "move"   -> [s EXCEPT !.move = mark[2]]
          [] mark[1] = "layer"  -> LET at == Append(SubSeq(s.at, 1, mark[2] - 1), s.move)
                                   IN  [s EXCEPT !.at = at, !.seen = Append(@, at)]
          [] mark[1] = "result" -> [s EXCEPT !.results = @ \cup {<<s.at, mark[2]>>}]
          [] OTHER              -> s,
        [at |-> Root, move |-> Root, seen |-> << >>, results |-> {}], text)

(* A depth-first text can be read back: following it move by move visits   *)
(* each node of the tree once, and the results stand with the leaves they  *)
(* belong to.                                                              *)
Retraces(reading, tree) ==
    /\ Len(reading.seen) = Len(tree) /\ ToSet(reading.seen) = ToSet(tree)
    /\ reading.results = {<<n, n>> : n \in Leaves(tree) \ {Root}}

(* In a breadth-first text the d-th level marker is followed by the nodes  *)
(* of depth d, in the order of their parents.                              *)
LevelsAreDepths(tree, score, order) ==
    LET deepest == Max({Len(n) : n \in Nodes(tree)})
        below(level) == FlattenSeq([i \in DOMAIN level |-> Ordered(tree, level[i], score, order)])
        part(level) == Mark("level") \o FlattenSeq([i \in DOMAIN level |->
                           Move(level[i]) \o Result(tree, level[i])])
        levels == FoldLeft(LAMBDA ls, d : Append(ls, below(Last(ls))),
                      << <<Root>> >>, [d \in 1..deepest |-> d])
    IN  bfs_order(tree, score, order, Root) = FlattenSeq([d \in 1..deepest |-> part(levels[d + 1])])

Methods == [shape : {"dfs", "bfs"}, order : Orders]

(* In the text of a position, which has no directions, each candidate is   *)
(* followed by the moves of its own subtree, each as often as it ends a    *)
(* node of it, and then by the verdict on it.                              *)
VerdictsHold(e, score, method) ==
    LET text  == build_candidate_cot_traversal(e.tree, e.value, score, method)
        cands == Ordered(e.tree, Root, score, method.order)
        own(c) == {n \in ToSet(e.tree) : IsPrefix(c, n)}
        size(c) == Cardinality(own(c))
        start[i \in 1..(Len(cands) + 1)] ==
            IF i = 1 THEN 1 ELSE start[i - 1] + size(cands[i - 1]) + 2
    IN  \A i \in DOMAIN cands :
            LET part == SubSeq(text, start[i], start[i] + size(cands[i]))
            IN  /\ part[1] = <<"move", Last(cands[i])>>
                /\ \A n \in own(cands[i]) :
                      Cardinality({j \in DOMAIN part : part[j] = <<"move", Last(n)>>})
                          = Cardinality({m \in own(cands[i]) : Last(m) = Last(n)})
                /\ Last(part) = <<"verify", e.value[cands[i]]>>

(* All texts of a position, in either order of the moves.                  *)
TextsAgree(p, e) ==
    /\ \A order \in Orders :
          /\ Retraces(ReadDirections(dfs_order(e.tree, p.score, order, Root)), e.tree)
          /\ Retraces(ReadLayers(dfs_order_with_layers(e.tree, p.score, order)), e.tree)
          /\ LevelsAreDepths(e.tree, p.score, order)
    /\ \A method \in Methods : VerdictsHold(e, p.score, method)
=============================================================================
