---------------------------- MODULE TrajectoryTree ----------------------------
(***************************************************************************)
(* The tree of subtree_minimax_generator and what is read off it.  A node  *)
(* is the line of moves that leads to it, the root the empty line; a tree  *)
(* is the sequence of its other nodes in the order of their generation.    *)
(* The side to move at the root moves at even depths.                      *)
(***************************************************************************)
EXTENDS Integers, Sequences, FiniteSets, SequencesExt, FiniteSetsExt

Root == << >>

Nodes(tree) == {Root} \cup ToSet(tree)

\* The nodes a line adds to a tree: those it does not share with it.
NewNodes(tree, line) ==
    SelectSeq([d \in 1..Len(line) |-> SubSeq(line, 1, d)], LAMBDA n : ~ Contains(tree, n))

build_tree_from_trajectories(lines) ==
    FoldLeft(LAMBDA tree, line : tree \o NewNodes(tree, line), << >>, lines)

\* The children of a node, in generation order.
Children(tree, node) ==
    SelectSeq(tree, LAMBDA n : Len(n) = Len(node) + 1 /\ SubSeq(n, 1, Len(node)) = node)

IsLeaf(tree, node) == Children(tree, node) = << >>

Leaves(tree) == {n \in Nodes(tree) : IsLeaf(tree, n)}

\* A stable sort by descending score, as sorted(..., reverse=True) does it.
ByScore(nodes, score) ==
    LET place(i) == Cardinality({j \in DOMAIN nodes :
                        \/ score[nodes[j]] > score[nodes[i]]
                        \/ score[nodes[j]] = score[nodes[i]] /\ j <= i})
    IN  [p \in DOMAIN nodes |-> nodes[CHOOSE i \in DOMAIN nodes : place(i) = p]]

\* The order of a traversal: that of generation, or of the verifier.
Ordered(tree, node, score, order) ==
    IF order = "policy" THEN Children(tree, node) ELSE ByScore(Children(tree, node), score)

-----------------------------------------------------------------------------
(* Minimax over the labels of the leaves.                                  *)

\* Mutant of OwnTurn: the sides are swapped.
OwnTurn_Swapped(node) == Len(node) % 2 = 1

OwnTurn(node) == Len(node) % 2 = 0

minimax_on_tree(tree, label) ==
    LET value[node \in Nodes(tree)] ==
            IF IsLeaf(tree, node) THEN label[node]
            ELSE LET values == {value[c] : c \in ToSet(Children(tree, node))}
                 IN  IF OwnTurn(node) THEN Max(values) ELSE Min(values)
    IN  value

\* The first of the best candidates, ties broken by their own score; none if
\* there is no candidate.
select_best_move_by_minimax(tree, value, score) ==
    LET cands == Children(tree, Root)
        top   == SelectSeq(cands, LAMBDA c : \A d \in ToSet(cands) : value[c] >= value[d])
    IN  IF top = << >> THEN << >> ELSE << Head(ByScore(top, score)) >>

-----------------------------------------------------------------------------
(* Texts: sequences of marks.  A text names the moves, never the nodes.    *)

Mark(what) == << <<what>> >>
Move(node) == << <<"move", Last(node)>> >>
\* <result>, after a leaf; the mark carries the leaf for its label.
Result(tree, node) == IF IsLeaf(tree, node) THEN << <<"result", node>> >> ELSE << >>

\* dfs_policy_order and dfs_verifier_order with directions, below a node.
dfs_order(tree, score, order, from) ==
    LET below[node \in Nodes(tree)] ==
            LET kids == Ordered(tree, node, score, order)
            IN  FlattenSeq([i \in DOMAIN kids |->
                    Mark("down") \o Move(kids[i]) \o Result(tree, kids[i])
                        \o below[kids[i]] \o Mark("up")])
    IN  below[from]

\* dfs_policy_order_with_layers and dfs_verifier_order_with_layers.
dfs_order_with_layers(tree, score, order) ==
    LET below[node \in Nodes(tree)] ==
            LET kids == Ordered(tree, node, score, order)
            IN  FlattenSeq([i \in DOMAIN kids |->
                    Move(kids[i]) \o << <<"layer", Len(node) + 1>> >>
                        \o Result(tree, kids[i]) \o below[kids[i]]])
    IN  below[Root]

\* Mutant of BfsTurn: the count of the next level goes on from level to level.
BfsTurn_NoReset(tree, score, order, s) ==
    LET node == Head(s.queue)
        kids == Ordered(tree, node, score, order)
        next == s.next + Len(kids)
        text == s.text \o Move(node) \o Result(tree, node)
        full == s.seen + 1 = s.level
    IN  [ queue |-> Tail(s.queue) \o kids,
          text  |-> IF full /\ next > 0 THEN text \o Mark("level") ELSE text,
          level |-> IF full THEN next ELSE s.level,
          next  |-> next,
          seen  |-> IF full THEN 0 ELSE s.seen + 1 ]

\* One turn of the loop of bfs_policy_order and bfs_verifier_order: a node is
\* taken from the queue; level, next and seen count the nodes of a level.
BfsTurn(tree, score, order, s) ==
    LET node == Head(s.queue)
        kids == Ordered(tree, node, score, order)
        next == s.next + Len(kids)
        text == s.text \o Move(node) \o Result(tree, node)
        full == s.seen + 1 = s.level
    IN  [ queue |-> Tail(s.queue) \o kids,
          text  |-> IF full /\ next > 0 THEN text \o Mark("level") ELSE text,
          level |-> IF full THEN next ELSE s.level,
          next  |-> IF full THEN 0 ELSE next,
          seen  |-> IF full THEN 0 ELSE s.seen + 1 ]

\* The whole loop, with level markers, below a node.
bfs_order(tree, score, order, from) ==
    LET kids  == Ordered(tree, from, score, order)
        start == [ queue |-> kids, level |-> Len(kids), next |-> 0, seen |-> 0,
                   text  |-> IF kids = << >> THEN << >> ELSE Mark("level") ]
    IN  FoldLeft(LAMBDA s, n : IF s.queue = << >> THEN s ELSE BfsTurn(tree, score, order, s),
                 start, tree).text

\* A traversal without directions, levels and results: its moves.
Moves(text) == SelectSeq(text, LAMBDA mark : mark[1] = "move")

Subtree(tree, score, method, cand) ==
    Moves(IF method.shape = "dfs" THEN dfs_order(tree, score, method.order, cand)
          ELSE bfs_order(tree, score, method.order, cand))

\* Candidate by candidate its subtree and then the verdict on it.
build_candidate_cot_traversal(tree, value, score, method) ==
    LET cands == Ordered(tree, Root, score, method.order)
        part(c) == Move(c) \o Subtree(tree, score, method, c) \o << <<"verify", value[c]>> >>
        text  == FlattenSeq([i \in DOMAIN cands |-> Mark("sep") \o part(cands[i])])
    IN  IF text = << >> THEN text ELSE Tail(text)
=============================================================================
