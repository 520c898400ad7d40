---------------------------- MODULE MCAlgorithms ----------------------------
(* Algorithms on small inputs.                                             *)
EXTENDS Algorithms

\* A game of up to four moves in which one first move ends it.
MCOver == { <<"b">> }
MCSolution == <<"c", "a", "a", "a">>

MCPlays ==
    { <<"a">>, <<"a", "a">>, <<"a", "b">>, <<"b", "a">>, <<"a", "b", "a">>, <<"a", "b", "b">> }

\* Lines that share moves, begin with each other, or repeat.
MCLineSets == BoundedSeq(MCPlays, 3)

MCLabels == {-1, 1}

\* Scores that agree with the order of generation or not.
MCScorings ==
    LET nodes == UNION {Prefixes(play) : play \in MCPlays}
    IN  { [n \in nodes |-> IF n # << >> /\ Last(n) = "b" THEN 1 ELSE 0],
          [n \in nodes |-> IF n # << >> /\ Last(n) = "a" THEN Len(n) ELSE 2] }

MCSays == { <<"a">>, <<"a", "a", "a">> }
=============================================================================
