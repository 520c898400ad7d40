-------------------------- MODULE MCMultiTurnRollout --------------------------
(* MultiTurnRollout on a small instance: two ranks of three samples.       *)
EXTENDS MultiTurnRollout, TLC

CONSTANTS r1, r2

\* No reply, enough of them, one without tokens and one without text.
MCQueues == {<< >>, <<1, 2>>, <<0, Blank>>}

\* A prompt at the context limit, and one just below it.
Full  == [len |-> MaxCtx, queue |-> << >>]
Short == [len |-> MaxCtx - 1, queue |-> << >>]

\* Samples that differ in how long they can stay active, in any order.
Mixed == {b \in [Places -> [len : {2, MaxCtx}, queue : MCQueues]] :
             /\ \A i, j \in Places : b[i].queue = b[j].queue => i = j
             /\ \E i \in Places : b[i].len = 2}

\* One sample that may take two rounds, the others at most one.
Long == [i \in Places |-> IF i = 2 THEN [len |-> 2, queue |-> <<1, 2>>] ELSE Short]

\* The other rank has nothing to generate; or both have.
MCBatches ==
    {(r1 :> b) @@ (r2 :> [i \in Places |-> Full]) : b \in Mixed}
        \cup {(r1 :> Long) @@ (r2 :> [i \in Places |-> Short])}
=============================================================================
