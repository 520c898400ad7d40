--------------------------- MODULE BatchedInference ---------------------------
(***************************************************************************)
(* The batch loops of evaluation/inference.py.  They get one prompt for    *)
(* each state; fits[i] says whether prompt i and the tokens to generate    *)
(* fit the context of the model.  An output is the number of the state it  *)
(* was generated for; what the model says is left to the callers.          *)
(***************************************************************************)
EXTENDS Integers, Sequences, SequencesExt, FiniteSetsExt

None == 0

CeilDiv(n, d) == (n + d - 1) \div d

\* Where the batches of n states start, less one.
Starts(n, size) == [b \in 1..CeilDiv(n, size) |-> (b - 1) * size]

\* The indices of a batch.
BatchOf(n, start, size) == (start + 1)..Min({start + size, n})

\* There is a batch of which no state fits.
LeavesOut(fits, size) ==
    \E start \in ToSet(Starts(Len(fits), size)) :
        \A i \in BatchOf(Len(fits), start, size) : ~ fits[i]

\* A state that does not fit gets None; a batch of which none fits is left
\* out altogether.
AddBatch(outputs, fits, start, size) ==
    LET batch == BatchOf(Len(fits), start, size)
    IN  IF \A i \in batch : ~ fits[i] THEN outputs
        ELSE outputs \o [i \in 1..Cardinality(batch) |->
                            IF fits[start + i] THEN start + i ELSE None]

\* generate_moves_batch and generate_moves_batch_sft.
generate_moves_batch(fits, size) ==
    FoldLeft(LAMBDA outs, start : AddBatch(outs, fits, start, size),
             << >>, Starts(Len(fits), size))

\* Mutant of WriteBatch: a place counts from the start of its batch.
WriteBatch_NoStart(flat, fits, start, size) ==
    [f \in DOMAIN flat |->
        IF f + start \in BatchOf(Len(flat), start, size) /\ fits[f + start] THEN f + start
        ELSE flat[f]]

\* generate_moves_batch_sft_k writes what fits to the place of its state.
WriteBatch(flat, fits, start, size) ==
    [f \in DOMAIN flat |->
        IF f \in BatchOf(Len(flat), start, size) /\ fits[f] THEN f ELSE flat[f]]

\* Each state k times, generated in batches, and cut into rows of k again.
generate_moves_batch_sft_k(fits, k, size) ==
    LET total == Len(fits) * k
        owner(f) == (f - 1) \div k + 1
        flat  == FoldLeft(LAMBDA outs, start :
                              WriteBatch(outs, [f \in 1..total |-> fits[owner(f)]], start, size),
                          [f \in 1..total |-> None], Starts(total, size))
    IN  [i \in DOMAIN fits |-> SubSeq(flat, (i - 1) * k + 1, i * k)]

\* generate_moves_batch_k tests no length: k outputs for every state.
generate_moves_batch_k(fits, k) ==
    [i \in DOMAIN fits |-> [j \in 1..k |-> (i - 1) * k + j]]
=============================================================================
