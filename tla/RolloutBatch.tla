----------------------------- MODULE RolloutBatch -----------------------------
(***************************************************************************)
(* The rollouts of a model policy: of several positions in one padded call *)
(* (prepare_position_slots, generate_trajectories_multi_position_batched,  *)
(* finalize_position_puzzle), or of one position                           *)
(* (process_one_position_puzzle, generate_trajectories_batched).  A slot   *)
(* is one rollout of one candidate.  What the model writes after a         *)
(* candidate is a line of legal moves; an output is the number of the slot *)
(* it was generated from.  A batch is a record:                            *)
(*   batched  the first of the two ways                                    *)
(*   specs    its positions: the candidates, each with the length of its   *)
(*            prompt and the depths of its rollouts, and gt, the candidate *)
(*            that is the move of the puzzle if the answer is injected,    *)
(*            or 0                                                         *)
(*   fails    a call raises an exception                                   *)
(*   said     what the model writes in each slot                           *)
(*   at       where the solution is inserted, if there are so many lines   *)
(***************************************************************************)
EXTENDS BatchedInference, FiniteSets

CONSTANTS
    BatchSize,        \* trajectory_batch_size
    PadTo,            \* a call has a multiple of so many states (16)
    MaxCtx,           \* max_position_embeddings, in moves
    TrajectoryDepth,  \* trajectory_depth
    Solution          \* the moves of the puzzle after its first one

\* flat_slots, with the depth of the continuation.
FlatSlots(specs) ==
    FlattenSeq([p \in DOMAIN specs |-> FlattenSeq([c \in DOMAIN specs[p].cands |->
        [t \in DOMAIN specs[p].cands[c].depths |->
            [pos |-> p, cand |-> c, length |-> specs[p].cands[c].length,
             depth |-> specs[p].cands[c].depths[t] - 1]]])])

\* sorted_order; slots of one position are not sorted.
SortedOrder(batched, slots) ==
    IF ~ batched THEN [s \in DOMAIN slots |-> s]
    ELSE SetToSortSeq(DOMAIN slots, LAMBDA s, t :
            slots[s].depth < slots[t].depth \/ (slots[s].depth = slots[t].depth /\ s < t))

-----------------------------------------------------------------------------
\* The slots of the calls, one call after the other.
Chunks(batched, order) ==
    IF ~ batched THEN << order >>
    ELSE LET starts == Starts(Len(order), BatchSize)
         IN  [b \in DOMAIN starts |->
                 SubSeq(order, starts[b] + 1, Min({starts[b] + BatchSize, Len(order)}))]

\* One token a move.
MaxNewTokens(slots, chunk) == Max({1} \cup {slots[s].depth : s \in ToSet(chunk)})

\* Mutant of Padded: the padding comes first.
Padded_Front(chunk) ==
    [i \in 1..(CeilDiv(Len(chunk), PadTo) * PadTo - Len(chunk)) |-> chunk[1]] \o chunk

Padded(chunk) ==
    chunk \o [i \in 1..(CeilDiv(Len(chunk), PadTo) * PadTo - Len(chunk)) |-> chunk[1]]

Fits(slots, chunk) ==
    [i \in DOMAIN Padded(chunk) |->
        slots[Padded(chunk)[i]].length + MaxNewTokens(slots, chunk) <= MaxCtx]

Empty == -1

\* The outputs of a call; those that generate_moves_batch leaves out are
\* missing at the end.
Outputs(slots, chunk) ==
    LET outs == generate_moves_batch(Fits(slots, chunk), BatchSize)
    IN  [i \in DOMAIN chunk |->
            CASE i > Len(outs)  -> Empty
              [] outs[i] = None -> None
              [] OTHER          -> Padded(chunk)[outs[i]]]

\* full_outputs: the outputs of all calls, put back in the order of the slots.
FullOutputs(batched, slots) ==
    LET order == SortedOrder(batched, slots)
        outputs_sorted == FoldLeft(LAMBDA outs, chunk : outs \o Outputs(slots, chunk),
                                   << >>, Chunks(batched, order))
    IN  [s \in DOMAIN slots |-> outputs_sorted[CHOOSE i \in DOMAIN order : order[i] = s]]

\* Where None is among the outputs, split() is called on it.
Raises(b) ==
    LET outputs == FullOutputs(b.batched, FlatSlots(b.specs))
    IN  ~ b.fails /\ \E s \in DOMAIN outputs : outputs[s] = None

Line(slot, said) == <<slot.cand>> \o SubSeq(said, 1, Min({Len(said), slot.depth}))

\* results: of each position and candidate its lines.  After an exception no
\* position of the batch has a rollout.
Rollouts(b) ==
    LET slots   == FlatSlots(b.specs)
        outputs == FullOutputs(b.batched, slots)
        own(p, c) == SelectSeq([s \in DOMAIN slots |-> s],
                               LAMBDA s : slots[s].pos = p /\ slots[s].cand = c)
        line(s) == Line(slots[s], IF outputs[s] = Empty THEN << >> ELSE b.said[s])
    IN  [p \in DOMAIN b.specs |-> [c \in DOMAIN b.specs[p].cands |->
            IF b.fails THEN << >>
            ELSE LET ids == own(p, c) IN [i \in DOMAIN ids |-> line(ids[i])]]]

\* With one position at a time the solution is cut to the depth of the rollouts.
gt_solution_traj(batched, gt) ==
    IF batched THEN <<gt>> \o Solution
    ELSE <<gt>> \o SubSeq(Solution, 1, Min({Len(Solution), TrajectoryDepth - 1}))

Dedup(lines) ==
    FoldLeft(LAMBDA seen, line : IF Contains(seen, line) THEN seen ELSE Append(seen, line),
             << >>, lines)

\* trajectories_per_candidate: the solution stands anywhere among the lines of
\* its move.
Trajectories(b, rollouts) ==
    LET lines(p, c) ==
            LET own == rollouts[p][c]
            IN  IF c # b.specs[p].gt THEN own
                ELSE InsertAt(own, Min({b.at, Len(own) + 1}), gt_solution_traj(b.batched, c))
    IN  [p \in DOMAIN b.specs |-> [c \in DOMAIN b.specs[p].cands |-> Dedup(lines(p, c))]]

-----------------------------------------------------------------------------
(* Sorted, cut into calls, padded and put back: a rollout is read from what *)
(* the model wrote after its own candidate in its own position.  ("For each *)
(* (candidate, trajectory) slot the board state after the candidate move is *)
(* prepared and passed to the model.")  With one position at a time this is *)
(* so only if no part of the call is left out.                             *)
OutputsOfOwnState(b) ==
    LET slots   == FlatSlots(b.specs)
        outputs == FullOutputs(b.batched, slots)
    IN  \/ ~ b.batched /\ LeavesOut(Fits(slots, SortedOrder(FALSE, slots)), BatchSize)
        \/ \A s \in DOMAIN slots :
              outputs[s] > 0 =>
                  /\ slots[outputs[s]].pos = slots[s].pos
                  /\ slots[outputs[s]].cand = slots[s].cand

(* A call generates enough for each of its slots, and none of another call  *)
(* that is shallower than one of its own pays for its depth ("avoiding      *)
(* over-generation for shallow slots forced to match a deep one").         *)
LimitsFitDepths(b) ==
    LET slots  == FlatSlots(b.specs)
        chunks == Chunks(b.batched, SortedOrder(b.batched, slots))
        limit(n) == MaxNewTokens(slots, chunks[n])
    IN  \A n \in DOMAIN chunks : \A s \in ToSet(chunks[n]) :
            /\ slots[s].depth <= limit(n)
            /\ \A m \in DOMAIN chunks : limit(m) > limit(n) =>
                  \A t \in ToSet(chunks[m]) : slots[s].depth <= slots[t].depth

(* Every line of the tree is a rollout or the solution, each once, and none *)
(* is lost; the move of the puzzle is there with its solution even when     *)
(* generation failed or gave it no rollout, at full length in a batch.      *)
AnswerKept(b) ==
    LET rollouts     == Rollouts(b)
        trajectories == Trajectories(b, rollouts)
    IN  \A p \in DOMAIN b.specs : \A c \in DOMAIN b.specs[p].cands :
            LET lines  == trajectories[p][c]
                answer == b.specs[p].gt = c
            IN  /\ ToSet(lines) = ToSet(rollouts[p][c])
                       \cup (IF answer THEN {gt_solution_traj(b.batched, c)} ELSE {})
                /\ Cardinality(ToSet(lines)) = Len(lines)
                /\ b.batched /\ answer => Contains(lines, <<c>> \o Solution)
=============================================================================
