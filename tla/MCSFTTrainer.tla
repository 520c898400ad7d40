----------------------------- MODULE MCSFTTrainer ----------------------------
(* SFTTrainer on small instances.                                          *)
EXTENDS SFTTrainer, TLC

\* Batches are only collected in sets: they may be permuted.
BatchSymmetry == Permutations(Batches)
=============================================================================
