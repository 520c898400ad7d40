-------------------------- MODULE MCCheckpointStore --------------------------
(* CheckpointStore on small instances.                                     *)
EXTENDS CheckpointStore, TLC

\* Images are only stored and compared: they may be permuted.
ImageSymmetry == Permutations(Image)
=============================================================================
