----------------------------- MODULE MCRLTrainer -----------------------------
(* RLTrainer on small instances.                                           *)
EXTENDS RLTrainer

CONSTANTS p1, p2, p3, p4

\* Two batches to a pass.
MCPrompts == {p1, p2, p3, p4}
=============================================================================
