-------------------------- MODULE MCPretrainTrainer --------------------------
(* PretrainTrainer on small instances.                                     *)
EXTENDS PretrainTrainer
=============================================================================
