--------------------------- MODULE MCPhasedRollout ---------------------------
(* PhasedRollout on small instances.                                       *)
EXTENDS PhasedRollout

\* No reply; two replies; a blank one, which ends the sample.
MCQueues == {<<>>, <<2, 1>>, <<1, Blank>>}
=============================================================================
