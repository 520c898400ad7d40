--------------------------- MODULE MCToolScheduler ---------------------------
(* ToolScheduler on small instances.                                       *)
EXTENDS ToolScheduler

CONSTANTS c1, c2, c3

\* Two conversations, then one.
MCBatches == <<{c1, c2}, {c3}>>

\* Addresses in an order in which they are a heap: its root has two children.
MCAddresses == <<1, 3, 2>>
=============================================================================
