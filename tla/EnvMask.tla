------------------------------- MODULE EnvMask -------------------------------
(***************************************************************************)
(* MultiTurnSFTDataset._mask_env_responses: the scan that keeps the moves  *)
(* of the environment out of the loss.  A token is one of                  *)
(*   "piece"    what starts a move: a piece, or castling,                  *)
(*   "square"   the rest of a move, "=" apart,                             *)
(*   "equal"    "=", after which a piece is promoted to,                   *)
(*   "call"     <call_env>,                                                *)
(*   "struct"   <T>, </T>, <sep>, <bos>, <eos> and the other env tokens.   *)
(***************************************************************************)
EXTENDS Integers, Sequences, SequencesExt

Outside == [inReply |-> FALSE, started |-> FALSE, afterEqual |-> FALSE, masked |-> {}]

Leave(scan) == [Outside EXCEPT !.masked = scan.masked]
Enter(scan) == [Leave(scan) EXCEPT !.inReply = TRUE]

Hide(scan, j) == [scan EXCEPT !.masked = @ \cup {j}]

\* labels[j], while the reply of the environment is being passed or not.
ScanLabel(scan, j, label) ==
    IF ~ scan.inReply THEN [scan EXCEPT !.afterEqual = FALSE]
    ELSE IF label = "struct" THEN Leave(scan)
    ELSE IF label = "piece" /\ ~ scan.afterEqual
    THEN IF scan.started THEN Leave(scan)
         ELSE Hide([scan EXCEPT !.started = TRUE, !.afterEqual = FALSE], j)
    ELSE Hide([scan EXCEPT !.afterEqual = (label = "equal")], j)

\* The labels of tokens that are masked: labels[j] = tokens[j + 1], and a
\* call seen in input_ids[j] begins a reply with labels[j].
MaskedLabels(tokens) ==
    FoldLeftDomain(
        LAMBDA scan, j :
            ScanLabel(IF tokens[j] = "call" THEN Enter(scan) ELSE scan, j, tokens[j + 1]),
        Outside,
        Front(tokens)).masked
=============================================================================
