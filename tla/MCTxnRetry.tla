---------------------------- MODULE MCTxnRetry ----------------------------
(* Two server processes, three calls in all, two failing statements; the   *)
(* second process may be suspended at any point, the first keeps running.  *)
EXTENDS TxnRetry
CONSTANTS c1, c2
BothClients == {c1, c2}
FirstOnly == {c1}
=============================================================================
