------------------------------ MODULE MCInbox ------------------------------
(* Two directories, two names, three identities over time; two messages    *)
(* read in pages of one.                                                   *)
EXTENDS Inbox, TLC
CONSTANTS a1, a2, a3, p1, p2, n1, n2
Symmetric == Permutations({a1, a2, a3}) \cup Permutations({n1, n2})
=============================================================================
