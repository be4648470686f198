----------------------------- MODULE MCMpscQueue -----------------------------
(* Model-checking instance of MpscQueue. *)
EXTENDS MpscQueue

CONSTANTS n1, n2, n3, p1, p2

Nodes3 == {n1, n2, n3}
Producers2 == {p1, p2}
=============================================================================
