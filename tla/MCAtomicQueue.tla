---------------------------- MODULE MCAtomicQueue ----------------------------
(* Model-checking instance of AtomicQueue. *)
EXTENDS AtomicQueue, TLC

CONSTANTS n1, n2, n3, t1, t2

Nodes3 == {n1, n2, n3}
Threads2 == {t1, t2}
Symmetric == Permutations(Nodes3) \union Permutations(Threads2)
=============================================================================
