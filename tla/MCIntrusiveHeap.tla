--------------------------- MODULE MCIntrusiveHeap ---------------------------
(***************************************************************************)
(* Model-checking instance of IntrusiveHeap: every sequence of operations  *)
(* on the first Small nodes, and the heap of all nodes pushed in order,    *)
(* with late deadlines on its left and early ones on its right, while it   *)
(* has at least MinDeep nodes, so that the leaf that stands in for a       *)
(* removed node climbs several levels.                                     *)
(***************************************************************************)
EXTENDS IntrusiveHeap, TLC

CONSTANTS Small, MinDeep

\* nodes 2 and 4 have equal deadlines
Keys == <<1, 20, 2, 20, 22, 3, 4, 30, 31, 32, 33, 5>>
Nodes == DOMAIN Keys
NullNode == 0

InOrder == \A k \in 1 .. h.size : NodeAt(k) = k

SmallNext ==
    /\ Members \subseteq 1 .. Small
    /\ Pop \/ \E n \in 1 .. Small : Push(n) \/ Remove(n)
DeepNext ==
    \/ InOrder /\ h.size >= Small /\ \E n \in Nodes : n = h.size + 1 /\ Push(n)
    \/ h.size >= MinDeep /\ (Pop \/ \E n \in Nodes : Remove(n))

MCSpec == Init /\ [][SmallNext \/ DeepNext]_<<h, call>>

\* no action reads which call was the last
HeapOnly == h
=============================================================================
