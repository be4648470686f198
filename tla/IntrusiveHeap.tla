---------------------------- MODULE IntrusiveHeap ----------------------------
(***************************************************************************)
(* __core/__intrusive_heap.hpp: a binary heap whose nodes carry their own  *)
(* links; the scheduler keeps its timers in one.  The loops of the code    *)
(* are recursive operators on the heap's memory h; one step is one call.   *)
(***************************************************************************)
EXTENDS Integers, Sequences, FiniteSets

CONSTANTS Node, Key, NULL

ASSUME KeyAssumption == Key \in [Node -> Int] /\ NULL \notin Node

VARIABLES
    h,     \* root, size and the links of every node; bad: a null pointer was followed
    call   \* the operation performed last and its argument (history)

Init ==
    LET nil == [n \in Node |-> NULL] IN
    /\ h = [root |-> NULL, size |-> 0, left |-> nil, right |-> nil, prev |-> nil, bad |-> FALSE]
    /\ call = <<"none", NULL>>

-----------------------------------------------------------------------------
(* Memory.  A _Node ** is "root", or a side and the node that has the link.  *)

SetLeft(m, n, v) == IF n = NULL THEN [m EXCEPT !.bad = TRUE] ELSE [m EXCEPT !.left[n] = v]
SetRight(m, n, v) == IF n = NULL THEN [m EXCEPT !.bad = TRUE] ELSE [m EXCEPT !.right[n] = v]
SetPrev(m, n, v) == IF n = NULL THEN [m EXCEPT !.bad = TRUE] ELSE [m EXCEPT !.prev[n] = v]

SetPrevIfAny(m, n, v) == IF n = NULL THEN m ELSE SetPrev(m, n, v)

RootSlot == <<"root", NULL>>
ChildSlot(n, toRight) == <<IF toRight THEN "right" ELSE "left", n>>

Load(m, s) == CASE s[1] = "root" -> m.root
                [] s[1] = "left" -> m.left[s[2]]
                [] s[1] = "right" -> m.right[s[2]]

Store(m, s, v) == CASE s[1] = "root" -> [m EXCEPT !.root = v]
                    [] s[1] = "left" -> SetLeft(m, s[2], v)
                    [] s[1] = "right" -> SetRight(m, s[2], v)

\* the turns (TRUE: right) from the root to the k-th node: the bits of k below
\* its leading one, which __path_bit_mask selects one after the other
RECURSIVE Path(_)
Path(k) == IF k <= 1 THEN <<>> ELSE Append(Path(k \div 2), k % 2 = 1)

RECURSIVE Walk(_, _, _)
Walk(m, s, path) ==
    IF path = <<>> THEN s ELSE Walk(m, ChildSlot(Load(m, s), Head(path)), Tail(path))

-----------------------------------------------------------------------------
(* _M_push                                                                   *)

\* node has taken p's place; p and what is below it on the path move down
RECURSIVE Shift(_, _, _, _)
Shift(m, node, p, path) ==
    IF path = <<>> THEN SetLeft(m, node, NULL)
    ELSE IF Head(path)
    THEN Shift(SetPrev(SetLeft(SetRight(m, node, p), node, m.left[p]), m.left[p], node),
               p, m.right[p], Tail(path))
    ELSE Shift(SetPrevIfAny(SetLeft(SetRight(m, node, m.right[p]), node, p), m.right[p], node),
               p, m.left[p], Tail(path))

RECURSIVE Sift(_, _, _, _, _)
Sift(m, node, slot, q, path) ==
    LET p == Load(m, slot) IN
    IF path = <<>>
    THEN SetLeft(SetRight(SetPrev(Store(m, slot, node), node, q), node, NULL), node, NULL)
    ELSE IF Key[node] < Key[p]
    THEN Shift(Store(SetPrev(SetPrev(m, node, q), p, node), slot, node), node, p, path)
    ELSE Sift(m, node, ChildSlot(p, Head(path)), p, Tail(path))

Pushed(m, n) ==
    LET k == m.size + 1 IN Sift([m EXCEPT !.size = k], n, RootSlot, NULL, Path(k))

-----------------------------------------------------------------------------
(* _M_pop and _M_remove                                                      *)

\* __remove_least_leaf
LeastLeaf(m) == Load(m, Walk(m, RootSlot, Path(m.size)))
WithoutLeastLeaf(m) ==
    [Store(m, Walk(m, RootSlot, Path(m.size)), NULL) EXCEPT !.size = @ - 1]

SwapWithRightChild(m, parent, child) ==
    [m EXCEPT !.right[parent] = m.right[child], !.right[child] = parent,
              !.left[parent] = m.left[child], !.left[child] = m.left[parent]]

SwapWithLeftChild(m, parent, child) ==
    [m EXCEPT !.right[parent] = m.right[child], !.right[child] = m.right[parent],
              !.left[parent] = m.left[child], !.left[child] = parent]

\* fault: the left child is taken even when the right one is smaller
NeverRight(r, l) == FALSE

\* the right child is the one to compare with
RightIsLess(r, l) == r # NULL /\ Key[r] < Key[l]

\* __heap_down_sink
RECURSIVE Sink(_, _, _, _)
Sink(m, p, slot, parent) ==
    LET l == m.left[p]
        r == m.right[p]
    IN CASE l = NULL -> SetPrev(m, p, parent)
         [] l # NULL /\ RightIsLess(r, l) /\ Key[r] < Key[p] ->
                Sink(Store(SetPrev(SwapWithRightChild(m, p, r), l, r), slot, r),
                     p, ChildSlot(r, TRUE), r)
         [] l # NULL /\ ~RightIsLess(r, l) /\ Key[l] < Key[p] ->
                Sink(Store(SetPrevIfAny(SwapWithLeftChild(m, p, l), r, l), slot, l),
                     p, ChildSlot(l, FALSE), l)
         [] OTHER -> SetPrev(SetPrev(SetPrevIfAny(m, r, p), l, p), p, parent)

\* fault: the sibling of p on a lower level keeps its __prev_
LeaveSibling(m, x, parent) == m

KeepsClimbing(p, grand) == Key[p] < Key[grand]
FixSibling(m, x, parent) == SetPrevIfAny(m, x, parent)

\* one turn of __heap_up_percolate's loop and the rest of it: p moves above
\* parent; x is the node whose __prev_ is to be fixed next (*__parent_x)
RECURSIVE Climb(_, _, _, _)
Climb(m, p, parent, x) ==
    LET onRight == m.right[parent] = p
        grand == m.prev[parent]
        m1 == FixSibling(m, x, parent)
        x1 == IF onRight THEN m.left[parent] ELSE m.right[parent]
        m2 == IF onRight THEN SwapWithRightChild(m1, parent, p) ELSE SwapWithLeftChild(m1, parent, p)
        m3 == IF grand = NULL \/ x1 = NULL THEN [m2 EXCEPT !.bad = TRUE]
              ELSE Store(m2, ChildSlot(grand, m2.right[grand] = parent), p)
    IN CASE m3.bad -> m3
         [] ~m3.bad /\ KeepsClimbing(p, grand) -> Climb(m3, p, grand, x1)
         [] OTHER -> SetPrev(SetPrev(SetPrev(m3, x1, p), parent, p), p, grand)

\* __heap_up_percolate
Percolated(m, p, parent) == Climb(SetPrevIfAny(m, m.right[p], parent), p, parent, m.left[p])

Popped(m) ==
    IF m.size <= 1 THEN [m EXCEPT !.root = NULL, !.size = 0]
    ELSE LET p == LeastLeaf(m)
             m1 == WithoutLeastLeaf(m)
             m2 == [m1 EXCEPT !.right[p] = m1.right[m1.root], !.left[p] = m1.left[m1.root],
                              !.root = p]
             m3 == Sink(m2, p, RootSlot, NULL)
         IN SetPrev(m3, m3.root, NULL)

\* fault: the removed node keeps its link
KeepPrev(m, n) == m

\* "Make node erasure-aware."
Forget(m, n) == SetPrev(m, n, NULL)

BelongsAbove(p, parent) == parent # NULL /\ Key[p] < Key[parent]

\* p, the least leaf, stands in for the removed node n
Replaced(m, n, p) ==
    LET parent == m.prev[n]
        slot == IF parent = NULL THEN RootSlot ELSE ChildSlot(parent, m.right[parent] = n)
        m1 == Store([m EXCEPT !.right[p] = m.right[n], !.left[p] = m.left[n]], slot, p)
        m2 == Sink(m1, p, slot, parent)
    IN IF BelongsAbove(p, parent)
       THEN Percolated(m1, p, parent)
       ELSE SetPrev(m2, Load(m2, slot), parent)

Removed(m, n) ==
    IF m.prev[n] = NULL /\ n # m.root THEN m
    ELSE LET p == LeastLeaf(m)
             m1 == WithoutLeastLeaf(m)
         IN Forget(IF p = n THEN m1 ELSE Replaced(m1, n, p), n)

-----------------------------------------------------------------------------
NodeAt(k) == Load(h, Walk(h, RootSlot, Path(k)))
Members == {NodeAt(k) : k \in 1 .. h.size}

Push(n) == n \notin Members /\ h' = Pushed(h, n) /\ call' = <<"push", n>>
Pop == h' = Popped(h) /\ call' = <<"pop", NULL>>
Remove(n) == h' = Removed(h, n) /\ call' = <<"remove", n>>

Next == Pop \/ \E n \in Node : Push(n) \/ Remove(n)

Spec == Init /\ [][Next]_<<h, call>>

\* The links form the complete binary tree of __size_ nodes, in both
\* directions, whatever was removed from its middle, and no null link was followed.
CompleteTree ==
    /\ ~h.bad
    /\ Cardinality(Members) = h.size /\ Members \subseteq Node
    /\ \A k \in 1 .. h.size :
          /\ h.left[NodeAt(k)] = IF 2 * k <= h.size THEN NodeAt(2 * k) ELSE NULL
          /\ h.right[NodeAt(k)] = IF 2 * k + 1 <= h.size THEN NodeAt(2 * k + 1) ELSE NULL
          /\ h.prev[NodeAt(k)] = IF k = 1 THEN NULL ELSE NodeAt(k \div 2)

\* _M_remove recognises a node that is not in the heap, also one that was
\* popped or removed before.
ErasureAware == \A n \in Node \ Members : h.prev[n] = NULL /\ h.root # n

Priority == INSTANCE PrioritySet WITH members <- Members

\* Every call does to the set of nodes what it should: _M_push adds its node,
\* _M_pop takes one with a least key, whatever was removed from the middle
\* before, and _M_remove takes its own node, or nothing if it is not there.
ImplementsPrioritySet == Priority!Spec
=============================================================================
