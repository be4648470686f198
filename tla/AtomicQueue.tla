----------------------------- MODULE AtomicQueue -----------------------------
(***************************************************************************)
(* __atomic_intrusive_queue: threads push nodes, or whole lists, on the    *)
(* front of a shared list with compare-and-swap, and take all of it at     *)
(* once; and __intrusive_queue, the private list of a thread, from which   *)
(* lists are pushed and to which taken ones are joined.  A step is one     *)
(* access to shared memory, or one turn of a loop over a taken list; the   *)
(* operations on a private list, which nobody else sees, are single steps. *)
(***************************************************************************)
EXTENDS Naturals, Sequences, FiniteSets

CONSTANTS Node, Thread, NULL

ASSUME NullAssumption == NULL \notin Node
ASSUME FiniteAssumption == IsFiniteSet(Node)

VARIABLES
    head,    \* __head_ of the shared list
    next,    \* _Next of every node
    q,       \* every thread's private list: __head_ and __tail_
    loose,   \* the nodes that are in no list; their owners may push them
    pc,      \* where every thread is
    old,     \* its __old_head
    batch,   \* the list it pushes or is building from what it took
    list,    \* __list, what __create_reversed has yet to reverse
    how      \* the operation that takes: which order, joined to which end

vars == <<head, next, q, loose, pc, old, batch, list, how>>

Pointer == Node \union {NULL}
Queue == [head : Pointer, tail : Pointer]
Empty == [head |-> NULL, tail |-> NULL]
Take == [reversed : BOOLEAN, append : BOOLEAN]

Init ==
    /\ head = NULL
    /\ next = [n \in Node |-> NULL]
    /\ q = [t \in Thread |-> Empty]
    /\ loose = Node
    /\ pc = [t \in Thread |-> "idle"]
    /\ old = [t \in Thread |-> NULL]
    /\ batch = [t \in Thread |-> Empty]
    /\ list = [t \in Thread |-> NULL]
    /\ how = [t \in Thread |-> [reversed |-> TRUE, append |-> TRUE]]

\* p->*_Next = v in memory m; a write through a null pointer shows in the domain
SetNext(m, p, v) == [n \in DOMAIN m \union {p} |-> IF n = p THEN v ELSE m[n]]

-----------------------------------------------------------------------------
(* _M_push_front and _M_prepend of the shared list                           *)

StartPush(t, n) ==
    /\ pc[t] = "idle" /\ n \in loose
    /\ loose' = loose \ {n}
    /\ batch' = [batch EXCEPT ![t] = [head |-> n, tail |-> n]]
    /\ old' = [old EXCEPT ![t] = head]
    /\ pc' = [pc EXCEPT ![t] = "link"]
    /\ UNCHANGED <<head, next, q, list, how>>

\* the private list is moved into the parameter, which is not empty
StartPrepend(t) ==
    /\ pc[t] = "idle" /\ q[t].head # NULL
    /\ q' = [q EXCEPT ![t] = Empty]
    /\ batch' = [batch EXCEPT ![t] = q[t]]
    /\ old' = [old EXCEPT ![t] = head]
    /\ pc' = [pc EXCEPT ![t] = "link"]
    /\ UNCHANGED <<head, next, loose, list, how>>

Link(t) ==
    /\ pc[t] = "link"
    /\ next' = SetNext(next, batch[t].tail, old[t])
    /\ pc' = [pc EXCEPT ![t] = "cas"]
    /\ UNCHANGED <<head, q, loose, old, batch, list, how>>

\* fault: a plain store
StoreHead(t) == TRUE
\* compare_exchange_weak can succeed
HeadIsOld(t) == head = old[t]

CasPush(t) ==
    /\ pc[t] = "cas" /\ HeadIsOld(t)
    /\ head' = batch[t].head
    /\ batch' = [batch EXCEPT ![t] = Empty]
    /\ pc' = [pc EXCEPT ![t] = "idle"]
    /\ UNCHANGED <<next, q, loose, old, list, how>>

\* fault: the swap is tried again with the link made before
Retry(t) == "cas"
AfterFailedPush(t) == "link"

\* it failed, spuriously perhaps, and has loaded the head
CasPushFails(t) ==
    /\ pc[t] = "cas"
    /\ old' = [old EXCEPT ![t] = head]
    /\ pc' = [pc EXCEPT ![t] = AfterFailedPush(t)]
    /\ UNCHANGED <<head, next, q, loose, batch, list, how>>

-----------------------------------------------------------------------------
(* _M_pop_swap and _M_pop_swap_reversed: _M_reset, then __create or          *)
(* __create_reversed, and _M_append or _M_prepend to the private list        *)

StartTake(t, h) ==
    /\ pc[t] = "idle"
    /\ how' = [how EXCEPT ![t] = h]
    /\ old' = [old EXCEPT ![t] = head]
    /\ pc' = [pc EXCEPT ![t] = "reset"]
    /\ UNCHANGED <<head, next, q, loose, batch, list>>

CasReset(t) ==
    /\ pc[t] = "reset" /\ HeadIsOld(t)
    /\ head' = NULL
    /\ IF how[t].reversed
       THEN /\ batch' = [batch EXCEPT ![t] = [head |-> NULL, tail |-> old[t]]]
            /\ list' = [list EXCEPT ![t] = old[t]]
            /\ pc' = [pc EXCEPT ![t] = "reverse"]
       ELSE /\ batch' = [batch EXCEPT ![t] = [head |-> old[t], tail |-> old[t]]]
            /\ pc' = [pc EXCEPT ![t] = "walk"]
            /\ UNCHANGED list
    /\ UNCHANGED <<next, q, loose, old, how>>

CasResetFails(t) ==
    /\ pc[t] = "reset"
    /\ old' = [old EXCEPT ![t] = head]
    /\ UNCHANGED <<head, next, q, loose, pc, batch, list, how>>

\* one turn of the loop of __create_reversed
Reverse(t) ==
    /\ pc[t] = "reverse" /\ list[t] # NULL
    /\ next' = SetNext(next, list[t], batch[t].head)
    /\ batch' = [batch EXCEPT ![t].head = list[t]]
    /\ list' = [list EXCEPT ![t] = next[list[t]]]
    /\ UNCHANGED <<head, q, loose, pc, old, how>>

\* the loop of __create has not reached the last node
More(t) == batch[t].tail # NULL /\ next[batch[t].tail] # NULL

Walk(t) ==
    /\ pc[t] = "walk" /\ More(t)
    /\ batch' = [batch EXCEPT ![t].tail = next[batch[t].tail]]
    /\ UNCHANGED <<head, next, q, loose, pc, old, list, how>>

\* _M_append: a followed by b; the link it makes
AppendLink(m, a, b) == IF a.head = NULL THEN m ELSE SetNext(m, a.tail, b.head)
Appended(a, b) == [head |-> IF a.head = NULL THEN b.head ELSE a.head, tail |-> b.tail]

\* _M_prepend: b followed by a
Prepended(a, b) == [head |-> b.head, tail |-> IF a.tail = NULL THEN b.tail ELSE a.tail]

Join(t) ==
    LET a == q[t]
        b == batch[t]
    IN /\ \/ pc[t] = "reverse" /\ list[t] = NULL
          \/ pc[t] = "walk" /\ ~More(t)
       /\ IF b.head = NULL THEN UNCHANGED <<next, q>>
          ELSE IF how[t].append
          THEN /\ next' = AppendLink(next, a, b)
               /\ q' = [q EXCEPT ![t] = Appended(a, b)]
          ELSE /\ next' = SetNext(next, b.tail, a.head)
               /\ q' = [q EXCEPT ![t] = Prepended(a, b)]
       /\ batch' = [batch EXCEPT ![t] = Empty]
       /\ pc' = [pc EXCEPT ![t] = "idle"]
       /\ UNCHANGED <<head, loose, old, list, how>>

-----------------------------------------------------------------------------
(* __intrusive_queue by itself                                               *)

PushItemFront(t, n) ==
    /\ pc[t] = "idle" /\ n \in loose
    /\ loose' = loose \ {n}
    /\ next' = SetNext(next, n, q[t].head)
    /\ q' = [q EXCEPT ![t] = Prepended(@, [head |-> n, tail |-> n])]
    /\ UNCHANGED <<head, pc, old, batch, list, how>>

PushItemBack(t, n) ==
    LET a == q[t] IN
    /\ pc[t] = "idle" /\ n \in loose
    /\ loose' = loose \ {n}
    /\ next' = LET m == SetNext(next, n, NULL)
               IN IF a.tail = NULL THEN m ELSE SetNext(m, a.tail, n)
    /\ q' = [q EXCEPT ![t] = [head |-> IF a.tail = NULL THEN n ELSE a.head, tail |-> n]]
    /\ UNCHANGED <<head, pc, old, batch, list, how>>

TailPopped(a) == IF next[a.head] = NULL THEN NULL ELSE a.tail

PopFront(t) ==
    /\ pc[t] = "idle" /\ q[t].head # NULL
    /\ loose' = loose \union {q[t].head}
    /\ q' = [q EXCEPT ![t] = [head |-> next[@.head], tail |-> TailPopped(@)]]
    /\ UNCHANGED <<head, next, pc, old, batch, list, how>>

-----------------------------------------------------------------------------
PushStep(t) ==
    \/ \E n \in Node : StartPush(t, n)
    \/ StartPrepend(t) \/ Link(t) \/ CasPush(t) \/ CasPushFails(t)
TakeStep(t) ==
    \/ \E h \in Take : StartTake(t, h)
    \/ CasReset(t) \/ CasResetFails(t) \/ Reverse(t) \/ Walk(t) \/ Join(t)
PrivateStep(t) ==
    \/ \E n \in Node : PushItemFront(t, n) \/ PushItemBack(t, n)
    \/ PopFront(t)

Next == \E t \in Thread : PushStep(t) \/ TakeStep(t) \/ PrivateStep(t)

Spec == Init /\ [][Next]_vars

-----------------------------------------------------------------------------
(* The lists as sequences                                                    *)

\* the nodes from h on, up to the end of the list or the node last: the link
\* behind a list that is being pushed is a thread's own business until the swap
UpTo(h, last) ==
    LET at[k \in 1 .. Cardinality(Node) + 1] ==
            IF k = 1 THEN h ELSE IF at[k - 1] \in {NULL, last} THEN NULL ELSE next[at[k - 1]]
    IN SubSeq([k \in DOMAIN at |-> at[k]], 1, Cardinality({k \in DOMAIN at : at[k] # NULL}))

Nodes(h) == UpTo(h, NULL)

Reversed(s) == [i \in 1 .. Len(s) |-> s[Len(s) + 1 - i]]

Shared == Nodes(head)

\* what t took and has not joined to its list, in the order it will have there
Taken(t) ==
    CASE pc[t] = "reverse" -> Reversed(Nodes(list[t])) \o Nodes(batch[t].head)
      [] pc[t] = "walk" -> Nodes(batch[t].head)
      [] OTHER -> << >>
\* what t is about to push
Offered(t) == IF pc[t] \in {"link", "cas"} THEN UpTo(batch[t].head, batch[t].tail) ELSE << >>

Mine(t) ==
    IF how[t].append THEN Nodes(q[t].head) \o Taken(t) ELSE Taken(t) \o Nodes(q[t].head)

Places == {<<"shared", NULL>>} \union ({"mine", "offered"} \X Thread)
At(p) == CASE p[1] = "shared" -> Shared
           [] p[1] = "mine" -> Mine(p[2])
           [] p[1] = "offered" -> Offered(p[2])
In(s) == {s[i] : i \in DOMAIN s}

\* No push, take or join loses a node, puts it in two lists or twice in one,
\* whatever the threads do meanwhile with nodes that were in the list before.
OnePlace ==
    /\ UNION {In(At(p)) : p \in Places} = Node \ loose
    /\ \A p \in Places : Cardinality(In(At(p))) = Len(At(p))
    /\ \A p, r \in Places : p # r => In(At(p)) \intersect In(At(r)) = {}

Abstract == INSTANCE TaskLists
    WITH shared <- Shared,
         mine <- [t \in Thread |-> Mine(t)],
         offered <- [t \in Thread |-> Offered(t)]

\* Every operation acts as if it happened at one instant: a push at its
\* successful compare-and-swap, a take, which keeps or reverses the order of
\* the whole list, at the one that empties it.
ImplementsTaskLists == Abstract!Spec
=============================================================================
