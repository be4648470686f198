------------------------------ MODULE TaskLists ------------------------------
(***************************************************************************)
(* What the atomic queue and the private queues promise: a shared sequence *)
(* of nodes and one of every thread, moved between them without loss.      *)
(***************************************************************************)
EXTENDS Naturals, Sequences

CONSTANTS Node, Thread

VARIABLES shared, mine, offered

vars == <<shared, mine, offered>>

Backwards(s) == [i \in 1 .. Len(s) |-> s[Len(s) + 1 - i]]

Init ==
    /\ shared = << >>
    /\ mine = [t \in Thread |-> << >>]
    /\ offered = [t \in Thread |-> << >>]

Unheld(n) ==
    /\ \A i \in DOMAIN shared : shared[i] # n
    /\ \A t \in Thread : /\ \A i \in DOMAIN mine[t] : mine[t][i] # n
                         /\ \A i \in DOMAIN offered[t] : offered[t][i] # n

\* a thread is about to push a node, or its whole list
Offer(t, n) ==
    /\ offered[t] = << >> /\ Unheld(n)
    /\ offered' = [offered EXCEPT ![t] = <<n>>]
    /\ UNCHANGED <<shared, mine>>
OfferAll(t) ==
    /\ offered[t] = << >>
    /\ offered' = [offered EXCEPT ![t] = mine[t]]
    /\ mine' = [mine EXCEPT ![t] = << >>]
    /\ UNCHANGED shared

Publish(t) ==
    /\ shared' = offered[t] \o shared
    /\ offered' = [offered EXCEPT ![t] = << >>]
    /\ UNCHANGED mine

TakeAll(t) ==
    /\ \E s \in {shared, Backwards(shared)} :
          mine' = [mine EXCEPT ![t] = @ \o s] \/ mine' = [mine EXCEPT ![t] = s \o @]
    /\ shared' = << >>
    /\ UNCHANGED offered

Add(t, n) ==
    /\ Unheld(n)
    /\ \/ mine' = [mine EXCEPT ![t] = <<n>> \o @]
       \/ mine' = [mine EXCEPT ![t] = @ \o <<n>>]
    /\ UNCHANGED <<shared, offered>>
RemoveFirst(t) ==
    /\ mine[t] # << >>
    /\ mine' = [mine EXCEPT ![t] = Tail(@)]
    /\ UNCHANGED <<shared, offered>>

Next == \E t \in Thread : \/ OfferAll(t) \/ Publish(t) \/ TakeAll(t) \/ RemoveFirst(t)
                          \/ \E n \in Node : Offer(t, n) \/ Add(t, n)

Spec == Init /\ [][Next]_vars
=============================================================================
