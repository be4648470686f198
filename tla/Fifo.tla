-------------------------------- MODULE Fifo --------------------------------
(* What the MPSC queue promises: nodes leave in the order they came in.     *)
EXTENDS Naturals, Sequences

CONSTANT Node

VARIABLE queue

Init == queue = << >>

Put(n) ==
    /\ \A i \in DOMAIN queue : queue[i] # n
    /\ queue' = Append(queue, n)
Get == queue # << >> /\ queue' = Tail(queue)

Next == Get \/ \E n \in Node : Put(n)

Spec == Init /\ [][Next]_queue
=============================================================================
