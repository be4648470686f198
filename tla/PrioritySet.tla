----------------------------- MODULE PrioritySet -----------------------------
(* What a heap promises: a set of keyed nodes that gives up a least one.     *)
EXTENDS Integers

CONSTANTS Node, Key, NULL

VARIABLES members,
          call       \* the operation performed last and the node it was given

Init == members = {} /\ call = <<"none", NULL>>

Insert(n) ==
    /\ call' = <<"push", n>>
    /\ n \notin members /\ members' = members \union {n}

\* of a node that is not there: nothing
Erase(n) ==
    /\ call' = <<"remove", n>>
    /\ members' = members \ {n}

Least(n) == n \in members /\ \A o \in members : Key[n] <= Key[o]

TakeLeast ==
    /\ call' = <<"pop", NULL>>
    /\ IF members = {} THEN UNCHANGED members
       ELSE \E n \in members : Least(n) /\ members' = members \ {n}

Next == TakeLeast \/ \E n \in Node : Insert(n) \/ Erase(n)

Spec == Init /\ [][Next]_<<members, call>>
=============================================================================
