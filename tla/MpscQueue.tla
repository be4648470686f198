------------------------------ MODULE MpscQueue ------------------------------
(***************************************************************************)
(* __core/__intrusive_mpsc_queue.hpp: many producers exchange __head_ and  *)
(* link the node that was there to theirs in a second step; one consumer   *)
(* follows the links from __tail_.  A stub node keeps the list non-empty.  *)
(* A step is one access to shared memory and what follows it locally.      *)
(***************************************************************************)
EXTENDS Naturals, Sequences, FiniteSets

CONSTANTS Node, Producer, Stub, NULL

Consumer == "consumer"   \* the consumer pushes too: the stub

ASSUME StubAssumption ==
    /\ Stub \notin Node /\ NULL \notin Node \union {Stub} /\ IsFiniteSet(Node)
    /\ Consumer \notin Producer

Pusher == Producer \union {Consumer}

VARIABLES
    head, tail,   \* __head_ and __tail_
    next,         \* _Next of every node and of __stub_
    loose,        \* the nodes that are not in the queue; their owners may push them
    ppc,          \* where every pusher is in _M_push_back
    new, prev,    \* its __new_node and __prev
    cpc,          \* where the consumer is in _M_pop_front
    ctail, cnext, \* its __tail and __next
    quiet         \* since the pop began the queue had a node and no push was half done

vars == <<head, tail, next, loose, ppc, new, prev, cpc, ctail, cnext, quiet>>

Cell == Node \union {Stub}

Init ==
    /\ head = Stub /\ tail = Stub
    /\ next = [n \in Cell |-> NULL]
    /\ loose = Node
    /\ ppc = [p \in Pusher |-> "idle"]
    /\ new = [p \in Pusher |-> NULL] /\ prev = [p \in Pusher |-> NULL]
    /\ cpc = "idle" /\ ctail = NULL /\ cnext = NULL
    /\ quiet = FALSE

-----------------------------------------------------------------------------
(* The queue as a sequence, in the order of the exchanges: a link that is    *)
(* not made yet is known to the pusher that will make it.                    *)

Linking(c) == {p \in Pusher : ppc[p] = "link" /\ prev[p] = c}
After[c \in Cell \union {NULL}] ==
    IF c = NULL THEN NULL
    ELSE IF next[c] # NULL THEN next[c]
    ELSE IF Linking(c) # {} THEN new[CHOOSE p \in Linking(c) : TRUE] ELSE NULL

\* the stub is passed over
Skip[c \in Cell \union {NULL}] == IF c = Stub THEN After[Stub] ELSE c

Queued ==
    LET at[k \in 1 .. Cardinality(Node) + 1] == Skip[IF k = 1 THEN tail ELSE After[at[k - 1]]]
    IN SubSeq([k \in DOMAIN at |-> at[k]], 1, Cardinality({k \in DOMAIN at : at[k] # NULL}))

HalfDone == \E p \in Producer : ppc[p] = "link"

-----------------------------------------------------------------------------
(* _M_push_back                                                              *)

StartPush(p, n) ==
    /\ ppc[p] = "idle" /\ n \in loose
    /\ loose' = loose \ {n}
    /\ next' = [next EXCEPT ![n] = NULL]
    /\ new' = [new EXCEPT ![p] = n]
    /\ ppc' = [ppc EXCEPT ![p] = "exchange"]
    /\ UNCHANGED <<head, tail, prev, cpc, ctail, cnext, quiet>>

Exchange(p) ==
    /\ ppc[p] = "exchange"
    /\ prev' = [prev EXCEPT ![p] = head]
    /\ head' = new[p]
    /\ ppc' = [ppc EXCEPT ![p] = "link"]
    /\ quiet' = (quiet /\ p = Consumer)
    /\ UNCHANGED <<tail, next, loose, new, cpc, ctail, cnext>>

LinkNode(p) ==
    /\ ppc[p] = "link"
    /\ next' = [next EXCEPT ![prev[p]] = new[p]]
    /\ ppc' = [ppc EXCEPT ![p] = "idle"]
    /\ cpc' = IF p = Consumer THEN "reload" ELSE cpc
    /\ UNCHANGED <<head, tail, loose, new, prev, ctail, cnext, quiet>>

-----------------------------------------------------------------------------
(* _M_pop_front                                                              *)

StartPop ==
    /\ cpc = "idle"
    /\ ctail' = tail
    /\ cnext' = next[tail]
    /\ quiet' = (Queued # << >> /\ ~HalfDone)
    /\ cpc' = "decide"
    /\ UNCHANGED <<head, tail, next, loose, ppc, new, prev>>

Linked == cnext # NULL

\* the stub is passed: the tail advances and its successor's link is loaded
SkipStub ==
    /\ cpc = "decide" /\ ctail = Stub /\ cnext # NULL
    /\ tail' = cnext
    /\ ctail' = cnext
    /\ cnext' = next[cnext]
    /\ UNCHANGED <<head, next, loose, ppc, new, prev, cpc, quiet>>

\* return nullptr
NothingYet ==
    /\ \/ cpc = "decide" /\ ctail = Stub /\ cnext = NULL
       \/ cpc = "busy"
    /\ cpc' = "idle"
    /\ UNCHANGED <<head, tail, next, loose, ppc, new, prev, ctail, cnext, quiet>>

\* return the node at the tail
Return ==
    /\ cpc = "decide" /\ ctail # Stub /\ Linked
    /\ tail' = cnext
    /\ loose' = loose \union {ctail}
    /\ cpc' = "idle"
    /\ UNCHANGED <<head, next, ppc, new, prev, ctail, cnext, quiet>>

\* fault: the stub is never pushed again
NeverLast == FALSE
TailIsHead == ctail = head

\* fault: the link of the stub is not reset
StubKept == next
StubReset == [next EXCEPT ![Stub] = NULL]

\* no successor: if the tail is the last node the stub is pushed behind it
LoadHead ==
    /\ cpc = "decide" /\ ctail # Stub /\ cnext = NULL
    /\ IF TailIsHead
       THEN /\ cpc' = "stub"
            /\ next' = StubReset
            /\ new' = [new EXCEPT ![Consumer] = Stub]
            /\ ppc' = [ppc EXCEPT ![Consumer] = "exchange"]
       ELSE /\ cpc' = "busy"
            /\ UNCHANGED <<next, new, ppc>>
    /\ UNCHANGED <<head, tail, loose, prev, ctail, cnext, quiet>>

\* fault: the link that the stub's push has made is not looked at
GiveUp == "busy"
AfterReload == IF next[ctail] # NULL THEN "decide" ELSE "busy"

Reload ==
    /\ cpc = "reload"
    /\ cnext' = next[ctail]
    /\ cpc' = AfterReload
    /\ UNCHANGED <<head, tail, next, loose, ppc, new, prev, ctail, quiet>>

-----------------------------------------------------------------------------
PushStep(p) == (\E n \in Node : p \in Producer /\ StartPush(p, n)) \/ Exchange(p) \/ LinkNode(p)
PopStep == StartPop \/ SkipStub \/ NothingYet \/ Return \/ LoadHead \/ Reload

Next == PopStep \/ \E p \in Pusher : PushStep(p)

\* every thread that is inside an operation goes on, and the consumer pops for ever
Fairness == WF_vars(PopStep) /\ \A p \in Pusher : WF_vars(Exchange(p) \/ LinkNode(p))

Spec == Init /\ [][Next]_vars
FairSpec == Spec /\ Fairness

\* A producer that has yet to write the link of the node before its own never
\* writes into a node that was popped, and may be freed or pushed again.
LinkBeforePop == \A p \in Pusher : ppc[p] = "link" => prev[p] \notin loose

\* _M_pop_front gives up only if the queue was empty or a push was half done
\* at some moment of the call.
GivesUpWithReason ==
    cpc = "busy" \/ (cpc = "decide" /\ ctail = Stub /\ cnext = NULL) => ~quiet

Abstract == INSTANCE Fifo WITH queue <- Queued

\* The nodes leave in the order of the exchanges, each once; the stub never does.
ImplementsFifo == Abstract!Spec

\* Every node that is pushed is popped.
PoppedEventually == \A n \in Node : n \notin loose ~> n \in loose
=============================================================================
