SPECIFICATION FairSpec
CONSTANTS
    n1 = n1
    n2 = n2
    n3 = n3
    p1 = p1
    p2 = p2
    NULL = NULL
    Stub = Stub
    Node <- Nodes3
    Producer <- Producers2
INVARIANTS LinkBeforePop GivesUpWithReason
PROPERTIES ImplementsFifo PoppedEventually
