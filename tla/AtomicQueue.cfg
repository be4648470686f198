SPECIFICATION Spec
CONSTANTS
    n1 = n1
    n2 = n2
    n3 = n3
    t1 = t1
    t2 = t2
    NULL = NULL
    Node <- Nodes3
    Thread <- Threads2
SYMMETRY Symmetric
INVARIANT OnePlace
PROPERTY ImplementsTaskLists
