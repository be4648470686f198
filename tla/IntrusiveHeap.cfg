SPECIFICATION MCSpec
CONSTANTS
    Small = 6
    MinDeep = 10
    Node <- Nodes
    Key <- Keys
    NULL <- NullNode
INVARIANTS CompleteTree ErasureAware
VIEW HeapOnly
PROPERTY ImplementsPrioritySet
CHECK_DEADLOCK FALSE
