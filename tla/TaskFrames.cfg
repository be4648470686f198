SPECIFICATION Spec
CONSTANTS
    Root = {1, 2}
    Sizes = {2, 3, 5}
    MinCap = 4
    MaxDepth = 3
    Alloc = {1, 2, 3, 4}
INVARIANTS AllocatorsOwned FramesApart OwnAllocator
CHECK_DEADLOCK FALSE
