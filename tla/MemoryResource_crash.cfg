SPECIFICATION Spec
CONSTANTS
    t1 = t1
    t2 = t2
    Thread <- One
    Exiting <- None
    T = 2
    N = 2
    M = 4
    K = 4
    Wrap = 8
    U32 = 16
    Units = 1
    Sizes = {1}
    MaxMaps = 2
    MaxSpans = 4
    MaxCount = 4
INVARIANTS NoCrash
VIEW Unnamed
CHECK_DEADLOCK FALSE
