SPECIFICATION Spec
CONSTANTS
    t1 = t1
    t2 = t2
    Thread <- Two
    Exiting <- One
    T = 1
    N = 3
    M = 1
    K = 3
    Wrap = 6
    U32 = 16
    Units = 2
    Sizes = {1}
    MaxMaps = 3
    MaxSpans = 2
    MaxCount = 1
INVARIANTS BlocksConserved SubrangesSafe
VIEW Unnamed
CHECK_DEADLOCK FALSE
