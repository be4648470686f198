SPECIFICATION FairSpec
CONSTANTS
    a = a
    b = b
    m = m
    x = x
    d = d
    e = e
    t1 = t1
    t2 = t2
    NoTask = NoTask
    Io <- A
    Multi <- A
    Cancel <- X
    Timer <- D
    TimerStop <- E
    Target <- XtoAEtoD
    Queues <- OneThread
    Initial <- NoneYet
    SqEntries = 2
    CqEntries = 2
    MaxMore = 1
INVARIANTS ResumedIsOver HeapHoldsLive
PROPERTIES SubmitReturns ShutdownEnds
