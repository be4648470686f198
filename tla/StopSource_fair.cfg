SPECIFICATION FairSpec
CONSTANTS
    c1 = c1
    c2 = c2
    c3 = c3
    r1 = r1
    r2 = r2
    NULL = NULL
    HEAD = HEAD
    Callback <- Two
    Requester <- Requesters
    SelfDestroy <- NoCallback
    MaxLives = 2
PROPERTIES RequestReturns DestroyReturns ImplementsPromise
CHECK_DEADLOCK FALSE
