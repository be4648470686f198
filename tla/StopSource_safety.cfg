SPECIFICATION Spec
CONSTANTS
    c1 = c1
    c2 = c2
    c3 = c3
    r1 = r1
    r2 = r2
    NULL = NULL
    HEAD = HEAD
    Callback <- Three
    Requester <- Requesters
    SelfDestroy <- JustC1
    MaxLives = 2
INVARIANTS Inv NoUseAfterDestroy NoneMissed Destructible
PROPERTIES StopSticky SelfDestroyHangs
CHECK_DEADLOCK FALSE
