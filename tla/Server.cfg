SPECIFICATION FairSpec
CONSTANTS
    NrBufs = 3
    BufSize = 2
    Groups = 2
    Sent = 7
    Clients = 3
INVARIANTS StreamIntact SlotsConserved OneRequest
PROPERTY Served
CHECK_DEADLOCK FALSE
