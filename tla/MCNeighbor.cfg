\* Three next hops compete for a table of two entries with two packets each, while a short
\* transmit queue fills up and the interface goes down, moves and comes back.
SPECIFICATION Spec
CONSTANTS
    Ips = {h1, h2, h3}
    MaxNeighbors = 2
    MaxPending = 2
    MaxRequests = 2
    RetryMs = 1
    ReachableMs = 1
    TxQueueLen = 2
    MaxLate = 0
    MaxPackets = 3
    MaxTime = 4
SYMMETRY IpSymmetry
INVARIANTS
    Accounted
    InOrder
    NoStranded
    Timely
PROPERTIES
    NotToldEarly
CHECK_DEADLOCK FALSE
