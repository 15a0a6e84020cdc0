\* A server is stopped between its ACK and the save of its table.
SPECIFICATION Spec
CONSTANTS
    Macs = {c1}
    Clients = {c1}
    Servers = {1}
    Hosts = {2}
    PoolRange <- OneAddress
    Reserved <- NoneReserved
    LeaseSecs = 4
    OfferHold = 2
    DeclineHold = 2
    RetryMin = 1
    RetryMax = 2
    MaxDelay = 1
    QueueCap = 2
    MaxFaults = 2
INVARIANTS
    LeasesSurvive
