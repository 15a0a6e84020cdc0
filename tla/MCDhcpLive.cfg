\* A client gets its lease though frames are lost and the server stops without saving.
SPECIFICATION FairSpec
CONSTANTS
    Macs = {c1}
    Clients = {c1}
    Servers = {1}
    Hosts = {2}
    PoolRange <- OneAddress
    Reserved <- NoneReserved
    LeaseSecs = 4
    OfferHold = 2
    DeclineHold = 2
    RetryMin = 1
    RetryMax = 2
    MaxDelay = 1
    QueueCap = 2
    MaxFaults = 3
PROPERTIES
    EventuallyBound
