\* One client, and one of another implementation that sends anything, compete for the address
\* of a server that is stopped and restarted from its file; frames are lost.
SPECIFICATION Spec
CONSTANTS
    Macs = {c1, f1}
    Clients = {c1}
    Servers = {1}
    Hosts = {2}
    PoolRange <- OneAddress
    Reserved <- NoneReserved
    LeaseSecs = 4
    OfferHold = 2
    DeclineHold = 2
    RetryMin = 1
    RetryMax = 2
    MaxDelay = 1
    QueueCap = 2
    MaxFaults = 2
INVARIANTS
    TypeOK
    LeaseBacked
    TableUnique
    AddressInTime
PROPERTIES
    OnlyOwnerEnds
