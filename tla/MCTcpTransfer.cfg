\* One stream of three bytes through a two-byte receive buffer, over a network that
\* loses and reorders, so that resent segments overlap what has arrived; timers, delivery
\* and reading are fair.
SPECIFICATION FairSpec
CONSTANTS
    a = a
    b = b
    Peers = {a, b}
    Listeners = {b}
    Iss <- IssOnce
    Bytes <- Bytes3
    Chunks = {1}
    UserOps <- TransferOps
    Faults = {"lose", "reorder"}
    MaxInFlight = 2
    Prompt = FALSE
    SeqSpace = 16
    RxCap = 2
    TxCap = 2
    Mss = 2
    MaxRetries = 1
    MaxOoo = 1
INVARIANTS
    TypeOK
    StreamIntegrity
    AckedWasReceived
    NoSilentStall
PROPERTIES
    NoRetreat
    Delivery
CHECK_DEADLOCK FALSE
