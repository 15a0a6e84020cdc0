\* Half-close, close and simultaneous close, with data in flight, over a network that
\* loses segments, with hosts that lose their interface or cannot reach each other; timers,
\* delivery and reading are fair.
SPECIFICATION FairSpec
CONSTANTS
    a = a
    b = b
    Peers = {a, b}
    Listeners = {b}
    Iss <- IssOnce
    Bytes <- Bytes1
    Chunks = {1}
    UserOps <- CloseOps
    Faults = {"lose", "ifremove", "unreachable"}
    MaxInFlight = 2
    Prompt = FALSE
    SeqSpace = 16
    RxCap = 2
    TxCap = 3
    Mss = 1
    MaxRetries = 1
    MaxOoo = 1
INVARIANTS
    EofAfterAllData
    NoLeakedBlock
PROPERTIES
    ImplementsLifecycle
    EventuallyFreed
CHECK_DEADLOCK FALSE
