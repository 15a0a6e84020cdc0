\* A reader that pauses for ever or for a while has written a byte itself; the network
\* loses nothing and is faster than every timer.
SPECIFICATION Spec
CONSTANTS
    a = a
    b = b
    Peers = {a, b}
    Listeners = {b}
    Iss <- IssOnce
    Bytes <- Bytes31
    Chunks = {1}
    UserOps <- BothWriteOps
    Faults = {}
    MaxInFlight = 8
    Prompt = TRUE
    SeqSpace = 16
    RxCap = 2
    TxCap = 3
    Mss = 2
    MaxRetries = 2
    MaxOoo = 1
INVARIANTS
    NoSpuriousTimeout
CHECK_DEADLOCK FALSE
