\* Opening, aborting and closing, with both hosts able to connect (simultaneous open), and
\* the next connection on the same pair of addresses while copies of old segments are still
\* about; two blocks a host.
SPECIFICATION Spec
CONSTANTS
    a = a
    b = b
    Peers = {a, b}
    Listeners = {b}
    Iss <- IssAgain
    Bytes <- Bytes0
    Chunks = {1}
    UserOps <- OpenOps
    Faults = {"duplicate", "unreachable"}
    MaxInFlight = 2
    Prompt = FALSE
    SeqSpace = 32
    RxCap = 2
    TxCap = 3
    Mss = 1
    MaxRetries = 0
    MaxOoo = 1
CONSTRAINT FewInFlight
INVARIANTS
    HandshakeAgrees
PROPERTIES
    ImplementsLifecycle
CHECK_DEADLOCK FALSE
