\* Three slots, one listening port on one address or on any, two remote hosts: listeners
\* are opened, closed and lose their interface while children arrive, die and are accepted.
SPECIFICATION Spec
CONSTANTS
    MaxSockets = 3
    GenSpace = 8
    MaxBacklog = 2
    MaxAllocs = 5
    Ips = {ip1}
    AnyIp = AnyIp
    Ports = {1}
    Remotes = {r1, r2}
SYMMETRY RemoteSymmetry
INVARIANTS
    TypeOK
    NoAliasing
    NoOrphan
    AcceptOnce
    UniqueDemux
    BacklogRespected
CHECK_DEADLOCK FALSE
