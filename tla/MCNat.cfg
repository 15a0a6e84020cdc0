\* Two hosts and two protocols compete for two outside ports and two entries, while a
\* forward moves between the hosts, the outside address comes and goes and the router restarts.
SPECIFICATION Spec
CONSTANTS
    h1 = h1
    h2 = h2
    Hosts = {h1, h2}
    Ports = {1}
    Peers = {p1}
    Protocols = {"udp", "tcp"}
    Addresses = {a1}
    FirstPort = 10
    LastPort = 11
    MAX_MAPPINGS = 2
    UDP_TIMEOUT = 2
    ICMP_TIMEOUT = 1
    TCP_ESTABLISHED_TIMEOUT = 2
    TCP_TRANSITORY_TIMEOUT = 1
    Hairpins = {"udp"}
    Startup <- NoForwards
    Configurable <- EitherServer
INVARIANTS
    TypeOK
    MappingsUnique
    RoundTrip
    StableSource
    ErrorsFollowFlow
