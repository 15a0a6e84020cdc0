\* The TCP connections of an endpoint to two peers share its mapping, and one of them ends.
SPECIFICATION Spec
CONSTANTS
    h1 = h1
    h2 = h2
    Hosts = {h1, h2}
    Ports = {1}
    Peers = {p1, p2}
    Protocols = {"tcp"}
    Addresses = {a1}
    FirstPort = 10
    LastPort = 10
    MAX_MAPPINGS = 2
    UDP_TIMEOUT = 1
    ICMP_TIMEOUT = 1
    TCP_ESTABLISHED_TIMEOUT = 2
    TCP_TRANSITORY_TIMEOUT = 1
    Hairpins = {}
    Startup <- NoForwards
    Configurable <- WebServer
INVARIANTS
    EveryEstablishedKept
