-------------------------------- MODULE Nat --------------------------------
(***************************************************************************)
(* Port translation of the router (ecm-router/src/nat.rs) with the hooks   *)
(* that call it (Router::ingress and Router::egress of lib.rs): one        *)
(* outside port, hosts behind the inside ports, peers beyond the outside   *)
(* port, and static forwards.                                              *)
(*                                                                         *)
(* A packet is reduced to its protocol, its endpoints and, for TCP, the    *)
(* flags that touch() looks at.  Checksums and byte positions are left     *)
(* out, and so are packets that fail to parse: they change nothing but     *)
(* the expired mappings, which Poll removes.                               *)
(***************************************************************************)
EXTENDS Integers, FiniteSets, SequencesExt

CONSTANTS
    Hosts,          \* hosts behind the inside ports
    Ports,          \* ports (or echo identifiers) they send from
    Peers,          \* hosts beyond the outside port
    Protocols,      \* a subset of {"udp", "tcp", "icmp"}
    Addresses,      \* addresses the outside port may be given
    FirstPort, LastPort,    \* the dynamic ports (49152 and 65535)
    MAX_MAPPINGS,   \* size of the table (4096)
    UDP_TIMEOUT, ICMP_TIMEOUT, TCP_ESTABLISHED_TIMEOUT, TCP_TRANSITORY_TIMEOUT,
    Startup,        \* the forwards of router.cfg, in order
    Configurable,   \* the forwards an operator may add
    Hairpins        \* the protocols in which inside hosts contact the outside address

NoAddress == "0.0.0.0"
DynamicPorts == FirstPort .. LastPort
Forwards == Configurable \union {Startup[i] : i \in DOMAIN Startup}
StaticPorts == {f.outside_port : f \in Forwards}

ASSUME NatAssumption ==
    /\ FirstPort \in Nat \ {0} /\ LastPort \in Nat /\ FirstPort <= LastPort
    /\ MAX_MAPPINGS \in Nat
    /\ UDP_TIMEOUT \in Nat \ {0} /\ ICMP_TIMEOUT \in Nat \ {0}
    /\ TCP_TRANSITORY_TIMEOUT \in Nat \ {0}
    /\ TCP_ESTABLISHED_TIMEOUT \in Nat
    /\ TCP_TRANSITORY_TIMEOUT <= TCP_ESTABLISHED_TIMEOUT
    /\ Protocols \subseteq {"udp", "tcp", "icmp"}
    /\ NoAddress \notin Addresses \union Peers
    /\ Hairpins \subseteq Protocols
    /\ Forwards \subseteq [protocol: Protocols \ {"icmp"}, inside: Hosts,
                           inside_port: Ports, outside_port: Nat \ {0}]
    /\ Startup \in Seq(Forwards)
    /\ \A i, j \in DOMAIN Startup :
           Startup[i].protocol = Startup[j].protocol /\ Startup[i].outside_port = Startup[j].outside_port
               => i = j

VARIABLES
    mappings,   \* Nat::mappings; ttl is the time left until expires
    next,       \* Nat::next, the cursor over the dynamic ports
    forwards,   \* Config::forwards
    address,    \* address of the outside port, NoAddress when it has none
    flows       \* history: what each peer has exchanged with an inside host

vars == <<mappings, next, forwards, address, flows>>
----------------------------------------------------------------------------
\* What touch() tells apart in a segment: SYN also with ACK; FIN also for RST,
\* and for either with ACK or SYN, as the test for them comes last; ACK alone;
\* DATA without any of these flags, as every packet of another protocol.
Kinds(pr) == IF pr = "tcp" THEN {"SYN", "ACK", "FIN", "DATA"} ELSE {"DATA"}

\* The TCP phase after a packet: established and closing of Mapping in one.
phase_after(ph, kind) ==
    CASE kind = "SYN" -> "opening"
      [] kind = "ACK" -> IF ph = "closing" THEN ph ELSE "established"
      [] kind = "FIN" -> "closing"
      [] kind = "DATA" -> ph

timeout(pr, ph) ==
    CASE pr = "udp" -> UDP_TIMEOUT
      [] pr = "icmp" -> ICMP_TIMEOUT
      [] pr = "tcp" -> IF ph = "established" THEN TCP_ESTABLISHED_TIMEOUT
                       ELSE TCP_TRANSITORY_TIMEOUT

touch(m, kind) ==
    LET ph == phase_after(m.phase, kind)
    IN  [m EXCEPT !.phase = ph, !.ttl = timeout(m.protocol, ph)]

expire(ms) == {m \in ms : m.ttl > 0}

\* Lookups.  Vec::find returns the first match: there may be several forwards
\* of an inside endpoint, but never several mappings (MappingsUnique).  A
\* plausible slip: a server's answer is compared with the outside port.
forward_of_shown(pr, h, p) == {i \in DOMAIN forwards :
    forwards[i].protocol = pr /\ forwards[i].inside = h /\ forwards[i].outside_port = p}

forward_of(pr, h, p) == {i \in DOMAIN forwards :
    forwards[i].protocol = pr /\ forwards[i].inside = h /\ forwards[i].inside_port = p}
forward_to(pr, n) == {i \in DOMAIN forwards :
    forwards[i].protocol = pr /\ forwards[i].outside_port = n}
found(S) == {i \in S : \A j \in S : i <= j}
mapping_of(ms, pr, h, p, out) ==
    {m \in ms : m.protocol = pr /\ m.inside = h /\ m.port = p /\ m.outside = out}
mapping_to(ms, pr, out, n) ==
    {m \in ms : m.protocol = pr /\ m.outside = out /\ m.external = n}

\* Ports a new mapping may take, and how far the search is from each of them.
\* A plausible slip: only ports of the same inside host are looked at.
free_for_host(ms, pr, h, out) ==
    {n \in DynamicPorts : /\ \A m \in mapping_to(ms, pr, out, n) : m.inside # h
                          /\ forward_to(pr, n) = {}}

free(ms, pr, h, out) ==
    {n \in DynamicPorts : mapping_to(ms, pr, out, n) = {} /\ forward_to(pr, n) = {}}
ahead(n) == IF n >= next THEN n - next ELSE n - next + (LastPort - FirstPort + 1)
nearest(S) == CHOOSE n \in S : \A k \in S : ahead(n) <= ahead(k)

\* The cursor after a port was taken.  A plausible slip: it does not wrap.
advance_unwrapped(n) == n + 1

advance(n) == IF n = LastPort THEN FirstPort ELSE n + 1

NewMapping(pr, h, p, out, n) ==
    [protocol |-> pr, inside |-> h, port |-> p, outside |-> out, external |-> n,
     ttl |-> 0, phase |-> "opening"]

Drop(ms) == [port |-> 0, mappings |-> ms, next |-> next]

\* The port Nat::outbound gives to a packet from h:p (0: it is dropped), and
\* the table it leaves.  A failed search leaves the cursor where it was: it has
\* gone once round.
outbound(ms, pr, h, p, out, kind) ==
    LET static == forward_of(pr, h, p)
        known == mapping_of(ms, pr, h, p, out)
        ports == free(ms, pr, h, out)
    IN  IF out = NoAddress THEN Drop(ms)
        ELSE IF static # {}
        THEN [port |-> forwards[CHOOSE i \in found(static) : TRUE].outside_port,
              mappings |-> ms, next |-> next]
        ELSE IF known # {}
        THEN LET m == CHOOSE m \in known : TRUE
             IN  [port |-> m.external, mappings |-> (ms \ {m}) \union {touch(m, kind)},
                  next |-> next]
        ELSE IF Cardinality(ms) >= MAX_MAPPINGS \/ ports = {} THEN Drop(ms)
        ELSE LET n == nearest(ports)
             IN  [port |-> n,
                  mappings |-> ms \union {touch(NewMapping(pr, h, p, out, n), kind)},
                  next |-> advance(n)]

\* Where Nat::inbound sends a packet for port n of the outside address (the
\* empty set: nowhere, the packet is left to the host stack), and what becomes
\* of the table.  A plausible slip: only TCP's replies keep a mapping alive.
inbound(ms, pr, out, n) ==
    IF forward_to(pr, n) # {}
    THEN {<<forwards[i].inside, forwards[i].inside_port>> : i \in found(forward_to(pr, n))}
    ELSE {<<m.inside, m.port>> : m \in mapping_to(ms, pr, out, n)}

inbound_untouched(ms, pr, out, n, kind) ==
    IF forward_to(pr, n) # {} \/ pr # "tcp" THEN ms
    ELSE {IF m \in mapping_to(ms, pr, out, n) THEN touch(m, kind) ELSE m : m \in ms}

inbound_table(ms, pr, out, n, kind) ==
    IF forward_to(pr, n) # {} THEN ms
    ELSE {IF m \in mapping_to(ms, pr, out, n) THEN touch(m, kind) ELSE m : m \in ms}

\* Nat::translate_error: where an error quoting a packet sent from port n of
\* the outside address goes, and the port an error from h quotes for a packet
\* sent to h:p.  The table comes before the forwards here.
error_target(ms, pr, out, n) ==
    IF mapping_to(ms, pr, out, n) # {}
    THEN {<<m.inside, m.port>> : m \in mapping_to(ms, pr, out, n)}
    ELSE {<<forwards[i].inside, forwards[i].inside_port>> : i \in found(forward_to(pr, n))}

\* A plausible slip: an error about a packet for a forwarded port quotes the
\* port of the server.
error_source_mapped(ms, pr, h, p, out) ==
    IF mapping_of(ms, pr, h, p, out) # {}
    THEN {m.external : m \in mapping_of(ms, pr, h, p, out)}
    ELSE {p : i \in found(forward_of(pr, h, p))}

error_source(ms, pr, h, p, out) ==
    IF mapping_of(ms, pr, h, p, out) # {}
    THEN {m.external : m \in mapping_of(ms, pr, h, p, out)}
    ELSE {forwards[i].outside_port : i \in found(forward_of(pr, h, p))}

\* The forwards without the one for the same outside port: Vec::retain, which
\* removes at most one, as every forward was added by this command.
retained(f) ==
    LET same == forward_to(f.protocol, f.outside_port)
    IN  IF same = {} THEN forwards ELSE RemoveAt(forwards, CHOOSE i \in same : TRUE)
----------------------------------------------------------------------------
\* History.  A flow is renewed by every packet that is translated for it; its
\* phase is what the two ends of this one flow have exchanged since its SYN,
\* "partial" when no SYN of it was seen.  It is alone from its SYN on until
\* another connection sends SYN, FIN or RST through the mapping they share.
SameFlow(f, pr, peer, h, p, out) ==
    f.protocol = pr /\ f.peer = peer /\ f.inside = h /\ f.port = p /\ f.outside = out

flow_phase(ph, kind) == IF ph = "partial" /\ kind = "ACK" THEN ph ELSE phase_after(ph, kind)

Disturbed(f, pr, peer, h, p, out, n, kind) ==
    /\ kind \in {"SYN", "FIN"} /\ forward_to(pr, n) = {}
    /\ f.protocol = pr /\ f.inside = h /\ f.port = p /\ f.outside = out /\ f.external = n
    /\ f.peer # peer

Disturb(fs, pr, peer, h, p, out, n, kind) ==
    {[f EXCEPT !.alone = @ /\ ~Disturbed(f, pr, peer, h, p, out, n, kind)] : f \in fs}

Renew(fs, pr, peer, h, p, out, n, kind) ==
    LET old == {f \in fs : SameFlow(f, pr, peer, h, p, out)}
        before == IF \E f \in old : f.external = n
                  THEN CHOOSE f \in old : f.external = n
                  ELSE [phase |-> "partial", alone |-> FALSE]
    IN  Disturb(fs \ old, pr, peer, h, p, out, n, kind) \union
        {[protocol |-> pr, peer |-> peer, inside |-> h, port |-> p, outside |-> out,
          external |-> n, idle |-> 0, phase |-> flow_phase(before.phase, kind),
          alone |-> kind = "SYN" \/ before.alone]}

\* A packet from outside renews the flow it belongs to.  It begins one only at
\* a forward: through a mapping any peer may send, but an inside host has then
\* not yet talked to it.
Answered(fs, pr, peer, h, p, out, n, kind) ==
    IF forward_to(pr, n) # {} \/ \E f \in fs : SameFlow(f, pr, peer, h, p, out) /\ f.external = n
    THEN Renew(fs, pr, peer, h, p, out, n, kind)
    ELSE Disturb(fs, pr, peer, h, p, out, n, kind)
----------------------------------------------------------------------------
Init ==
    /\ mappings = {}
    /\ next = FirstPort
    /\ forwards = Startup
    /\ address \in Addresses
    /\ flows = {}

\* A packet of an inside host leaves through the outside port (egress).
Egress ==
    \E pr \in Protocols, h \in Hosts, p \in Ports, peer \in Peers : \E kind \in Kinds(pr) :
        LET r == outbound(expire(mappings), pr, h, p, address, kind)
        IN  /\ mappings' = r.mappings
            /\ next' = r.next
            /\ flows' = IF r.port = 0 THEN flows
                        ELSE Renew(flows, pr, peer, h, p, address, r.port, kind)
            /\ UNCHANGED <<forwards, address>>

\* A packet for the outside address arrives through the outside port (ingress).
Ingress ==
    \E pr \in Protocols, n \in DynamicPorts \union StaticPorts, peer \in Peers :
    \E kind \in Kinds(pr) :
        LET ms == expire(mappings)
        IN  /\ address # NoAddress
            /\ mappings' = inbound_table(ms, pr, address, n, kind)
            /\ \E to \in inbound(ms, pr, address, n) :
                   flows' = Answered(flows, pr, peer, to[1], to[2], address, n, kind)
            /\ UNCHANGED <<next, forwards, address>>

\* An inside host contacts the outside address: the packet is translated in
\* and out again.  When the second translation fails the packet is dropped,
\* and the first one has already renewed the mapping it used.
Hairpin ==
    \E pr \in Hairpins, h \in Hosts, p \in Ports, n \in DynamicPorts \union StaticPorts :
    \E kind \in Kinds(pr) :
        LET ms == expire(mappings)
            r == outbound(inbound_table(ms, pr, address, n, kind), pr, h, p, address, kind)
        IN  /\ address # NoAddress
            /\ mappings' = r.mappings
            /\ next' = r.next
            /\ \E to \in inbound(ms, pr, address, n) :
                   flows' = IF r.port = 0
                            THEN Disturb(flows, pr, NoAddress, to[1], to[2], address, n, kind)
                            ELSE Renew(Answered(flows, pr, address, to[1], to[2], address, n, kind),
                                       pr, address, h, p, address, r.port, kind)
            /\ UNCHANGED <<forwards, address>>

\* The router's periodic work; every lookup that fails does the same.
Poll ==
    /\ mappings' = expire(mappings)
    /\ UNCHANGED <<next, forwards, address, flows>>

\* "ip nat inside source static": takes effect at once, the table is kept.
\* The flows of the port and of the endpoint it redefines end here.
AddForward ==
    \E f \in Configurable :
        /\ forwards' = Append(retained(f), f)
        /\ flows' = {w \in flows : ~(/\ w.protocol = f.protocol
                                     /\ \/ w.external = f.outside_port
                                        \/ w.inside = f.inside /\ w.port = f.inside_port)}
        /\ UNCHANGED <<mappings, next, address>>

\* The outside port gets an address, loses it or gets another one.
Renumber ==
    /\ address' \in (Addresses \union {NoAddress}) \ {address}
    /\ UNCHANGED <<mappings, next, forwards, flows>>

\* "router off" and a new start: the table is forgotten, the configuration is
\* what was last written.
Restart ==
    /\ mappings' = {}
    /\ next' = FirstPort
    /\ forwards' \in {Startup, forwards}
    /\ flows' = {}
    /\ UNCHANGED address

\* Time: mappings run down, flows that were idle for the longest timeout of
\* their protocol are forgotten.
Tick ==
    /\ mappings' = {[m EXCEPT !.ttl = IF @ = 0 THEN 0 ELSE @ - 1] : m \in mappings}
    /\ flows' = {[f EXCEPT !.idle = @ + 1] : 
                     f \in {g \in flows : g.idle + 1 < timeout(g.protocol, "established")}}
    /\ UNCHANGED <<next, forwards, address>>

Next ==
    \/ Egress \/ Ingress \/ Hairpin \/ Poll \/ AddForward
    \/ Renumber \/ Restart \/ Tick

Spec == Init /\ [][Next]_vars
----------------------------------------------------------------------------
\* The type invariant: mappings stay within the dynamic ports, and so does the
\* cursor of the port search (outbound).
TypeOK ==
    /\ mappings \subseteq [protocol: Protocols, inside: Hosts, port: Ports,
           outside: Addresses, external: DynamicPorts, ttl: Nat,
           phase: {"opening", "established", "closing"}]
    /\ next \in DynamicPorts
    /\ forwards \in Seq(Forwards)
    /\ address \in Addresses \union {NoAddress}
    /\ flows \subseteq [protocol: Protocols, peer: Peers \union Addresses, inside: Hosts,
           port: Ports, outside: Addresses, external: Nat \ {0}, idle: Nat,
           phase: {"partial", "opening", "established", "closing"}, alone: BOOLEAN]

\* Every external port of an outside address stands for one inside endpoint,
\* and every inside endpoint has one external port on it: the first match of
\* Vec::find in outbound, inbound and translate_error is the only one.
MappingsUnique ==
    /\ \A m, k \in mappings :
           (/\ m.protocol = k.protocol /\ m.outside = k.outside
            /\ \/ m.external = k.external
               \/ m.inside = k.inside /\ m.port = k.port) => m = k
    /\ Cardinality(mappings) <= MAX_MAPPINGS

\* A flow counts as alive for the shortest timeout of its protocol.
Alive(f) == f.outside = address /\ f.idle < timeout(f.protocol, "opening")

\* Return traffic: while a flow is alive, what the peer sends to the port it
\* knows reaches the inside endpoint it talked to, whatever other hosts,
\* forwards of ports outside the dynamic range, address changes and a full
\* table did in between (a forward of a dynamic port takes it from its mapping).
RoundTrip ==
    \A f \in flows : Alive(f) =>
        inbound(expire(mappings), f.protocol, f.outside, f.external) = {<<f.inside, f.port>>}

\* The other direction: while a flow is alive, the peer goes on seeing the
\* inside endpoint under the port it knows.
StableSource ==
    \A f \in flows : Alive(f) => \A kind \in Kinds(f.protocol) :
        outbound(expire(mappings), f.protocol, f.inside, f.port, f.outside, kind).port = f.external

\* An endpoint that has got a forward while a mapping of it is still there.
Doubled(f) == /\ forward_of(f.protocol, f.inside, f.port) # {}
              /\ mapping_of(mappings, f.protocol, f.inside, f.port, f.outside) # {}

\* ICMP errors about a packet of a live flow go where the flow goes: the error
\* lookups of translate_error agree with those of outbound and inbound.  The
\* endpoints that are just being moved to a forward are left out, as the
\* lookups search the table and the forwards in different orders.
ErrorsFollowFlow ==
    \A f \in flows : Alive(f) /\ ~Doubled(f) =>
        /\ error_target(expire(mappings), f.protocol, f.outside, f.external) = {<<f.inside, f.port>>}
        /\ error_source(expire(mappings), f.protocol, f.inside, f.port, f.outside) = {f.external}

\* An established TCP flow may stay idle for TCP_ESTABLISHED_TIMEOUT and still
\* be answered (touch), unless another connection of its endpoint has sent SYN,
\* FIN or RST through the mapping they share since it was opened: segments of
\* other connections that carry none of these, and a refused or dropped packet,
\* do it no harm.
EstablishedKept ==
    \A f \in flows :
        /\ f.alone /\ f.outside = address
        /\ f.phase = "established" /\ f.idle < TCP_ESTABLISHED_TIMEOUT
        => inbound(expire(mappings), f.protocol, f.outside, f.external) = {<<f.inside, f.port>>}

\* What docs/ROUTER.md states of every connection: an established one has the
\* long timeout.  The connections of an endpoint share a mapping and its phase,
\* and touch() lets a SYN, FIN or RST of any of them take the long timeout from
\* all.
EveryEstablishedKept ==
    \A f \in flows :
        /\ f.outside = address
        /\ f.phase = "established" /\ f.idle < TCP_ESTABLISHED_TIMEOUT
        => inbound(expire(mappings), f.protocol, f.outside, f.external) = {<<f.inside, f.port>>}
=============================================================================
