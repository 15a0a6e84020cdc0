-------------------------------- MODULE Stp --------------------------------
(***************************************************************************)
(* Rapid spanning tree of the Ethernet bridge (ecm-bridge/src/stp.rs, with *)
(* the parts of bridge.rs and fdb.rs that it drives), several bridges over *)
(* point-to-point links.                                                   *)
(*                                                                         *)
(* Time advances by one hello interval at a time.  The network is timely:  *)
(* what was sent is received, a change of carrier is noticed and every     *)
(* bridge has polled before time advances, in any order.  BPDUs may be     *)
(* lost.  Every bridge runs this code, so every BPDU is an RST BPDU.       *)
(* Cost, forward delay, hello time and maximum age are the same on all.    *)
(* A port may send TX_HOLD_COUNT BPDUs a second in the code, an interval   *)
(* in the model: the two are the same at the shortest hello time.          *)
(***************************************************************************)
EXTENDS Integers, Sequences, FiniteSets

CONSTANT Networks   \* the networks to look at, a sequence of records with the fields below

None == 0
Infinite == 1000
Station == 999      \* the port of its bridge that the station is attached to, an edge port
RcvdTime == 3       \* received information lives for three hello intervals
TcTime == 2         \* a topology change is announced for two

PortsIn == [n \in DOMAIN Networks |-> UNION Networks[n].links]
Forced(f) == CHOOSE g \in {f} : TRUE
PeerIn == [n \in DOMAIN Networks |-> Forced([p \in PortsIn[n] |->
              CHOOSE q \in PortsIn[n] : q # p /\ {p, q} \in Networks[n].links])]
LinkIn == [n \in DOMAIN Networks |-> Forced([p \in PortsIn[n] |-> {p, PeerIn[n][p]}])]
BridgePortsIn == [n \in DOMAIN Networks |-> Forced([b \in Networks[n].bridges |->
              {p \in PortsIn[n] : p[1] = b}])]

ASSUME StpAssumption ==
    \A n \in DOMAIN Networks : LET N == Networks[n] IN
        /\ N.bridges \subseteq 1 .. (Infinite - 1) /\ N.home \in N.bridges \union {None}
        /\ \A l \in N.links : \E p, q \in l : p # q /\ l = {p, q}
        /\ \A p \in PortsIn[n] : p[1] \in N.bridges /\ p[2] \in 1 .. (Station - 1)
        /\ \A l, k \in N.links : l \intersect k # {} => l = k
        /\ N.plugged \subseteq N.links
        /\ N.edge \union N.root_guard \union N.bpdu_guard \union N.tcn_guard \subseteq PortsIn[n]
        /\ {N.forward_delay, N.max_age, N.tx_hold} \subseteq Nat \ {0}
        /\ {N.changes, N.losses} \subseteq Nat

VARIABLES
    net,        \* which of Networks this is
    wire,       \* the links that have carrier
    link_up,    \* the ports that have noticed carrier
    off,        \* the ports that BPDU guard has disabled (err_disabled)
    port,       \* StpPort of every port
    bridge,     \* StpBridge of every bridge: the root, its cost, the port to it
    fdb,        \* for every bridge, the port the station was learned on, or None
    chan,       \* BPDUs on the way to every port
    due,        \* bridges that have not polled in this interval
    changes, losses

vars == <<net, wire, link_up, off, port, bridge, fdb, chan, due, changes, losses>>

Bridges == Networks[net].bridges        \* bridge identifiers, the lowest is the best root
Links == Networks[net].links            \* set of {<<bridge, port>>, <<bridge, port>>}
Edge == Networks[net].edge              \* ports configured with admin_edge
RootGuard == Networks[net].root_guard   \* ports configured with root_guard
BpduGuard == Networks[net].bpdu_guard   \* ports configured with bpdu_guard
TcnGuard == Networks[net].tcn_guard     \* ports configured with tcn_guard
ForwardDelay == Networks[net].forward_delay     \* in hello intervals
MaxAge == Networks[net].max_age         \* hops after which information is discarded
TX_HOLD_COUNT == Networks[net].tx_hold  \* BPDUs a port sends per interval
Home == Networks[net].home              \* the bridge a station is attached to, or None
MaxChanges == Networks[net].changes     \* bound: changes of carrier
MaxLosses == Networks[net].losses       \* bound: BPDUs lost
Ports == PortsIn[net]
PortsOf == BridgePortsIn[net]
Peer == PeerIn[net]
LinkOf == LinkIn[net]
----------------------------------------------------------------------------
(* Priority vectors: <<root, cost, designated bridge, designated port>>.   *)

Less(v, w) ==
    \E i \in 1 .. 4 : v[i] < w[i] /\ \A j \in 1 .. (i - 1) : v[j] = w[j]

\* A plausible slip: only better information replaces what a port holds.
superior_only(v, w) == Less(v, w)

\* PrioVec::superior_to: better, or from the bridge and port it came from before.
superior_to(v, w) == Less(v, w) \/ (v[3] = w[3] /\ v[4] = w[4])

NewPort == [was |-> FALSE, role |-> "Disabled", state |-> "Discarding", info |-> "Disabled",
            prio |-> <<Infinite, Infinite, Infinite, Infinite>>, age |-> 0, rcvd |-> 0,
            fd |-> -1, tc |-> 0, rcvd_tc |-> FALSE, edge |-> FALSE, hello |-> FALSE,
            new_info |-> FALSE, tx |-> 0]
----------------------------------------------------------------------------
(* Bridge::stp_run in its five parts.  S is a function from the ports of a *)
(* bridge to StpPort, R the StpBridge, E the filtering entry.              *)

\* Ports that come up or go down, and information that expired.
Refreshed(p, s, oper) ==
    IF p \notin oper THEN NewPort
    ELSE LET up == IF s.was THEN s
                   ELSE [s EXCEPT !.was = TRUE, !.info = "Aged", !.edge = p \in Edge,
                                  !.hello = TRUE, !.new_info = TRUE]
         IN  [up EXCEPT !.edge = @ /\ p \in Edge,
                        !.info = IF @ = "Received" /\ s.rcvd = 0 THEN "Aged" ELSE @]

\* A plausible slip: a guarded port is only kept from becoming root port by its role.
Candidates_unguarded(b, S) ==
    {p \in DOMAIN S : S[p].was /\ S[p].info = "Received" /\ S[p].prio[3] # b}

\* The root: the best of the bridge itself and what its ports have received.
Candidates(b, S) ==
    {p \in DOMAIN S : S[p].was /\ S[p].info = "Received" /\ p \notin RootGuard /\ S[p].prio[3] # b}
Through(S, p) == <<S[p].prio[1], S[p].prio[2] + 1, S[p].prio[3], S[p].prio[4]>>
BetterRoot(S, p, q) ==
    Less(Through(S, p), Through(S, q)) \/ (Through(S, p) = Through(S, q) /\ p[2] <= q[2])

SelectRoot(b, S) ==
    LET C == {p \in Candidates(b, S) : Less(Through(S, p), <<b, 0, b, 0>>)}
        best == CHOOSE p \in C : \A q \in C : BetterRoot(S, p, q)
    IN  IF C = {} THEN [root |-> b, cost |-> 0, port |-> None, age |-> 0]
        ELSE [root |-> S[best].prio[1], cost |-> S[best].prio[2] + 1, port |-> best[2],
              age |-> S[best].age + 1]

\* updtRolesTree for one port.
TakeOver(s, R, designated) ==
    [s EXCEPT !.new_info = @ \/ s.info # "Mine" \/ s.prio # designated \/ s.age # R.age,
              !.info = "Mine", !.prio = designated, !.age = R.age]
InRole(s, role) ==
    [s EXCEPT !.new_info = @ \/ (role # s.role /\ role \in {"Designated", "Root"}), !.role = role]

Selected(p, s, R) ==
    LET designated == <<R.root, R.cost, p[1], p[2]>>
    IN  IF ~s.was THEN [s EXCEPT !.role = "Disabled"]
        ELSE IF s.info # "Received" THEN InRole(TakeOver(s, R, designated), "Designated")
        ELSE IF R.port = p[2] THEN InRole(s, "Root")
        ELSE IF Less(designated, s.prio) THEN InRole(TakeOver(s, R, designated), "Designated")
        ELSE IF p \notin RootGuard /\ s.prio[3] = p[1] THEN InRole(s, "Backup")
        ELSE InRole(s, "Alternate")

\* A plausible slip: a port that is to forward does not wait.
Stepped_at_once(s) ==
    IF s.role \notin {"Root", "Designated"} THEN [s EXCEPT !.state = "Discarding", !.fd = -1]
    ELSE [s EXCEPT !.state = "Forwarding", !.fd = -1]

\* A plausible slip: every run starts the timer of a discarding port again.
Stepped_restarts(s) ==
    IF s.role \notin {"Root", "Designated"} THEN [s EXCEPT !.state = "Discarding", !.fd = -1]
    ELSE CASE s.state = "Discarding" -> [s EXCEPT !.fd = ForwardDelay]
           [] s.state = "Learning" /\ s.fd <= 0 -> [s EXCEPT !.state = "Forwarding", !.fd = -1]
           [] OTHER -> s

\* stp_update_states for one port; fd is the time left, -1 when no timer runs.
Stepped(s) ==
    IF s.role \notin {"Root", "Designated"} THEN [s EXCEPT !.state = "Discarding", !.fd = -1]
    ELSE IF s.role = "Designated" /\ s.edge THEN [s EXCEPT !.state = "Forwarding", !.fd = -1]
    ELSE CASE s.state = "Discarding" /\ s.fd = -1 -> [s EXCEPT !.fd = ForwardDelay]
           [] s.state = "Discarding" /\ s.fd = 0 ->
                  [s EXCEPT !.state = "Learning", !.fd = ForwardDelay, !.new_info = TRUE]
           [] s.state = "Learning" /\ s.fd <= 0 ->
                  [s EXCEPT !.state = "Forwarding", !.fd = -1, !.new_info = TRUE]
           [] OTHER -> s

\* stp_topology_change: announced on the other ports of the tree (on all of
\* them when it was detected here).
Announced(p, s, detected, received) ==
    IF /\ s.was /\ ~s.edge /\ s.role \in {"Root", "Designated"} /\ s.tc = 0
       /\ (detected # {} \/ received \ {p} # {})
    THEN [s EXCEPT !.tc = TcTime, !.new_info = TRUE] ELSE s

\* A plausible slip: a change that was received is passed on, but not acted on.
Flushed_stopped(E, stopped, origins) ==
    IF \E p \in stopped : p[2] = E THEN None ELSE E

\* What is left of the filtering entry: ports that stop forwarding lose theirs,
\* and a topology change leaves only the port it came from.
Flushed(E, stopped, origins) ==
    IF (\E p \in stopped : p[2] = E) \/ (\E p \in origins : p[2] # E) THEN None ELSE E

\* stp_tx for one port.
Periodic(s) == s.role = "Designated" \/ (s.role = "Root" /\ s.tc > 0)
Says(s) == s.was /\ Periodic(s) /\ (s.new_info \/ s.hello) /\ s.tx < TX_HOLD_COUNT
Sent(s) ==
    IF ~s.was THEN s
    ELSE IF ~Periodic(s) THEN [s EXCEPT !.new_info = FALSE]
    ELSE IF Says(s) THEN [s EXCEPT !.new_info = FALSE, !.hello = FALSE, !.tx = @ + 1]
    ELSE [s EXCEPT !.new_info = @ \/ s.hello, !.hello = FALSE]
\* The vector a BPDU carries.
Vector(m) == <<m.root, m.cost, m.bridge, m.port>>
Message(p, s, R) ==
    [root |-> R.root, cost |-> R.cost, bridge |-> p[1], port |-> p[2], age |-> R.age,
     role |-> s.role, tc |-> s.tc > 0]

\* Frames leave through ports with carrier; without it they are lost.
WithSent(c, out) ==
    [q \in Ports |->
        IF Peer[q] \in DOMAIN out /\ LinkOf[q] \in wire THEN Append(c[q], out[Peer[q]]) ELSE c[q]]

\* The last two parts: S2 are the ports in their roles, S3 in their new states.
Conclude(b, P, c, oper, R, S2, S3) ==
    LET stopped == {p \in PortsOf[b] : \/ S2[p].state # "Discarding" /\ S3[p].state = "Discarding"
                                       \/ P[p].was /\ p \notin oper}
        detected == {p \in PortsOf[b] :
                        S2[p].state # "Forwarding" /\ S3[p].state = "Forwarding" /\ ~S3[p].edge}
        received == {p \in PortsOf[b] : S3[p].rcvd_tc /\ S3[p].role \in {"Root", "Designated"}}
    IN  \E S4 \in {[p \in PortsOf[b] |->
                       Announced(p, [S3[p] EXCEPT !.rcvd_tc = FALSE], detected, received)]} :
            /\ port' = [p \in Ports |-> IF p[1] = b THEN Sent(S4[p]) ELSE port[p]]
            /\ bridge' = [bridge EXCEPT ![b] = R]
            /\ fdb' = [fdb EXCEPT ![b] = Flushed(@, stopped, detected \union received)]
            /\ chan' = WithSent(c, [p \in {q \in PortsOf[b] : Says(S4[q])} |-> Message(p, S4[p], R)])

\* Bridge::run: P are the ports of bridge b on entry, oper the operational ones,
\* c the channels.  Every stage works on the outcome of the one before.
Run(b, P, c, oper) ==
    \E S1 \in {[p \in PortsOf[b] |-> Refreshed(p, P[p], oper)]} :
    \E R \in {SelectRoot(b, S1)} :
    \E S2 \in {[p \in PortsOf[b] |-> Selected(p, S1[p], R)]} :
    \E S3 \in {[p \in PortsOf[b] |-> Stepped(S2[p])]} :
        Conclude(b, P, c, oper, R, S2, S3)
----------------------------------------------------------------------------
Init ==
    /\ net \in DOMAIN Networks
    /\ wire = Networks[net].plugged /\ link_up = {} /\ off = {}
    /\ port = [p \in Ports |-> NewPort]
    /\ bridge = [b \in Bridges |-> [root |-> b, cost |-> 0, port |-> None, age |-> 0]]
    /\ fdb = [b \in Bridges |-> None]
    /\ chan = [p \in Ports |-> <<>>]
    /\ due = Bridges /\ changes = 0 /\ losses = 0

\* A cable is plugged in or pulled; what was on it is lost.
Unnoticed == {p \in Ports : p \in link_up <=> LinkOf[p] \notin wire}

Carrier(l) ==
    /\ changes < MaxChanges /\ changes' = changes + 1
    /\ l \intersect Unnoticed = {}
    /\ wire' = IF l \in wire THEN wire \ {l} ELSE wire \union {l}
    /\ chan' = [p \in Ports |-> IF p \in l THEN <<>> ELSE chan[p]]
    /\ UNCHANGED <<net, link_up, off, port, bridge, fdb, due, losses>>

\* Bridge::set_link: a port notices that it has carrier, which also ends an
\* err-disable, or that it has lost it.
set_link(p) ==
    /\ p \in Unnoticed
    /\ link_up' = IF p \in link_up THEN link_up \ {p} ELSE link_up \union {p}
    /\ off' = IF p \in link_up THEN off ELSE off \ {p}
    /\ Run(p[1], port, chan, link_up' \ off')
    /\ UNCHANGED <<net, wire, due, changes, losses>>

\* stp_rx: the port after a BPDU, without the run that may follow.
Repeated(s, m) == s.info = "Received" /\ s.prio = Vector(m) /\ s.age = m.age
Replaces(s, m) == superior_to(Vector(m), s.prio) \/ s.info \notin {"Received", "Mine"}

Informed(s, m) ==
    IF m.role # "Designated" THEN s
    ELSE IF Repeated(s, m) THEN [s EXCEPT !.rcvd = RcvdTime]
    ELSE IF ~Replaces(s, m) THEN s
    ELSE IF m.age + 1 > MaxAge THEN [s EXCEPT !.prio = Vector(m), !.age = m.age, !.info = "Aged"]
    ELSE [s EXCEPT !.prio = Vector(m), !.age = m.age, !.info = "Received", !.rcvd = RcvdTime]

\* A change of the topology, unless the port may not bring one in.
Notices(p, m) == m.tc /\ p \notin TcnGuard

stp_rx(p, s, m) ==
    LET t == Informed([s EXCEPT !.edge = FALSE], m)
    IN  [t EXCEPT !.rcvd_tc = @ \/ Notices(p, m)]

\* Does the machine have to run?
Matters(p, s, m) ==
    s.edge \/ Notices(p, m) \/ (m.role = "Designated" /\ ~Repeated(s, m) /\ Replaces(s, m))

\* handle_frame, rx_bpdu: the next BPDU at a port.
Taken(c, p) == [c EXCEPT ![p] = Tail(@)]

Ignore(p) ==
    /\ chan[p] # <<>> /\ p \notin link_up \ off
    /\ chan' = Taken(chan, p)
    /\ UNCHANGED <<net, wire, link_up, off, port, bridge, fdb, due, changes, losses>>

Guarded(p) ==
    /\ chan[p] # <<>> /\ p \in (link_up \ off) \intersect BpduGuard
    /\ off' = off \union {p}
    /\ Run(p[1], port, Taken(chan, p), link_up \ off')
    /\ UNCHANGED <<net, wire, link_up, due, changes, losses>>

Receive(p) ==
    /\ chan[p] # <<>> /\ p \in (link_up \ off) \ BpduGuard
    /\ \E P \in {[port EXCEPT ![p] = stp_rx(p, @, Head(chan[p]))]} :
          IF Matters(p, port[p], Head(chan[p])) THEN Run(p[1], P, Taken(chan, p), link_up \ off)
          ELSE port' = P /\ chan' = Taken(chan, p) /\ UNCHANGED <<bridge, fdb>>
    /\ UNCHANGED <<net, wire, link_up, off, due, changes, losses>>

Lose(p) ==
    /\ losses < MaxLosses /\ chan[p] # <<>>
    /\ losses' = losses + 1 /\ chan' = Taken(chan, p)
    /\ UNCHANGED <<net, wire, link_up, off, port, bridge, fdb, due, changes>>

\* Bridge::poll when a timer is due.
Poll(b) ==
    /\ b \in due /\ due' = due \ {b}
    /\ Run(b, port, chan, link_up \ off)
    /\ UNCHANGED <<net, wire, link_up, off, changes, losses>>
----------------------------------------------------------------------------
(* The data plane: a frame from the station is flooded from Home along the *)
(* ports that forward, and every bridge it reaches through a port that     *)
(* learns notes that port (forward_data, flood, egress, Fdb::learn).       *)

Forwards(p) == p \in link_up \ off /\ port[p].state = "Forwarding"
Learns(p) == p \in link_up \ off /\ port[p].state \in {"Learning", "Forwarding"}

\* The ports that hand to their bridge what the bridge at the other end floods.
Hands(p) == p \in link_up \ off /\ Forwards(Peer[p]) /\ LinkOf[p] \in wire

\* The ports a frame of the station arrives at, after any number of bridges: each
\* sends it on through every port but the one it came from.
Arrivals ==
    LET within[n \in 0 .. Cardinality(Ports)] ==
            IF n = 0 THEN {p \in Ports : Hands(p) /\ Peer[p][1] = Home}
            ELSE LET near == within[n - 1]
                 IN  near \union {p \in Ports : Hands(p) /\ \E q \in near :
                                      q[1] = Peer[p][1] /\ q # Peer[p] /\ Forwards(q)}
    IN  within[Cardinality(Ports)]

Heard(b) == {p[2] : p \in {q \in Arrivals : q[1] = b /\ Learns(q)}}

\* A frame that arrives on several ports leaves the last of them in the entry, at
\* Home any of them after the station's own port.
Learned(b) ==
    IF Heard(b) # {} THEN Heard(b) ELSE IF b = Home THEN {Station} ELSE {fdb[b]}

StationSends ==
    /\ \E L \in {[b \in Bridges |-> Learned(b)]} :
          fdb' \in {f \in [Bridges -> UNION {L[b] : b \in Bridges}] : \A b \in Bridges : f[b] \in L[b]}
    /\ fdb' # fdb
    /\ UNCHANGED <<net, wire, link_up, off, port, bridge, chan, due, changes, losses>>
----------------------------------------------------------------------------
\* Time advances when everything of this interval is done.
Tick ==
    /\ due = {} /\ Unnoticed = {} /\ \A p \in Ports : chan[p] = <<>>
    /\ due' = Bridges
    /\ port' = [p \in Ports |->
          IF ~port[p].was THEN port[p]
          ELSE [port[p] EXCEPT !.rcvd = IF @ > 0 THEN @ - 1 ELSE 0,
                               !.fd = IF @ > 0 THEN @ - 1 ELSE @,
                               !.tc = IF @ > 0 THEN @ - 1 ELSE 0,
                               !.hello = TRUE, !.tx = 0]]
    /\ UNCHANGED <<net, wire, link_up, off, bridge, fdb, chan, changes, losses>>

System ==
    \/ \E p \in Ports : set_link(p) \/ Ignore(p) \/ Guarded(p) \/ Receive(p)
    \/ \E b \in Bridges : Poll(b)
    \/ Tick

Next ==
    \/ System
    \/ StationSends
    \/ \E l \in Links : Carrier(l)
    \/ \E p \in Ports : Lose(p)

Spec == Init /\ [][Next]_vars
\* Time goes on: the worker loop of every computer polls its bridge and hands over
\* what has arrived, and an interval holds finitely many steps (TX_HOLD_COUNT).
FairSpec == Spec /\ []<><<Tick>>_vars
----------------------------------------------------------------------------
(* Properties.                                                             *)

\* Links over which data frames pass on in both directions.
Active == {l \in wire : \A p \in l : Forwards(p)}

\* A set of links without a loop: every non-empty part has a bridge with one end in it.
Acyclic(L) ==
    \A K \in SUBSET L : K # {} =>
        \E b \in Bridges : Cardinality({p \in UNION K : p[1] = b}) = 1

\* No loop: whatever the order in which carrier, BPDUs and timers reach the
\* bridges, and while they disagree, the ports that forward (bp_forwarding) never
\* close a circle in which a broadcast would go round for ever.
LoopFree == Acyclic(Active)

\* No link of L leads out of the bridges in S.
Closed(L, S) == \A l \in L : (\E p \in l : p[1] \in S) => \A p \in l : p[1] \in S

\* The bridges of B that can be reached from b over the links in L.
Connected(B, L, b) ==
    {c \in B : \A S \in SUBSET B : b \in S /\ Closed(L, S) => c \in S}

\* Cables that no guard keeps out of the tree.
Usable == {l \in wire : l \intersect (RootGuard \union off) = {}}

\* The links that forward connect what the cables connect, and every bridge
\* follows the best bridge it is connected to.
Spanning ==
    /\ \A b \in Bridges : \E here \in {Connected(Bridges, Active, b)} :
          /\ bridge[b].root \in here
          /\ \A c \in here : bridge[b].root <= c
          /\ Connected(Bridges, Usable, b) \subseteq here
    /\ Acyclic(Active)

\* Nothing is on the way, no timer runs and no port has anything to announce.
Settled ==
    /\ due = {} /\ Unnoticed = {} /\ \A p \in Ports : chan[p] = <<>>
    /\ \A p \in Ports : port[p].fd = -1 /\ port[p].tc = 0 /\ ~port[p].new_info

\* When the bridges have nothing more to say to each other they agree: on the
\* best bridge that is still there as root (stp_reselect), also when word of a root
\* that is gone was still going round, and on a tree that leaves nobody out.
Agreed == Settled => Spanning

\* After every change of a cable, in the end the tree is complete and stays so.
Converges == <>[]Spanning

\* A change of the tree leaves no filtering entry behind that sends frames for the
\* station the wrong way (stp_topology_change, flush_port, flush_except): once
\* the bridges have settled an entry is the port the station is heard on, at its own
\* bridge the one it is attached to, also after its frames came back to this bridge
\* through a port that was learning.
NoBlackhole ==
    Settled => \A b \in Bridges :
        /\ Heard(b) # {} /\ b # Home => fdb[b] \in Heard(b) \union {None}
        /\ b = Home => fdb[b] \in {Station, None}

\* The bridges that are reached from b without leaving through a port with root
\* guard, if all links out of this region are guarded, and otherwise all bridges.
Region(N, b) ==
    LET inside == Connected(N.bridges, {l \in N.links : l \intersect N.root_guard = {}}, b)
        border == {l \in N.links : {p[1] : p \in l} \intersect inside \notin {{}, {p[1] : p \in l}}}
    IN  IF \A l \in border : \A p \in l : p[1] \in inside => p \in N.root_guard
        THEN inside ELSE N.bridges
RegionIn == [n \in DOMAIN Networks |->
                Forced([b \in Networks[n].bridges |-> Region(Networks[n], b)])]

\* Root guard protects a region, not only the bridge it is configured on: no
\* bridge inside ever follows a root from outside.
RootStaysInside == \A b \in Bridges : bridge[b].root \in RegionIn[net][b]
=============================================================================
