# A model of the EvansComputerMod guest network stack

EvansComputerMod is a Minecraft mod whose computers run a kernel and programs compiled to
WebAssembly. A computer has network interfaces; cables, switches, radios and routers carry
Ethernet frames between computers, and the guest kernel brings its own TCP/IP stack. This
directory holds TLA+ modules for the parts of that network that carry everything else: the
TCP control block, the socket table above it and address resolution below it; DHCP, which
gives interfaces their addresses; the port translation of the router; and the spanning tree
of the Ethernet bridge. TLC checks them on small instances; TLAPS proves the safety of the
control block, the socket table, address resolution, DHCP and the translation table, and the
root guard of the bridge, for every size.

Paths below are relative to the repository root. `tcb.rs`, `stack.rs`, `tcp.rs`, `dhcp.rs`
and `dhcp_server.rs` are in `src/rust/crates/ecm-net/src/`, `nat.rs` and `cli.rs` in
`src/rust/crates/ecm-router/src/`, `stp.rs`, `bridge.rs`, `fdb.rs` and `api.rs` in
`src/rust/crates/ecm-bridge/src/`. `ROUTER.md` is `src/docs/ROUTER.md`, the router's manual.

## The system

| Component | State | Operations | What is hard |
|---|---|---|---|
| **TCP control block** (`tcb.rs`, `tcp.rs`) | sequence variables, send and receive buffers, reassembly list, retransmission and closing deadlines, retries, first error | `new_connect`, `new_passive`, `write`, `read`, `shutdown_write`, `close`, `abort`, `fail`, `on_unreachable`, `on_segment`, `on_timer` | wrap-around, loss and reordering, closed windows, FIN before data, old segments, giving every block back |
| **Socket table** (`stack.rs`) | 128 slots with generations; listeners with accept queues; `user_open` | `tcp_listen/connect/accept/send/recv/shutdown_write/close/abort`, `rx_tcp`, `listen_input`, `reap`, `remove_interface` | stale handles, children dying in the queue, listeners closed or losing their interface, wildcard addresses, TIME_WAIT reuse |
| **Address resolution** (`stack.rs`) | 32 entries per interface with up to 4 packets each, transmit queue of 1024 frames | `resolve_and_send`, `rx_arp`, `learn`, `neighbor_timers`, `emit`, `pop_tx`, link, address and VLAN changes | eviction of entries that hold packets, retries against late polls, flush order, tables cleared behind waiting packets |
| **DHCP client and server** (`dhcp.rs`, `dhcp_server.rs`, and the services around them) | client: state, lease, one deadline, retry interval; server: lease table, dirty flag, lease file | `poll`, `receive`, `start_dhcp`, `stop_dhcp`, `release_dhcp`; `handle`, `expire`, `render`, `restore` | lost and late answers, servers restarted from a file that is behind, timers at the end of a lease |
| **NAT** (`nat.rs`) | translation table, port cursor, static forwards | `outbound`, `inbound`, `translate_error`, `expire`, configuration of forwards | ports reused while peers still send, full table, forwards changed under live flows |
| **Spanning tree** (`stp.rs`, `bridge.rs`, `fdb.rs`) | role, state, information and timers of every port, the root, learned addresses | `set_link`, `rx_bpdu`, `poll`, `run` | loops while bridges disagree, word of a root that is gone, stale filtering entries, lost BPDUs |
| UDP, ICMP, DNS sockets (`stack.rs`, `dns.rs`) | queues of 32, 16 queries | send, receive, resolve with retries | queues at their limit, late answers |
| Routing and forwarding (`stack.rs`) | 512 routes | longest prefix, forward, packet handler hook | routes of interfaces that disappear |
| Rest of the bridge (`ecm-bridge`) | VLANs, aggregates, neighbours, statistics | age, LACPDUs, LLDPDUs, configuration | members that join and leave |
| BGP (`ecm-bgp`) | sessions, RIBs | open, update, keepalive, hold timer | collisions, withdrawals |
| Wi-Fi (`ecm-wifi`) | association, keys, rate | scan, authenticate, four-way handshake | replays, lost message 4 |
| Cellular, telephony, RTP (`ecm-cell`, `ecm-tel`, `ecm-rtp`) | attach, dialogs, transactions, stored messages | many | timers against late answers |
| DNS servers, accounts, discovery (`ecm-dns`, `ecm-auth`, `ecm-disco`) | zones, caches, sessions, registrations | query, transfer, log in | expiry, stale serials |
| Kernel (`src/rust/operating-system/rust/src`) | jobs, sessions, descriptors | event handlers that never block, IPC answered later | re-entry, processes dying with calls pending |
| Java host (`src/src/main/java/...`) | worker loop, frame queues between computers | wake up, deliver, step WASM | wake-ups lost between check and sleep |
| UI, applications, browser, DSP | scenes, text, samples | | no protocol state |

The crates are written without I/O: each keeps its state in one object that the kernel
feeds with frames, calls and the time, and asks for the next deadline. There is no
concurrency inside an object. What is concurrent is the other host, the network between
them, the programs with their handles, and the timers, and the order of their calls is
what the models leave open. `PROJECT.json` lists the hazards line by line.

How the modelled parts interact: a program's `tcp_*` call finds its block through the
table (`slot`, `tcp_mut`), the block returns segments, `tcp_transmit` hands them to
`send_ip`, which finds the next hop's entry or queues the packet in it; frames that arrive
take the same way up (`handle_frame`, `rx_tcp`, `on_segment`); `poll` runs the timers of
all three; an entry that is given up reports `HostUnreachable` to the owner of its packets
(`notify_unreachable`, `on_unreachable`). After every operation on a block, `reap` frees it
if it is closed and no program holds it. The stack owns the DHCP clients of its interfaces:
`dhcp_timers` polls them and sets or clears addresses, and a DHCP server is a program or the
router service above a UDP socket. The router hooks the stack's packets (`Router::ingress`,
`Router::egress`) and translates what crosses its outside port. A switch runs `Bridge` below
all of this: it decides over which ports frames go.

## Modules

| Module | Models |
|---|---|
| `TcpStates` | the states of a block and which of them input, a shutdown and a close lead to |
| `TcpLifecycle` | abstract specification: blocks are created, move along `TcpStates`, are accepted, closed and freed |
| `Tcb` | `tcb.rs`: every method as an operator from a block and its input to the new block and the segments it sends (`Step`, `Quiet`) |
| `TcpConnection` | two hosts, their blocks, the stack's share of an operation, programs, and a faulty network |
| `SocketTable` | the TCP part of the socket table |
| `Neighbor` | one interface's neighbour table and transmit queue |
| `LeaseDb` | `dhcp_server.rs`: the lease table as a set, `handle` and its parts as operators |
| `Dhcp` | clients, servers with their files, and the segment between them; composes `LeaseDb` with the client |
| `Nat` | the translation table, forwards, the router's hooks and its restart |
| `Stp` | several bridges, the links between them, and the data plane as far as learning goes |
| `TcbProofs` | lemmas: what every method of the control block preserves |
| `TcpProofs` | theorems about `TcpConnection`, among them that it implements `TcpLifecycle` |
| `TcpStreamProofs` | theorems about the stream that `TcpConnection` carries from one program to the other |
| `SocketTableProofs`, `NeighborProofs`, `NatProofs`, `StpProofs` | theorems about the modules of these names |
| `DhcpProofs` | theorems about `Dhcp` and `LeaseDb`: types and timers; who may end a lease, and that it is backed |
| `MCTcpConnection`, `MCSocketTable`, `MCNeighbor`, `MCDhcp`, `MCNat`, `MCStp` | instances for TLC |

**`TcpConnection`** follows one pair of addresses and ports. `conn[p]` is the block host
`p` has for it, with the fields of `struct Tcb` (`una`, `nxt`, `max`, `wnd`, `wl1`, `wl2`,
`rcv_nxt`, `tx`, `rx`, `ooo`, ...); the two deadlines are Booleans, `rto` and `close_dl`,
since the properties do not depend on how long a timer runs, and an armed timer may fire
at any moment. Round-trip estimation and back-off are abstracted by that. `net[p]` holds
the segments on their way to `p`, at most `MaxInFlight`: `emit` drops what finds its queue
full. A byte is the pair of its connection and its position, so that a byte at a wrong
place or of an old connection is seen. Sequence numbers are counted modulo `SeqSpace`
with the code's signed-difference comparison, and both streams start just below the
wrap-around. `Prompt` makes round trips shorter than timers. `born`, `wrote`, `got` and
`irs` record what happened; `born` also bounds the connections of a behaviour, and `Iss`
stands for `gen_isn`. Each program call is one action, with the `output`,
`tcp_transmit` and `reap` that end it; `Deliver` is `handle_frame` down to `on_segment`.
The listener of `Listeners` stays open here; its life is the subject of `SocketTable`.

**`SocketTable`** abstracts a block to its state, its owner and its addresses and lets it
move as `TcpStates` allows; `ImplementsLifecycle` is the check that the detailed block
moves no other way. An accept queue is a set of handles ordered by `serial`, the number of
the allocation, which also tells a handle's socket from its successors in the slot.
`handles` are all the handles ever returned: programs may use any of them at any time.

**`Neighbor`** numbers packets in the order they are given to `resolve_and_send`. Time is
discrete; `Advance` may pass the earliest deadline by at most `MaxLate`, which stands for
how late the worker loop polls. `learn` sends the waiting packets before `rx_arp` answers.
A removed interface is one without an address, until `add_interface` brings it back.

**`Dhcp`** has every client of `Clients` run `dhcp::Client` (`client[c]`: state, address,
seconds left of the lease and to the next poll, retry interval, chosen server, offer) and
every server of `Servers` a `LeaseDb` (`table[s]`, `dirty[s]`) with its file. One action per
message a client takes (`ReceiveOffer`, `ReceiveAck`, `ReceiveNak`, the rest), `dhcp_timers`
for `poll`, `start_dhcp`, `stop_dhcp` and `release_dhcp` for the programs; `ServerReceive` is
the datagram handler of a server, which replies at once and only marks its table; `Save` is
the later poll that writes it, `SaveFails` the write that fails, `Stop` and `Restart` the end
of the service, at any moment, and its return from the file; `lost[s]` records that a stop or a
failed write took changes that were not saved. `change_updown` takes an interface down and up:
while `ifup[c]` is false its client is not polled and hears nothing. Times are what is left of them, so that a state
does not depend on when it is reached. A transaction id is only ever compared with the
client's current one: a frame carries whether it still does (`cur`), and a new id makes all
frames old. MACs outside `Clients` belong to clients of other implementations, which may send
any message at any moment.

**`Nat`** keeps `mappings`, `next` and `forwards` as the code does (the vector of mappings is
a set, which `MappingsUnique` justifies; the vector of forwards a sequence, whose first match
counts). `Egress`, `Ingress` and `Hairpin` are the hooks with the `outbound` and `inbound`
they call; the TCP flags of a packet are what `touch` tells apart. `AddForward` is the
command that adds a forward, `Renumber` a change of the outside address, `Restart` the router
service going off and on. `flows` is history: which peer has exchanged packets with which
inside endpoint, under which port, and how long ago; the properties compare the table with it.
A flow has the TCP phase of its own segments, where the table has one phase for all flows of an
endpoint, and is `alone` from its SYN until another connection sends SYN, FIN or RST through the
mapping they share.

**`Stp`** runs `Bridge::run` for several bridges. `Run` and `Conclude` are its five stages in
order (`Refreshed`, `SelectRoot` and `Selected`, `Stepped`, `Announced`, `Sent`), after a change of
carrier (`set_link`), a BPDU (`Receive`, `Guarded`, `Ignore`) or a timer (`Poll`). Links are
point to point, and every bridge has the same hello time, in which time is counted; within an
interval everything happens in any order, and time advances when all frames are delivered or
lost. A station behind `Home` sends broadcast frames, which take every path that forwards
(`Arrivals`), and `fdb` is the port each bridge has learned it on: `Home` too may learn it on a
port between bridges when a frame comes round to it, and has to learn it on `Station` again. A
port with TCN guard lets no topology change in (`Notices`). The networks to look at are a
constant, a sequence of records, and a behaviour starts in any one of them.

## Runs

| Run | Instance | Shows |
|---|---|---|
| `socket_table` | 3 slots, 5 allocations, backlogs 1 and 2 (and 0 and 3, clamped), one address and the wildcard, 2 remote hosts | handles are never confused, children never orphaned or given out twice, one place for every segment, queues within their backlog |
| `tcp_open` | both hosts connect, one listens, closes, aborts, unreachable hosts, 2 connections in a row on one pair, segments that arrive twice and late | handshakes agree; refinement of `TcpLifecycle`, TIME_WAIT reuse included |
| `tcp_transfer` | 3 bytes, 2-byte MSS and buffers, loss and reordering, fairness | stream integrity, acknowledgements, no silent stall, no retreat; what is written is read or a block is dead |
| `tcp_close` | half-close, close, simultaneous close, loss, unreachable hosts, interface removal, fairness | end of file after all data, no leaked block, refinement of `TcpLifecycle`; closed sockets give their blocks back |
| `tcp_zero_window` | both sides write, one does not read, nothing lost | **violation**: see Findings |
| `neighbor` | 3 next hops, 2 entries, 2 packets each, transmit queue of 2, 2 requests | every packet accounted for, in order, nothing stranded, resolution neither early nor endless |
| `dhcp` | a client and a foreign one, a pool of one address, leases of 4 s, 2 frames per direction, 2 faults (losses, stops, an interface that goes down) | leases that clients rely on are in the server's table, after a restart too if it was saved; tables without repetitions; clients due before their leases end; nobody ends another's lease |
| `dhcp_live` | a client, 3 faults, tables lost before they are written, fairness | a client that runs gets an address in the end |
| `dhcp_unsaved` | a client, a server stopped between ACK and save | **violation**: see Findings |
| `nat` | 2 inside hosts, UDP and TCP, 2 outside ports, a table of 2, a forward that moves between the hosts, hairpins in UDP | unique mappings; answers reach who asked; the port a peer knows stays; errors go where the flow goes, for endpoints that are not changing from a mapping to a forward |
| `nat_shared` | 2 hosts with TCP connections to 2 peers, one outside port, a forward for one of the hosts | **violation**: see Findings |
| `stp` | five networks of 2 and 3 bridges, one or two changes of carrier, one lost BPDU, fairness | no loop at any moment, no wrong filtering entry once all is quiet, agreement on the best root, root guard of a region, convergence |

Bounds. The TCP instances have two segments per direction in flight (`tcp_open` three in both
directions together), which is what overtaking, duplication and loss of one of two need; up to two retries, so that giving up
is reachable; a send window larger than the receive buffer, so that the window closes;
streams that cross the wrap-around. Three slots let a listener, its child and a third
socket compete, and five allocations reuse slots. A table of two neighbours and three hops
makes eviction and refusal happen; two packets per entry and a transmit queue of two make
both overflow. One address for a client and a stranger makes them compete for it; a lease of
four seconds is the shortest a pool may have (`dhcp_server.rs:60`), and has T1, T2 and the
end one or two seconds apart, so that every order of retries around them occurs. In `nat` four
endpoints (two hosts, two protocols) compete for a table of two, two outside ports make the
cursor wrap and pass over ports in use, and timeouts of one and two units let mappings die
between the packets of a flow; a port range that is used up before the table is left to the
proofs.
The networks of `stp` are: a ring being closed with a station on it (loops, filtering
entries); a root on a single link in front of two bridges with two links (word of a lost root
going round); two bridges with two links that lose BPDUs and a station (information expiring,
frames of the station coming back to its bridge); edge ports, a guarded port and a cable from a
bridge to itself; and a better root behind two guarded ports, one of them with TCN guard.
They are checked in one run since the properties are the same.

`dhcp`, `dhcp_live`, `nat` and `stp` check for deadlock: time goes on in all of them. In the
others it is not checked: programs may stop calling, bounded behaviours end, and a
connection at rest has nothing to do. What must not rest is the subject of
`NoSilentStall`, `Delivery` and `EventuallyFreed`.

Fairness (`FairSpec`). While a computer runs, its worker loop hands frames to the stack and
polls it at `next_deadline`, so frames in flight are delivered or lost and armed timers
fire; programs that accept and read go on doing so. Nothing is assumed of programs that
write or close, and a network may lose any number of segments: `Delivery` then allows a
dead connection. The enabling conditions are written out, because each of these actions is
enabled exactly when a frame waits, a timer is armed or a buffer has bytes. In `Dhcp` the
same is assumed of timers and frames, that time passes, and that a stopped server is started
again; faults are bounded, since a network that loses every frame gives nobody an address. In
`Stp` all that is assumed is that time goes on, `[]<><<Tick>>_vars`: an interval has finitely
many steps, because a port sends at most `TX_HOLD_COUNT` BPDUs in it, and the worker loops
finish them.

Every property of a passing run is paired with a mutant, a plausible slip in one
operation (`ArmRto_no_persist`, `free_same_gen`, `Evictable_any`, ...), which is defined
next to the operation it changes and makes the property fail.

## Findings

- `tcp_zero_window`. When a host's receive window is closed, `acceptable` (`tcb.rs:532`)
  takes an empty segment only at `rcv_nxt`. A peer with a window probe out numbers its
  segments one further, so all its acknowledgements are refused before their ACK field is
  read. If the host itself has data out, it resends it until `MAX_RETRIES` and closes with
  `TimedOut`, with nothing lost. The test at
  `src/rust/crates/ecm-net/tests/stack.rs:1126` ("the persist timer must not kill the
  connection") has traffic in one direction only.
- `dhcp_unsaved`. `ROUTER.md:324` says "unexpired leases survive a server restart". The reply
  leaves before the file is written (`net/mod.rs:444` of the kernel), and the command that stops
  the router does not write it, so a lease granted just before a stop does not survive. The
  passing property, `LeaseBacked`, is about servers that lost nothing in this way.
- `nat_shared`. `ROUTER.md:277` gives established TCP connections 2 hours 4 minutes. Connections
  of one inside endpoint share a mapping and its phase (`nat.rs:298`): a SYN, FIN or RST to another
  peer takes the long timeout from all of them. `EstablishedKept` says that nothing else does.

Seen while modelling, and without a run of their own; where a property depends on one, its
comment and the hazard list say so:

- `retransmit_first` (`tcb.rs:409`) takes up to an MSS from the send buffer whether it was sent
  or not and does not move `snd_max`. The acknowledgement of such bytes is above `snd_max` and
  ignored; the retransmission timer recovers.
- `translate_error` (`nat.rs:178`) prefers a mapping to a forward, packets a forward to a mapping.
  While an endpoint has both, an error about its packets quotes a port that the peer has not
  used; `ErrorsFollowFlow` leaves these endpoints out.
- `cli.rs:273` accepts a forward on a port of the dynamic range that a mapping uses, and keeps the
  mapping: its host goes on sending under the port, and the answers go to the forward. It also
  accepts two forwards to one endpoint; answers of the second then leave under the port of the
  first. The router's own sockets choose their ports from the range the NAT maps from
  (`stack.rs:1099`), and neither looks at the other.
- A DHCP client whose interface is down is not polled (`stack.rs:806`), so the address stays
  configured beyond the end of the lease until the interface is up again. A client in Requesting
  asks the server that made the offer for ever (`dhcp.rs:253`).
- `api.rs:523` checks hello time, forward delay and maximum age each alone. With a forward
  delay of one hello time a single lost BPDU opens a loop.
- A closed block that a program still holds swallows a SYN for its addresses
  (`stack.rs:1533`).

## Proofs

| Theorem | Property |
|---|---|
| `TcpProofs`: `TypeCorrect`, `NeverStalls`, `NothingLeaks`, `NothingRetreats`, `RefinesLifecycle` | `TypeOK`, `NoSilentStall`, `NoLeakedBlock`, `NoRetreat`, `ImplementsLifecycle` |
| `TcpStreamProofs`: `StreamIsIntact`, `HandshakeIsMutual`, `AcknowledgedIsReceived`, `EofIsLast` | given `NumbersApart`: `StreamIntegrity`, `HandshakeAgrees`, `AckedWasReceived`, `EofAfterAllData` |
| `SocketTableProofs` | `TypeOK`, `NoAliasing`, `NoOrphan`, `AcceptOnce`, `UniqueDemux`, `BacklogRespected` |
| `NeighborProofs`: `ResolutionEnds`, `NoEarlyAlarm`, `NothingStranded`, `NothingLost`, `LeaveInOrder` | `Timely`, `NotToldEarly`, `NoStranded`, `Accounted`, `InOrder` |
| `DhcpProofs`: ..., `OwnersOnly`, `LeasesBacked` | `TypeOK`, `TableUnique`, `AddressInTime`, `OnlyOwnerEnds`, `LeaseBacked` |
| `NatProofs`: ..., `ReturnTraffic`, `SourceIsStable`, `ErrorsAreDelivered`, `EstablishedIsKept` | `TypeOK`, `MappingsUnique`; given `StaticApart`: `RoundTrip`, `StableSource`, `ErrorsFollowFlow`, `EstablishedKept` |
| `StpProofs`: `GuardedRegion` | `RootStaysInside` |

`TcbProofs` and `TcpProofs` are about `TcpConnection` with any even sequence number space
larger than two windows, any buffers, segment size, window, retries, in-flight limit, faults
and programs. The invariant of a block between two calls is `Done`. An open block has

- its send side in order (`SndSync`): `snd_una`, `snd_nxt` and `snd_max` lie in this order,
  what was ever sent and not acknowledged is in the buffer or is the FIN behind it, and it is
  a window at most, so that it fits into half of the sequence number space;
- its receive side in order (`RcvOK`): held segments lie beyond a gap and inside the window;
- flags that go with its state (`LifeOK`), deadlines where a state needs one (`DeadlineOK`),
  its timer armed when anything is left to send (`Timed`), and an acknowledged FIN that has
  been acted upon (`Settled`).

`Core` is the part of this that holds in the middle of a call too: `Timed` is restored only by
the `output` at its end and `Settled` by `FinAcked`. All arithmetic is done on distances from
`snd_una` or `rcv_nxt` (`MinusFrom`, `PlusFrom`, `SeqLtFrom`); once a window fits into half the
space, nothing about wrap-around is left to prove. There is a lemma per method, down to the
rounds of `drain_ooo`, and `OnSegmentKeeps` puts together those for a segment; `Kept`, the
per-block form of `NoRetreat`, is carried along. `TcpProofs` then needs, for the system, that
every slot is empty or in order and closed only while a program holds it (`Slots`), that queues
keep to their limits (`Nets`), and that no more blocks are born than there are initial numbers
(`Counts`). The refinement of `TcpLifecycle` comes from the same case analysis: `Sees` lists the
abstract steps, and every action's lemma (`Stepped`) says which of them it is.

`TcpStreamProofs` is about what the two programs see, again for all programs, faults and sizes,
and for any number of connections one after the other. A block tells segments apart by their
numbers alone, so the theorems have a hypothesis, `NumbersApart`: what a connection can use, its
bytes, SYN and FIN and a window behind them, fits into the sequence number space, and no two
connections of a host share any of it. `gen_isn` and TIME_WAIT make that likely and nothing in
the code ensures it; the instances for TLC satisfy it (`NumbersAssumption`). Segments of earlier
connections may stay on the network for ever. The inductive invariant `StreamInv` keeps a ledger
for every block (`Book`): what its program has written and read, which connection of the other
host it answered (`Link`), how much was written on that one and where its FIN may be. It says

- of a block (`BlockOK`, `Stream`): its send buffer is the end of what its program wrote, from the
  first byte not acknowledged (`TxOK`); what its program has read and what waits is the beginning
  of what the peer wrote, `rcv_nxt` is the number of the byte after it, held segments are where
  their numbers say, and a FIN is after the last byte (`RxOK`);
- of a segment (`SegOK`, `Said`): it is an RST, or its text are the bytes of one connection of its
  sender under their numbers (`Carries`), and what it acknowledges was sent on one connection of
  the receiver: the one its sender answered, up to what that one has received (`Acks`);
- of a synchronized block that answered the other's current connection (`AgreeOK`): it was
  answered by it, and is not acknowledged beyond what the other has received.

None of the three is inductive alone: a block learns from segments, and a segment repeats what
its block knew. A lemma per method of the control block (`Right`) says that its step keeps the
block in step and says only true things; `GoesOn` and `BlockStep` then turn the step of a block
into one of the system, where what the other host knows stays true because hosts take nothing
back (`Moves`, `Progress`). A segment that a block looks into shares a number with the window
(`ReachesShares`), so by `NumbersApart` it is of the connection that the block answered
(`WhichConnection`); one that acknowledges something of the current connection was sent in answer
to it (`AckAgrees`).

`SocketTableProofs` proves `TypeOK`, `NoAliasing`, `NoOrphan`, `AcceptOnce`, `UniqueDemux`
and `BacklogRespected` for every number of slots, backlog, set of addresses, ports and
hosts. Assumptions: sizes are natural numbers, the wildcard is no address, and fewer
sockets are allocated than the generation has values (`GenAssumption`): the code's 16-bit
generation does wrap, and without the assumption a handle kept for 65535 reuses of its slot
would reach a stranger's socket. The inductive invariant `IInv` adds to the properties:
a slot's generation is bounded by the allocations so far (`GenBound`), so it has not
wrapped; every handle is either older than its slot or names the socket in it (`Current`),
which is what survives freeing; free slots have no queue and no owner; a listener or a
connecting socket always has an owner (`Roles`), so that only children can be orphans. The
steps fall into four kinds, each a lemma: slots that are freed or move along
(`ShrinkKeeps`, with the side condition that a listener takes its live children with it),
queues that are pruned (`PruneKeeps`), a child that is handed out (`AcceptKeeps`), and new
sockets of programs (`OpenKeeps`) and of SYNs (`SpawnKeeps`). The invariant has the table
as a parameter because `rx_syn` first frees a TIME_WAIT block and goes on with that table.

`NeighborProofs` proves `Timely`, `NotToldEarly` and `NoStranded` for every number of hops,
table and queue size, retry interval, number of requests and lateness. The invariant is
entry-wise (`Good`): after `k` requests the deadline of a resolving entry lies between
`since + k * RetryMs` and that plus `(k - 1) * MaxLate`, and the clock has not passed it by
more than `MaxLate`; packets wait exactly in Incomplete entries. `Accounted` and `InOrder`
need a second invariant, `Books`: what was sent to a hop and what waits for it are increasing
sequences, one before the other, and every packet is in one of these, reported or dropped, and
in only one. Each way in which packets move is a lemma about the books (a new packet joins a
queue or is dropped, packets leave a queue, a queue is flushed), and an action that does
several of these, such as an eviction followed by a new request, takes several. The set of
next hops is assumed finite (`IpsAssumption`): a poll counts the requests it sends against the
room in the transmit queue.

`DhcpProofs` proves `TypeOK`, `TableUnique` and `AddressInTime` for every set of clients,
servers, pools and reservations, every lease of four seconds or more, all retry intervals,
delays and numbers of faults, and that T1 and T2 of every such lease pass the test clients
make of an ACK (`TimersAccepted`; without the correction in `t2_secs` leases below eight
seconds fail it). The invariant has four parts: frames up and down in their types and queues
within bounds (`UpOK`, `DownOK`), tables and files without repetitions (`TablesOK`), and for
every client (`ClientsOK`) its type, that the interface has exactly the leased address while
the client runs, and that its deadline is not after the end of the lease, also when a poll in
`Renewing` cuts its retry short at T2. `LeaseDb` contributes one lemma per part of `handle`:
each keeps a table unique, because `available` excludes the addresses of others.

`DhcpProofs` proves `OnlyOwnerEnds` from what each message does to another's entry
(`Survives`), and `LeaseBacked`, which speaks of the servers that have lost no change before it was
saved (`~lost`; see Findings for the others). That a bound client's lease is in the
table is not inductive: the ACK was on its way before, the REQUEST before that, and the client
may have turned to another server since. The invariant `LInv` therefore says of every client,
every server and both directions (`Backed`): every frame on its way to the server that a
client has its lease from asks for that lease; an ACK the client would take is
for an address it pursues and is backed for as long as its age leaves of it; a REQUEST the
server would grant is followed only by requests for the same address. The lease itself is in
`backing`, the table of a server that runs and the file of one that does not, for the servers that
are not `lost`, and `FilesOK` says that a table not marked as changed is in its file, which is what
carries it over a restart. A server that becomes `lost` only leaves `backing`, so that stops need no
guard.

`NatProofs` proves `TypeOK` and `MappingsUnique` for all hosts, ports, peers, table sizes and
timeouts, and `RoundTrip` and `StableSource` under `StaticApart`: forwards lie outside the
dynamic ports and lead to different endpoints. The invariant adds that every live flow is
backed (`Backed`): by a forward in force, or by a mapping with the flow's own endpoint and
port whose remaining time and the flow's idle time add up to at least the shortest timeout of
the protocol. A packet of either direction restores that sum, a second takes one from one and
gives it to the other, and neither a new mapping, an expiry nor a change of address touches a
mapping of a live flow. `ErrorsFollowFlow` follows from the same invariant: `translate_error`
searches the table before the forwards and packets are translated in the other order, and
`StaticApart` with `Backed` leaves only one of them that knows the endpoint.

`EstablishedKept` is proved under `StaticApart` too, for any number of peers, connections, hairpins
and forwards that move; it is the part of `EveryEstablishedKept` that does hold (`nat_shared` finds
the rest violated), and no run checks it, since the proof covers every instance. The shortest timeout no longer suffices, so the invariant `Lasting` is
about phases: a flow that is `alone` has a forward, or (`Lasts`) when it is established a mapping
that is established as well and whose remaining time and the flow's idle time make at least the
long timeout. For a segment of the flow to keep that, the mapping must not be closing when the flow
is not, which is the other half of `Lasts`; a flow starts with its SYN, which takes its mapping out
of closing. Segments of other flows through the mapping are of two kinds: those that carry none of
SYN, FIN and RST leave its phase as it is or make it established and only lengthen its time
(`TouchedLasts`), the others end the flow's being alone (`Disturb`, `InboundDisturbs`).

`StpProofs` proves `RootStaysInside` for any number of networks of any shape, any timers, any
changes of carrier and losses. The invariant types everything by the region it may speak of:
a BPDU on its way to a port, and the vector of a port that has received one, carry a root of
the region of the bridge at the other end (`Beyond`); what a bridge takes for its root is of its
own region (`RootRec`). The key lemma, `RegionGoesOn`, says that beyond a port without root
guard the region is the same; without that hypothesis it is false, as it should be. A region is
the intersection of the sets of bridges that are closed under unguarded links (`Connected`), so
that its properties need no induction. Each stage of `Run` keeps the types.

Only model-checked:

- `LoopFree`, `NoBlackhole` and `Agreed`. They depend on how forward delay, maximum age and the
  number of bridges compare, and are about the network once frames have gone round it.
- `Delivery`, `EventuallyFreed`, `EventuallyBound` and `Converges`: liveness is out of the proof
  system's reach, as are ENABLED and induction over data.

## Not modelled

Header encoding and checksums, path MTU and MSS options, round-trip estimation, statistics
and logging; loopback delivery; UDP, ICMP, DNS, routing; DHCP options other than the lease
times; the router's own sockets next to the NAT; of the bridge legacy 802.1D BPDUs, VLANs,
ageing of addresses, LACP, LLDP, shared segments (and with them a BPDU that comes back to the very
port it left, `stp.rs:300`), different path costs and timers, and
changes of its configuration while it runs. SIP, IMS and SMS, Wi-Fi, the cellular network,
BGP, DNS servers, the kernel's IPC and the Java host are protocol state machines that models
of this kind would suit and that are not begun. The user interface, applications, browser,
signal processing, and the vendored interpreter and programs, which make up most of the
repository's lines, have no protocol state. `PROJECT.json` gives the reasons one by one.

## Plan

1. *Done*: `Tcb`, `TcpConnection`, `TcpLifecycle`, `SocketTable`, `Neighbor`, `LeaseDb`,
   `Dhcp`, `Nat`, `Stp`, and the proofs listed above.
2. Proofs: `Agreed` of `Stp`.
3. The rest of the stack: UDP and ICMP queues, DNS queries with retries and late answers;
   `SocketTable` composed with `Neighbor` through `notify_unreachable`.
4. `Lacp` above two bridges; `BgpSession`: collision, hold timer, routes of a dead session
   gone.
5. Kernel: descriptors and pending IPC above `SocketTable`, jobs and signals, the worker
   loop's wake-ups.
6. Wi-Fi handshake, SIP transactions, SMS store-and-forward.
