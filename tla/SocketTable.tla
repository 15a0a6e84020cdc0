--------------------------- MODULE SocketTable ---------------------------
(***************************************************************************)
(* The TCP side of the guest stack's socket table (ecm-net, stack.rs): the *)
(* slots with their generation counters, the handles programs keep, the    *)
(* listeners with their accept queues, and the demultiplexing of segments. *)
(*                                                                         *)
(* What a connection does between two calls is abstracted to TcpStates.    *)
(* Every allocation is numbered (serial): the number tells two sockets     *)
(* that used the same slot apart, which the code cannot do except through  *)
(* the generation, and orders an accept queue by arrival.                  *)
(***************************************************************************)
EXTENDS Integers, FiniteSets, TcpStates

CONSTANTS
    MaxSockets,   \* MAX_SOCKETS
    GenSpace,     \* number of values of the u16 generation (2^16)
    MaxBacklog,   \* MAX_BACKLOG
    MaxAllocs,    \* bound: sockets allocated in a behaviour
    Ips,          \* local addresses
    AnyIp,          \* the unspecified address 0.0.0.0
    Ports,        \* local ports
    Remotes       \* remote addresses with their ports

ASSUME SizesAssumption ==
    /\ MaxSockets \in Nat /\ MaxBacklog \in Nat /\ MaxAllocs \in Nat /\ GenSpace \in Nat
    /\ MaxBacklog >= 1
ASSUME AnyAssumption == AnyIp \notin Ips /\ 0 \notin Ports
\* A slot is reused less often than the generation has values.
ASSUME GenAssumption == MaxAllocs + 1 < GenSpace

VARIABLES
    slots,        \* the table
    allocs,       \* sockets allocated so far
    handles       \* every handle a call has returned to a program

vars == <<slots, allocs, handles>>

Slots == 1 .. MaxSockets
Addrs == Ips \cup {AnyIp}
NoRemote == "none"
Gen == 1 .. GenSpace - 1
Handle == [idx : Slots, gen : Gen, serial : 1 .. MaxAllocs]
Socket == [gen : Gen, state : TcpState \cup {"Free"}, serial : 0 .. MaxAllocs,
           user_open : BOOLEAN, ip : Addrs, port : Ports \cup {0}, remote : Remotes \cup {NoRemote},
           accept_q : SUBSET Handle, backlog : 0 .. MaxBacklog]

\* A slot with nothing in it keeps only its generation.
Empty(g) == [gen |-> g, state |-> "Free", serial |-> 0, user_open |-> FALSE, ip |-> AnyIp, port |-> 0,
             remote |-> NoRemote, accept_q |-> {}, backlog |-> 0]

Init ==
    /\ slots = [i \in Slots |-> Empty(1)]
    /\ allocs = 0
    /\ handles = {}

----------------------------------------------------------------------------
(* Operations on a table t. *)

InUse(t, i) == t[i].state # "Free"
\* slot(): a handle finds its slot while the generations agree.
Live(t, h) == t[h.idx].gen = h.gen /\ InUse(t, h.idx)
\* tcp_ref, tcp_mut: ... and a program holds the socket.
Valid(h) == Live(slots, h) /\ slots[h.idx].user_open

\* alloc takes the lowest free slot.
FirstFree(t, i) == ~InUse(t, i) /\ \A j \in Slots : j < i => InUse(t, j)
Full(t) == \A i \in Slots : InUse(t, i)
NewSocket(t, i, state, user_open, ip, port, remote, backlog) ==
    [gen |-> t[i].gen, state |-> state, serial |-> allocs + 1, user_open |-> user_open,
     ip |-> ip, port |-> port, remote |-> remote, accept_q |-> {}, backlog |-> backlog]
NewHandle(t, i) == [idx |-> i, gen |-> t[i].gen, serial |-> allocs + 1]

next_gen(g) == IF g = GenSpace - 1 THEN 1 ELSE g + 1
\* Mutant of free: the generation stays.
free_same_gen(s) == Empty(s.gen)
free(s) == Empty(next_gen(s.gen))
reap(s) == IF s.state = "Closed" /\ ~s.user_open THEN free(s) ELSE s

tcp_port_used(port) == \E i \in Slots : InUse(slots, i) /\ slots[i].port = port

\* The clash test of tcp_listen.
Overlap(ip1, ip2) == ip1 = ip2 \/ ip1 = AnyIp \/ ip2 = AnyIp
\* Mutant of Clash: the unspecified address is an address like any other.
Clash_same_only(ip, port) ==
    \E i \in Slots : slots[i].state = "Listen" /\ slots[i].port = port /\ slots[i].ip = ip
Clash(ip, port) ==
    \E i \in Slots : slots[i].state = "Listen" /\ slots[i].port = port /\ Overlap(slots[i].ip, ip)

\* Bound on the model: a behaviour allocates at most MaxAllocs sockets.
HasRoom == allocs < MaxAllocs

----------------------------------------------------------------------------
(* The programs' calls. *)

\* Mutant of Clamped: the upper limit is forgotten.
Clamped_below(n) == IF n < 1 THEN 1 ELSE n
Clamped(n) == IF n < 1 THEN 1 ELSE IF n > MaxBacklog THEN MaxBacklog ELSE n

\* Port 0 picks a port no TCP socket uses, which is one that does not clash.
tcp_listen(ip, port, backlog) ==
    /\ HasRoom /\ ~Clash(ip, port)
    /\ \E i \in Slots :
          /\ FirstFree(slots, i)
          /\ slots' = [slots EXCEPT ![i] = NewSocket(slots, i, "Listen", TRUE, ip, port, NoRemote, Clamped(backlog))]
          /\ handles' = handles \cup {NewHandle(slots, i)}
    /\ allocs' = allocs + 1

tcp_connect(ip, port, remote) ==
    /\ HasRoom /\ ~tcp_port_used(port)
    /\ \E i \in Slots :
          /\ FirstFree(slots, i)
          /\ slots' = [slots EXCEPT ![i] = NewSocket(slots, i, "SynSent", TRUE, ip, port, remote, 0)]
          /\ handles' = handles \cup {NewHandle(slots, i)}
    /\ allocs' = allocs + 1

\* Children that died before accept are dropped from the queue.
LiveChildren(t, l) == {c \in t[l].accept_q : Live(t, c)}
Ready(l) == {c \in LiveChildren(slots, l) : slots[c.idx].state # "SynReceived"}
FirstReady(c, l) == c \in Ready(l) /\ \A d \in Ready(l) : c.serial <= d.serial

AcceptNone(l) ==
    /\ Ready(l) = {}
    /\ slots' = [slots EXCEPT ![l].accept_q = LiveChildren(slots, l)]
    /\ UNCHANGED handles
\* Mutant of AcceptOne: the accepted child stays in the queue.
AcceptOne_kept(l) ==
    \E c \in Ready(l) :
        /\ FirstReady(c, l)
        /\ slots' = [slots EXCEPT ![l].accept_q = LiveChildren(slots, l), ![c.idx].user_open = TRUE]
        /\ handles' = handles \cup {c}
AcceptOne(l) ==
    \E c \in Ready(l) :
        /\ FirstReady(c, l)
        /\ slots' = [slots EXCEPT ![l].accept_q = LiveChildren(slots, l) \ {c},
                                  ![c.idx].user_open = TRUE]
        /\ handles' = handles \cup {c}
tcp_accept(h) ==
    /\ Valid(h) /\ slots[h.idx].state = "Listen"
    /\ AcceptNone(h.idx) \/ AcceptOne(h.idx)
    /\ UNCHANGED allocs

tcp_shutdown_write(h) ==
    /\ Valid(h) /\ slots[h.idx].state \in {"Established", "CloseWait"}
    /\ slots' = [slots EXCEPT ![h.idx].state = Shut(slots[h.idx].state)]
    /\ UNCHANGED <<allocs, handles>>

\* close_listener resets the children nobody accepted and frees the listener.
AbortedChild(l, i) == \E c \in LiveChildren(slots, l) : c.idx = i /\ ~slots[i].user_open
\* Mutant of close_listener: only the listener goes.
close_listener_alone(l) == slots' = [slots EXCEPT ![l] = free(slots[l])]
close_listener(l) ==
    slots' = [i \in Slots |-> IF i = l \/ AbortedChild(l, i) THEN free(slots[i]) ELSE slots[i]]

close_conn(i) ==
    slots' = [slots EXCEPT ![i] = reap([slots[i] EXCEPT !.state = Close(slots[i].state), !.user_open = FALSE])]

tcp_close(h) ==
    /\ Valid(h)
    /\ IF slots[h.idx].state = "Listen" THEN close_listener(h.idx) ELSE close_conn(h.idx)
    /\ UNCHANGED <<allocs, handles>>

abort_conn(i) ==
    slots' = [slots EXCEPT ![i] = reap([slots[i] EXCEPT !.state = "Closed", !.user_open = FALSE])]

tcp_abort(h) ==
    /\ Valid(h)
    /\ IF slots[h.idx].state = "Listen" THEN close_listener(h.idx) ELSE abort_conn(h.idx)
    /\ UNCHANGED <<allocs, handles>>

----------------------------------------------------------------------------
(* Segments, timers, interfaces. *)

\* A segment, a timer or an unreachable host moves a connection, and reap follows.
conn_input(i) ==
    /\ InUse(slots, i) /\ slots[i].state # "Listen"
    /\ \E s \in Input(slots[i].state) : slots' = [slots EXCEPT ![i] = reap([slots[i] EXCEPT !.state = s])]
    /\ UNCHANGED <<allocs, handles>>

IsConn(i, ip, port, remote) ==
    /\ InUse(slots, i) /\ slots[i].state # "Listen"
    /\ slots[i].ip = ip /\ slots[i].port = port /\ slots[i].remote = remote

\* rx_tcp with a SYN that is not for a connection in the table: there is none, or it is in
\* TIME_WAIT, no program holds it and the SYN's higher sequence number reopens the pair.
\* The table goes on without it.
NewPair(ip, port, remote) ==
    \A i \in Slots : IsConn(i, ip, port, remote) => slots[i].state = "TimeWait" /\ ~slots[i].user_open
Reopened(ip, port, remote) ==
    [i \in Slots |-> IF IsConn(i, ip, port, remote) THEN free(slots[i]) ELSE slots[i]]

\* The listener for a local address: the one bound to it, or the one bound to any.
ListensOn(t, l, ip, port) ==
    /\ t[l].state = "Listen" /\ t[l].port = port
    /\ \/ t[l].ip = ip
       \/ t[l].ip = AnyIp /\ \A k \in Slots : ~(t[k].state = "Listen" /\ t[k].port = port /\ t[k].ip = ip)

\* No listener: an RST goes back.
syn_refused(t, ip, port) ==
    /\ \A l \in Slots : ~ListensOn(t, l, ip, port)
    /\ slots' = t
    /\ UNCHANGED allocs

\* listen_input prunes the queue, then drops the SYN if the queue or the table is full ...
syn_dropped(t, l) ==
    /\ Cardinality(LiveChildren(t, l)) >= t[l].backlog \/ Full(t)
    /\ slots' = [t EXCEPT ![l].accept_q = LiveChildren(t, l)]
    /\ UNCHANGED allocs

\* Mutant of syn_queued: the backlog is not looked at.
syn_queued_any(t, l, ip, port, remote) ==
    /\ HasRoom
    /\ \E i \in Slots :
          /\ FirstFree(t, i)
          /\ slots' = [t EXCEPT ![i] = NewSocket(t, i, "SynReceived", FALSE, ip, port, remote, 0),
                                ![l].accept_q = LiveChildren(t, l) \cup {NewHandle(t, i)}]
    /\ allocs' = allocs + 1
\* ... or makes a child that waits in the queue.
syn_queued(t, l, ip, port, remote) ==
    /\ HasRoom
    /\ Cardinality(LiveChildren(t, l)) < t[l].backlog
    /\ \E i \in Slots :
          /\ FirstFree(t, i)
          /\ slots' = [t EXCEPT ![i] = NewSocket(t, i, "SynReceived", FALSE, ip, port, remote, 0),
                                ![l].accept_q = LiveChildren(t, l) \cup {NewHandle(t, i)}]
    /\ allocs' = allocs + 1

rx_syn(ip, port, remote) ==
    LET t == Reopened(ip, port, remote)
    IN  /\ NewPair(ip, port, remote)
        /\ \/ syn_refused(t, ip, port)
           \/ \E l \in Slots : ListensOn(t, l, ip, port) /\ syn_dropped(t, l)
           \/ \E l \in Slots : ListensOn(t, l, ip, port) /\ syn_queued(t, l, ip, port, remote)
        /\ UNCHANGED handles

\* Every socket bound to the address of a removed interface fails.
remove_interface(ip) ==
    /\ slots' = [i \in Slots |-> IF InUse(slots, i) /\ slots[i].ip = ip
                                 THEN reap([slots[i] EXCEPT !.state = "Closed"]) ELSE slots[i]]
    /\ UNCHANGED <<allocs, handles>>

Next ==
    \/ \E ip \in Addrs, port \in Ports, n \in 0 .. MaxBacklog + 1 : tcp_listen(ip, port, n)
    \/ \E ip \in Ips, port \in Ports, r \in Remotes : tcp_connect(ip, port, r)
    \/ \E h \in handles : \/ tcp_accept(h) \/ tcp_shutdown_write(h) \/ tcp_close(h) \/ tcp_abort(h)
    \/ \E i \in Slots : conn_input(i)
    \/ \E ip \in Ips, port \in Ports, r \in Remotes : rx_syn(ip, port, r)
    \/ \E ip \in Ips : remove_interface(ip)
Spec == Init /\ [][Next]_vars

----------------------------------------------------------------------------
(* Properties. *)

\* Type invariant.
TypeOK ==
    /\ slots \in [Slots -> Socket]
    /\ allocs \in 0 .. MaxAllocs
    /\ handles \in SUBSET Handle

\* A handle never reaches another socket: as long as a handle, kept by a program or
\* waiting in an accept queue, still passes the generation check, the slot holds the
\* socket the handle was made for (alloc, free, next_gen, slot).
AllHandles == handles \cup UNION {slots[i].accept_q : i \in Slots}
NoAliasing == \A h \in AllHandles : Live(slots, h) => slots[h.idx].serial = h.serial

\* A connection waiting for accept: nobody holds it and nobody has closed it.
Waiting(i) == ~slots[i].user_open /\ slots[i].state \in {"SynReceived", "Established", "CloseWait"}
WaitsAt(l, i) == slots[l].state = "Listen" /\ \E c \in slots[l].accept_q : c.idx = i /\ Live(slots, c)

\* No lost connection: a child nobody has accepted sits in the queue of a listener that
\* is still open, so a program can still get it, or its listener's close resets it.
\* Otherwise the slot would stay taken for ever, since no timer runs in Established.
NoOrphan == \A i \in Slots : Waiting(i) => \E l \in Slots : WaitsAt(l, i)

\* ... and in one queue only, which is that of a listener for its own local address;
\* nothing a program holds is queued, so accept gives a connection out once.
AcceptOnce ==
    \A l \in Slots : \A c \in slots[l].accept_q : Live(slots, c) =>
        /\ ~slots[c.idx].user_open
        /\ slots[l].state = "Listen" /\ slots[c.idx].port = slots[l].port
        /\ slots[l].ip \in {AnyIp, slots[c.idx].ip}
        /\ \A k \in Slots : c \in slots[k].accept_q => k = l

\* Demultiplexing is unambiguous: no two sockets share a connection's addresses and
\* ports, and no two listeners can both claim a SYN.
UniqueDemux ==
    \A i, j \in Slots : i # j /\ InUse(slots, i) /\ InUse(slots, j) /\ slots[i].port = slots[j].port =>
        /\ slots[i].state = "Listen" /\ slots[j].state = "Listen" => ~Overlap(slots[i].ip, slots[j].ip)
        /\ slots[i].remote # NoRemote /\ slots[j].remote # NoRemote =>
              slots[i].ip # slots[j].ip \/ slots[i].remote # slots[j].remote

\* The accept queue respects its backlog: what a flood of SYNs can pin is bounded.
BacklogRespected == \A l \in Slots : Cardinality(slots[l].accept_q) <= slots[l].backlog
============================================================================
