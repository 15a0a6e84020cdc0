-------------------------- MODULE TcpConnection --------------------------
(***************************************************************************)
(* Two hosts, each running the guest stack, and the one pair of addresses  *)
(* and ports they talk over: the control block each holds for it (Tcb),    *)
(* the part of the stack that feeds it (stack.rs: rx_tcp, listen_input,    *)
(* the user's tcp_* calls, timers, reaping), the programs that write and   *)
(* read, and a network that may lose, duplicate and reorder segments.      *)
(***************************************************************************)
EXTENDS Tcb, FiniteSets

CONSTANTS
    Peers,        \* the two hosts
    Listeners,    \* hosts with a listener on the port
    Iss,          \* Iss[p]: the initial sequence numbers gen_isn gives p's blocks, in order
    Bytes,        \* Bytes[p]: how many bytes p's program writes on a connection
    Chunks,       \* sizes of the programs' reads and writes
    UserOps,      \* UserOps[p]: the calls p's program makes
    Faults,       \* what the network and the hosts may do wrong
    MaxInFlight,  \* segments queued towards one host (tx queue of the interface)
    Prompt        \* TRUE: round trips are shorter than every timer

ASSUME PeersAssumption == IsFiniteSet(Peers) /\ Cardinality(Peers) = 2 /\ Listeners \subseteq Peers
ASSUME IssAssumption == \A p \in Peers : Iss[p] \in Seq(Seq32)
ASSUME QueueAssumption == MaxInFlight \in Nat
ASSUME ProgramAssumption == \A p \in Peers : Bytes[p] \in Nat /\ Chunks \subseteq Nat \ {0}

VARIABLES
    conn,         \* conn[p]: p's control block for the pair of addresses, or NoTcb
    net,          \* net[p]: segments on their way to p
    born,         \* born[p]: how many blocks p has created
    wrote,        \* wrote[p]: bytes p's program has written to its current block
    got,          \* got[p]: what p's program has read from its current block
    irs           \* irs[p]: sequence number of the SYN that p's block answered

vars == <<conn, net, born, wrote, got, irs>>

NoTcb == [state |-> "Free", user_open |-> FALSE]
Other(p) == CHOOSE q \in Peers : q # p
Exists(p) == conn[p] # NoTcb
Held(p) == Exists(p) /\ conn[p].user_open
May(p, op) == op \in UserOps[p]
Byte(p, i) == <<born[p], i>>

Init ==
    /\ conn = [p \in Peers |-> NoTcb]
    /\ net = [p \in Peers |-> <<>>]
    /\ born = [p \in Peers |-> 0]
    /\ wrote = [p \in Peers |-> 0]
    /\ got = [p \in Peers |-> <<>>]
    /\ irs = [p \in Peers |-> NoSeq]

----------------------------------------------------------------------------
(* tcp_transmit and reap end every operation on a block. *)

\* Frames that find the transmit queue full are dropped (emit).
Queued(q, segs) == SubSeq(q \o segs, 1, Least(Len(q) + Len(segs), MaxInFlight))

Reaped(t) == IF t.state = "Closed" /\ ~t.user_open THEN NoTcb ELSE t

\* p's block takes step r; what it sends is on the way to the other host.
Take(p, r) ==
    /\ conn' = [conn EXCEPT ![p] = Reaped(r.tcb)]
    /\ net' = [net EXCEPT ![Other(p)] = Queued(@, r.out)]

\* A new block of p.
Birth(p) ==
    /\ born' = [born EXCEPT ![p] = @ + 1]
    /\ wrote' = [wrote EXCEPT ![p] = 0]
    /\ got' = [got EXCEPT ![p] = <<>>]
NextIss(p) == Iss[p][born[p] + 1]

----------------------------------------------------------------------------
(* The programs' calls. *)

tcp_connect(p) ==
    /\ May(p, "connect") /\ ~Exists(p) /\ born[p] < Len(Iss[p])
    /\ Take(p, new_connect(NextIss(p)))
    /\ Birth(p)
    /\ irs' = [irs EXCEPT ![p] = NoSeq]

\* A child nobody has accepted yet is neither held nor closed by a program.
Unaccepted(t) == ~t.user_open /\ ~t.discard_rx

tcp_accept(p) ==
    /\ May(p, "accept") /\ Exists(p) /\ Unaccepted(conn[p]) /\ conn[p].state # "SynReceived"
    /\ conn' = [conn EXCEPT ![p].user_open = TRUE]
    /\ UNCHANGED <<net, born, wrote, got, irs>>

tcp_send(p) ==
    \E n \in Chunks :
        /\ May(p, "send") /\ Held(p) /\ wrote[p] + n <= Bytes[p]
        /\ conn[p].state \in {"SynSent", "SynReceived", "Established", "CloseWait"}
        /\ Take(p, write(conn[p], [i \in 1 .. n |-> Byte(p, wrote[p] + i)]))
        /\ wrote' = [wrote EXCEPT ![p] = @ + Least(n, tx_space(conn[p]))]
        /\ UNCHANGED <<born, got, irs>>

tcp_recv(p) ==
    \E size \in Chunks :
        LET n == Least(size, Len(conn[p].rx))
        IN  /\ May(p, "recv") /\ Held(p) /\ conn[p].rx # <<>>
            /\ Take(p, read(conn[p], n))
            /\ got' = [got EXCEPT ![p] = @ \o SubSeq(conn[p].rx, 1, n)]
            /\ UNCHANGED <<born, wrote, irs>>

tcp_shutdown_write(p) ==
    /\ May(p, "shutdown") /\ Held(p) /\ conn[p].state \in {"Established", "CloseWait"}
    /\ Take(p, shutdown_write(conn[p]))
    /\ UNCHANGED <<born, wrote, got, irs>>

tcp_close(p) ==
    /\ May(p, "close") /\ Held(p)
    /\ Take(p, close(conn[p]))
    /\ UNCHANGED <<born, wrote, got, irs>>

tcp_abort(p) ==
    /\ May(p, "abort") /\ Held(p)
    /\ Take(p, abort([conn[p] EXCEPT !.user_open = FALSE]))
    /\ UNCHANGED <<born, wrote, got, irs>>

----------------------------------------------------------------------------
(* Segments arriving: rx_tcp. *)

\* Mutant of Reopens: any state will do.
Reopens_in_any_state(t, h) ==
    ~t.user_open /\ "SYN" \in h.flags /\ "ACK" \notin h.flags /\ SeqGt(h.seq, t.rcv_nxt)
\* A new SYN with a higher sequence number reopens a TIME_WAIT pair nobody holds.
Reopens(t, h) ==
    /\ t.state = "TimeWait" /\ ~t.user_open
    /\ "SYN" \in h.flags /\ "ACK" \notin h.flags /\ SeqGt(h.seq, t.rcv_nxt)

send_rst_for(h) ==
    IF "ACK" \in h.flags THEN RstSeg(h.ack)
    ELSE [RstSeg(0) EXCEPT !.ack = Plus(h.seq, SegLen(h)), !.flags = {"RST", "ACK"}]

\* No block and no use for the segment: perhaps an RST goes back.
Refuse(p, h, left) ==
    LET answer == IF \/ "RST" \in h.flags
                     \/ p \in Listeners /\ "ACK" \notin h.flags
                  THEN <<>> ELSE << send_rst_for(h) >>
    IN  /\ conn' = [conn EXCEPT ![p] = NoTcb]
        /\ net' = [net EXCEPT ![p] = left, ![Other(p)] = Queued(@, answer)]
        /\ UNCHANGED <<born, wrote, got, irs>>

\* listen_input: a SYN, and nothing else, makes a child, while the table and the
\* backlog have room (here: while p has a sequence number left to give).
Spawns(p, h) ==
    /\ p \in Listeners /\ "RST" \notin h.flags /\ "ACK" \notin h.flags
    /\ "SYN" \in h.flags /\ "FIN" \notin h.flags
    /\ born[p] < Len(Iss[p])
listen_input(p, h, left) ==
    LET r == new_passive(NextIss(p), h)
    IN  /\ conn' = [conn EXCEPT ![p] = r.tcb]
        /\ net' = [net EXCEPT ![p] = left, ![Other(p)] = Queued(@, r.out)]
        /\ Birth(p)
        /\ irs' = [irs EXCEPT ![p] = h.seq]

\* p's block has answered segment h with step r.
Answered(p, h, left, r) ==
    /\ conn' = [conn EXCEPT ![p] = Reaped(r.tcb)]
    /\ net' = [net EXCEPT ![p] = left, ![Other(p)] = Queued(@, r.out)]
    /\ irs' = [irs EXCEPT ![p] = IF /\ conn[p].state = "SynSent"
                                    /\ r.tcb.state \in {"Established", "SynReceived"}
                                 THEN h.seq ELSE @]
    /\ UNCHANGED <<born, wrote, got>>
conn_input(p, h, left) == Answered(p, h, left, on_segment(conn[p], h))

rx_tcp(p, h, left) ==
    \/ Exists(p) /\ ~Reopens(conn[p], h) /\ conn_input(p, h, left)
    \/ (Exists(p) => Reopens(conn[p], h)) /\ Spawns(p, h) /\ listen_input(p, h, left)
    \/ (Exists(p) => Reopens(conn[p], h)) /\ ~Spawns(p, h) /\ Refuse(p, h, left)

Without(s, i) == SubSeq(s, 1, i - 1) \o SubSeq(s, i + 1, Len(s))

\* The network hands over its oldest segment, or any one if it reorders.
Deliver(p) ==
    \E i \in DOMAIN net[p] :
        /\ i = 1 \/ "reorder" \in Faults
        /\ rx_tcp(p, net[p][i], Without(net[p], i))

\* A copy of a segment arrives and the segment itself is still on its way.
DeliverCopy(p) ==
    \E i \in DOMAIN net[p] : "duplicate" \in Faults /\ rx_tcp(p, net[p][i], net[p])

Lose(p) ==
    \E i \in DOMAIN net[p] :
        /\ "lose" \in Faults
        /\ net' = [net EXCEPT ![p] = Without(@, i)]
        /\ UNCHANGED <<conn, born, wrote, got, irs>>

----------------------------------------------------------------------------
(* Timers, and failures below TCP. *)

TimeMayPass == Prompt => \A p \in Peers : net[p] = <<>>

RtoTimer(p) ==
    /\ Exists(p) /\ conn[p].rto /\ TimeMayPass
    /\ Take(p, rto_timer(conn[p]))
    /\ UNCHANGED <<born, wrote, got, irs>>

CloseTimer(p) ==
    /\ Exists(p) /\ conn[p].close_dl /\ TimeMayPass
    /\ Take(p, Quiet(close_timer(conn[p])))
    /\ UNCHANGED <<born, wrote, got, irs>>

\* notify_unreachable: address resolution for one of p's packets failed.
Unreachable(p) ==
    /\ "unreachable" \in Faults /\ Exists(p)
    /\ Take(p, Quiet(on_unreachable(conn[p])))
    /\ UNCHANGED <<born, wrote, got, irs>>

\* remove_interface, the interface holding p's address.
remove_interface(p) ==
    /\ "ifremove" \in Faults /\ Exists(p)
    /\ Take(p, Quiet(fail(conn[p])))
    /\ UNCHANGED <<born, wrote, got, irs>>

Program(p) ==
    \/ tcp_connect(p) \/ tcp_accept(p) \/ tcp_send(p) \/ tcp_recv(p)
    \/ tcp_shutdown_write(p) \/ tcp_close(p) \/ tcp_abort(p)
Network(p) == Deliver(p) \/ DeliverCopy(p) \/ Lose(p)
Host(p) == RtoTimer(p) \/ CloseTimer(p) \/ Unreachable(p) \/ remove_interface(p)

Next == \E p \in Peers : Program(p) \/ Network(p) \/ Host(p)
Spec == Init /\ [][Next]_vars

----------------------------------------------------------------------------
(* Fairness: the worker loop polls every stack while the computer is on    *)
(* (frames are handed over, due timers run), a network that loses segments *)
(* promises nothing; programs that read, keep reading.                     *)

\* Weak fairness with its ENABLED condition spelled out: a segment in flight can always
\* be delivered, an armed timer can always fire, and each of these steps changes vars.
Fairness ==
    \A p \in Peers :
        /\ []<>(net[p] = <<>>) \/ []<><<Deliver(p)>>_vars
        /\ []<>~(Exists(p) /\ conn[p].rto /\ TimeMayPass) \/ []<><<RtoTimer(p)>>_vars
        /\ []<>~(Exists(p) /\ conn[p].close_dl /\ TimeMayPass) \/ []<><<CloseTimer(p)>>_vars
        /\ WF_vars(tcp_accept(p))
        /\ []<>~(May(p, "recv") /\ Held(p) /\ conn[p].rx # <<>>) \/ []<><<tcp_recv(p)>>_vars
FairSpec == Spec /\ Fairness

\* No sequence number means two things: the numbers a connection can use and the window
\* behind them fit into the space, and no two connections of a host share any.  A block
\* tells segments apart by their numbers alone, so what it promises of the stream rests on
\* it; gen_isn (random, plus the clock) and TIME_WAIT make it likely, nothing checks it.
NumbersApart ==
    \A p \in Peers :
        /\ Bytes[p] + RxCap + 1 < SeqSpace
        /\ \A c, d \in DOMAIN Iss[p] : \A i, j \in 0 .. Bytes[p] + RxCap + 1 :
               Plus(Iss[p][c], i) = Plus(Iss[p][d], j) => c = d

----------------------------------------------------------------------------
(* Properties. *)

States == {"Closed", "SynSent", "SynReceived", "Established", "FinWait1", "FinWait2",
           "CloseWait", "Closing", "LastAck", "TimeWait"}
Errors == {NoError, "ConnectionRefused", "ConnectionReset", "ConnectionAborted",
           "TimedOut", "HostUnreachable"}

\* Type invariant: every field of a block keeps its range, and the send buffer,
\* the receive buffer and the reassembly list keep their capacities.
TypeOK ==
    /\ \A p \in Peers : born[p] \in 0 .. Len(Iss[p]) /\ Len(net[p]) <= MaxInFlight
    /\ \A p \in Peers : Exists(p) =>
          LET t == conn[p]
          IN  /\ t.state \in States /\ t.error \in Errors
              /\ {t.iss, t.una, t.nxt, t.max, t.rcv_nxt, t.wl1, t.wl2} \subseteq Seq32
              /\ {t.fin_seq, t.rx_fin_seq} \subseteq Seq32 \cup {NoSeq}
              /\ {t.fin_pending, t.fin_acked, t.fin_received, t.discard_rx,
                  t.rto, t.close_dl, t.user_open} \subseteq BOOLEAN
              /\ t.retries \in 0 .. MaxRetries + 1 /\ t.dupacks \in 0 .. 4
              /\ t.wnd \in 0 .. RxCap /\ t.last_adv_wnd \in 0 .. RxCap
              /\ Len(t.tx) <= TxCap /\ Len(t.rx) <= RxCap /\ Len(t.ooo) <= MaxOoo

\* The bytes a program has read, followed by those waiting in its receive buffer, are a
\* prefix of what the peer wrote on the connection whose SYN the block answered: in order,
\* none missing, repeated, or left over from another connection (accept_data, drain_ooo).
Received(p) == got[p] \o conn[p].rx
StreamIntegrity ==
    \A p \in Peers : Exists(p) =>
        \A i \in DOMAIN Received(p) :
            \E c \in DOMAIN Iss[Other(p)] : irs[p] = Iss[Other(p)][c] /\ Received(p)[i] = <<c, i>>

\* The blocks of the two hosts belong to one connection: each answered the other's SYN.
Linked(p) ==
    LET q == Other(p) IN
    /\ Exists(p) /\ Exists(q)
    /\ irs[p] = conn[q].iss /\ irs[q] = conn[p].iss

\* The handshake agrees: when both blocks are synchronized and one answered the other's
\* SYN, so did the other.  A late SYN, SYN-ACK or ACK of an earlier connection never leaves
\* the two hosts in different connections that take each other's data (on_syn_sent, the
\* SYN_RECEIVED branch of on_synchronized, listen_input).
HandshakeAgrees ==
    \A p \in Peers :
        LET q == Other(p) IN
        Exists(p) /\ Exists(q) /\ synchronized(conn[p]) /\ synchronized(conn[q]) /\ irs[p] = conn[q].iss
            => irs[q] = conn[p].iss

\* Nothing is acknowledged that the peer has not received, and nothing is received that
\* was not written: the peer's rcv_nxt lies between snd_una and the end of the send buffer
\* (one further for a FIN), across wrap-around (on_synchronized, output, NewAck).
AckedWasReceived ==
    \A p \in Peers :
        Linked(p) /\ synchronized(conn[p]) /\ conn[p].state # "TimeWait" =>
            LET fin == IF conn[p].fin_pending /\ ~conn[p].fin_acked THEN 1 ELSE 0
            IN  Minus(conn[Other(p)].rcv_nxt, conn[p].una) <= Len(conn[p].tx) + fin

\* End of file is reported only after every byte the peer wrote before it shut down
\* has arrived (tcp_recv returns Ok(0) only then), whatever was lost or reordered.
EofAfterAllData ==
    \A p \in Peers :
        LET q == Other(p) IN
        Exists(p) /\ conn[p].fin_received /\ ~conn[p].discard_rx /\ irs[p] = Iss[q][born[q]]
            => Len(Received(p)) = wrote[q]

\* No silent stall: a block with anything unacknowledged or unsent has a timer armed,
\* so a lost segment, window update or FIN is always made good by on_timer.
NoSilentStall ==
    \A p \in Peers : Exists(p) =>
        LET t == conn[p]
            work == \/ t.state \in {"SynSent", "SynReceived"}
                    \/ can_send_data(t) /\ (t.una # t.max \/ t.tx # <<>>)
                    \/ t.fin_pending /\ ~t.fin_acked /\ t.state # "Closed"
        IN  work => t.rto

\* A block no program holds, and none can accept, always has a deadline: the slot of
\* a closed socket is given back without any help from the peer.
NoLeakedBlock ==
    \A p \in Peers :
        Exists(p) /\ ~conn[p].user_open
                  /\ (conn[p].discard_rx \/ conn[p].state = "SynReceived")
            => conn[p].rto \/ conn[p].close_dl

\* A connection over a network that loses nothing and answers before every timer is
\* never declared dead: the persist timer must not kill it while the peer, alive,
\* keeps its window closed (tests/stack.rs, zero window).
NoSpuriousTimeout ==
    \A p \in Peers : Exists(p) => conn[p].error # "TimedOut"

\* What a block has told its peer never goes back: acknowledgements only advance
\* (rcv_nxt, snd_una), end of file is final, a closed block stays closed and the first
\* error is the one every later call reports.
NoRetreat ==
    [][\A p \in Peers : Exists(p) /\ conn'[p] # NoTcb /\ born'[p] = born[p] =>
          LET t == conn[p]
              u == conn'[p]
          IN  /\ synchronized(t) => SeqLe(t.rcv_nxt, u.rcv_nxt) /\ SeqLe(t.una, u.una)
              /\ synchronized(t) => u.state \notin {"SynSent", "SynReceived"}
              /\ t.fin_received => u.fin_received /\ u.rcv_nxt = t.rcv_nxt
              /\ t.state = "Closed" => u.state = "Closed"
              /\ t.error # NoError => u.error = t.error]_vars

\* Everything written is eventually read by the peer's program, or one of the two
\* programs learns that the connection is gone.
Dead(p) == ~Exists(p) \/ conn[p].state = "Closed"
Delivery ==
    \A p \in Peers : \A n \in 1 .. Bytes[p] :
        wrote[p] >= n ~> Len(got[Other(p)]) >= n \/ Dead(p) \/ Dead(Other(p))

\* A closed socket gives its block back: FIN handshake, retransmission limit, FIN_WAIT_2
\* and TIME_WAIT timers together leave none behind.
EventuallyFreed ==
    \A p \in Peers : (Exists(p) /\ conn[p].discard_rx) ~> ~Exists(p)

\* Refinement: with sequence numbers, buffers, segments and timers forgotten, the blocks
\* of the two hosts take only the steps of TcpLifecycle, which SocketTable builds on.
Lifecycle == INSTANCE TcpLifecycle WITH
    Hosts <- Peers,
    block <- [p \in Peers |-> [state |-> conn[p].state, held |-> conn[p].user_open]]
ImplementsLifecycle == Lifecycle!Spec
============================================================================
