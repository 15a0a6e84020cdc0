----------------------------- MODULE Neighbor -----------------------------
(***************************************************************************)
(* Address resolution on one interface of the guest stack (ecm-net,        *)
(* stack.rs): the neighbour table, the packets that wait in it, ARP        *)
(* requests with their retries, eviction, and what empties the table       *)
(* behind the waiting packets' back.                                       *)
(*                                                                         *)
(* A packet is a number, in the order packets are handed over.  A MAC      *)
(* address is forgotten.  sent, told, dropped and the field since record   *)
(* what happened; no action reads them.                                    *)
(***************************************************************************)
EXTENDS Integers, FiniteSets, SequencesExt

CONSTANTS
    Ips,          \* next hops
    MaxNeighbors, \* MAX_NEIGHBORS
    MaxPending,   \* ARP_PENDING_PER_NEIGHBOR
    MaxRequests,  \* ARP_MAX_REQUESTS
    RetryMs,      \* ARP_RETRY_MS
    ReachableMs,  \* ARP_REACHABLE_MS
    TxQueueLen,   \* TX_QUEUE_LEN
    MaxLate,      \* how late the worker loop may run poll after next_deadline
    MaxPackets,   \* bound: packets sent in a behaviour
    MaxTime       \* bound: length of a behaviour

ASSUME SizesAssumption ==
    /\ {MaxNeighbors, MaxPending, MaxRequests, RetryMs, ReachableMs, TxQueueLen} \subseteq Nat \ {0}
    /\ {MaxLate, MaxPackets, MaxTime} \subseteq Nat
\* IPv4 addresses are finitely many.
ASSUME IpsAssumption == IsFiniteSet(Ips)

VARIABLES
    table,        \* table[ip]: the entry for a next hop
    now,          \* the stack's clock
    up,           \* is_up: carrier and administrative state
    configured,   \* the interface has an address
    txlen,        \* frames waiting for pop_tx
    given,        \* packets handed to resolve_and_send so far
    sent,         \* sent[ip]: packets queued for transmission, in order
    told,         \* packets whose owner was told HostUnreachable
    dropped       \* packets dropped, for want of room or with the table

vars == <<table, now, up, configured, txlen, given, sent, told, dropped>>

NoEntry == [state |-> "None", deadline |-> 0, requests |-> 0, pending |-> <<>>, last_used |-> 0, since |-> 0]
Resolving == {"Incomplete", "Probe"}
Known == {ip \in Ips : table[ip].state # "None"}

Init ==
    /\ table = [ip \in Ips |-> NoEntry]
    /\ now = 0 /\ up = TRUE /\ configured = FALSE /\ txlen = 0
    /\ given = 0 /\ sent = [ip \in Ips |-> <<>>] /\ told = {} /\ dropped = {}

----------------------------------------------------------------------------
(* emit: frames that find the queue full, or the interface down, are lost. *)

Room == IF up THEN TxQueueLen - txlen ELSE 0
Least(a, b) == IF a < b THEN a ELSE b
\* Mutant of Went: the queue is emptied from its tail.
Went_reversed(packets, room) == SubSeq(Reverse(packets), 1, Least(Len(packets), room))
Went(packets, room) == SubSeq(packets, 1, Least(Len(packets), room))

\* After `frames` other frames, the packets for ip; the rest of them is dropped.
Emit(ip, frames, packets) ==
    LET left == Room - Least(frames, Room)
        out  == Went(packets, left)
    IN  /\ txlen' = txlen + Least(frames, Room) + Len(out)
        /\ sent' = [sent EXCEPT ![ip] = @ \o out]
        /\ dropped' = dropped \cup (Range(packets) \ Range(out))

----------------------------------------------------------------------------
(* resolve_and_send, by the state of the next hop's entry. *)

Overdue(n) == now >= n.deadline
Waits(ip) == table[ip].state = "Incomplete"
Usable(ip) == table[ip].state = "Probe" \/ (table[ip].state = "Reachable" /\ ~Overdue(table[ip]))
Aged(ip) == table[ip].state = "Stale" \/ (table[ip].state = "Reachable" /\ Overdue(table[ip]))

HasSpace(n) == Len(n.pending) < MaxPending

Touched(n, packets) == [n EXCEPT !.last_used = now, !.pending = packets]

Queue(ip, p) ==
    /\ Waits(ip)
    /\ table' = [table EXCEPT ![ip] = Touched(@, IF HasSpace(@) THEN Append(@.pending, p) ELSE @.pending)]
    /\ dropped' = IF HasSpace(table[ip]) THEN dropped ELSE dropped \cup {p}
    /\ UNCHANGED <<txlen, sent>>

Direct(ip, p) ==
    /\ Usable(ip)
    /\ table' = [table EXCEPT ![ip] = Touched(@, @.pending)]
    /\ Emit(ip, 0, <<p>>)

\* The old address is used while it is asked for again.
Probed(n) == [n EXCEPT !.state = "Probe", !.requests = 1, !.deadline = now + RetryMs,
                       !.last_used = now, !.since = now]
Reprobe(ip, p) ==
    /\ Aged(ip)
    /\ table' = [table EXCEPT ![ip] = Probed(@)]
    /\ Emit(ip, 1, <<p>>)

\* Mutant of Evictable: an entry that is still resolving may go.
Evictable_any(v) == \A o \in Known : table[v].last_used <= table[o].last_used
\* The least recently used entry that holds no packets.
Evictable(v) ==
    /\ ~Waits(v)
    /\ \A o \in Known : ~Waits(o) => table[v].last_used <= table[o].last_used

\* The table with an entry n for ip, the victim gone if it was full.
Inserted(ip, n) ==
    \/ Cardinality(Known) < MaxNeighbors /\ table' = [table EXCEPT ![ip] = n]
    \/ /\ Cardinality(Known) >= MaxNeighbors
       /\ \E v \in Known : Evictable(v) /\ table' = [table EXCEPT ![v] = NoEntry, ![ip] = n]
NoPlace == Cardinality(Known) >= MaxNeighbors /\ \A v \in Known : Waits(v)

Fresh(p) == [state |-> "Incomplete", deadline |-> now + RetryMs, requests |-> 1,
             pending |-> <<p>>, last_used |-> now, since |-> now]
Resolve(ip, p) ==
    /\ ip \notin Known
    /\ Inserted(ip, Fresh(p))
    /\ Emit(ip, 1, <<>>)

Refused(ip, p) ==
    /\ ip \notin Known /\ NoPlace
    /\ dropped' = dropped \cup {p}
    /\ UNCHANGED <<table, txlen, sent>>

\* Its callers: send_ip, whose route leads over an interface that is up and has an address,
\* and send_udp_on_interface, to which it is enough that the interface is up.
resolve_and_send(ip) ==
    /\ given < MaxPackets /\ up
    /\ \/ Queue(ip, given + 1) \/ Direct(ip, given + 1) \/ Reprobe(ip, given + 1)
       \/ Resolve(ip, given + 1) \/ Refused(ip, given + 1)
    /\ given' = given + 1
    /\ UNCHANGED <<now, up, configured, told>>

----------------------------------------------------------------------------
(* rx_arp: a request or a reply of ip, for our address (create) or not;    *)
(* a request for our address is answered.                                  *)

\* Mutant of Learned: the packets are left in the entry.
Learned_keeps(n) == [n EXCEPT !.state = "Reachable", !.deadline = now + ReachableMs, !.requests = 0]
Learned(n) ==
    [n EXCEPT !.state = "Reachable", !.deadline = now + ReachableMs, !.requests = 0, !.pending = <<>>]

\* The waiting packets leave before the answer does.
learn(ip, create, answers) ==
    LET packets == table[ip].pending
        out     == Went(packets, Room)
    IN  \/ /\ ip \in Known
           /\ table' = [table EXCEPT ![ip] = Learned(@)]
           /\ sent' = [sent EXCEPT ![ip] = @ \o out]
           /\ dropped' = dropped \cup (Range(packets) \ Range(out))
           /\ txlen' = txlen + Least(Len(packets) + answers, Room)
        \/ /\ ip \notin Known /\ create
           /\ \/ Inserted(ip, Touched(Learned(NoEntry), <<>>))
              \/ NoPlace /\ UNCHANGED table
           /\ Emit(ip, answers, <<>>)

rx_arp(ip, for_us, request) ==
    /\ up /\ configured
    /\ learn(ip, for_us, IF for_us /\ request THEN 1 ELSE 0)
    /\ UNCHANGED <<now, up, configured, given, told>>

----------------------------------------------------------------------------
(* poll: neighbor_timers. *)

Due(ip) == table[ip].state \in Resolving /\ Overdue(table[ip])
\* Mutant of GivesUp: one request too few.
GivesUp_early(ip) == Due(ip) /\ table[ip].requests >= MaxRequests - 1
GivesUp(ip) == Due(ip) /\ table[ip].requests >= MaxRequests

\* Mutant of Retried: the attempt is not counted.
Retried_uncounted(n) == [n EXCEPT !.deadline = now + RetryMs]
Retried(n) == [n EXCEPT !.requests = @ + 1, !.deadline = now + RetryMs]

neighbor_timers ==
    /\ table' = [ip \in Ips |->
                   IF GivesUp(ip) THEN NoEntry
                   ELSE IF Due(ip) THEN Retried(table[ip])
                   ELSE IF table[ip].state = "Reachable" /\ Overdue(table[ip])
                   THEN [table[ip] EXCEPT !.state = "Stale"] ELSE table[ip]]
    /\ told' = told \cup UNION {Range(table[ip].pending) : ip \in {i \in Ips : GivesUp(i)}}
    /\ txlen' = txlen + Least(Cardinality({ip \in Ips : Due(ip) /\ ~GivesUp(ip)}), Room)
    /\ UNCHANGED <<now, up, configured, given, sent, dropped>>

pop_tx ==
    /\ txlen > 0 /\ txlen' = txlen - 1
    /\ UNCHANGED <<table, now, up, configured, given, sent, told, dropped>>

\* Time passes; the worker loop polls at most MaxLate after the earliest deadline.
Advance ==
    /\ now < MaxTime
    /\ \A ip \in Ips : table[ip].state \in Resolving => now < table[ip].deadline + MaxLate
    /\ now' = now + 1
    /\ UNCHANGED <<table, up, configured, txlen, given, sent, told, dropped>>

----------------------------------------------------------------------------
(* The interface: each of these clears the table, packets and all. *)

Cleared ==
    /\ table' = [ip \in Ips |-> NoEntry]
    /\ dropped' = dropped \cup UNION {Range(table[ip].pending) : ip \in Ips}
    /\ UNCHANGED <<now, given, sent, told>>

set_link_down == up /\ up' = FALSE /\ Cleared /\ UNCHANGED <<configured, txlen>>

\* A gratuitous ARP announces the address.
set_link_up ==
    /\ ~up /\ up' = TRUE
    /\ txlen' = IF configured THEN Least(txlen + 1, TxQueueLen) ELSE txlen
    /\ UNCHANGED <<table, now, configured, given, sent, told, dropped>>

configure_addr == configured' = TRUE /\ Cleared /\ txlen' = txlen + Least(1, Room) /\ UNCHANGED up
clear_addr == configured' = FALSE /\ Cleared /\ UNCHANGED <<up, txlen>>
set_vlan == Cleared /\ UNCHANGED <<up, configured, txlen>>

\* remove_interface also discards its frames; add_interface brings it back up, without
\* an address, which is how a missing interface behaves here.
remove_interface == configured' = FALSE /\ up' = TRUE /\ txlen' = 0 /\ Cleared

Next ==
    \/ \E ip \in Ips : resolve_and_send(ip)
    \/ \E ip \in Ips, for_us, request \in BOOLEAN : rx_arp(ip, for_us, request)
    \/ neighbor_timers \/ pop_tx \/ Advance
    \/ set_link_down \/ set_link_up \/ configure_addr \/ clear_addr \/ set_vlan \/ remove_interface
Spec == Init /\ [][Next]_vars

----------------------------------------------------------------------------
(* Properties. *)

Passed(ip) == sent[ip] \o table[ip].pending

\* No packet is lost from sight: each one given was sent, or waits, or its owner was told,
\* or it was dropped for a reason the code names (queue, table or transmit queue full, table
\* cleared), and only one of these.  Evicting an entry that holds packets would break it.
Accounted ==
    /\ 1 .. given = told \cup dropped \cup UNION {Range(Passed(ip)) : ip \in Ips}
    /\ told \cap dropped = {}
    /\ \A ip \in Ips : Range(Passed(ip)) \cap (told \cup dropped) = {}
    /\ \A i, j \in Ips : i # j => Range(Passed(i)) \cap Range(Passed(j)) = {}

\* Packets for one neighbour leave in the order they were given, once each, whether they
\* waited for its address or not.
InOrder == \A ip \in Ips : \A i, j \in DOMAIN Passed(ip) : i < j => Passed(ip)[i] < Passed(ip)[j]

\* Packets wait exactly in the entries that are being resolved: nothing would ever send or
\* report what waited elsewhere, since only Incomplete entries are timed and answered.
NoStranded == \A ip \in Ips : table[ip].pending # <<>> <=> table[ip].state = "Incomplete"

\* Resolution ends: an unanswered entry is given up after MaxRequests requests, each at
\* most RetryMs and a late poll apart, however it is used meanwhile.
Timely ==
    \A ip \in Ips : table[ip].state \in Resolving =>
        now <= table[ip].since + MaxRequests * (RetryMs + MaxLate)

\* HostUnreachable is reported no earlier than MaxRequests * RetryMs after the first request
\* ("3 requests in total, 1 s apart; HostUnreachable at 3 s").
NotToldEarly ==
    [][\A p \in told' \ told :
          \E ip \in Ips : /\ p \in Range(table[ip].pending)
                          /\ now >= table[ip].since + MaxRequests * RetryMs]_vars
============================================================================
