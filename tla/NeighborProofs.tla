-------------------------- MODULE NeighborProofs --------------------------
(***************************************************************************)
(* Proofs about Neighbor: for any sizes, any number of next hops and any   *)
(* lateness of poll, resolution ends in time, HostUnreachable is reported  *)
(* only after all requests, packets wait only where they are timed, and    *)
(* each leaves in its turn or is reported or dropped, once.                *)
(*                                                                         *)
(* Every action rewrites entries one at a time, with a handful of forms    *)
(* (fresh, probed again, learned, retried, aged, gone, touched); the       *)
(* invariant is a property of one entry at one time, Good, and there is a  *)
(* lemma per form.                                                         *)
(***************************************************************************)
EXTENDS Neighbor, SequenceTheorems, FiniteSetTheorems, TLAPS

EntryRec == [state : {"None", "Incomplete", "Reachable", "Stale", "Probe"}, deadline : Nat,
             requests : Nat, pending : Seq(Nat), last_used : Nat, since : Nat]

\* The deadline of a resolving entry lies between requests intervals after its first
\* request and that plus the lateness of the polls in between; time is not past it by
\* more than one lateness.
OnTime(n, t) ==
    n.state \in Resolving =>
        /\ n.requests \in 1 .. MaxRequests
        /\ n.since + n.requests * RetryMs <= n.deadline
        /\ n.deadline <= n.since + n.requests * RetryMs + (n.requests - 1) * MaxLate
        /\ t <= n.deadline + MaxLate

Good(n, t) ==
    /\ n \in EntryRec
    /\ OnTime(n, t)
    /\ n.pending # <<>> <=> n.state = "Incomplete"

IInv ==
    /\ now \in Nat /\ given \in Nat
    /\ table \in [Ips -> EntryRec]
    /\ \A ip \in Ips : Good(table[ip], now)

\* The sizes are what the arithmetic below needs them to be.
LEMMA Sizes ==
    /\ MaxRequests \in Nat /\ RetryMs \in Nat /\ ReachableMs \in Nat /\ MaxLate \in Nat
    /\ MaxRequests >= 1
    /\ 1 * RetryMs = RetryMs
BY SizesAssumption

\* One more request adds one more interval, and one more lateness, to the bounds of OnTime.
LEMMA OneMore ==
    ASSUME NEW i \in Nat, NEW r \in Nat, NEW l \in Nat, i >= 1
    PROVE  /\ (i + 1) * r = i * r + r /\ ((i + 1) - 1) * l = (i - 1) * l + l
           /\ i * r \in Nat /\ (i - 1) * l \in Nat
OBVIOUS

\* The absent entry.
LEMMA GoneIsGood ==
    ASSUME NEW t \in Nat
    PROVE  Good(NoEntry, t)
BY DEF Good, NoEntry, EntryRec, OnTime, Resolving

\* Queue and Direct: the time of last use, and perhaps one packet more.
LEMMA TouchedIsGood ==
    ASSUME NEW t \in Nat, NEW n, Good(n, t), NEW u \in Nat, NEW q \in Seq(Nat),
           q # <<>> <=> n.pending # <<>>
    PROVE  Good([n EXCEPT !.last_used = u, !.pending = q], t)
BY DEF Good, EntryRec, OnTime

\* A new entry (resolve_and_send, stack.rs), its first request just sent.
LEMMA FreshIsGood ==
    ASSUME NEW t \in Nat, NEW p \in Nat
    PROVE  Good([state |-> "Incomplete", deadline |-> t + RetryMs, requests |-> 1,
                 pending |-> <<p>>, last_used |-> t, since |-> t], t)
<1> DEFINE n == [state |-> "Incomplete", deadline |-> t + RetryMs, requests |-> 1,
                 pending |-> <<p>>, last_used |-> t, since |-> t]
<1>1. n \in EntryRec /\ n.pending # <<>>
  BY Sizes DEF EntryRec
<1>2. OnTime(n, t)
  <2>1. n.requests = 1 /\ n.since = t /\ n.deadline = t + RetryMs
    OBVIOUS
  <2>2. 1 \in 1 .. MaxRequests /\ (1 - 1) * MaxLate = 0
    BY Sizes
  <2> HIDE DEF n
  <2> QED  BY <2>1, <2>2, Sizes DEF OnTime
<1> QED  BY <1>1, <1>2 DEF Good

\* An aged entry that resolve_and_send resolves again, from its first request.
LEMMA ReprobedIsGood ==
    ASSUME NEW t \in Nat, NEW n, Good(n, t), n.state # "Incomplete", NEW d \in Nat, d = t + RetryMs
    PROVE  Good([n EXCEPT !.state = "Probe", !.requests = 1, !.deadline = d,
                          !.last_used = t, !.since = t], t)
<1> DEFINE m == [n EXCEPT !.state = "Probe", !.requests = 1, !.deadline = d,
                          !.last_used = t, !.since = t]
<1>1. n \in EntryRec /\ n.pending = <<>>
  BY DEF Good
<1>2. m \in EntryRec
  BY <1>1 DEF EntryRec
<1>3. /\ m.state = "Probe" /\ m.requests = 1 /\ m.since = t /\ m.deadline = d
      /\ m.pending = n.pending
  BY <1>1 DEF EntryRec
<1>4. 1 \in 1 .. MaxRequests /\ (1 - 1) * MaxLate = 0
  BY Sizes
<1> HIDE DEF m
<1>5. OnTime(m, t)
  BY <1>3, <1>4, Sizes DEF OnTime
<1>6. m.pending = <<>> /\ m.state # "Incomplete"
  BY <1>1, <1>3
<1>7. Good(m, t)
  BY <1>2, <1>5, <1>6 DEF Good
<1> QED  BY <1>7 DEF m

\* An entry that neighbor_timers finds out of date.
LEMMA AgedIsGood ==
    ASSUME NEW t \in Nat, NEW n, Good(n, t), n.state = "Reachable"
    PROVE  Good([n EXCEPT !.state = "Stale"], t)
BY DEF Good, EntryRec, OnTime, Resolving

\* An entry whose deadline has come, and that has requests left.
LEMMA RetriedIsGood ==
    ASSUME NEW t \in Nat, NEW n, Good(n, t), n.state \in Resolving, t >= n.deadline,
           ~(n.requests >= MaxRequests), NEW k1 \in Nat, k1 = n.requests + 1,
           NEW d \in Nat, d = t + RetryMs
    PROVE  Good([n EXCEPT !.requests = k1, !.deadline = d], t)
<1> DEFINE m == [n EXCEPT !.requests = k1, !.deadline = d]
           k == n.requests
           kr == k * RetryMs
           kl == (k - 1) * MaxLate
           kr1 == k1 * RetryMs
           kl1 == (k1 - 1) * MaxLate
<1>1. /\ n \in EntryRec /\ k \in Nat /\ n.since \in Nat /\ n.deadline \in Nat
      /\ k \in 1 .. MaxRequests
      /\ n.since + kr <= n.deadline
      /\ n.deadline <= n.since + kr + kl
      /\ t <= n.deadline + MaxLate
  BY DEF Good, OnTime, EntryRec
<1>2. m \in EntryRec
  BY <1>1 DEF EntryRec
<1>3. m.pending = n.pending /\ m.state = n.state /\ m.requests = k1 /\ m.since = n.since /\ m.deadline = d
  BY <1>1 DEF EntryRec
<1>4. k1 \in 1 .. MaxRequests
  BY <1>1, Sizes
<1>5. kr1 = kr + RetryMs /\ kl1 = kl + MaxLate /\ kr \in Nat /\ kl \in Nat
  <2>1. kr1 = (k + 1) * RetryMs /\ kl1 = ((k + 1) - 1) * MaxLate
    OBVIOUS
  <2>2. k >= 1 /\ k \in Nat
    BY <1>1
  <2> HIDE DEF k
  <2>3. /\ (k + 1) * RetryMs = k * RetryMs + RetryMs /\ ((k + 1) - 1) * MaxLate = (k - 1) * MaxLate + MaxLate
        /\ k * RetryMs \in Nat /\ (k - 1) * MaxLate \in Nat
    BY <2>2, Sizes, OneMore
  <2> QED  BY <2>1, <2>3
<1> HIDE DEF m
<1>6. n.since + kr1 <= d /\ d <= n.since + kr1 + kl1 /\ t <= d + MaxLate
  <2> HIDE DEF kr, kl, kr1, kl1, k
  <2> QED  BY <1>1, <1>5, Sizes
<1>7. OnTime(m, t)
  BY <1>3, <1>4, <1>6 DEF OnTime
<1>8. n.pending # <<>> <=> n.state = "Incomplete"
  BY DEF Good
<1>9. m.pending # <<>> <=> m.state = "Incomplete"
  BY <1>3, <1>8
<1>10. Good(m, t)
  BY <1>2, <1>7, <1>9 DEF Good
<1> QED  BY <1>10 DEF m

\* An entry that learn has given an address, whose packets it has taken.
LEMMA LearnedIsGood ==
    ASSUME NEW t \in Nat, NEW n \in EntryRec, NEW d \in Nat
    PROVE  Good([n EXCEPT !.state = "Reachable", !.deadline = d, !.requests = 0, !.pending = <<>>], t)
<1>0. <<>> \in Seq(Nat)
  OBVIOUS
<1> DEFINE m == [n EXCEPT !.state = "Reachable", !.deadline = d, !.requests = 0, !.pending = <<>>]
<1>1. m \in EntryRec
  BY <1>0 DEF EntryRec
<1>2. m.state = "Reachable" /\ m.pending = <<>>
  BY DEF EntryRec
<1> HIDE DEF m
<1>3. Good(m, t)
  BY <1>1, <1>2 DEF Good, OnTime, Resolving
<1> QED  BY <1>3 DEF m

----------------------------------------------------------------------------
(* Tables: one entry changes, or two when a victim makes room. *)

AllGood(f, t) == f \in [Ips -> EntryRec] /\ \A ip \in Ips : Good(f[ip], t)

\* Replacing one good entry by another leaves the table good.
LEMMA OneEntryKeeps ==
    ASSUME NEW t \in Nat, NEW f, AllGood(f, t), NEW ip \in Ips, NEW m, Good(m, t)
    PROVE  AllGood([f EXCEPT ![ip] = m], t)
<1>1. m \in EntryRec
  BY DEF Good
<1> QED  BY <1>1 DEF AllGood

\* So does inserting one, whatever entry is evicted for it.
LEMMA InsertedKeeps ==
    ASSUME now \in Nat, AllGood(table, now), NEW ip \in Ips, NEW m, Good(m, now), Inserted(ip, m)
    PROVE  AllGood(table', now)
<1>1. CASE table' = [table EXCEPT ![ip] = m]
  BY <1>1, OneEntryKeeps
<1>2. ASSUME NEW v \in Known, table' = [table EXCEPT ![v] = NoEntry, ![ip] = m]
      PROVE  AllGood(table', now)
  <2> DEFINE f == [table EXCEPT ![v] = NoEntry]
  <2>1. v \in Ips
    BY DEF Known
  <2>2. AllGood(f, now)
    BY <2>1, GoneIsGood, OneEntryKeeps
  <2>3. table' = [f EXCEPT ![ip] = m]
    BY <1>2
  <2> HIDE DEF f
  <2> QED  BY <2>2, <2>3, OneEntryKeeps
<1> QED  BY <1>1, <1>2 DEF Inserted

----------------------------------------------------------------------------
(* The invariant. *)

\* The empty table.
LEMMA InitHolds ==
    ASSUME Init
    PROVE  IInv
<1>1. Good(NoEntry, 0) /\ NoEntry \in EntryRec
  BY GoneIsGood DEF Good
<1> QED  BY <1>1 DEF Init, IInv

\* Sending a packet (resolve_and_send).
LEMMA SendKeeps ==
    ASSUME IInv, NEW ip \in Ips, resolve_and_send(ip)
    PROVE  AllGood(table', now)
<1> DEFINE n == table[ip]
           p == given + 1
<1>1. AllGood(table, now) /\ Good(n, now) /\ now \in Nat /\ p \in Nat
  BY DEF IInv, AllGood
<1>2. n \in EntryRec /\ n.pending \in Seq(Nat)
  BY <1>1 DEF Good, EntryRec
<1>3. CASE Queue(ip, p)
  <2> DEFINE q == IF HasSpace(n) THEN Append(n.pending, p) ELSE n.pending
  <2>1. n.pending # <<>>
    BY <1>1, <1>3 DEF Queue, Waits, Good
  <2>2. q \in Seq(Nat) /\ q # <<>>
    BY <1>1, <1>2, <2>1
  <2>3. table' = [table EXCEPT ![ip] = [n EXCEPT !.last_used = now, !.pending = q]]
    BY <1>3 DEF Queue, Touched
  <2> HIDE DEF q, n
  <2>4. Good([n EXCEPT !.last_used = now, !.pending = q], now)
    BY <1>1, <2>1, <2>2, TouchedIsGood
  <2> QED  BY <1>1, <2>3, <2>4, OneEntryKeeps
<1>4. CASE Direct(ip, p)
  <2>1. table' = [table EXCEPT ![ip] = [n EXCEPT !.last_used = now, !.pending = n.pending]]
    BY <1>4 DEF Direct, Touched
  <2> HIDE DEF n
  <2>2. Good([n EXCEPT !.last_used = now, !.pending = n.pending], now)
    BY <1>1, <1>2, TouchedIsGood
  <2> QED  BY <1>1, <2>1, <2>2, OneEntryKeeps
<1>5. CASE Reprobe(ip, p)
  <2>1. n.state # "Incomplete"
    BY <1>5 DEF Reprobe, Aged
  <2>2. table' = [table EXCEPT ![ip] = [n EXCEPT !.state = "Probe", !.requests = 1, !.deadline = now + RetryMs,
                                                 !.last_used = now, !.since = now]]
    BY <1>5 DEF Reprobe, Probed
  <2>3. now + RetryMs \in Nat
    BY <1>1, Sizes
  <2> HIDE DEF n
  <2>4. Good([n EXCEPT !.state = "Probe", !.requests = 1, !.deadline = now + RetryMs,
                       !.last_used = now, !.since = now], now)
    BY <1>1, <2>1, <2>3, ReprobedIsGood
  <2> QED  BY <1>1, <2>2, <2>4, OneEntryKeeps
<1>6. CASE Resolve(ip, p)
  <2>1. Good(Fresh(p), now)
    BY <1>1, FreshIsGood DEF Fresh
  <2> QED  BY <1>1, <1>6, <2>1, InsertedKeeps DEF Resolve
<1>7. CASE Refused(ip, p)
  BY <1>1, <1>7 DEF Refused
<1> QED  BY <1>3, <1>4, <1>5, <1>6, <1>7 DEF resolve_and_send

\* Receiving an ARP packet (rx_arp, learn).
LEMMA ArpKeeps ==
    ASSUME IInv, NEW ip \in Ips, NEW for_us \in BOOLEAN, NEW request \in BOOLEAN, rx_arp(ip, for_us, request)
    PROVE  AllGood(table', now)
<1>1. AllGood(table, now) /\ now \in Nat /\ table[ip] \in EntryRec /\ NoEntry \in EntryRec
  BY GoneIsGood DEF IInv, AllGood, Good
<1>2. now + ReachableMs \in Nat
  BY <1>1, Sizes
<1>3. \A n \in EntryRec : Good(Learned(n), now)
  BY <1>1, <1>2, LearnedIsGood DEF Learned
<1>4. Good(Touched(Learned(NoEntry), <<>>), now)
  <2> DEFINE n == Learned(NoEntry)
  <2>1. Good(n, now)
    BY <1>1, <1>3
  <2>2. n.pending = <<>> /\ <<>> \in Seq(Nat)
    BY DEF Learned, NoEntry
  <2> HIDE DEF n
  <2>3. Good([n EXCEPT !.last_used = now, !.pending = <<>>], now)
    BY <1>1, <2>1, <2>2, TouchedIsGood
  <2> QED  BY <2>3 DEF Touched, n
<1>5. CASE table' = [table EXCEPT ![ip] = Learned(table[ip])]
  BY <1>1, <1>3, <1>5, OneEntryKeeps
<1>6. CASE Inserted(ip, Touched(Learned(NoEntry), <<>>))
  BY <1>1, <1>4, <1>6, InsertedKeeps
<1>7. CASE UNCHANGED table
  BY <1>1, <1>7
<1> QED  BY <1>5, <1>6, <1>7 DEF rx_arp, learn

\* Running the timers (neighbor_timers): every due entry is retried or given up.
LEMMA TimersKeep ==
    ASSUME IInv, neighbor_timers
    PROVE  AllGood(table', now)
<1>1. now \in Nat /\ now + RetryMs \in Nat
  BY Sizes DEF IInv
<1>2. ASSUME NEW ip \in Ips
      PROVE  Good(table'[ip], now)
  <2> DEFINE n == table[ip]
  <2>1. Good(n, now) /\ n.requests + 1 \in Nat
    BY DEF IInv, Good, EntryRec
  <2>2. CASE GivesUp(ip)
    BY <1>1, <2>2, GoneIsGood DEF neighbor_timers
  <2>3. CASE ~GivesUp(ip) /\ Due(ip)
    <3>1. table'[ip] = [n EXCEPT !.requests = n.requests + 1, !.deadline = now + RetryMs]
      BY <2>3 DEF neighbor_timers, Retried
    <3>2. n.state \in Resolving /\ now >= n.deadline /\ ~(n.requests >= MaxRequests)
      BY <2>3 DEF GivesUp, Due, Overdue
    <3> HIDE DEF n
    <3>3. Good([n EXCEPT !.requests = n.requests + 1, !.deadline = now + RetryMs], now)
      BY <1>1, <2>1, <3>2, RetriedIsGood
    <3> QED  BY <3>1, <3>3
  <2>4. CASE ~GivesUp(ip) /\ ~Due(ip) /\ n.state = "Reachable" /\ Overdue(n)
    <3>1. table'[ip] = [n EXCEPT !.state = "Stale"]
      BY <2>4 DEF neighbor_timers
    <3> HIDE DEF n
    <3> QED  BY <1>1, <2>1, <2>4, <3>1, AgedIsGood
  <2>5. CASE ~GivesUp(ip) /\ ~Due(ip) /\ ~(n.state = "Reachable" /\ Overdue(n))
    BY <2>1, <2>5 DEF neighbor_timers
  <2> QED  BY <2>2, <2>3, <2>4, <2>5
<1>3. table' \in [Ips -> EntryRec]
  <2>1. \A ip \in Ips : table'[ip] \in EntryRec
    BY <1>2 DEF Good
  <2> QED  BY <2>1 DEF neighbor_timers
<1> QED  BY <1>2, <1>3 DEF AllGood

\* The clock advancing.
LEMMA AdvanceKeeps ==
    ASSUME IInv, Advance
    PROVE  AllGood(table', now')
<1>1. now \in Nat /\ now' = now + 1 /\ table' = table /\ AllGood(table, now)
  BY DEF IInv, Advance, AllGood
<1>2. ASSUME NEW ip \in Ips
      PROVE  Good(table[ip], now + 1)
  <2> DEFINE n == table[ip]
  <2>1. Good(n, now) /\ n \in EntryRec /\ n.deadline \in Nat
    BY <1>1 DEF AllGood, Good, EntryRec
  <2>2. n.state \in Resolving => now < n.deadline + MaxLate
    BY DEF Advance
  <2> HIDE DEF n
  <2>3. OnTime(n, now + 1)
    BY <1>1, <2>1, <2>2, Sizes DEF Good, OnTime
  <2>4. Good(n, now + 1)
    BY <2>1, <2>3 DEF Good
  <2> QED  BY <2>4 DEF n
<1> QED  BY <1>1, <1>2 DEF AllGood

\* Flushing the table (change_updown, configure_addr, clear_addr, set_vlan, remove_interface).
LEMMA ClearedKeeps ==
    ASSUME IInv, Cleared
    PROVE  AllGood(table', now) /\ now' = now /\ given' = given
<1>1. now \in Nat /\ Good(NoEntry, now) /\ NoEntry \in EntryRec
  BY GoneIsGood DEF IInv, Good
<1> QED  BY <1>1 DEF Cleared, AllGood

\* Every step keeps the inductive invariant.
LEMMA StepKeeps ==
    ASSUME IInv, [Next]_vars
    PROVE  IInv'
<1> SUFFICES now' \in Nat /\ given' \in Nat /\ AllGood(table', now')
  BY DEF IInv, AllGood, Good, OnTime
<1>t. now \in Nat /\ given \in Nat /\ AllGood(table, now)
  BY DEF IInv, AllGood
<1>1. ASSUME NEW ip \in Ips, resolve_and_send(ip)
      PROVE  now' \in Nat /\ given' \in Nat /\ AllGood(table', now')
  BY <1>t, <1>1, SendKeeps DEF resolve_and_send
<1>2. ASSUME NEW ip \in Ips, NEW for_us \in BOOLEAN, NEW request \in BOOLEAN, rx_arp(ip, for_us, request)
      PROVE  now' \in Nat /\ given' \in Nat /\ AllGood(table', now')
  BY <1>t, <1>2, ArpKeeps DEF rx_arp
<1>3. CASE neighbor_timers
  BY <1>t, <1>3, TimersKeep DEF neighbor_timers
<1>4. CASE pop_tx
  BY <1>t, <1>4 DEF pop_tx
<1>5. CASE Advance
  BY <1>t, <1>5, AdvanceKeeps DEF Advance
<1>6. CASE set_link_up
  BY <1>t, <1>6 DEF set_link_up
<1>7. CASE Cleared
  BY <1>t, <1>7, ClearedKeeps
<1>8. CASE UNCHANGED vars
  BY <1>t, <1>8 DEF vars
<1> QED
  BY <1>1, <1>2, <1>3, <1>4, <1>5, <1>6, <1>7, <1>8
     DEF Next, set_link_down, configure_addr, clear_addr, set_vlan, remove_interface

\* The inductive invariant holds in every reachable state.
LEMMA Invariant ==
    Spec => []IInv
BY InitHolds, StepKeeps, PTL DEF Spec

----------------------------------------------------------------------------
(* The theorems. *)

\* A number of requests below the limit costs less time than the limit does.
LEMMA Scaled ==
    ASSUME NEW i \in Nat, NEW m \in Nat, NEW r \in Nat, NEW l \in Nat, 1 <= i, i <= m
    PROVE  /\ i * r + (i - 1) * l + l <= m * (r + l)
           /\ m >= i => i * r <= m * r
           /\ i * r \in Nat /\ (i - 1) * l \in Nat /\ m * (r + l) \in Nat
<1>1. (i - 1) * l + l = i * l /\ i * r + i * l = i * (r + l)
  OBVIOUS
<1>2. PICK d \in Nat : m = i + d
  <2>1. m - i \in Nat /\ m = i + (m - i)
    OBVIOUS
  <2> QED  BY <2>1
<1>3. m * (r + l) = i * (r + l) + d * (r + l) /\ m * r = i * r + d * r
  BY <1>2
<1>4. d * (r + l) \in Nat /\ d * r \in Nat /\ i * r \in Nat /\ i * l \in Nat /\ (i - 1) * l \in Nat
  OBVIOUS
<1> QED  BY <1>1, <1>3, <1>4

\* Resolution ends: in every reachable state no entry has been resolving for longer than
\* MaxRequests retry intervals, each with the lateness of one poll (resolve_and_send,
\* neighbor_timers, learn), for every size of the table and every number of next hops.
THEOREM ResolutionEnds == Spec => []Timely
<1>1. IInv => Timely
  <2> SUFFICES ASSUME IInv, NEW ip \in Ips, table[ip].state \in Resolving
               PROVE  now <= table[ip].since + MaxRequests * (RetryMs + MaxLate)
    BY DEF Timely
  <2> DEFINE n == table[ip]
             k == n.requests
  <2>1. n \in EntryRec /\ OnTime(n, now) /\ now \in Nat
    BY DEF IInv, Good
  <2>2. /\ k \in Nat /\ n.since \in Nat /\ n.deadline \in Nat
        /\ 1 <= k /\ k <= MaxRequests
        /\ n.deadline <= n.since + k * RetryMs + (k - 1) * MaxLate
        /\ now <= n.deadline + MaxLate
    BY <2>1, Sizes DEF OnTime, EntryRec
  <2> HIDE DEF k
  <2>3. /\ k * RetryMs + (k - 1) * MaxLate + MaxLate <= MaxRequests * (RetryMs + MaxLate)
        /\ k * RetryMs \in Nat /\ (k - 1) * MaxLate \in Nat /\ MaxRequests * (RetryMs + MaxLate) \in Nat
    BY <2>2, Scaled, Sizes
  <2> DEFINE kr == k * RetryMs
             kl == (k - 1) * MaxLate
             all == MaxRequests * (RetryMs + MaxLate)
  <2>4. /\ kr + kl + MaxLate <= all /\ kr \in Nat /\ kl \in Nat /\ all \in Nat
        /\ n.deadline <= n.since + kr + kl
    BY <2>2, <2>3
  <2> HIDE DEF kr, kl, all, n
  <2>5. now <= n.since + all
    BY <2>1, <2>2, <2>4, Sizes
  <2> QED  BY <2>5 DEF n, all
<1> QED  BY <1>1, Invariant, PTL

\* No early alarm: an owner is told HostUnreachable only when the first request for its
\* packet's next hop is at least MaxRequests retry intervals old (neighbor_timers).
THEOREM NoEarlyAlarm == Spec => NotToldEarly
<1>1. IInv /\ [Next]_vars =>
        [\A p \in told' \ told :
            \E ip \in Ips : /\ p \in Range(table[ip].pending)
                            /\ now >= table[ip].since + MaxRequests * RetryMs]_vars
  <2> SUFFICES ASSUME IInv, [Next]_vars, NEW p \in told' \ told
               PROVE  \E ip \in Ips : /\ p \in Range(table[ip].pending)
                                       /\ now >= table[ip].since + MaxRequests * RetryMs
    OBVIOUS
  <2>1. neighbor_timers
    BY DEF Next, vars, resolve_and_send, rx_arp, pop_tx, Advance, set_link_up, Cleared,
           set_link_down, configure_addr, clear_addr, set_vlan, remove_interface
  <2>2. PICK ip \in Ips : GivesUp(ip) /\ p \in Range(table[ip].pending)
    BY <2>1 DEF neighbor_timers
  <2> DEFINE n == table[ip]
             k == n.requests
  <2>3. n \in EntryRec /\ OnTime(n, now) /\ now \in Nat
    BY DEF IInv, Good
  <2>4. /\ k \in Nat /\ n.since \in Nat /\ n.deadline \in Nat /\ k = MaxRequests
        /\ n.since + k * RetryMs <= n.deadline /\ n.deadline <= now
    BY <2>2, <2>3, Sizes DEF OnTime, EntryRec, GivesUp, Due, Overdue
  <2> HIDE DEF k
  <2>5. n.since + MaxRequests * RetryMs <= n.deadline /\ MaxRequests * RetryMs \in Nat
    BY <2>4, Sizes
  <2> DEFINE all == MaxRequests * RetryMs
  <2>6. now >= n.since + all
    <3>1. n.since + all <= n.deadline /\ all \in Nat
      BY <2>5
    <3> HIDE DEF all, n
    <3> QED  BY <2>3, <2>4, <3>1
  <2> QED  BY <2>2, <2>6
<1> QED  BY <1>1, Invariant, PTL DEF Spec, NotToldEarly

\* Packets wait only in entries that are being resolved, and every such entry has one
\* (resolve_and_send, learn): none is left where no timer and no answer would find it.
THEOREM NothingStranded == Spec => []NoStranded
<1>1. IInv => NoStranded
  BY DEF IInv, Good, NoStranded
<1> QED  BY <1>1, Invariant, PTL

----------------------------------------------------------------------------
(* Where every packet is. *)

Ascending(s) == \A i, j \in DOMAIN s : i < j => s[i] < s[j]
Ordered(s, q) ==
    /\ Ascending(s) /\ Ascending(q)
    /\ \A a \in Range(s), b \in Range(q) : a < b

\* The books: s[ip] was sent and q[ip] waits for ip, owners were told of t, d was dropped,
\* out of g packets.
In(s, q, ip, x) == x \in Range(s[ip]) \/ x \in Range(q[ip])
Book(s, q, t, d, g) ==
    /\ s \in [Ips -> Seq(Nat)] /\ q \in [Ips -> Seq(Nat)] /\ g \in Nat
    /\ \A x : x \in 1 .. g <=> x \in t \/ x \in d \/ \E ip \in Ips : In(s, q, ip, x)
    /\ \A x : ~(x \in t /\ x \in d)
    /\ \A ip \in Ips, x \in 1 .. g : In(s, q, ip, x) => x \notin t /\ x \notin d
    /\ \A i, j \in Ips, x \in 1 .. g : In(s, q, i, x) /\ In(s, q, j, x) => i = j
    /\ \A ip \in Ips : Ordered(s[ip], q[ip])

\* What a sequence made of two, or cut short, holds.
LEMMA RangeConcat ==
    ASSUME NEW s \in Seq(Nat), NEW q \in Seq(Nat)
    PROVE  /\ s \o q \in Seq(Nat) /\ Range(s \o q) = Range(s) \cup Range(q)
           /\ Ordered(s, q) <=> Ascending(s \o q)
<1>1. /\ s \o q \in Seq(Nat) /\ DOMAIN (s \o q) = 1 .. Len(s) + Len(q)
      /\ \A i \in 1 .. Len(s) + Len(q) : (s \o q)[i] = IF i <= Len(s) THEN s[i] ELSE q[i - Len(s)]
      /\ DOMAIN s = 1 .. Len(s) /\ DOMAIN q = 1 .. Len(q) /\ Len(s) \in Nat /\ Len(q) \in Nat
  BY ConcatProperties, LenProperties
<1> DEFINE c == s \o q
<1>2. c \in Seq(Nat) /\ DOMAIN c = 1 .. Len(s) + Len(q)
  BY <1>1
<1>3. \A i \in 1 .. Len(s) : i \in DOMAIN c /\ c[i] = s[i]
  BY <1>1
<1>4. \A i \in 1 .. Len(q) : Len(s) + i \in DOMAIN c /\ c[Len(s) + i] = q[i]
  <2> TAKE i \in 1 .. Len(q)
  <2>1. Len(s) + i \in 1 .. Len(s) + Len(q) /\ ~(Len(s) + i <= Len(s)) /\ (Len(s) + i) - Len(s) = i
    BY <1>1
  <2> QED BY <1>1, <2>1
<1>5. \A k \in DOMAIN c : k \in 1 .. Len(s) \/ \E i \in 1 .. Len(q) : k = Len(s) + i
  <2> TAKE k \in DOMAIN c
  <2>1. k \in 1 .. Len(s) \/ (k - Len(s) \in 1 .. Len(q) /\ k = Len(s) + (k - Len(s)))
    BY <1>1, <1>2
  <2> QED BY <2>1
<1> HIDE DEF c
<1>6. Range(c) = Range(s) \cup Range(q)
  <2>1. \A x \in Range(c) : x \in Range(s) \cup Range(q)
    <3> SUFFICES ASSUME NEW k \in DOMAIN c PROVE c[k] \in Range(s) \cup Range(q)
      BY DEF Range
    <3>1. CASE k \in 1 .. Len(s)
      BY <1>1, <1>3, <3>1 DEF Range
    <3>2. ASSUME NEW i \in 1 .. Len(q), k = Len(s) + i PROVE c[k] \in Range(q)
      BY <1>1, <1>4, <3>2 DEF Range
    <3> QED BY <1>5, <3>1, <3>2
  <2>2. \A x \in Range(s) : x \in Range(c)
    BY <1>1, <1>3 DEF Range
  <2>3. \A x \in Range(q) : x \in Range(c)
    BY <1>1, <1>4 DEF Range
  <2> QED BY <2>1, <2>2, <2>3
<1>7. ASSUME Ordered(s, q) PROVE Ascending(c)
  <2> SUFFICES ASSUME NEW i \in DOMAIN c, NEW j \in DOMAIN c, i < j PROVE c[i] < c[j]
    BY DEF Ascending
  <2>1. CASE i \in 1 .. Len(s) /\ j \in 1 .. Len(s)
    BY <1>1, <1>3, <1>7, <2>1 DEF Ordered, Ascending
  <2>2. CASE i \in 1 .. Len(s) /\ \E b \in 1 .. Len(q) : j = Len(s) + b
    <3>1. PICK b \in 1 .. Len(q) : j = Len(s) + b
      BY <2>2
    <3>2. c[i] = s[i] /\ c[j] = q[b] /\ s[i] \in Range(s) /\ q[b] \in Range(q)
      BY <1>1, <1>3, <1>4, <2>2, <3>1 DEF Range
    <3> QED BY <1>7, <3>2 DEF Ordered
  <2>3. CASE (\E a \in 1 .. Len(q) : i = Len(s) + a) /\ \E b \in 1 .. Len(q) : j = Len(s) + b
    <3>1. PICK a \in 1 .. Len(q) : i = Len(s) + a
      BY <2>3
    <3>2. PICK b \in 1 .. Len(q) : j = Len(s) + b
      BY <2>3
    <3>3. a < b
      BY <1>1, <3>1, <3>2
    <3>4. q[a] < q[b]
      BY <1>1, <1>7, <3>3 DEF Ordered, Ascending
    <3> QED BY <1>4, <3>1, <3>2, <3>4
  <2>4. ~(j \in 1 .. Len(s) /\ \E a \in 1 .. Len(q) : i = Len(s) + a)
    BY <1>1
  <2> QED BY <1>5, <2>1, <2>2, <2>3, <2>4
<1>8. ASSUME Ascending(c) PROVE Ordered(s, q)
  <2>1. Ascending(s)
    BY <1>1, <1>3, <1>8 DEF Ascending
  <2>2. Ascending(q)
    <3> SUFFICES ASSUME NEW a \in 1 .. Len(q), NEW b \in 1 .. Len(q), a < b PROVE q[a] < q[b]
      BY <1>1 DEF Ascending
    <3>1. Len(s) + a \in DOMAIN c /\ Len(s) + b \in DOMAIN c /\ Len(s) + a < Len(s) + b
      BY <1>1, <1>4
    <3>2. c[Len(s) + a] < c[Len(s) + b]
      BY <1>8, <3>1 DEF Ascending
    <3> QED BY <1>4, <3>2
  <2>3. \A a \in 1 .. Len(s), b \in 1 .. Len(q) : s[a] < q[b]
    <3> TAKE a \in 1 .. Len(s), b \in 1 .. Len(q)
    <3>1. a \in DOMAIN c /\ Len(s) + b \in DOMAIN c /\ a < Len(s) + b
      BY <1>1, <1>3, <1>4
    <3>2. c[a] < c[Len(s) + b]
      BY <1>8, <3>1 DEF Ascending
    <3> QED BY <1>3, <1>4, <3>2
  <2> QED BY <1>1, <2>1, <2>2, <2>3 DEF Ordered, Range
<1> QED BY <1>2, <1>6, <1>7, <1>8 DEF c

\* What leaves of a queue is in it, in its order.
LEMMA WentPart ==
    ASSUME NEW q \in Seq(Nat), NEW room \in Int
    PROVE  /\ Went(q, room) \in Seq(Nat) /\ Range(Went(q, room)) \subseteq Range(q)
           /\ Ascending(q) => Ascending(Went(q, room))
<1> DEFINE n == Least(Len(q), room)
           w == SubSeq(q, 1, n)
<1>1. Len(q) \in Nat /\ DOMAIN q = 1 .. Len(q)
  BY LenProperties
<1>2. n \in Int /\ n <= Len(q)
  BY <1>1 DEF Least
<1>3. \A i \in 1 .. n : i \in 1 .. Len(q) /\ q[i] \in Nat
  BY <1>1, <1>2, ElementOfSeq
<1> HIDE DEF n
<1>4. w \in Seq(Nat) /\ DOMAIN w = 1 .. n /\ \A i \in 1 .. n : w[i] = q[i]
  BY <1>2, <1>3, SubSeqProperties
<1>5. Went(q, room) = w
  BY DEF Went, n
<1> HIDE DEF w
<1>6. Range(w) \subseteq Range(q)
  BY <1>1, <1>3, <1>4 DEF Range
<1>7. Ascending(q) => Ascending(w)
  BY <1>1, <1>2, <1>3, <1>4 DEF Ascending
<1> QED BY <1>4, <1>5, <1>6, <1>7

\* One packet more behind a sequence of earlier ones.
LEMMA OneBehind ==
    ASSUME NEW s \in Seq(Nat), NEW p \in Nat, \A x \in Range(s) : x < p, Ascending(s)
    PROVE  /\ Append(s, p) = s \o <<p>> /\ Append(s, p) \in Seq(Nat) /\ Ascending(Append(s, p))
           /\ \A x : x \in Range(Append(s, p)) <=> x \in Range(s) \/ x = p
<1>1. <<p>> \in Seq(Nat) /\ Range(<<p>>) = {p} /\ Ascending(<<p>>)
  BY DEF Range, Ascending
<1>2. Append(s, p) = s \o <<p>>
  OBVIOUS
<1> DEFINE one == <<p>>
<1> HIDE DEF one
<1>3. one \in Seq(Nat) /\ Range(one) = {p} /\ Ascending(one)
  BY <1>1 DEF one
<1>4. Ordered(s, one)
  BY <1>3 DEF Ordered
<1>5. s \o one \in Seq(Nat) /\ Range(s \o one) = Range(s) \cup Range(one) /\ Ascending(s \o one)
  BY <1>3, <1>4, RangeConcat
<1> QED BY <1>2, <1>3, <1>5 DEF one

\* The next packet is dropped at once.
LEMMA BookDropped ==
    ASSUME NEW s, NEW q, NEW t, NEW d, NEW g, Book(s, q, t, d, g), NEW d2, \A x : x \in d2 <=> x \in d \/ x = g + 1
    PROVE  Book(s, q, t, d2, g + 1)
<1>1. g \in Nat /\ \A x : x \in 1 .. g + 1 <=> x \in 1 .. g \/ x = g + 1
  BY DEF Book
<1>2. g + 1 \notin 1 .. g /\ g + 1 \in Nat
  BY <1>1
<1>3. \A x : x \in 1 .. g <=> x \in t \/ x \in d \/ \E ip \in Ips : In(s, q, ip, x)
  BY DEF Book
<1>4. \A x : x \in 1 .. g + 1 <=> x \in t \/ x \in d2 \/ \E ip \in Ips : In(s, q, ip, x)
  BY <1>1, <1>3
<1>5. \A x : ~(x \in t /\ x \in d2)
  BY <1>2, <1>3 DEF Book
<1>6. \A ip \in Ips, x \in 1 .. g + 1 : In(s, q, ip, x) => x \in 1 .. g
  BY <1>3
<1>7. \A ip \in Ips, x \in 1 .. g + 1 : In(s, q, ip, x) => x \notin t /\ x \notin d2
  BY <1>2, <1>6 DEF Book
<1>8. \A i, j \in Ips, x \in 1 .. g + 1 : In(s, q, i, x) /\ In(s, q, j, x) => i = j
  BY <1>6 DEF Book
<1> QED BY <1>2, <1>4, <1>5, <1>7, <1>8 DEF Book

\* The next packet is sent to ip or waits for it.
LEMMA BookPlaced ==
    ASSUME NEW s, NEW q, NEW t, NEW d, NEW g, Book(s, q, t, d, g), NEW ip \in Ips,
           NEW s2 \in [Ips -> Seq(Nat)], NEW q2 \in [Ips -> Seq(Nat)],
           \A i \in Ips : \A x : In(s2, q2, i, x) <=> In(s, q, i, x) \/ (i = ip /\ x = g + 1),
           \A i \in Ips : Ordered(s2[i], q2[i])
    PROVE  Book(s2, q2, t, d, g + 1)
<1>1. g \in Nat /\ \A x : x \in 1 .. g + 1 <=> x \in 1 .. g \/ x = g + 1
  BY DEF Book
<1>2. g + 1 \notin 1 .. g /\ g + 1 \in Nat
  BY <1>1
<1>3. \A x : x \in 1 .. g <=> x \in t \/ x \in d \/ \E i \in Ips : In(s, q, i, x)
  BY DEF Book
<1>4. \A x : x \in 1 .. g + 1 <=> x \in t \/ x \in d \/ \E i \in Ips : In(s2, q2, i, x)
  BY <1>1, <1>3
<1>5. \A x : ~(x \in t /\ x \in d)
  BY DEF Book
<1>6. \A i \in Ips, x \in 1 .. g + 1 : In(s2, q2, i, x) => x \notin t /\ x \notin d
  BY <1>2, <1>3 DEF Book
<1>7. \A i, j \in Ips, x \in 1 .. g + 1 : In(s2, q2, i, x) /\ In(s2, q2, j, x) => i = j
  <2> TAKE i, j \in Ips, x \in 1 .. g + 1
  <2>1. CASE x = g + 1
    BY <1>2, <1>3, <2>1
  <2>2. CASE x # g + 1
    BY <1>1, <2>2 DEF Book
  <2> QED BY <2>1, <2>2
<1> QED BY <1>2, <1>4, <1>5, <1>6, <1>7 DEF Book

\* x is taken out of a queue.
Taken(s, q, s2, q2, x) == \E i \in Ips : In(s, q, i, x) /\ ~In(s2, q2, i, x)

\* The books stay right when packets leave queues and are told of or dropped.
LEMMA BookTaken ==
    ASSUME NEW s, NEW q, NEW t, NEW d, NEW g, Book(s, q, t, d, g),
           NEW s2 \in [Ips -> Seq(Nat)], NEW q2 \in [Ips -> Seq(Nat)], NEW t2, NEW d2,
           \A i \in Ips : \A x : In(s2, q2, i, x) => In(s, q, i, x),
           \A i \in Ips : Ordered(s2[i], q2[i]),
           \/ t2 = t /\ \A x : x \in d2 <=> x \in d \/ Taken(s, q, s2, q2, x)
           \/ d2 = d /\ \A x : x \in t2 <=> x \in t \/ Taken(s, q, s2, q2, x)
    PROVE  Book(s2, q2, t2, d2, g)
<1>1. \A x : x \in 1 .. g <=> x \in t \/ x \in d \/ \E i \in Ips : In(s, q, i, x)
  BY DEF Book
<1>2. \A x : x \in 1 .. g <=> x \in t2 \/ x \in d2 \/ \E i \in Ips : In(s2, q2, i, x)
  BY <1>1 DEF Taken
<1>3. \A x : Taken(s, q, s2, q2, x) => x \in 1 .. g /\ x \notin t /\ x \notin d
  BY <1>1 DEF Taken, Book
<1>4. \A x : ~(x \in t2 /\ x \in d2)
  BY <1>3 DEF Book
<1>5. \A i \in Ips, x \in 1 .. g : In(s2, q2, i, x) => ~Taken(s, q, s2, q2, x)
  BY DEF Taken, Book
<1>6. \A i \in Ips, x \in 1 .. g : In(s2, q2, i, x) => x \notin t2 /\ x \notin d2
  BY <1>5 DEF Book
<1>7. \A i, j \in Ips, x \in 1 .. g : In(s2, q2, i, x) /\ In(s2, q2, j, x) => i = j
  BY DEF Book
<1> QED BY <1>2, <1>4, <1>6, <1>7 DEF Book

\* What the books say of one entry's packets.
LEMMA BookParts ==
    ASSUME NEW s, NEW q, NEW t, NEW d, NEW g, Book(s, q, t, d, g), NEW ip \in Ips
    PROVE  /\ s[ip] \in Seq(Nat) /\ q[ip] \in Seq(Nat) /\ g \in Nat /\ g + 1 \in Nat
           /\ Ascending(s[ip]) /\ Ascending(q[ip]) /\ Ordered(s[ip], q[ip])
           /\ \A x \in Range(s[ip]) : x < g + 1
           /\ \A x \in Range(q[ip]) : x < g + 1
<1>1. g \in Nat /\ \A x : In(s, q, ip, x) => x \in 1 .. g
  BY DEF Book
<1>2. \A x \in 1 .. g : x < g + 1
  BY <1>1
<1> QED BY <1>1, <1>2 DEF Book, Ordered, In

\* The empty sequence.
LEMMA Empty ==
    /\ <<>> \in Seq(Nat) /\ Ascending(<<>>) /\ \A x : x \notin Range(<<>>)
    /\ \A s : Ascending(s) => Ordered(s, <<>>)
BY DEF Ascending, Ordered, Range

\* The next packet waits for ip behind the others (resolve_and_send, Incomplete).
LEMMA BookQueued ==
    ASSUME NEW s, NEW q, NEW t, NEW d, NEW g, Book(s, q, t, d, g), NEW ip \in Ips,
           NEW q2, q2 = [q EXCEPT ![ip] = Append(q[ip], g + 1)]
    PROVE  Book(s, q2, t, d, g + 1)
<1> DEFINE a == Append(q[ip], g + 1)
<1>1. s \in [Ips -> Seq(Nat)] /\ q \in [Ips -> Seq(Nat)]
  BY DEF Book
<1>2. a \in Seq(Nat) /\ Ascending(a) /\ \A x : x \in Range(a) <=> x \in Range(q[ip]) \/ x = g + 1
  BY BookParts, OneBehind
<1> HIDE DEF a
<1>3. q2 \in [Ips -> Seq(Nat)] /\ q2[ip] = a /\ \A i \in Ips : i # ip => q2[i] = q[i]
  BY <1>1, <1>2 DEF a
<1>4. \A i \in Ips : \A x : In(s, q2, i, x) <=> In(s, q, i, x) \/ (i = ip /\ x = g + 1)
  BY <1>2, <1>3 DEF In
<1>5. \A i \in Ips : Ordered(s[i], q2[i])
  <2>1. /\ Ordered(s[ip], q[ip]) /\ \A x \in Range(s[ip]) : x < g + 1
        /\ \A i \in Ips : Ordered(s[i], q[i])
    <3>1. \A i \in Ips : Ordered(s[i], q[i])
      BY DEF Book
    <3> QED BY <3>1, BookParts
  <2>2. Ordered(s[ip], a)
    BY <1>2, <2>1 DEF Ordered
  <2> QED BY <1>3, <2>1, <2>2
<1> QED BY <1>1, <1>3, <1>4, <1>5, BookPlaced

\* The next packet goes straight to ip, for which none waits (resolve_and_send, emit).
LEMMA BookSent ==
    ASSUME NEW s, NEW q, NEW t, NEW d, NEW g, Book(s, q, t, d, g), NEW ip \in Ips, q[ip] = <<>>,
           NEW s2, s2 = [s EXCEPT ![ip] = Append(s[ip], g + 1)]
    PROVE  Book(s2, q, t, d, g + 1)
<1> DEFINE a == Append(s[ip], g + 1)
<1>1. s \in [Ips -> Seq(Nat)] /\ q \in [Ips -> Seq(Nat)]
  BY DEF Book
<1>2. a \in Seq(Nat) /\ Ascending(a) /\ \A x : x \in Range(a) <=> x \in Range(s[ip]) \/ x = g + 1
  BY BookParts, OneBehind
<1> HIDE DEF a
<1>3. s2 \in [Ips -> Seq(Nat)] /\ s2[ip] = a /\ \A i \in Ips : i # ip => s2[i] = s[i]
  BY <1>1, <1>2 DEF a
<1>4. \A i \in Ips : \A x : In(s2, q, i, x) <=> In(s, q, i, x) \/ (i = ip /\ x = g + 1)
  BY <1>2, <1>3 DEF In
<1>5. \A i \in Ips : Ordered(s2[i], q[i])
  <2>1. Ordered(a, q[ip])
    BY <1>2, Empty
  <2>2. \A i \in Ips : Ordered(s[i], q[i])
    BY DEF Book
  <2> QED BY <1>3, <2>1, <2>2
<1> QED BY <1>1, <1>3, <1>4, <1>5, BookPlaced

\* All that waits for ip leaves its entry, w of it in frames (learn).
LEMMA BookFlushed ==
    ASSUME NEW s, NEW q, NEW t, NEW d, NEW g, Book(s, q, t, d, g), NEW ip \in Ips,
           NEW w \in Seq(Nat), Range(w) \subseteq Range(q[ip]), Ascending(w),
           NEW s2, s2 = [s EXCEPT ![ip] = s[ip] \o w],
           NEW q2, q2 = [q EXCEPT ![ip] = <<>>],
           NEW d2, d2 = d \cup (Range(q[ip]) \ Range(w))
    PROVE  Book(s2, q2, t, d2, g)
<1> DEFINE c == s[ip] \o w
<1>1. s \in [Ips -> Seq(Nat)] /\ q \in [Ips -> Seq(Nat)]
  BY DEF Book
<1>2. s[ip] \in Seq(Nat) /\ Ordered(s[ip], q[ip])
  BY BookParts
<1>3. Ordered(s[ip], w)
  BY <1>2 DEF Ordered
<1>4. c \in Seq(Nat) /\ Ascending(c) /\ Range(c) = Range(s[ip]) \cup Range(w)
  BY <1>2, <1>3, RangeConcat
<1> HIDE DEF c
<1>5. s2 \in [Ips -> Seq(Nat)] /\ s2[ip] = c /\ \A i \in Ips : i # ip => s2[i] = s[i]
  BY <1>1, <1>4 DEF c
<1>6. q2 \in [Ips -> Seq(Nat)] /\ q2[ip] = <<>> /\ \A i \in Ips : i # ip => q2[i] = q[i]
  BY <1>1, Empty
<1>7. \A x : In(s2, q2, ip, x) <=> x \in Range(s[ip]) \/ x \in Range(w)
  BY <1>4, <1>5, <1>6, Empty DEF In
<1>8. \A i \in Ips : i # ip => \A x : In(s2, q2, i, x) <=> In(s, q, i, x)
  BY <1>5, <1>6 DEF In
<1>9. \A i \in Ips : \A x : In(s2, q2, i, x) => In(s, q, i, x)
  BY <1>7, <1>8 DEF In
<1>10. \A i \in Ips : Ordered(s2[i], q2[i])
  BY <1>4, <1>5, <1>6, Empty, BookParts
<1>11. \A x \in Range(q[ip]) : x \notin Range(s[ip])
  <2> SUFFICES ASSUME NEW x \in Range(q[ip]), x \in Range(s[ip]) PROVE FALSE
    OBVIOUS
  <2>1. x \in 1 .. g
    BY DEF Book, In
  <2>2. x < x
    BY <1>2 DEF Ordered
  <2> QED BY <2>1, <2>2
<1>12. \A x : Taken(s, q, s2, q2, x) <=> x \in Range(q[ip]) \ Range(w)
  <2> TAKE x
  <2>1. Taken(s, q, s2, q2, x) <=> In(s, q, ip, x) /\ ~In(s2, q2, ip, x)
    BY <1>8 DEF Taken
  <2> QED BY <2>1, <1>7, <1>11 DEF In
<1>13. \A x : x \in d2 <=> x \in d \/ Taken(s, q, s2, q2, x)
  BY <1>12
<1>14. s2 \in [Ips -> Seq(Nat)] /\ q2 \in [Ips -> Seq(Nat)]
  BY <1>5, <1>6
<1> QED BY <1>9, <1>10, <1>13, <1>14, BookTaken, Zenon

\* The queues of the next hops in S are emptied, and their packets told of or dropped
\* (neighbor_timers, and whatever clears the table).
LEMMA BookEmptied ==
    ASSUME NEW s, NEW q, NEW t, NEW d, NEW g, Book(s, q, t, d, g), NEW S, S \subseteq Ips,
           NEW q2 \in [Ips -> Seq(Nat)], \A i \in Ips : q2[i] = IF i \in S THEN <<>> ELSE q[i],
           NEW X, \A x : x \in X <=> \E i \in S : x \in Range(q[i])
    PROVE  Book(s, q2, t \cup X, d, g) /\ Book(s, q2, t, d \cup X, g)
<1>1. s \in [Ips -> Seq(Nat)]
  BY DEF Book
<1>2. \A i \in S : \A x : In(s, q2, i, x) <=> x \in Range(s[i])
  BY Empty DEF In
<1>3. \A i \in Ips \ S : \A x : In(s, q2, i, x) <=> In(s, q, i, x)
  BY DEF In
<1>4. \A i \in Ips : \A x : In(s, q2, i, x) => In(s, q, i, x)
  BY <1>2, <1>3 DEF In
<1>5. \A i \in Ips : Ordered(s[i], q2[i])
  <2> TAKE i \in Ips
  <2>1. CASE i \in S
    BY <2>1, BookParts, Empty
  <2>2. CASE i \notin S
    BY <2>2, BookParts
  <2> QED BY <2>1, <2>2
<1>6. \A i \in Ips : \A x \in Range(q[i]) : x \notin Range(s[i])
  <2> SUFFICES ASSUME NEW i \in Ips, NEW x \in Range(q[i]), x \in Range(s[i]) PROVE FALSE
    OBVIOUS
  <2>1. x \in 1 .. g
    BY DEF Book, In
  <2>2. x < x
    BY BookParts DEF Ordered
  <2> QED BY <2>1, <2>2
<1>7. \A x : Taken(s, q, s, q2, x) <=> x \in X
  <2> TAKE x
  <2>1. ASSUME Taken(s, q, s, q2, x) PROVE x \in X
    <3>1. PICK i \in Ips : In(s, q, i, x) /\ ~In(s, q2, i, x)
      BY <2>1 DEF Taken
    <3>2. i \in S
      BY <1>3, <3>1
    <3> QED BY <3>1, <3>2 DEF In
  <2>2. ASSUME x \in X PROVE Taken(s, q, s, q2, x)
    <3>1. PICK i \in S : x \in Range(q[i])
      BY <2>2
    <3>2. In(s, q, i, x) /\ ~In(s, q2, i, x) /\ i \in Ips
      BY <1>2, <1>6, <3>1 DEF In
    <3> QED BY <3>2 DEF Taken
  <2> QED BY <2>1, <2>2
<1>8. (\A x : x \in d \cup X <=> x \in d \/ Taken(s, q, s, q2, x)) /\ \A x : x \in t \cup X <=> x \in t \/ Taken(s, q, s, q2, x)
  BY <1>7
<1>9. Book(s, q2, t \cup X, d, g)
  BY <1>1, <1>4, <1>5, <1>8, BookTaken
<1>10. Book(s, q2, t, d \cup X, g)
  BY <1>1, <1>4, <1>5, <1>8, BookTaken
<1> QED BY <1>9, <1>10

----------------------------------------------------------------------------
(* Every step keeps the books. *)

Pend(f) == [ip \in Ips |-> f[ip].pending]
Books == txlen \in Int /\ Book(sent, Pend(table), told, dropped, given)

\* An entry that is not being resolved for the first time holds no packets.
LEMMA PendNone ==
    ASSUME IInv, NEW ip \in Ips, table[ip].state # "Incomplete"
    PROVE  table[ip].pending = <<>> /\ Pend(table)[ip] = <<>>
BY DEF IInv, Good, Pend

\* Inserting an entry disturbs no other entry's packets: its victim held none (evict).
LEMMA PendInserted ==
    ASSUME IInv, NEW ip \in Ips, NEW m, Inserted(ip, m)
    PROVE  Pend(table') = [Pend(table) EXCEPT ![ip] = m.pending]
<1>1. DOMAIN table = Ips
  BY DEF IInv
<1>2. CASE table' = [table EXCEPT ![ip] = m]
  BY <1>1, <1>2 DEF Pend
<1>3. ASSUME NEW v \in Known, Evictable(v), table' = [table EXCEPT ![v] = NoEntry, ![ip] = m]
      PROVE  Pend(table') = [Pend(table) EXCEPT ![ip] = m.pending]
  <2> DEFINE f == [table EXCEPT ![v] = NoEntry]
  <2>1. v \in Ips /\ table[v].pending = <<>>
    BY <1>3, PendNone DEF Known, Evictable, Waits
  <2>2. Pend(f) = [Pend(table) EXCEPT ![v] = NoEntry.pending]
    BY <1>1, <2>1 DEF Pend
  <2>3. Pend(f) = Pend(table)
    BY <2>1, <2>2 DEF Pend, NoEntry
  <2>4. DOMAIN f = Ips /\ table' = [f EXCEPT ![ip] = m]
    BY <1>1, <1>3
  <2> HIDE DEF f
  <2>5. Pend(table') = [Pend(f) EXCEPT ![ip] = m.pending]
    BY <2>4 DEF Pend
  <2> QED BY <2>3, <2>5
<1> QED BY <1>2, <1>3 DEF Inserted

\* The room in the transmit queue is a number, and so is what is left of it.
LEMMA RoomType ==
    ASSUME txlen \in Int
    PROVE  Room \in Int /\ \A k \in Int : Least(k, Room) \in Int /\ Room - Least(k, Room) \in Int
<1>1. TxQueueLen \in Int
  BY SizesAssumption
<1>2. Room \in Int
  BY <1>1 DEF Room
<1> QED BY <1>2 DEF Least

\* A frame by itself is queued or lost.
LEMMA WentOne ==
    ASSUME NEW p \in Nat, NEW room \in Int
    PROVE  Went(<<p>>, room) = <<p>> \/ Went(<<p>>, room) = <<>>
<1>1. Len(<<p>>) = 1
  OBVIOUS
<1>0. SubSeq(<<p>>, 1, 1) = <<p>>
  <2> DEFINE s == <<p>>
  <2>1. s \in Seq(Nat) /\ Len(s) = 1
    OBVIOUS
  <2> HIDE DEF s
  <2>2. SubSeq(s, 1, Len(s)) = s
    BY <2>1, SubSeqFull
  <2> QED BY <2>1, <2>2 DEF s
<1>2. CASE 1 < room
  BY <1>0, <1>1, <1>2 DEF Went, Least
<1>3. CASE ~(1 < room) /\ room = 1
  BY <1>0, <1>1, <1>3 DEF Went, Least
<1>4. CASE ~(1 < room) /\ room < 1
  <2>1. Went(<<p>>, room) = SubSeq(<<p>>, 1, room)
    BY <1>1, <1>4 DEF Went, Least
  <2> QED BY <1>4, <2>1
<1> QED BY <1>2, <1>3, <1>4

\* A packet handed to emit is queued for transmission or dropped.
LEMMA EmitOne ==
    ASSUME Books, NEW ip \in Ips, NEW k \in Int, NEW p \in Nat, Emit(ip, k, <<p>>)
    PROVE  /\ txlen' \in Int
           /\ \/ sent' = [sent EXCEPT ![ip] = Append(sent[ip], p)] /\ dropped' = dropped
              \/ sent' = sent /\ dropped' = dropped \cup {p}
<1> DEFINE left == Room - Least(k, Room)
           out == Went(<<p>>, left)
<1>1. txlen \in Int /\ Least(k, Room) \in Int /\ left \in Int
  BY RoomType DEF Books
<1>2. /\ txlen' = txlen + Least(k, Room) + Len(out)
      /\ sent' = [sent EXCEPT ![ip] = sent[ip] \o out]
      /\ dropped' = dropped \cup (Range(<<p>>) \ Range(out))
  BY DEF Emit
<1>3. out = <<p>> \/ out = <<>>
  <2> HIDE DEF left
  <2> QED BY <1>1, WentOne
<1>4. sent \in [Ips -> Seq(Nat)] /\ sent[ip] \in Seq(Nat)
  BY DEF Books, Book
<1>5. Range(<<p>>) = {p} /\ Range(<<>>) = {} /\ Len(<<p>>) = 1 /\ Len(<<>>) = 0
  BY DEF Range
<1>6. Append(sent[ip], p) = sent[ip] \o <<p>> /\ sent[ip] \o <<>> = sent[ip]
  <2> DEFINE s == sent[ip]
  <2> HIDE DEF s
  <2>1. s \in Seq(Nat)
    BY <1>4 DEF s
  <2>2. Append(s, p) = s \o <<p>>
    BY <2>1
  <2>3. s \o <<>> = s
    BY <2>1, ConcatEmptySeq
  <2> QED BY <2>2, <2>3 DEF s
<1> HIDE DEF out
<1>7. CASE out = <<p>>
  BY <1>1, <1>2, <1>5, <1>6, <1>7
<1>8. CASE out = <<>>
  BY <1>1, <1>2, <1>4, <1>5, <1>6, <1>8
<1> QED BY <1>3, <1>7, <1>8

\* Other frames touch no packet.
LEMMA EmitNone ==
    ASSUME Books, NEW ip \in Ips, NEW k \in Int, Emit(ip, k, <<>>)
    PROVE  txlen' \in Int /\ sent' = sent /\ dropped' = dropped
<1> DEFINE left == Room - Least(k, Room)
           out == Went(<<>>, left)
<1>1. txlen \in Int /\ Least(k, Room) \in Int /\ left \in Int
  BY RoomType DEF Books
<1>2. /\ txlen' = txlen + Least(k, Room) + Len(out)
      /\ sent' = [sent EXCEPT ![ip] = sent[ip] \o out]
      /\ dropped' = dropped \cup (Range(<<>>) \ Range(out))
  BY DEF Emit
<1>3. out \in Seq(Nat) /\ Range(out) \subseteq Range(<<>>)
  <2> HIDE DEF left
  <2> QED BY <1>1, Empty, WentPart
<1> HIDE DEF out
<1>4. out = <<>>
  <2>1. Len(out) \in Nat /\ DOMAIN out = 1 .. Len(out) /\ \A i \in DOMAIN out : FALSE
    BY <1>3, LenProperties, Empty DEF Range
  <2>2. Len(out) = 0
    BY <2>1
  <2> QED BY <1>3, <2>2, EmptySeq
<1>5. sent \in [Ips -> Seq(Nat)] /\ sent[ip] \in Seq(Nat) /\ sent[ip] \o <<>> = sent[ip]
  BY DEF Books, Book
<1>6. Len(<<>>) = 0 /\ Range(<<>>) = {}
  BY DEF Range
<1> QED BY <1>1, <1>2, <1>4, <1>5, <1>6

\* Sending a packet (resolve_and_send).
LEMMA SendBooks ==
    ASSUME IInv, Books, NEW ip \in Ips, resolve_and_send(ip)
    PROVE  Books'
<1> DEFINE n == table[ip]
           p == given + 1
           q == Pend(table)
           q2 == Pend(table')
<1>1. /\ n \in EntryRec /\ n.pending \in Seq(Nat) /\ table \in [Ips -> EntryRec]
      /\ q[ip] = n.pending /\ DOMAIN q = Ips
      /\ given \in Nat /\ p \in Nat /\ txlen \in Int /\ Book(sent, q, told, dropped, given)
  BY DEF IInv, EntryRec, Books, Pend
<1>2. given' = p /\ told' = told
  BY DEF resolve_and_send
<1>3. SUFFICES txlen' \in Int /\ Book(sent', q2, told, dropped', p)
  BY <1>2, <1>3 DEF Books, Pend
<1>4. ASSUME Queue(ip, p) PROVE txlen' \in Int /\ Book(sent', q2, told, dropped', p)
  <2> DEFINE a == IF HasSpace(n) THEN Append(n.pending, p) ELSE n.pending
  <2>1. table' = [table EXCEPT ![ip] = Touched(n, a)] /\ sent' = sent /\ txlen' = txlen
    BY <1>4 DEF Queue
  <2>2. Touched(n, a).pending = a
    BY <1>1 DEF Touched, EntryRec
  <2>3. q2 = [q EXCEPT ![ip] = a]
    BY <1>1, <2>1, <2>2 DEF Pend
  <2>4. CASE HasSpace(n)
    <3>1. q2 = [q EXCEPT ![ip] = Append(q[ip], p)] /\ dropped' = dropped
      BY <1>1, <1>4, <2>3, <2>4 DEF Queue
    <3> HIDE DEF q, q2
    <3>2. Book(sent, q2, told, dropped, p)
      BY <1>1, <3>1, BookQueued
    <3> QED BY <1>1, <2>1, <3>1, <3>2
  <2>5. CASE ~HasSpace(n)
    <3>0. q2 = q
      BY <1>1, <2>3, <2>5 DEF Pend
    <3>1. q2 = q /\ dropped' = dropped \cup {p}
      BY <1>4, <2>5, <3>0 DEF Queue
    <3>2. \A x : x \in dropped' <=> x \in dropped \/ x = given + 1
      BY <3>1
    <3> HIDE DEF q, q2
    <3>3. Book(sent, q, told, dropped', p)
      BY <1>1, <3>2, BookDropped
    <3> QED BY <1>1, <2>1, <3>1, <3>3
  <2> QED BY <2>4, <2>5
<1>5. ASSUME q2 = q, q[ip] = <<>>, NEW k \in Int, Emit(ip, k, <<p>>)
      PROVE  txlen' \in Int /\ Book(sent', q2, told, dropped', p)
  <2> HIDE DEF q, q2
  <2>1. txlen' \in Int
    BY <1>1, <1>5, EmitOne
  <2>2. CASE sent' = [sent EXCEPT ![ip] = Append(sent[ip], p)] /\ dropped' = dropped
    <3>1. Book(sent', q, told, dropped, p)
      BY <1>1, <1>5, <2>2, BookSent
    <3> QED BY <1>5, <2>1, <2>2, <3>1
  <2>3. CASE sent' = sent /\ dropped' = dropped \cup {p}
    <3>1. \A x : x \in dropped' <=> x \in dropped \/ x = given + 1
      BY <2>3
    <3>2. Book(sent, q, told, dropped', p)
      BY <1>1, <3>1, BookDropped
    <3> QED BY <1>5, <2>1, <2>3, <3>2
  <2> QED BY <1>1, <1>5, <2>2, <2>3, EmitOne
<1>6. CASE Direct(ip, p)
  <2>1. q[ip] = <<>>
    BY <1>6, PendNone DEF Direct, Usable
  <2>2. q2 = q
    <3>1. Touched(n, n.pending).pending = n.pending
      BY <1>1 DEF Touched, EntryRec
    <3> QED BY <1>1, <1>6, <3>1 DEF Direct, Pend
  <2>3. Emit(ip, 0, <<p>>) /\ 0 \in Int
    BY <1>6 DEF Direct
  <2> HIDE DEF q, q2
  <2> QED BY <1>5, <2>1, <2>2, <2>3
<1>7. CASE Reprobe(ip, p)
  <2>1. q[ip] = <<>>
    BY <1>7, PendNone DEF Reprobe, Aged
  <2>2. q2 = q
    <3>1. Probed(n).pending = n.pending
      BY <1>1 DEF Probed, EntryRec
    <3> QED BY <1>1, <1>7, <3>1 DEF Reprobe, Pend
  <2>3. Emit(ip, 1, <<p>>) /\ 1 \in Int
    BY <1>7 DEF Reprobe
  <2> HIDE DEF q, q2
  <2> QED BY <1>5, <2>1, <2>2, <2>3
<1>8. CASE Resolve(ip, p)
  <2>1. q[ip] = <<>>
    BY <1>8, PendNone DEF Resolve, Known
  <2>2. q2 = [q EXCEPT ![ip] = <<p>>]
    <3>1. Fresh(p).pending = <<p>> /\ Inserted(ip, Fresh(p))
      BY <1>8 DEF Fresh, Resolve
    <3> QED BY <3>1, PendInserted
  <2>3. txlen' \in Int /\ sent' = sent /\ dropped' = dropped
    BY <1>8, EmitNone DEF Resolve
  <2> HIDE DEF q, q2
  <2>4. q2 = [q EXCEPT ![ip] = Append(q[ip], p)]
    <3>1. Append(<<>>, p) = <<p>>
      OBVIOUS
    <3> QED BY <2>1, <2>2, <3>1
  <2>5. Book(sent, q2, told, dropped, p)
    BY <1>1, <2>4, BookQueued
  <2> QED BY <2>3, <2>5
<1>9. CASE Refused(ip, p)
  <2>1. q2 = q /\ sent' = sent /\ txlen' = txlen /\ dropped' = dropped \cup {p}
    BY <1>9 DEF Refused, Pend
  <2>2. \A x : x \in dropped' <=> x \in dropped \/ x = given + 1
    BY <2>1
  <2> HIDE DEF q, q2
  <2>3. Book(sent, q, told, dropped', p)
    BY <1>1, <2>2, BookDropped
  <2> QED BY <1>1, <2>1, <2>3
<1> QED BY <1>4, <1>6, <1>7, <1>8, <1>9 DEF resolve_and_send

\* Receiving an ARP packet (rx_arp, learn): all that waited leaves, or is dropped for want of room.
LEMMA ArpBooks ==
    ASSUME IInv, Books, NEW ip \in Ips, NEW for_us \in BOOLEAN, NEW request \in BOOLEAN, rx_arp(ip, for_us, request)
    PROVE  Books'
<1> DEFINE n == table[ip]
           k == IF for_us /\ request THEN 1 ELSE 0
           q == Pend(table)
           q2 == Pend(table')
           w == Went(n.pending, Room)
<1>1. /\ n \in EntryRec /\ n.pending \in Seq(Nat) /\ table \in [Ips -> EntryRec]
      /\ q[ip] = n.pending /\ DOMAIN q = Ips /\ k \in Nat
      /\ txlen \in Int /\ Book(sent, q, told, dropped, given)
  BY DEF IInv, EntryRec, Books, Pend
<1>2. given' = given /\ told' = told /\ learn(ip, for_us, k)
  BY DEF rx_arp
<1>3. SUFFICES txlen' \in Int /\ Book(sent', q2, told, dropped', given)
  BY <1>2, <1>3 DEF Books, Pend
<1>4. CASE /\ ip \in Known
           /\ table' = [table EXCEPT ![ip] = Learned(n)]
           /\ sent' = [sent EXCEPT ![ip] = sent[ip] \o w]
           /\ dropped' = dropped \cup (Range(n.pending) \ Range(w))
           /\ txlen' = txlen + Least(Len(n.pending) + k, Room)
  <2>1. Len(n.pending) + k \in Int
    BY <1>1, LenProperties
  <2>2. txlen' \in Int
    <3> DEFINE l == Len(n.pending) + k
    <3> HIDE DEF l
    <3>1. Least(l, Room) \in Int
      BY <1>1, <2>1, RoomType DEF l
    <3>2. txlen' = txlen + Least(l, Room)
      BY <1>4 DEF l
    <3> QED BY <1>1, <3>1, <3>2
  <2>3. Learned(n).pending = <<>>
    BY <1>1 DEF Learned, EntryRec
  <2>4. q2 = [q EXCEPT ![ip] = <<>>]
    BY <1>1, <1>4, <2>3 DEF Pend
  <2> HIDE DEF q, q2
  <2>5. Ascending(q[ip]) /\ Room \in Int
    BY <1>1, BookParts, RoomType
  <2>6. w \in Seq(Nat) /\ Range(w) \subseteq Range(q[ip]) /\ Ascending(w)
    BY <1>1, <2>5, WentPart
  <2> HIDE DEF w
  <2>7. Book(sent', q2, told, dropped', given)
    BY <1>1, <1>4, <2>4, <2>6, BookFlushed
  <2> QED BY <2>2, <2>7
<1>5. CASE /\ ip \notin Known
           /\ Inserted(ip, Touched(Learned(NoEntry), <<>>)) \/ UNCHANGED table
           /\ Emit(ip, k, <<>>)
  <2>1. q[ip] = <<>>
    BY <1>5, PendNone DEF Known
  <2>2. Touched(Learned(NoEntry), <<>>).pending = <<>>
    BY DEF Touched, Learned, NoEntry
  <2>3. q2 = q
    <3>1. CASE Inserted(ip, Touched(Learned(NoEntry), <<>>))
      <4>1. q2 = [q EXCEPT ![ip] = <<>>]
        BY <2>2, <3>1, PendInserted
      <4> HIDE DEF q, q2
      <4> QED BY <2>1, <4>1, <1>1 DEF Book
    <3>2. CASE UNCHANGED table
      BY <3>2
    <3> QED BY <1>5, <3>1, <3>2
  <2>4. txlen' \in Int /\ sent' = sent /\ dropped' = dropped
    <3> HIDE DEF k
    <3> QED BY <1>1, <1>5, EmitNone
  <2> QED BY <1>1, <2>3, <2>4
<1> QED BY <1>2, <1>4, <1>5 DEF learn

\* Running the timers (neighbor_timers): the owners of what an abandoned entry held are told.
LEMMA TimersBooks ==
    ASSUME IInv, Books, neighbor_timers
    PROVE  Books'
<1> DEFINE q == Pend(table)
           q2 == Pend(table')
           S == {i \in Ips : GivesUp(i)}
           X == UNION {Range(table[ip].pending) : ip \in S}
           k == Cardinality({ip \in Ips : Due(ip) /\ ~GivesUp(ip)})
<1>1. Book(sent, q, told, dropped, given) /\ txlen \in Int /\ table \in [Ips -> EntryRec]
  BY DEF Books, IInv
<1>2. q \in [Ips -> Seq(Nat)]
  BY <1>1 DEF Book
<1>3. ASSUME NEW i \in Ips PROVE q2[i] = IF i \in S THEN <<>> ELSE q[i]
  <2> DEFINE n == table[i]
  <2>0. n \in EntryRec /\ q2[i] = table'[i].pending /\ q[i] = n.pending
    BY <1>1 DEF Pend
  <2>1. CASE GivesUp(i)
    BY <2>0, <2>1 DEF neighbor_timers, NoEntry
  <2>2. CASE ~GivesUp(i) /\ Due(i)
    <3>1. table'[i] = Retried(n)
      BY <2>2 DEF neighbor_timers
    <3>2. Retried(n).pending = n.pending
      BY <2>0 DEF Retried, EntryRec
    <3> QED BY <2>0, <2>2, <3>1, <3>2
  <2>3. CASE ~GivesUp(i) /\ ~Due(i) /\ n.state = "Reachable" /\ Overdue(n)
    <3>1. table'[i] = [n EXCEPT !.state = "Stale"]
      BY <2>3 DEF neighbor_timers
    <3>2. [n EXCEPT !.state = "Stale"].pending = n.pending
      BY <2>0 DEF EntryRec
    <3> QED BY <2>0, <2>3, <3>1, <3>2
  <2>4. CASE ~GivesUp(i) /\ ~Due(i) /\ ~(n.state = "Reachable" /\ Overdue(n))
    <3>1. table'[i] = n
      BY <2>4 DEF neighbor_timers
    <3> QED BY <2>0, <2>4, <3>1
  <2> QED BY <2>1, <2>2, <2>3, <2>4
<1>4. q2 \in [Ips -> Seq(Nat)]
  <2>1. \A i \in Ips : q2[i] \in Seq(Nat)
    <3> TAKE i \in Ips
    <3>1. q2[i] = <<>> \/ q2[i] = q[i]
      BY <1>3
    <3>2. q[i] \in Seq(Nat)
      BY <1>2
    <3> QED BY <3>1, <3>2, Empty
  <2> QED BY <2>1 DEF Pend
<1>5. \A x : x \in X <=> \E i \in S : x \in Range(q[i])
  BY DEF Pend
<1>6. told' = told \cup X /\ sent' = sent /\ dropped' = dropped /\ given' = given
  BY DEF neighbor_timers
<1>7. txlen' \in Int
  <2>1. k \in Int
    <3>1. IsFiniteSet({ip \in Ips : Due(ip) /\ ~GivesUp(ip)})
      BY IpsAssumption, FS_Subset
    <3> QED BY <3>1, FS_CardinalityType
  <2>2. txlen' = txlen + Least(k, Room)
    BY DEF neighbor_timers
  <2> HIDE DEF k
  <2>3. Least(k, Room) \in Int
    BY <1>1, <2>1, RoomType
  <2> QED BY <1>1, <2>2, <2>3
<1>8. S \subseteq Ips
  OBVIOUS
<1> HIDE DEF q, q2, S, X
<1>9. Book(sent, q2, told \cup X, dropped, given)
  BY <1>1, <1>3, <1>4, <1>5, <1>8, BookEmptied
<1>10. Book(sent', q2, told', dropped', given')
  BY <1>6, <1>9
<1> QED BY <1>7, <1>10 DEF Books, q2, Pend

\* Flushing the table (change_updown, configure_addr, clear_addr, set_vlan, remove_interface).
LEMMA ClearedBooks ==
    ASSUME Books, Cleared
    PROVE  Book(sent', Pend(table'), told', dropped', given')
<1> DEFINE q == Pend(table)
           q2 == Pend(table')
           X == UNION {Range(table[ip].pending) : ip \in Ips}
<1>1. Book(sent, q, told, dropped, given)
  BY DEF Books
<1>2. q2 \in [Ips -> Seq(Nat)] /\ \A i \in Ips : q2[i] = <<>>
  BY Empty DEF Cleared, Pend, NoEntry
<1>3. \A x : x \in X <=> \E i \in Ips : x \in Range(q[i])
  BY DEF Pend
<1>4. told' = told /\ sent' = sent /\ dropped' = dropped \cup X /\ given' = given
  BY DEF Cleared
<1> HIDE DEF q, q2, X
<1>5. \A i \in Ips : q2[i] = IF i \in Ips THEN <<>> ELSE q[i]
  BY <1>2
<1>6. Book(sent, q2, told, dropped \cup X, given)
  BY <1>1, <1>2, <1>3, <1>5, BookEmptied
<1> QED BY <1>4, <1>6 DEF q2

\* Every step keeps the books.
LEMMA BooksKept ==
    ASSUME IInv, Books, [Next]_vars
    PROVE  Books'
<1>0. TxQueueLen \in Int /\ txlen \in Int
  BY SizesAssumption DEF Books
<1>1. ASSUME Cleared, txlen' \in Int PROVE Books'
  BY <1>1, ClearedBooks DEF Books, Pend
<1>2. ASSUME UNCHANGED <<table, given, sent, told, dropped>>, txlen' \in Int PROVE Books'
  BY <1>2 DEF Books, Pend
<1>3. CASE pop_tx
  BY <1>0, <1>2, <1>3 DEF pop_tx
<1>4. CASE Advance
  BY <1>0, <1>2, <1>4 DEF Advance
<1>5. CASE set_link_up
  <2>1. txlen' \in Int
    BY <1>0, <1>5 DEF set_link_up, Least
  <2> QED BY <1>2, <1>5, <2>1 DEF set_link_up
<1>6. CASE set_link_down
  BY <1>0, <1>1, <1>6 DEF set_link_down
<1>7. CASE configure_addr
  <2>1. Least(1, Room) \in Int
    BY <1>0, RoomType
  <2>2. txlen' \in Int /\ Cleared
    BY <1>0, <1>7, <2>1 DEF configure_addr
  <2> QED BY <1>1, <2>2
<1>8. CASE clear_addr
  BY <1>0, <1>1, <1>8 DEF clear_addr
<1>9. CASE set_vlan
  BY <1>0, <1>1, <1>9 DEF set_vlan
<1>10. CASE remove_interface
  BY <1>1, <1>10 DEF remove_interface
<1>11. CASE UNCHANGED vars
  BY <1>0, <1>2, <1>11 DEF vars
<1> QED
  BY <1>3, <1>4, <1>5, <1>6, <1>7, <1>8, <1>9, <1>10, <1>11, SendBooks, ArpBooks, TimersBooks DEF Next

\* The books of a stack that has sent nothing.
LEMMA BooksInit ==
    ASSUME Init
    PROVE  Books
<1> DEFINE none == [ip \in Ips |-> <<>>]
<1>1. Pend(table) = none /\ sent = none /\ told = {} /\ dropped = {} /\ given = 0 /\ txlen = 0
  BY DEF Init, Pend, NoEntry
<1>2. none \in [Ips -> Seq(Nat)] /\ \A ip \in Ips : none[ip] = <<>>
  BY Empty
<1> HIDE DEF none
<1>3. \A ip \in Ips : \A x : ~In(none, none, ip, x)
  BY <1>2, Empty DEF In
<1>4. \A ip \in Ips : Ordered(none[ip], none[ip])
  BY <1>2, Empty
<1>5. \A x : x \notin 1 .. 0
  OBVIOUS
<1>6. Book(none, none, {}, {}, 0)
  BY <1>2, <1>3, <1>4, <1>5 DEF Book
<1> QED BY <1>1, <1>6 DEF Books

\* The books are kept in every reachable state.
LEMMA BooksInvariant ==
    Spec => []Books
<1>1. Books /\ IInv /\ [Next]_vars => Books'
  BY BooksKept
<1> QED BY <1>1, BooksInit, Invariant, PTL DEF Spec

\* What passed through an entry, by its parts.
LEMMA PassedParts ==
    ASSUME Books, NEW ip \in Ips
    PROVE  /\ Passed(ip) \in Seq(Nat) /\ Ascending(Passed(ip))
           /\ \A x : x \in Range(Passed(ip)) <=> In(sent, Pend(table), ip, x)
<1> DEFINE q == Pend(table)
<1>1. Book(sent, q, told, dropped, given) /\ q[ip] = table[ip].pending
  BY DEF Books, Pend
<1>2. Passed(ip) = sent[ip] \o q[ip]
  BY <1>1 DEF Passed
<1> HIDE DEF q
<1>3. sent[ip] \in Seq(Nat) /\ q[ip] \in Seq(Nat) /\ Ordered(sent[ip], q[ip])
  BY <1>1, BookParts
<1>4. /\ sent[ip] \o q[ip] \in Seq(Nat) /\ Ascending(sent[ip] \o q[ip])
      /\ Range(sent[ip] \o q[ip]) = Range(sent[ip]) \cup Range(q[ip])
  BY <1>3, RangeConcat
<1> QED BY <1>2, <1>4 DEF In, q

\* No packet is lost from sight, in every reachable state: each packet handed to
\* resolve_and_send is queued for transmission, waits in one entry, was reported
\* HostUnreachable, or was dropped for a reason the code names, and only one of these.
THEOREM NothingLost == Spec => []Accounted
<1>1. Books => Accounted
  <2> SUFFICES ASSUME Books PROVE Accounted
    OBVIOUS
  <2> DEFINE q == Pend(table)
  <2>1. Book(sent, q, told, dropped, given)
    BY DEF Books
  <2>2. \A ip \in Ips : \A x : x \in Range(Passed(ip)) <=> In(sent, q, ip, x)
    BY PassedParts
  <2> HIDE DEF q
  <2>3. \A ip \in Ips : \A x : In(sent, q, ip, x) => x \in 1 .. given
    BY <2>1 DEF Book
  <2>4. 1 .. given = told \cup dropped \cup UNION {Range(Passed(ip)) : ip \in Ips}
    <3> DEFINE all == UNION {Range(Passed(ip)) : ip \in Ips}
    <3>1. \A x : x \in all <=> \E ip \in Ips : In(sent, q, ip, x)
      BY <2>2
    <3> HIDE DEF all
    <3>2. \A x : x \in 1 .. given <=> x \in told \/ x \in dropped \/ x \in all
      BY <2>1, <3>1 DEF Book
    <3>3. 1 .. given = told \cup dropped \cup all
      BY <3>2
    <3> QED BY <3>3 DEF all
  <2>5. told \cap dropped = {}
    BY <2>1 DEF Book
  <2>6. \A ip \in Ips : Range(Passed(ip)) \cap (told \cup dropped) = {}
    BY <2>1, <2>2, <2>3 DEF Book
  <2>7. \A i, j \in Ips : i # j => Range(Passed(i)) \cap Range(Passed(j)) = {}
    BY <2>1, <2>2, <2>3 DEF Book
  <2> QED BY <2>4, <2>5, <2>6, <2>7 DEF Accounted
<1> QED BY <1>1, BooksInvariant, PTL

\* Packets for one next hop leave in the order they were given, once each, in every reachable
\* state, whether they waited for its address or not (resolve_and_send, learn, emit).
THEOREM LeaveInOrder == Spec => []InOrder
<1>1. Books => InOrder
  BY PassedParts DEF InOrder, Ascending
<1> QED BY <1>1, BooksInvariant, PTL
============================================================================
