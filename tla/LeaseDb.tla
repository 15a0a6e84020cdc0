------------------------------- MODULE LeaseDb -------------------------------
(***************************************************************************)
(* The lease table of a DHCP server, ecm-net/src/dhcp_server.rs, shared by *)
(* the router service (ecm-router/src/dhcp.rs) and the dhcpd program.      *)
(*                                                                         *)
(* Addresses are numbers, in the order the server searches its range; 0 is *)
(* 0.0.0.0, which stands for every absent address too.  A server is named  *)
(* by its own address, which is its server identifier.  Times are          *)
(* remaining seconds: `expires' counts down to 0 and a lease is live while *)
(* it is above 0 (now < l.expires).                                        *)
(***************************************************************************)
EXTENDS Integers, FiniteSets

CONSTANTS
    Macs,            \* the hardware addresses of the clients
    Servers,         \* the servers' addresses
    Hosts,           \* the usable host addresses of the subnet
    PoolRange,       \* PoolRange[s]: the addresses of the pool s serves
    Reserved,        \* Reserved[m]: the address reserved for m, 0 if none
    LeaseSecs,       \* lease_secs of the pools
    OfferHold,       \* OFFER_HOLD_MS
    DeclineHold      \* DECLINE_HOLD_MS

ZeroMac == "00:00:00:00:00:00"

ASSUME LeaseAssumption ==
    /\ ZeroMac \notin Macs
    /\ Servers \subseteq Nat \ {0}
    /\ Hosts \subseteq Nat \ {0}
    /\ PoolRange \in [Servers -> SUBSET (Nat \ {0})]
    /\ Reserved \in [Macs -> Hosts \cup {0}]
    /\ LeaseSecs \in Nat /\ LeaseSecs >= 4
    /\ OfferHold \in Nat \ {0}
    /\ DeclineHold \in Nat \ {0}

Lease == [mac : Macs \cup {ZeroMac}, address : Nat, expires : Nat, offered : BOOLEAN]

Kinds == {"DISCOVER", "REQUEST", "RELEASE", "DECLINE", "INFORM"}
ClientMessage ==
    [kind : Kinds, mac : Macs, server : Servers \cup {0}, requested : Nat, ciaddr : Nat]

\* The T1 and T2 that a server sends with a lease of `secs' seconds.
t1_secs(secs) == secs \div 2
\* Mutant of t2_secs: seven eighths of the lease, however short it is.
t2_secs_rounded(secs) == (secs \div 8) * 7
t2_secs(secs) ==
    IF (secs \div 8) * 7 <= t1_secs(secs) THEN t1_secs(secs) + 1 ELSE (secs \div 8) * 7

expire(db) == {e \in db : e.expires > 0}
OfMac(db, mac) == {e \in db : e.mac = mac}
lease_of(db, mac) ==
    IF OfMac(db, mac) = {} THEN 0 ELSE (CHOOSE e \in OfMac(db, mac) : TRUE).address

available(db, s, mac, a) ==
    /\ a \in Hosts
    /\ a # s
    /\ a \in PoolRange[s] \/ Reserved[mac] = a
    /\ \A n \in Macs \ {mac} : Reserved[n] # a
    /\ \A e \in db : e.address = a => e.mac = mac

FreeFor(db, s, mac) == {a \in PoolRange[s] : available(db, s, mac, a)}
first_free(free) == IF free = {} THEN 0 ELSE CHOOSE a \in free : \A b \in free : a <= b

requested(m) == IF m.requested # 0 THEN m.requested ELSE m.ciaddr

\* The address a DISCOVER is offered, 0 if there is none.
Choice(db, s, m) ==
    IF Reserved[m.mac] # 0
    THEN IF available(db, s, m.mac, Reserved[m.mac]) THEN Reserved[m.mac] ELSE 0
    ELSE IF available(db, s, m.mac, requested(m)) THEN requested(m)
    ELSE IF available(db, s, m.mac, lease_of(db, m.mac)) THEN lease_of(db, m.mac)
    ELSE first_free(FreeFor(db, s, m.mac))

NoReply == [kind |-> "none", yiaddr |-> 0]
Result(db, changed, kind, yiaddr) ==
    [db |-> db, dirty |-> changed, reply |-> [kind |-> kind, yiaddr |-> yiaddr]]
Silent(db, changed) == [db |-> db, dirty |-> changed, reply |-> NoReply]

\* The table once `mac' has been given `a': its one entry.
\* Mutant of Hold: the client's earlier entry stays.
Hold_pushes(db, mac, a, hold, offer) ==
    db \cup {[mac |-> mac, address |-> a, expires |-> hold, offered |-> offer]}
Hold(db, mac, a, hold, offer) ==
    (db \ OfMac(db, mac))
        \cup {[mac |-> mac, address |-> a, expires |-> hold, offered |-> offer]}

\* An OFFER never shortens a bound lease: its address is offered, not held.
Offer(db, mac, a) ==
    IF a = 0 THEN Silent(db, FALSE)
    ELSE Result(IF \E e \in OfMac(db, mac) : ~e.offered
                THEN db ELSE Hold(db, mac, a, OfferHold, TRUE), FALSE, "OFFER", a)

\* Mutant of Request: a lease that is granted does not mark the table as changed.
Request_clean(db, s, m, a) ==
    IF available(db, s, m.mac, a) /\ Reserved[m.mac] \in {0, a}
    THEN Result(Hold(db, m.mac, a, LeaseSecs, FALSE), FALSE, "ACK", a)
    ELSE Result(db, FALSE, "NAK", 0)
Request(db, s, m, a) ==
    IF available(db, s, m.mac, a) /\ Reserved[m.mac] \in {0, a}
    THEN Result(Hold(db, m.mac, a, LeaseSecs, FALSE), TRUE, "ACK", a)
    ELSE Result(db, FALSE, "NAK", 0)

\* Mutant of Release: whoever asks for it.
Release_any(db, m) == {e \in db : e.address # m.ciaddr}
Release(db, m) == {e \in db : ~(e.mac = m.mac /\ e.address = m.ciaddr)}
Declined(db, m) == {e \in db : e.mac = m.mac /\ e.address = m.requested}
Parked(a) == [mac |-> ZeroMac, address |-> a, expires |-> DeclineHold, offered |-> FALSE]

\* LeaseDb::handle, after the expired leases are gone.
answer(db, s, m) ==
    CASE m.server \notin {0, s} ->    \* the client chose another server
            Silent(IF m.kind = "REQUEST"
                   THEN {e \in db : ~(e.offered /\ e.mac = m.mac)} ELSE db, FALSE)
      [] m.server \in {0, s} /\ m.kind = "RELEASE" ->
            Silent(Release(db, m), Release(db, m) # db)
      [] m.server \in {0, s} /\ m.kind = "DECLINE" ->
            Silent((db \ Declined(db, m)) \cup {Parked(e.address) : e \in Declined(db, m)},
                   Declined(db, m) # {})
      [] m.server \in {0, s} /\ m.kind = "INFORM" ->
            IF m.ciaddr \in Hosts THEN Result(db, FALSE, "INFORMED", 0) ELSE Silent(db, FALSE)
      [] m.server \in {0, s} /\ m.kind = "DISCOVER" -> Offer(db, m.mac, Choice(db, s, m))
      [] m.server \in {0, s} /\ m.kind = "REQUEST" -> Request(db, s, m, requested(m))

handle(db, s, m) ==
    [answer(expire(db), s, m) EXCEPT !.dirty = @ \/ \E e \in db : ~e.offered /\ e.expires = 0]

\* What the file keeps, and what a server reads back from it.
render(db) == {e \in db : ~e.offered}
restore(file) == expire(file)
=============================================================================
