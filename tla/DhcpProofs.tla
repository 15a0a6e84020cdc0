----------------------------- MODULE DhcpProofs -----------------------------
(***************************************************************************)
(* Proofs about LeaseDb and Dhcp, for any clients, servers, pools,         *)
(* reservations, lease length of at least four seconds, delays and faults: *)
(* types and timers, that a lease is ended by its owner only, and that the *)
(* server knows of every lease that a client relies on, unless it was      *)
(* stopped before it saved one, or a write of its file failed.             *)
(***************************************************************************)
EXTENDS Dhcp, WellFoundedInduction, SequenceTheorems, TLAPS

\* A server searches its range for the least free address, and finds one if there is any.
LEMMA LeastExists ==
    ASSUME NEW T \in SUBSET Nat, T # {}
    PROVE  \E x \in T : \A y \in T : x <= y
<1> DEFINE R == OpToRel(<, Nat)
<1>1. PICK x \in T : \A y \in T : ~(<<y, x>> \in R)
  <2>1. IsWellFoundedOn(R, Nat)
    BY NatLessThanWellFounded
  <2> HIDE DEF R
  <2> QED BY <2>1, WFMin
<1>2. \A y \in T : y \in Nat /\ x \in Nat /\ ~(y < x)
  BY <1>1 DEF OpToRel
<1> QED BY <1>2

\* The timers a server hands out with any lease that a pool may have are ones its clients
\* take: without the correction for short leases, T2 would be 0 below eight seconds.
THEOREM TimersAccepted ==
    ASSUME NEW secs \in Nat, secs >= 4
    PROVE  0 < t1_secs(secs) /\ t1_secs(secs) < t2_secs(secs) /\ t2_secs(secs) < secs
BY SMT DEF t1_secs, t2_secs

-----------------------------------------------------------------------------
(* The lease table. *)

Answer == [db : SUBSET Lease, dirty : BOOLEAN,
           reply : [kind : {"none", "OFFER", "ACK", "NAK", "INFORMED"}, yiaddr : Nat]]

\* What is left of a table without repetitions has none.
LEMMA SubsetUnique ==
    ASSUME NEW db, Unique(db), NEW sub \in SUBSET db
    PROVE  Unique(sub)
BY DEF Unique

\* Expiry only removes.
LEMMA ExpireKeeps ==
    ASSUME NEW db \in SUBSET Lease, Unique(db)
    PROVE  expire(db) \in SUBSET Lease /\ Unique(expire(db))
BY SubsetUnique DEF expire

\* A client that is given an available address has the only entry with it.
LEMMA HoldKeeps ==
    ASSUME NEW db \in SUBSET Lease, Unique(db), NEW s \in Servers, NEW mac \in Macs,
           NEW a \in Nat, available(db, s, mac, a), NEW hold \in Nat, NEW offer \in BOOLEAN
    PROVE  Hold(db, mac, a, hold, offer) \in SUBSET Lease /\ Unique(Hold(db, mac, a, hold, offer))
<1> DEFINE new == [mac |-> mac, address |-> a, expires |-> hold, offered |-> offer]
<1>1. mac # ZeroMac
  BY LeaseAssumption
<1>2. new \in Lease
  BY DEF Lease
<1>3. \A e \in db \ OfMac(db, mac) : e \in Lease /\ e.mac # mac /\ e.address # a
  BY DEF OfMac, available
<1>4. Unique(db \ OfMac(db, mac))
  BY SubsetUnique
<1> QED BY <1>1, <1>2, <1>3, <1>4 DEF Hold, Unique

\* The address that is offered is available.
LEMMA ChoiceAvailable ==
    ASSUME NEW db \in SUBSET Lease, NEW s \in Servers, NEW m, m.mac \in Macs,
           Choice(db, s, m) # 0
    PROVE  Choice(db, s, m) \in Nat /\ available(db, s, m.mac, Choice(db, s, m))
<1> DEFINE free == FreeFor(db, s, m.mac)
<1>1. \A a : available(db, s, m.mac, a) => a \in Nat
  BY LeaseAssumption DEF available
<1>2. first_free(free) = 0 \/ first_free(free) \in free
  <2>1. free \in SUBSET Nat
    BY <1>1 DEF FreeFor
  <2> HIDE DEF free
  <2> QED BY <2>1, LeastExists DEF first_free
<1>3. \A a \in free : available(db, s, m.mac, a)
  BY DEF FreeFor
<1> QED BY <1>1, <1>2, <1>3 DEF Choice

\* The answer to a client's message: types, and a table without repetitions.
LEMMA AnswerKeeps ==
    ASSUME NEW db \in SUBSET Lease, Unique(db), NEW s \in Servers, NEW m,
           m.mac \in Macs, m.kind \in Kinds, m.requested \in Nat, m.ciaddr \in Nat
    PROVE  /\ answer(db, s, m) \in Answer
           /\ Unique(answer(db, s, m).db)
           /\ m.kind # "INFORM" => answer(db, s, m).reply.kind # "INFORMED"
           /\ answer(db, s, m).reply # NoReply => answer(db, s, m).reply.kind # "none"
<1> DEFINE Good(r) == /\ r \in Answer /\ Unique(r.db)
                      /\ r.reply # NoReply => r.reply.kind # "none"
                      /\ m.kind # "INFORM" => r.reply.kind # "INFORMED"
<1>1. \A d \in SUBSET Lease, b \in BOOLEAN : Unique(d) => Good(Silent(d, b))
  BY DEF Silent, NoReply, Answer
<1>2. ASSUME NEW d \in SUBSET Lease, NEW b \in BOOLEAN, NEW k \in {"OFFER", "ACK", "NAK"},
             NEW a \in Nat, Unique(d)
      PROVE  Good(Result(d, b, k, a))
  BY <1>2 DEF Result, Answer
<1>3. LeaseSecs \in Nat /\ OfferHold \in Nat /\ DeclineHold \in Nat
  BY LeaseAssumption
<1>4. CASE m.server \notin {0, s}
  <2>1. answer(db, s, m) = Silent(IF m.kind = "REQUEST"
                   THEN {e \in db : ~(e.offered /\ e.mac = m.mac)} ELSE db, FALSE)
    BY <1>4 DEF answer
  <2>2. Unique({e \in db : ~(e.offered /\ e.mac = m.mac)})
    BY SubsetUnique
  <2> QED BY <1>1, <2>1, <2>2
<1>5. CASE m.server \in {0, s} /\ m.kind = "RELEASE"
  <2>1. answer(db, s, m) = Silent(Release(db, m), Release(db, m) # db)
    BY <1>5 DEF answer
  <2>2. Release(db, m) \in SUBSET Lease /\ Unique(Release(db, m))
    BY SubsetUnique DEF Release
  <2> QED BY <1>1, <2>1, <2>2
<1>6. CASE m.server \in {0, s} /\ m.kind = "DECLINE"
  <2> DEFINE park == {Parked(e.address) : e \in Declined(db, m)}
             rest == db \ Declined(db, m)
  <2>1. answer(db, s, m) = Silent(rest \cup park, Declined(db, m) # {})
    BY <1>6 DEF answer
  <2>0. Parked(m.requested) \in Lease /\ Parked(m.requested).address = m.requested
        /\ Parked(m.requested).mac = ZeroMac
    BY <1>3 DEF Parked, Lease
  <2>2. \A p \in park : p \in Lease /\ p = Parked(m.requested) /\ p.address = m.requested
                         /\ p.mac = ZeroMac
    BY <2>0 DEF Declined
  <2>3. \A p \in park : \E e \in Declined(db, m) : e \in db /\ e.address = p.address
    BY <2>2 DEF Declined
  <2>4. \A p \in park, e \in rest : e.address # p.address
    BY <2>3 DEF Unique, Declined
  <2>5. Unique(rest)
    BY SubsetUnique
  <2>6. Unique(rest \cup park)
    <3>1. SUFFICES ASSUME NEW e \in rest \cup park, NEW f \in rest \cup park,
                          e.address = f.address \/ (e.mac = f.mac /\ e.mac # ZeroMac)
                   PROVE  e = f
      BY DEF Unique
    <3> HIDE DEF park, rest
    <3>2. CASE e \in park /\ f \in park
      BY <3>2, <2>2
    <3>3. CASE e \in rest /\ f \in rest
      BY <3>1, <3>3, <2>5 DEF Unique
    <3>4. CASE e \in park /\ f \in rest
      BY <3>1, <3>4, <2>2, <2>4
    <3>5. CASE e \in rest /\ f \in park
      BY <3>1, <3>5, <2>2, <2>4
    <3> QED BY <3>2, <3>3, <3>4, <3>5
  <2>7. rest \cup park \in SUBSET Lease
    BY <2>2
  <2> HIDE DEF park, rest
  <2> QED BY <1>1, <2>1, <2>6, <2>7
<1>7. CASE m.server \in {0, s} /\ m.kind = "INFORM"
  <2>1. answer(db, s, m) = IF m.ciaddr \in Hosts THEN Result(db, FALSE, "INFORMED", 0)
                           ELSE Silent(db, FALSE)
    BY <1>7 DEF answer
  <2>2. Good(Result(db, FALSE, "INFORMED", 0))
    BY <1>7 DEF Result, Answer, NoReply
  <2> QED BY <1>1, <2>1, <2>2
<1>8. CASE m.server \in {0, s} /\ m.kind = "DISCOVER"
  <2> DEFINE a == Choice(db, s, m)
  <2>1. answer(db, s, m) = Offer(db, m.mac, a)
    BY <1>8 DEF answer
  <2>2. CASE a = 0
    BY <2>1, <2>2, <1>1 DEF Offer
  <2>3. CASE a # 0
    <3>1. a \in Nat /\ available(db, s, m.mac, a)
      BY <2>3, ChoiceAvailable
    <3> HIDE DEF a
    <3>2. /\ Hold(db, m.mac, a, OfferHold, TRUE) \in SUBSET Lease
          /\ Unique(Hold(db, m.mac, a, OfferHold, TRUE))
      BY <3>1, <1>3, HoldKeeps
    <3>3. PICK d \in SUBSET Lease : Unique(d) /\ Offer(db, m.mac, a) = Result(d, FALSE, "OFFER", a)
      BY <2>3, <3>2 DEF Offer
    <3> QED BY <2>1, <3>1, <3>3, <1>2
  <2> QED BY <2>2, <2>3
<1>9. CASE m.server \in {0, s} /\ m.kind = "REQUEST"
  <2> DEFINE a == requested(m)
  <2>1. answer(db, s, m) = Request(db, s, m, a)
    BY <1>9 DEF answer
  <2>2. a \in Nat
    BY DEF requested
  <2> HIDE DEF a
  <2>3. CASE available(db, s, m.mac, a) /\ Reserved[m.mac] \in {0, a}
    <3>1. /\ Hold(db, m.mac, a, LeaseSecs, FALSE) \in SUBSET Lease
          /\ Unique(Hold(db, m.mac, a, LeaseSecs, FALSE))
      BY <2>2, <2>3, <1>3, HoldKeeps
    <3>2. Request(db, s, m, a) = Result(Hold(db, m.mac, a, LeaseSecs, FALSE), TRUE, "ACK", a)
      BY <2>3 DEF Request
    <3> QED BY <2>1, <2>2, <3>1, <3>2, <1>2
  <2>4. CASE ~(available(db, s, m.mac, a) /\ Reserved[m.mac] \in {0, a})
    <3>1. Request(db, s, m, a) = Result(db, FALSE, "NAK", 0)
      BY <2>4 DEF Request
    <3> QED BY <2>1, <3>1, <1>2
  <2> QED BY <2>3, <2>4
<1> QED BY <1>4, <1>5, <1>6, <1>7, <1>8, <1>9 DEF Kinds

\* The same of handle, which first lets leases expire.
LEMMA HandleKeeps ==
    ASSUME NEW db \in SUBSET Lease, Unique(db), NEW s \in Servers, NEW m,
           m.mac \in Macs, m.kind \in Kinds, m.requested \in Nat, m.ciaddr \in Nat
    PROVE  /\ handle(db, s, m) \in Answer
           /\ Unique(handle(db, s, m).db)
           /\ m.kind # "INFORM" => handle(db, s, m).reply.kind # "INFORMED"
           /\ handle(db, s, m).reply # NoReply => handle(db, s, m).reply.kind # "none"
<1> DEFINE r == answer(expire(db), s, m)
<1>1. expire(db) \in SUBSET Lease /\ Unique(expire(db))
  BY ExpireKeeps
<1>2. /\ r \in Answer /\ Unique(r.db)
      /\ m.kind # "INFORM" => r.reply.kind # "INFORMED"
      /\ r.reply # NoReply => r.reply.kind # "none"
  BY <1>1, AnswerKeeps
<1>3. handle(db, s, m) = [r EXCEPT !.dirty = @ \/ \E e \in db : ~e.offered /\ e.expires = 0]
  BY DEF handle
<1> HIDE DEF r
<1> QED BY <1>2, <1>3 DEF Answer

\* A second passes in a table.
LEMMA LaterKeeps ==
    ASSUME NEW db \in SUBSET Lease, Unique(db)
    PROVE  Later(db) \in SUBSET Lease /\ Unique(Later(db))
<1> DEFINE L(e) == [e EXCEPT !.expires = Less(@)]
<1>1. \A e \in db : L(e) \in Lease /\ L(e).mac = e.mac /\ L(e).address = e.address
  BY DEF Lease, Less
<1>2. Later(db) = {L(e) : e \in db}
  BY DEF Later
<1> HIDE DEF L
<1> QED BY <1>1, <1>2 DEF Unique

-----------------------------------------------------------------------------
(* Queues of frames. *)

\* The constants' types.
LEMMA Consts ==
    /\ RetryMin \in Nat \ {0} /\ RetryMax \in Nat \ {0} /\ RetryMin <= RetryMax
    /\ MaxDelay \in Nat /\ QueueCap \in Nat /\ MaxFaults \in Nat
    /\ LeaseSecs \in Nat /\ LeaseSecs >= 4
    /\ Clients \subseteq Macs
    /\ T1 \in Nat /\ T2 \in Nat /\ 0 < T1 /\ T1 < T2 /\ T2 < LeaseSecs
<1>1. LeaseSecs \in Nat /\ LeaseSecs >= 4
  BY LeaseAssumption
<1>2. T1 \in Nat /\ T2 \in Nat
  BY <1>1 DEF T1, T2, t1_secs, t2_secs
<1>3. 0 < T1 /\ T1 < T2 /\ T2 < LeaseSecs
  BY <1>1, TimersAccepted DEF T1, T2
<1> QED BY <1>1, <1>2, <1>3, DhcpAssumption

Short(q, F) == q \in Seq(F) /\ Len(q) <= QueueCap

\* A frame joins a queue, or is lost if the queue is full.
LEMMA PutShort ==
    ASSUME NEW F, NEW q, Short(q, F), NEW m \in F
    PROVE  Short(Put(q, m), F)
BY Consts DEF Short, Put

\* The first frame leaves its queue.
LEMMA TailShort ==
    ASSUME NEW F, NEW q, Short(q, F), q # <<>>
    PROVE  Short(Tail(q), F) /\ Head(q) \in F
<1>1. q \in Seq(F) /\ Len(q) \in Nat /\ Len(q) <= QueueCap
  BY DEF Short
<1>2. Head(q) \in F /\ Tail(q) \in Seq(F) /\ Len(Tail(q)) = Len(q) - 1
  BY <1>1, HeadTailProperties
<1> QED BY <1>1, <1>2, Consts DEF Short

\* Every frame of a queue is replaced by another.
LEMMA MapShort ==
    ASSUME NEW F, NEW q, Short(q, F), NEW g \in [DOMAIN q -> F]
    PROVE  Short(g, F)
<1>1. Len(q) \in Nat /\ DOMAIN q = 1..Len(q)
  BY DEF Short
<1>2. g \in Seq(F)
  BY <1>1
<1>3. Len(g) = Len(q)
  BY <1>1, <1>2, LenProperties
<1> QED BY <1>2, <1>3 DEF Short

\* Frames age and get out of date, and stay what they are.
LEMMA UpShort ==
    ASSUME NEW c \in Clients, NEW q, Short(q, UpFrame(c)), NEW b \in BOOLEAN
    PROVE  Short(Aged(q, b), UpFrame(c)) /\ (Young(q) => Short(Older(q), UpFrame(c)))
<1> USE DEF Short
<1>1. \A i \in DOMAIN q : q[i] \in UpFrame(c)
  OBVIOUS
<1>2. [i \in DOMAIN q |-> [q[i] EXCEPT !.cur = FALSE]] \in [DOMAIN q -> UpFrame(c)]
  BY <1>1 DEF UpFrame
<1>3. ASSUME Young(q) PROVE Older(q) \in [DOMAIN q -> UpFrame(c)]
  <2>1. ASSUME NEW i \in DOMAIN q PROVE [q[i] EXCEPT !.age = @ + 1] \in UpFrame(c)
    <3>1. q[i] \in UpFrame(c) /\ q[i].age < MaxDelay
      BY <1>1, <1>3 DEF Young
    <3>2. q[i].age + 1 \in 0..MaxDelay
      BY <3>1, Consts DEF UpFrame
    <3> QED BY <3>1, <3>2 DEF UpFrame
  <2> QED BY <2>1 DEF Older
<1> HIDE DEF Short
<1> QED BY <1>2, <1>3, MapShort DEF Aged

\* The same of the servers' frames.
LEMMA DownShort ==
    ASSUME NEW q, Short(q, DownFrame), NEW b \in BOOLEAN
    PROVE  Short(Aged(q, b), DownFrame) /\ (Young(q) => Short(Older(q), DownFrame))
<1> USE DEF Short
<1>1. \A i \in DOMAIN q : q[i] \in DownFrame
  OBVIOUS
<1>2. [i \in DOMAIN q |-> [q[i] EXCEPT !.cur = FALSE]] \in [DOMAIN q -> DownFrame]
  BY <1>1 DEF DownFrame
<1>3. ASSUME Young(q) PROVE Older(q) \in [DOMAIN q -> DownFrame]
  <2>1. ASSUME NEW i \in DOMAIN q PROVE [q[i] EXCEPT !.age = @ + 1] \in DownFrame
    <3>1. q[i] \in DownFrame /\ q[i].age < MaxDelay
      BY <1>1, <1>3 DEF Young
    <3>2. q[i].age + 1 \in 0..MaxDelay
      BY <3>1, Consts DEF DownFrame
    <3> QED BY <3>1, <3>2 DEF DownFrame
  <2> QED BY <2>1 DEF Older
<1> HIDE DEF Short
<1> QED BY <1>2, <1>3, MapShort DEF Aged

-----------------------------------------------------------------------------
(* The invariant, by part. *)

UpOK == DOMAIN up = Clients /\ \A c \in Clients :
            /\ up[c] = [s \in Servers |-> up[c][s]]
            /\ \A s \in Servers : Short(up[c][s], UpFrame(c))
DownOK == DOMAIN down = Clients /\ \A c \in Clients : Short(down[c], DownFrame)
TablesOK ==
    /\ table \in [Servers -> SUBSET Lease] /\ file \in [Servers -> SUBSET Lease]
    /\ dirty \in [Servers -> BOOLEAN] /\ alive \in [Servers -> BOOLEAN]
    /\ lost \in [Servers -> BOOLEAN]
    /\ TableUnique
\* What is true of one client: its types, and AddressInTime.
Timed(k, a) ==
    /\ k \in ClientRec /\ a \in Nat
    /\ k.state # "Off" => a = k.addr
    /\ k.addr # 0 => k.deadline <= k.expires
ClientsOK ==
    /\ client \in [Clients -> ClientRec] /\ ip \in [Clients -> Nat]
    /\ \A c \in Clients : Timed(client[c], ip[c])
IInv == /\ UpOK /\ DownOK /\ TablesOK /\ ClientsOK
        /\ ifup \in [Clients -> BOOLEAN] /\ faults \in 0..MaxFaults

\* The functions of TypeOK, from their parts.
LEMMA IInvTypes == IInv => TypeOK /\ TableUnique /\ AddressInTime
<1> SUFFICES ASSUME IInv PROVE TypeOK /\ TableUnique /\ AddressInTime
  OBVIOUS
<1>1. \A c \in Clients : up[c] \in [Servers -> Seq(UpFrame(c))]
  BY DEF IInv, UpOK, Short
<1>2. AddressInTime
  BY DEF IInv, ClientsOK, Timed, AddressInTime, Held
<1>3. TableUnique
  BY DEF IInv, TablesOK
<1> QED BY <1>1, <1>2, <1>3 DEF IInv, UpOK, DownOK, Short, TablesOK, ClientsOK, TypeOK

\* Before anything has happened.
LEMMA InitInv == Init => IInv
<1> SUFFICES ASSUME Init PROVE IInv
  OBVIOUS
<1>1. Short(<<>>, DownFrame) /\ \A c \in Clients : Short(<<>>, UpFrame(c))
  BY Consts DEF Short
<1>2. Timed(Off, 0)
  BY Consts DEF Timed, Off, ClientRec, States
<1>3. Unique({})
  BY DEF Unique
<1>4. UpOK /\ DownOK
  BY <1>1 DEF Init, UpOK, DownOK
<1>5. ClientsOK
  BY <1>2 DEF Init, ClientsOK, Timed
<1>6. TablesOK
  BY <1>3 DEF Init, TablesOK, TableUnique
<1> QED BY <1>4, <1>5, <1>6, Consts DEF Init, IInv

-----------------------------------------------------------------------------
(* One lemma per part of a step. *)

\* Sending, with or without a new transaction.
LEMMA SendKeeps ==
    ASSUME UpOK, DownOK, NEW c \in Clients, NEW m \in UpFrame(c), NEW dests, NEW b \in BOOLEAN,
           Send(c, m, dests, b) \/ NewTransaction(c)
    PROVE  UpOK' /\ DownOK'
<1>1. \A s \in Servers : /\ Short(Aged(up[c][s], b), UpFrame(c))
                         /\ Short(Aged(up[c][s], TRUE), UpFrame(c))
                         /\ Short(Put(Aged(up[c][s], b), m), UpFrame(c))
  BY UpShort, PutShort DEF UpOK
<1>2. Short(Aged(down[c], b), DownFrame) /\ Short(Aged(down[c], TRUE), DownFrame)
  BY DownShort DEF DownOK
<1>3. CASE Send(c, m, dests, b)
  BY <1>1, <1>2, <1>3 DEF Send, UpOK, DownOK
<1>4. CASE NewTransaction(c)
  BY <1>1, <1>2, <1>4 DEF NewTransaction, UpOK, DownOK
<1> QED BY <1>3, <1>4

\* One client changes, and is as it should be.
LEMMA OneClient ==
    ASSUME ClientsOK, NEW c \in Clients, NEW k, NEW a, Timed(k, a),
           client' = [client EXCEPT ![c] = k], ip' = [ip EXCEPT ![c] = a]
    PROVE  ClientsOK'
BY DEF ClientsOK, Timed

\* Servers that do not change.
LEMMA SameServers ==
    ASSUME TablesOK, UNCHANGED servers
    PROVE  TablesOK'
BY DEF TablesOK, TableUnique, servers

\* The frames that a client sends.
LEMMA MsgTyped ==
    ASSUME NEW c \in Clients, NEW kind \in {"DISCOVER", "REQUEST", "RELEASE"},
           NEW sv \in Servers \cup {0}, NEW r \in Nat, NEW a \in Nat
    PROVE  Msg(c, kind, sv, r, a) \in UpFrame(c)
BY Consts DEF Msg, UpFrame

-----------------------------------------------------------------------------
(* The steps of a client. *)

\* Its poll: the next deadline is one the lease outlives.
LEMMA PollKeeps ==
    ASSUME NEW k, NEW a, Timed(k, a), k.state # "Off", k.deadline = 0
    PROVE  LET p == IF Expired(k) THEN NewClient ELSE k
               st == PollState(k)
           IN  /\ Timed(Polled(p, st), IF Expired(k) THEN 0 ELSE a)
               /\ \A c \in Clients : PollMsg(c, p, st) \in UpFrame(c)
<1> DEFINE p == IF Expired(k) THEN NewClient ELSE k
           st == PollState(k)
           b == IF Expired(k) THEN 0 ELSE a
<1>1. p \in ClientRec /\ p.state # "Off" /\ b = p.addr
  BY Consts DEF Timed, NewClient, Off, ClientRec, States
<1>2. st \in States /\ st # "Off"
  BY DEF PollState, Timed, ClientRec, States
<1>3. p.addr # 0 => p.expires > 0
  BY DEF Expired, NewClient, Off, Timed, ClientRec
<1>4. st = "Renewing" => p.expires > LeaseSecs - T2
  <2>1. st = "Renewing" => ~Expired(k)
    BY DEF PollState
  <2>2. ~Expired(k) => p = k
    OBVIOUS
  <2>3. st = "Renewing" => k.expires > LeaseSecs - T2
    BY <2>1, Consts DEF PollState, Timed, ClientRec
  <2> QED BY <2>1, <2>2, <2>3
<1>5. /\ PollDeadline(p, st) \in Nat
      /\ p.addr # 0 => PollDeadline(p, st) <= p.expires
  <2> HIDE DEF p, st
  <2>1. p.retry \in Nat /\ p.expires \in Nat /\ LeaseSecs - T2 \in Nat
    BY <1>1, Consts DEF ClientRec
  <2> QED BY <2>1, <1>3, <1>4 DEF PollDeadline, Before
<1>6. Before(2 * p.retry, RetryMax) \in RetryMin..RetryMax
  BY <1>1, Consts DEF ClientRec, Before
<1>7. Timed(Polled(p, st), b)
  <2> HIDE DEF p, st, b
  <2>1. Polled(p, st) \in ClientRec
    BY <1>1, <1>2, <1>5, <1>6 DEF Polled, ClientRec
  <2>2. /\ Polled(p, st).addr = p.addr /\ Polled(p, st).expires = p.expires
        /\ Polled(p, st).deadline = PollDeadline(p, st) /\ p.addr \in Nat
    BY <1>1 DEF Polled, ClientRec
  <2> QED BY <1>1, <1>5, <2>1, <2>2 DEF Timed
<1>8. ASSUME NEW c \in Clients PROVE PollMsg(c, p, st) \in UpFrame(c)
  <2> HIDE DEF p, st
  <2>1. p.addr \in Nat /\ p.server \in Servers \cup {0} /\ p.offered \in Nat
    BY <1>1 DEF ClientRec
  <2>2. Msg(c, "REQUEST", 0, 0, p.addr) \in UpFrame(c)
    BY <2>1, Consts DEF Msg, UpFrame
  <2>3. Msg(c, IF st = "Selecting" THEN "DISCOVER" ELSE "REQUEST", p.server, p.offered, 0)
            \in UpFrame(c)
    BY <2>1, MsgTyped
  <2> QED BY <2>2, <2>3 DEF PollMsg
<1> QED BY <1>7, <1>8

\* A client that is new, or gone.
LEMMA FreshTimed ==
    /\ Timed(NewClient, 0)
    /\ \A a \in Nat : Timed(Off, a)
BY Consts DEF Timed, NewClient, Off, ClientRec, States

\* The actions of a client and its frames, one by one.
LEMMA ClientStep ==
    ASSUME IInv, NEW c \in Clients,
           \/ start_dhcp(c) \/ stop_dhcp(c) \/ release_dhcp(c) \/ change_updown(c) \/ dhcp_timers(c)
           \/ ReceiveOffer(c) \/ ReceiveAck(c) \/ ReceiveNak(c) \/ ReceiveOther(c)
           \/ LoseDown(c)
    PROVE  IInv'
<1> USE DEF IInv
<1>1. Timed(client[c], ip[c]) /\ client[c] \in ClientRec /\ ip[c] \in Nat
  BY DEF ClientsOK, Timed
<1>2. UNCHANGED servers => TablesOK'
  BY SameServers
<1>3. Fault => faults' \in 0..MaxFaults
  BY Consts DEF Fault
<1>4. NewTransaction(c) => UpOK' /\ DownOK'
  <2>1. Msg(c, "REQUEST", 0, 0, 0) \in UpFrame(c)
    BY MsgTyped
  <2> QED BY <2>1, SendKeeps
<1>5. CASE start_dhcp(c)
  <2>1. ClientsOK'
    BY <1>5, FreshTimed, OneClient DEF start_dhcp
  <2> QED BY <1>5, <1>2, <1>4, <2>1 DEF start_dhcp
<1>6. CASE stop_dhcp(c)
  <2>1. ip' = [ip EXCEPT ![c] = ip[c]]
    BY <1>6 DEF stop_dhcp, ClientsOK
  <2>2. ClientsOK'
    BY <1>6, <1>1, <2>1, FreshTimed, OneClient DEF stop_dhcp
  <2> QED BY <1>6, <1>2, <1>3, <1>4, <2>2 DEF stop_dhcp
<1>7. CASE release_dhcp(c)
  <2>1. \E a \in Nat : ip' = [ip EXCEPT ![c] = a]
    BY <1>7, <1>1 DEF release_dhcp, ClientsOK
  <2>2. ClientsOK'
    BY <1>7, <2>1, FreshTimed, OneClient DEF release_dhcp
  <2>3. Msg(c, "RELEASE", client[c].server, 0, client[c].addr) \in UpFrame(c)
    BY <1>1, MsgTyped DEF ClientRec
  <2>4. UpOK' /\ DownOK'
    BY <1>7, <1>4, <2>3, SendKeeps DEF release_dhcp
  <2> QED BY <1>7, <1>2, <1>3, <2>2, <2>4 DEF release_dhcp
<1>8. CASE dhcp_timers(c)
  <2> DEFINE p == IF Expired(client[c]) THEN NewClient ELSE client[c]
             st == PollState(client[c])
             a == IF Expired(client[c]) THEN 0 ELSE ip[c]
  <2>1. /\ client' = [client EXCEPT ![c] = Polled(p, st)] /\ ip' = [ip EXCEPT ![c] = a]
        /\ Send(c, PollMsg(c, p, st), PollDests(p, st), Expired(client[c]) \/ client[c].state = "Bound")
    BY <1>8 DEF dhcp_timers
  <2>2. Timed(Polled(p, st), a) /\ PollMsg(c, p, st) \in UpFrame(c)
    BY <1>8, <1>1, PollKeeps DEF dhcp_timers
  <2> HIDE DEF p, st, a
  <2>3. ClientsOK'
    BY <2>1, <2>2, OneClient
  <2>4. (Expired(client[c]) \/ client[c].state = "Bound") \in BOOLEAN
    BY DEF Expired
  <2>5. UpOK' /\ DownOK'
    BY <2>1, <2>2, <2>4, SendKeeps
  <2> QED BY <1>8, <1>2, <2>3, <2>5 DEF dhcp_timers
<1>9. down[c] # <<>> => Short(Tail(down[c]), DownFrame) /\ Head(down[c]) \in DownFrame
  BY TailShort DEF DownOK
<1>10. Arrived(c) => DownOK'
  BY <1>9 DEF Arrived, DownOK
<1>11. UNCHANGED up => UpOK'
  BY DEF UpOK
<1>12. CASE ReceiveOffer(c)
  <2> DEFINE m == Head(down[c])
             k == [client[c] EXCEPT !.server = m.server, !.offered = m.yiaddr,
                                    !.state = "Requesting", !.retry = RetryMin, !.deadline = 0]
  <2>1. client' = [client EXCEPT ![c] = k] /\ ip' = [ip EXCEPT ![c] = ip[c]]
    BY <1>12 DEF ReceiveOffer, ClientsOK
  <2>2. m \in DownFrame /\ client[c].state # "Off"
    BY <1>9, <1>12 DEF ReceiveOffer, Arrived, AcceptsOffer
  <2>3. k \in ClientRec /\ k.addr = client[c].addr /\ k.expires = client[c].expires /\ k.deadline = 0
    <3>1. /\ m.server \in Servers \cup {0} /\ m.yiaddr \in Nat /\ "Requesting" \in States
          /\ RetryMin \in RetryMin..RetryMax /\ 0 \in Nat
      BY <2>2, Consts DEF DownFrame, States
    <3> HIDE DEF m
    <3> QED BY <1>1, <3>1 DEF ClientRec
  <2>4. Timed(k, ip[c])
    BY <1>1, <2>2, <2>3 DEF Timed, ClientRec
  <2> HIDE DEF k
  <2>5. ClientsOK'
    BY <2>1, <2>4, OneClient
  <2> QED BY <1>12, <1>2, <1>10, <1>11, <2>5 DEF ReceiveOffer
<1>13. CASE ReceiveAck(c)
  <2> DEFINE m == Head(down[c])
  <2>1. m \in DownFrame
    BY <1>9, <1>13 DEF ReceiveAck, Arrived
  <2>2. Timed(Bind(client[c], m), m.yiaddr)
    <3>1. /\ m.server \in Servers \cup {0} /\ m.yiaddr \in Nat /\ "Bound" \in States
          /\ RetryMin \in RetryMin..RetryMax /\ T1 \in Nat /\ LeaseSecs \in 0..LeaseSecs
      BY <2>1, Consts DEF DownFrame, States
    <3> HIDE DEF m
    <3>2. Bind(client[c], m) \in ClientRec
      BY <1>1, <3>1 DEF Bind, ClientRec
    <3>3. /\ Bind(client[c], m).addr = m.yiaddr /\ Bind(client[c], m).deadline = T1
          /\ Bind(client[c], m).expires = LeaseSecs
      BY <1>1 DEF Bind, ClientRec
    <3> QED BY <3>1, <3>2, <3>3, Consts DEF Timed
  <2>3. ClientsOK'
    BY <1>13, <2>2, OneClient DEF ReceiveAck
  <2> QED BY <1>13, <1>2, <1>10, <1>11, <2>3 DEF ReceiveAck
<1>14. CASE ReceiveNak(c)
  <2>1. ClientsOK'
    BY <1>14, FreshTimed, OneClient DEF ReceiveNak
  <2>2. Short(Aged(Tail(down[c]), TRUE), DownFrame)
    BY <1>9, <1>14, DownShort DEF ReceiveNak
  <2>3. DownOK'
    BY <1>14, <2>2 DEF ReceiveNak, DownOK
  <2>4. \A s \in Servers : Short(Aged(up[c][s], TRUE), UpFrame(c))
    BY UpShort DEF UpOK
  <2>5. UpOK'
    BY <1>14, <2>4 DEF ReceiveNak, UpOK
  <2> QED BY <1>14, <1>2, <2>1, <2>3, <2>5 DEF ReceiveNak
<1>15. CASE ReceiveOther(c)
  BY <1>15, <1>2, <1>10, <1>11 DEF ReceiveOther, ClientsOK
<1>16. CASE LoseDown(c)
  <2>1. DownOK'
    BY <1>16, <1>9 DEF LoseDown, DownOK
  <2> QED BY <1>16, <1>2, <1>3, <1>11, <2>1 DEF LoseDown, ClientsOK
<1>17. CASE change_updown(c)
  <2>1. UpOK' /\ DownOK' /\ ClientsOK' /\ TablesOK'
    BY <1>17, <1>2 DEF change_updown, UpOK, DownOK, ClientsOK
  <2>2. ifup' \in [Clients -> BOOLEAN] /\ faults' \in 0..MaxFaults
    BY <1>17, <1>3 DEF change_updown
  <2> QED BY <2>1, <2>2
<1> QED BY <1>5, <1>6, <1>7, <1>8, <1>12, <1>13, <1>14, <1>15, <1>16, <1>17

-----------------------------------------------------------------------------
(* The steps of a server, the segment and the clock. *)

\* One server's table is replaced by one without repetitions.
LEMMA OneTable ==
    ASSUME TablesOK, NEW s \in Servers, NEW db \in SUBSET Lease, Unique(db),
           table' = [table EXCEPT ![s] = db], UNCHANGED file,
           dirty' \in [Servers -> BOOLEAN], alive' \in [Servers -> BOOLEAN], UNCHANGED lost
    PROVE  TablesOK'
BY DEF TablesOK, TableUnique

\* A server handles a client's message.
LEMMA ServerReceiveKeeps ==
    ASSUME IInv, NEW c \in Clients, NEW s \in Servers, ServerReceive(c, s)
    PROVE  IInv'
<1> USE DEF IInv
<1> DEFINE m == Head(up[c][s])
           r == handle(table[s], s, m)
<1>1. m \in UpFrame(c) /\ Short(Tail(up[c][s]), UpFrame(c))
  BY TailShort DEF ServerReceive, UpOK
<1>2. /\ m.mac \in Macs /\ m.kind \in Kinds /\ m.requested \in Nat /\ m.ciaddr \in Nat
      /\ m.kind # "INFORM" /\ m.cur \in BOOLEAN
  BY <1>1, Consts DEF UpFrame, Kinds
<1>3. table[s] \in SUBSET Lease /\ Unique(table[s])
  BY DEF TablesOK, TableUnique
<1>4. /\ r \in Answer /\ Unique(r.db) /\ r.reply.kind # "INFORMED"
      /\ r.reply # NoReply => r.reply.kind # "none"
  <2> HIDE DEF m
  <2> QED BY <1>2, <1>3, HandleKeeps
<1>5. Handled(c, s, m, r) /\ up' = [up EXCEPT ![c][s] = Tail(@)]
  BY DEF ServerReceive
<1> HIDE DEF r, m
<1>6. r.db \in SUBSET Lease /\ r.dirty \in BOOLEAN
      /\ r.reply \in [kind : {"none", "OFFER", "ACK", "NAK", "INFORMED"}, yiaddr : Nat]
  BY <1>4 DEF Answer
<1>7. r.reply # NoReply => Reply(r.reply, s, m) \in DownFrame
  BY <1>2, <1>4, <1>6, Consts DEF Reply, DownFrame
<1>8. DownOK'
  <2>1. r.reply # NoReply => Short(Put(down[c], Reply(r.reply, s, m)), DownFrame)
    BY <1>7, PutShort DEF DownOK
  <2> QED BY <1>5, <2>1 DEF Handled, DownOK
<1>9. UpOK'
  BY <1>1, <1>5 DEF UpOK, m
<1>10. TablesOK'
  <2>1. dirty' \in [Servers -> BOOLEAN]
    BY <1>5, <1>6 DEF Handled, TablesOK
  <2>2. alive' \in [Servers -> BOOLEAN] /\ UNCHANGED <<file, lost>>
    BY DEF TablesOK, ServerReceive
  <2> QED BY <1>4, <1>5, <1>6, <2>1, <2>2, OneTable DEF Handled
<1>11. ClientsOK'
  BY DEF ServerReceive, ClientsOK
<1> QED BY <1>8, <1>9, <1>10, <1>11 DEF ServerReceive

\* What strangers send are messages of their own.
LEMMA ForeignType ==
    ASSUME NEW f \in Macs, NEW m \in ForeignMessages(f)
    PROVE  /\ m.mac = f /\ m.mac \in Macs /\ m.kind \in Kinds
           /\ m.requested \in Nat /\ m.ciaddr \in Nat
<1>1. Hosts \cup {0} \subseteq Nat
  BY LeaseAssumption
<1>2. CASE \E kind \in {"DISCOVER", "REQUEST", "DECLINE"}, server \in Servers \cup {0}, a \in Hosts \cup {0} :
              m = [kind |-> kind, mac |-> f, server |-> server, requested |-> a, ciaddr |-> 0]
  BY <1>1, <1>2 DEF Kinds
<1>3. CASE \E kind \in {"REQUEST", "RELEASE", "INFORM"}, server \in Servers \cup {0}, a \in Hosts :
              m = [kind |-> kind, mac |-> f, server |-> server, requested |-> 0, ciaddr |-> a]
  BY <1>1, <1>3 DEF Kinds
<1> QED BY <1>2, <1>3 DEF ForeignMessages

\* A server handles a stranger's message.
LEMMA ForeignKeeps ==
    ASSUME IInv, NEW f \in Macs, NEW s \in Servers, ServerReceiveForeign(f, s)
    PROVE  IInv'
<1> USE DEF IInv
<1>1. PICK m \in ForeignMessages(f) : HandledForeign(s, handle(table[s], s, m))
  BY DEF ServerReceiveForeign
<1>2. m.mac \in Macs /\ m.kind \in Kinds /\ m.requested \in Nat /\ m.ciaddr \in Nat
  BY ForeignType
<1> DEFINE r == handle(table[s], s, m)
<1>3. table[s] \in SUBSET Lease /\ Unique(table[s])
  BY DEF TablesOK, TableUnique
<1>4. r \in Answer /\ Unique(r.db)
  BY <1>2, <1>3, HandleKeeps
<1> HIDE DEF r
<1>5. r.db \in SUBSET Lease /\ r.dirty \in BOOLEAN
  BY <1>4 DEF Answer
<1>6. TablesOK'
  <2>1. table' = [table EXCEPT ![s] = r.db] /\ dirty' = [dirty EXCEPT ![s] = @ \/ r.dirty]
    BY <1>1 DEF HandledForeign, r
  <2>2. dirty' \in [Servers -> BOOLEAN]
    BY <1>5, <2>1 DEF TablesOK
  <2>3. alive' \in [Servers -> BOOLEAN] /\ UNCHANGED <<file, lost>>
    BY DEF TablesOK, ServerReceiveForeign
  <2> QED BY <1>4, <1>5, <2>1, <2>2, <2>3, OneTable
<1> QED BY <1>6 DEF ServerReceiveForeign, UpOK, DownOK, ClientsOK

\* A server saves, fails to, stops and restarts.
LEMMA ServerStep ==
    ASSUME IInv, NEW s \in Servers, Save(s) \/ SaveFails(s) \/ Stop(s) \/ Restart(s)
    PROVE  IInv'
<1> USE DEF IInv
<1>1. UpOK' /\ DownOK' /\ ClientsOK' /\ ifup' \in [Clients -> BOOLEAN]
  BY DEF Save, SaveFails, Stop, Restart, UpOK, DownOK, ClientsOK
<1>2. faults' \in 0..MaxFaults
  BY Consts DEF Save, SaveFails, Stop, Restart, Fault
<1>3. /\ table[s] \in SUBSET Lease /\ Unique(table[s])
      /\ file[s] \in SUBSET Lease /\ Unique(file[s])
  BY DEF TablesOK, TableUnique
<1>4. CASE Save(s)
  <2>1. render(table[s]) \in SUBSET Lease /\ Unique(render(table[s]))
    BY <1>3, SubsetUnique DEF render
  <2>2. TablesOK'
    BY <1>4, <2>1 DEF Save, TablesOK, TableUnique
  <2> QED BY <1>1, <1>2, <2>2
<1>5. CASE SaveFails(s)
  <2>1. TablesOK'
    BY <1>5 DEF SaveFails, TablesOK, TableUnique
  <2> QED BY <1>1, <1>2, <2>1
<1>6. CASE Stop(s)
  <2>1. Unique({})
    BY DEF Unique
  <2>2. TablesOK'
    BY <1>6, <2>1 DEF Stop, TablesOK, TableUnique
  <2> QED BY <1>1, <1>2, <2>2
<1>7. CASE Restart(s)
  <2>1. restore(file[s]) \in SUBSET Lease /\ Unique(restore(file[s]))
    BY <1>3, ExpireKeeps DEF restore
  <2>2. TablesOK'
    BY <1>7, <2>1 DEF Restart, TablesOK, TableUnique
  <2> QED BY <1>1, <1>2, <2>2
<1> QED BY <1>4, <1>5, <1>6, <1>7

\* A frame to a server is lost.
LEMMA LoseUpKeeps ==
    ASSUME IInv, NEW c \in Clients, NEW s \in Servers, LoseUp(c, s)
    PROVE  IInv'
<1> USE DEF IInv
<1>1. Short(Tail(up[c][s]), UpFrame(c))
  BY TailShort DEF LoseUp, UpOK
<1>2. UpOK'
  BY <1>1 DEF LoseUp, UpOK
<1>3. TablesOK'
  BY SameServers DEF LoseUp
<1>4. faults' \in 0..MaxFaults
  BY Consts DEF LoseUp, Fault
<1> QED BY <1>2, <1>3, <1>4 DEF LoseUp, DownOK, ClientsOK

\* A second passes: no client that runs is overtaken by the end of its lease.
LEMMA TickKeeps ==
    ASSUME IInv, Tick
    PROVE  IInv'
<1> USE DEF IInv
<1>1. UpOK'
  <2>1. ASSUME NEW c \in Clients, NEW s \in Servers PROVE Short(Older(up[c][s]), UpFrame(c))
    BY UpShort DEF UpOK, Tick
  <2> QED BY <2>1 DEF Tick, UpOK
<1>2. DownOK'
  <2>1. ASSUME NEW c \in Clients PROVE Short(Older(down[c]), DownFrame)
    BY DownShort DEF DownOK, Tick
  <2> QED BY <2>1 DEF Tick, DownOK
<1>3. TablesOK'
  <2>1. ASSUME NEW s \in Servers
        PROVE  /\ Later(table[s]) \in SUBSET Lease /\ Unique(Later(table[s]))
               /\ Later(file[s]) \in SUBSET Lease /\ Unique(Later(file[s]))
    BY LaterKeeps DEF TablesOK, TableUnique
  <2> QED BY <2>1 DEF Tick, TablesOK, TableUnique
<1>4. ClientsOK'
  <2> DEFINE K(c) == [client[c] EXCEPT !.expires = Less(@), !.deadline = Less(@)]
  <2>1. ASSUME NEW c \in Clients PROVE K(c) \in ClientRec /\ Timed(K(c), ip[c])
    <3>1. client[c] \in ClientRec /\ Timed(client[c], ip[c])
      BY DEF ClientsOK
    <3>2. /\ Less(client[c].expires) \in 0..LeaseSecs /\ Less(client[c].deadline) \in Nat
          /\ client[c].deadline <= client[c].expires =>
                Less(client[c].deadline) <= Less(client[c].expires)
      BY <3>1, Consts DEF ClientRec, Less
    <3>3. /\ K(c) \in ClientRec /\ K(c).state = client[c].state /\ K(c).addr = client[c].addr
          /\ K(c).expires = Less(client[c].expires) /\ K(c).deadline = Less(client[c].deadline)
      BY <3>1, <3>2 DEF ClientRec
    <3> HIDE DEF K
    <3> QED BY <3>1, <3>2, <3>3 DEF Timed
  <2>2. client' = [c \in Clients |-> K(c)] /\ ip' = ip
    BY DEF Tick
  <2> HIDE DEF K
  <2> QED BY <2>1, <2>2 DEF ClientsOK
<1> QED BY <1>1, <1>2, <1>3, <1>4 DEF Tick

-----------------------------------------------------------------------------
(* Every step together. *)

\* The invariant is inductive.
LEMMA NextInv == IInv /\ [Next]_vars => IInv'
<1> SUFFICES ASSUME IInv, [Next]_vars PROVE IInv'
  OBVIOUS
<1>1. CASE UNCHANGED vars
  BY <1>1 DEF vars, servers, IInv, UpOK, DownOK, TablesOK, TableUnique, ClientsOK
<1>2. CASE Next
  BY <1>2, ClientStep, ServerReceiveKeeps, LoseUpKeeps, ServerStep, ForeignKeeps, TickKeeps DEF Next
<1> QED BY <1>1, <1>2

\* Spec implies the invariant.
LEMMA Invariance == Spec => []IInv
BY InitInv, NextInv, PTL DEF Spec

\* Every frame, timer and table keeps its type: no timer outruns its constants.
THEOREM TypeCorrect == Spec => []TypeOK
<1>1. IInv => TypeOK
  BY IInvTypes
<1> QED BY <1>1, Invariance, PTL

\* A server never has two leases for one address, nor two for one client, whatever it is
\* sent and however often it is stopped and restarted.
THEOREM TablesUnique == Spec => []TableUnique
<1>1. IInv => TableUnique
  BY IInvTypes
<1> QED BY <1>1, Invariance, PTL

\* A client's next poll is never later than the end of its lease, and the address on the
\* interface is the leased one.
THEOREM AddressesEnd == Spec => []AddressInTime
<1>1. IInv => AddressInTime
  BY IInvTypes
<1> QED BY <1>1, Invariance, PTL

-----------------------------------------------------------------------------
(* What a message does to the entries of a table. *)

\* The table and the mark of a REQUEST.
LEMMA RequestIs ==
    ASSUME NEW db, NEW s, NEW m, NEW a
    PROVE  \/ /\ Request(db, s, m, a).db = Hold(db, m.mac, a, LeaseSecs, FALSE)
              /\ Request(db, s, m, a).dirty = TRUE
              /\ Request(db, s, m, a).reply = [kind |-> "ACK", yiaddr |-> a]
              /\ available(db, s, m.mac, a)
           \/ /\ Request(db, s, m, a).db = db
              /\ Request(db, s, m, a).reply = [kind |-> "NAK", yiaddr |-> 0]
BY DEF Request, Result

\* handle only adds a reason to save.
LEMMA HandleIs ==
    ASSUME NEW db \in SUBSET Lease, Unique(db), NEW s \in Servers, NEW m,
           m.mac \in Macs, m.kind \in Kinds, m.requested \in Nat, m.ciaddr \in Nat
    PROVE  /\ handle(db, s, m).db = answer(expire(db), s, m).db
           /\ handle(db, s, m).reply = answer(expire(db), s, m).reply
           /\ answer(expire(db), s, m).dirty => handle(db, s, m).dirty
           /\ answer(expire(db), s, m).dirty \in BOOLEAN
<1> DEFINE r == answer(expire(db), s, m)
<1>1. r \in Answer
  BY ExpireKeeps, AnswerKeeps
<1>2. handle(db, s, m) = [r EXCEPT !.dirty = @ \/ \E x \in db : ~x.offered /\ x.expires = 0]
  BY DEF handle
<1> HIDE DEF r
<1>3. /\ handle(db, s, m).db = r.db /\ handle(db, s, m).reply = r.reply
      /\ r.dirty => handle(db, s, m).dirty /\ r.dirty \in BOOLEAN
  BY <1>1, <1>2 DEF Answer
<1>4. r.dirty \in BOOLEAN
  BY <1>1 DEF Answer
<1> QED BY <1>3, <1>4 DEF r

\* The entry of a lease that runs survives every message but its owner's.
LEMMA Survives ==
    ASSUME NEW db \in SUBSET Lease, Unique(db), NEW s \in Servers, NEW m,
           m.mac \in Macs, m.kind \in Kinds, m.requested \in Nat, m.ciaddr \in Nat,
           NEW e \in db, e.mac # m.mac, e.expires > 0
    PROVE  e \in handle(db, s, m).db
<1> DEFINE d == expire(db)
<1>1. e \in d
  BY DEF expire
<1>2. \A a, hold, offer : e \in Hold(d, m.mac, a, hold, offer)
  BY <1>1 DEF Hold, OfMac
<1>3. e \in Release(d, m) /\ e \notin Declined(d, m)
  BY <1>1 DEF Release, Declined
<1>4. handle(db, s, m).db = answer(d, s, m).db
  BY HandleIs
<1> HIDE DEF d
<1> DEFINE r == answer(d, s, m)
<1>5. SUFFICES e \in r.db
  BY <1>4
<1>6. CASE m.server \notin {0, s}
  <2>1. r = Silent(IF m.kind = "REQUEST" THEN {x \in d : ~(x.offered /\ x.mac = m.mac)} ELSE d, FALSE)
    BY <1>6 DEF answer
  <2> HIDE DEF r
  <2> QED BY <1>1, <2>1 DEF Silent
<1>7. CASE m.server \in {0, s} /\ m.kind = "RELEASE"
  <2>1. r = Silent(Release(d, m), Release(d, m) # d)
    BY <1>7 DEF answer
  <2> HIDE DEF r
  <2> QED BY <1>3, <2>1 DEF Silent
<1>8. CASE m.server \in {0, s} /\ m.kind = "DECLINE"
  <2>1. r = Silent((d \ Declined(d, m)) \cup {Parked(x.address) : x \in Declined(d, m)},
                   Declined(d, m) # {})
    BY <1>8 DEF answer
  <2> HIDE DEF r
  <2> QED BY <1>1, <1>3, <2>1 DEF Silent
<1>9. CASE m.server \in {0, s} /\ m.kind = "INFORM"
  <2>1. r = Result(d, FALSE, "INFORMED", 0) \/ r = Silent(d, FALSE)
    BY <1>9 DEF answer
  <2> HIDE DEF r
  <2> QED BY <1>1, <2>1 DEF Silent, Result
<1>10. CASE m.server \in {0, s} /\ m.kind = "DISCOVER"
  <2>1. PICK a : r = Offer(d, m.mac, a)
    BY <1>10 DEF answer
  <2> HIDE DEF r
  <2> QED BY <1>1, <1>2, <2>1 DEF Silent, Result, Offer
<1>11. CASE m.server \in {0, s} /\ m.kind = "REQUEST"
  <2>1. r = Request(d, s, m, requested(m))
    BY <1>11 DEF answer
  <2> HIDE DEF r
  <2> QED BY <1>1, <1>2, <2>1 DEF Request, Result
<1> QED BY <1>6, <1>7, <1>8, <1>9, <1>10, <1>11 DEF Kinds

\* A table that is not marked as changed has no lease that was not there before.
LEMMA CleanAnswer ==
    ASSUME NEW db \in SUBSET Lease, Unique(db), NEW s \in Servers, NEW m,
           m.mac \in Macs, m.kind \in Kinds, m.requested \in Nat, m.ciaddr \in Nat,
           ~handle(db, s, m).dirty, NEW e \in handle(db, s, m).db, ~e.offered
    PROVE  e \in db
<1> DEFINE d == expire(db)
           r == answer(d, s, m)
<1>1. d \in SUBSET db
  BY DEF expire
<1>2. e \in r.db /\ r.dirty = FALSE
  BY HandleIs
<1>3. SUFFICES e \in d
  BY <1>1
<1> HIDE DEF d
<1>4. CASE m.server \notin {0, s}
  <2>1. r = Silent(IF m.kind = "REQUEST" THEN {x \in d : ~(x.offered /\ x.mac = m.mac)} ELSE d, FALSE)
    BY <1>4 DEF answer
  <2> HIDE DEF r
  <2> QED BY <1>2, <2>1 DEF Silent
<1>5. CASE m.server \in {0, s} /\ m.kind = "RELEASE"
  <2>1. r = Silent(Release(d, m), Release(d, m) # d)
    BY <1>5 DEF answer
  <2> HIDE DEF r
  <2> QED BY <1>2, <2>1 DEF Silent, Release
<1>6. CASE m.server \in {0, s} /\ m.kind = "DECLINE"
  <2> DEFINE park == {Parked(x.address) : x \in Declined(d, m)}
  <2>1. r = Silent((d \ Declined(d, m)) \cup park, Declined(d, m) # {})
    BY <1>6 DEF answer
  <2>2. park # {} => Declined(d, m) # {}
    OBVIOUS
  <2> HIDE DEF r, park
  <2> QED BY <1>2, <2>1, <2>2 DEF Silent
<1>7. CASE m.server \in {0, s} /\ m.kind = "INFORM"
  <2>1. r = Result(d, FALSE, "INFORMED", 0) \/ r = Silent(d, FALSE)
    BY <1>7 DEF answer
  <2> HIDE DEF r
  <2> QED BY <1>2, <2>1 DEF Silent, Result
<1>8. CASE m.server \in {0, s} /\ m.kind = "DISCOVER"
  <2>1. PICK a : r = Offer(d, m.mac, a)
    BY <1>8 DEF answer
  <2>2. e \in Hold(d, m.mac, a, OfferHold, TRUE) => e \in d
    BY DEF Hold
  <2> HIDE DEF r
  <2> QED BY <1>2, <2>1, <2>2 DEF Silent, Result, Offer
<1>9. CASE m.server \in {0, s} /\ m.kind = "REQUEST"
  <2>1. r = Request(d, s, m, requested(m))
    BY <1>9 DEF answer
  <2> HIDE DEF r
  <2> QED BY <1>2, <2>1 DEF Request, Result
<1> QED BY <1>4, <1>5, <1>6, <1>7, <1>8, <1>9 DEF Kinds

-----------------------------------------------------------------------------
(* Only its owner ends a lease. *)

\* A server that does not run has no table, and nothing to save.
DeadOK == \A s \in Servers : ~alive[s] => ~dirty[s] /\ table[s] = {}

\* True of every reachable state.
LEMMA DeadInv == IInv /\ DeadOK /\ [Next]_vars => DeadOK'
<1> SUFFICES ASSUME IInv, DeadOK, [Next]_vars PROVE DeadOK'
  OBVIOUS
<1> USE DEF IInv, TablesOK, DeadOK
<1>1. UNCHANGED servers => DeadOK'
  BY DEF servers
<1>2. UNCHANGED vars => UNCHANGED servers
  BY DEF vars
<1>3. ASSUME NEW c \in Clients,
             \/ start_dhcp(c) \/ stop_dhcp(c) \/ release_dhcp(c) \/ change_updown(c) \/ dhcp_timers(c)
             \/ ReceiveOffer(c) \/ ReceiveAck(c) \/ ReceiveNak(c) \/ ReceiveOther(c)
             \/ LoseDown(c) \/ \E s \in Servers : LoseUp(c, s)
      PROVE  UNCHANGED servers
  BY <1>3 DEF start_dhcp, stop_dhcp, release_dhcp, change_updown, dhcp_timers, ReceiveOffer, ReceiveAck,
              ReceiveNak, ReceiveOther, LoseDown, LoseUp
<1>4. ASSUME NEW c \in Clients, NEW s \in Servers, ServerReceive(c, s) PROVE DeadOK'
  <2> DEFINE r == handle(table[s], s, Head(up[c][s]))
  <2>1. /\ alive[s] /\ alive' = alive /\ table' = [table EXCEPT ![s] = r.db]
        /\ dirty' = [dirty EXCEPT ![s] = @ \/ r.dirty]
    BY <1>4 DEF ServerReceive, Handled
  <2> HIDE DEF r
  <2> QED BY <2>1
<1>5. ASSUME NEW f, NEW s \in Servers, ServerReceiveForeign(f, s) PROVE DeadOK'
  <2>1. PICK m : HandledForeign(s, handle(table[s], s, m))
    BY <1>5 DEF ServerReceiveForeign
  <2> DEFINE r == handle(table[s], s, m)
  <2>2. /\ alive[s] /\ alive' = alive /\ table' = [table EXCEPT ![s] = r.db]
        /\ dirty' = [dirty EXCEPT ![s] = @ \/ r.dirty]
    BY <1>5, <2>1 DEF ServerReceiveForeign, HandledForeign
  <2> HIDE DEF r
  <2> QED BY <2>2
<1>6. ASSUME NEW s \in Servers, Save(s) \/ SaveFails(s) PROVE DeadOK'
  BY <1>6 DEF Save, SaveFails
<1>7. ASSUME NEW s \in Servers, Stop(s) \/ Restart(s) PROVE DeadOK'
  BY <1>7 DEF Stop, Restart
<1>8. ASSUME Tick PROVE DeadOK'
  <2>1. Later({}) = {}
    BY DEF Later
  <2>2. table' = [s \in Servers |-> Later(table[s])] /\ UNCHANGED <<dirty, alive>>
    BY <1>8, Zenon DEF Tick
  <2> QED BY <2>1, <2>2
<1> QED BY <1>1, <1>2, <1>3, <1>4, <1>5, <1>6, <1>7, <1>8 DEF Next

\* The part of OnlyOwnerEnds that a step keeps.
EndsByOwner ==
    \A s \in Servers : \A e \in table[s] :
        ~e.offered /\ e.expires > 0 /\ e \notin table'[s] /\ alive'[s]
            => \/ e.mac \in Macs \ Clients
               \/ [e EXCEPT !.expires = @ - 1] \in table'[s]
               \/ \E c \in Clients : e.mac = c /\ up[c][s] # up'[c][s]

\* Every step, by what it does to the tables.
LEMMA OwnerStep == IInv /\ DeadOK /\ [Next]_vars => EndsByOwner
<1> SUFFICES ASSUME IInv, DeadOK, [Next]_vars,
                    NEW s \in Servers, NEW e \in table[s], ~e.offered, e.expires > 0,
                    e \notin table'[s], alive'[s]
             PROVE  \/ e.mac \in Macs \ Clients
                    \/ [e EXCEPT !.expires = @ - 1] \in table'[s]
                    \/ \E c \in Clients : e.mac = c /\ up[c][s] # up'[c][s]
  BY DEF EndsByOwner
<1>0. /\ table \in [Servers -> SUBSET Lease] /\ alive \in [Servers -> BOOLEAN]
      /\ e \in Lease /\ Unique(table[s])
  BY DEF IInv, TablesOK, TableUnique
<1>1. table' # table
  OBVIOUS
<1>2. ~UNCHANGED vars
  BY <1>1 DEF vars, servers
<1>3. ASSUME NEW c \in Clients,
             \/ start_dhcp(c) \/ stop_dhcp(c) \/ release_dhcp(c) \/ change_updown(c) \/ dhcp_timers(c)
             \/ ReceiveOffer(c) \/ ReceiveAck(c) \/ ReceiveNak(c) \/ ReceiveOther(c)
             \/ LoseDown(c) \/ \E t \in Servers : LoseUp(c, t)
      PROVE  FALSE
  BY <1>1, <1>3 DEF start_dhcp, stop_dhcp, release_dhcp, change_updown, dhcp_timers, ReceiveOffer, ReceiveAck,
              ReceiveNak, ReceiveOther, LoseDown, LoseUp, servers
<1>4. ASSUME NEW c \in Clients, NEW t \in Servers, ServerReceive(c, t)
      PROVE  e.mac = c /\ up[c][s] # up'[c][s]
  <2> DEFINE q == up[c][t]
             m == Head(q)
  <2>1. Short(q, UpFrame(c)) /\ q # <<>>
    BY <1>4 DEF IInv, UpOK, ServerReceive
  <2>2. m \in UpFrame(c)
    BY <2>1, TailShort
  <2> DEFINE db == handle(table[t], t, m).db
  <2>3. table' = [table EXCEPT ![t] = db]
    BY <1>4 DEF ServerReceive, Handled
  <2>4. t = s /\ e \notin db
    <3> HIDE DEF db
    <3> QED BY <2>3, <1>0
  <2>5. e.mac = c
    <3>1. /\ m.kind \in Kinds /\ m.mac = c /\ m.mac \in Macs
          /\ m.requested \in Nat /\ m.ciaddr \in Nat
      BY <2>2, Consts DEF UpFrame, Kinds
    <3> HIDE DEF m
    <3> QED BY <2>4, <3>1, <1>0, Survives
  <2>6. Tail(q) # q
    <3>1. q \in Seq(UpFrame(c)) /\ Len(Tail(q)) = Len(q) - 1
      BY <2>1, HeadTailProperties DEF Short
    <3> HIDE DEF q
    <3> QED BY <3>1, LenProperties
  <2>7. up'[c][s] = Tail(q)
    <3>1. c \in DOMAIN up /\ s \in DOMAIN up[c]
      BY DEF IInv, UpOK
    <3> QED BY <1>4, <2>4, <3>1 DEF ServerReceive
  <2> QED BY <2>4, <2>5, <2>6, <2>7
<1>5. ASSUME NEW f \in Macs \ Clients, NEW t \in Servers, ServerReceiveForeign(f, t)
      PROVE  e.mac \in Macs \ Clients
  <2>1. PICK m \in ForeignMessages(f) : HandledForeign(t, handle(table[t], t, m))
    BY <1>5 DEF ServerReceiveForeign
  <2>2. /\ m.mac = f /\ m.mac \in Macs /\ m.kind \in Kinds
        /\ m.requested \in Nat /\ m.ciaddr \in Nat
    BY ForeignType
  <2> DEFINE db == handle(table[t], t, m).db
  <2>3. table' = [table EXCEPT ![t] = db]
    BY <2>1 DEF HandledForeign
  <2>4. t = s /\ e \notin db
    <3> HIDE DEF db
    <3> QED BY <2>3, <1>0
  <2> QED BY <2>2, <2>4, <1>0, Survives
<1>6. ASSUME NEW t \in Servers, Save(t) \/ SaveFails(t) PROVE FALSE
  BY <1>1, <1>6 DEF Save, SaveFails
<1>7. ASSUME NEW t \in Servers, Stop(t) PROVE FALSE
  BY <1>0, <1>7 DEF Stop
<1>8. ASSUME NEW t \in Servers, Restart(t) PROVE FALSE
  BY <1>0, <1>8 DEF Restart, DeadOK
<1>9. ASSUME Tick PROVE [e EXCEPT !.expires = @ - 1] \in table'[s]
  <2>1. [e EXCEPT !.expires = Less(@)] \in table'[s]
    <3>1. table' = [t \in Servers |-> Later(table[t])]
      BY <1>9, Zenon DEF Tick
    <3>2. table'[s] = Later(table[s])
      BY <3>1
    <3> QED BY <3>2, Zenon DEF Later
  <2>2. Less(e.expires) = e.expires - 1
    BY <1>0 DEF Less, Lease
  <2> QED BY <2>1, <2>2
<1> QED BY <1>2, <1>3, <1>4, <1>5, <1>6, <1>7, <1>8, <1>9 DEF Next

\* Nobody but its owner ends a lease before its time, whatever a server is sent: not another
\* client's REQUEST, RELEASE or DECLINE, nor the search for a free address.
THEOREM OwnersOnly == Spec => OnlyOwnerEnds
<1>1. Init => DeadOK
  BY DEF Init, DeadOK
<1>2. IInv /\ DeadOK /\ [Next]_vars => [EndsByOwner]_vars
  BY OwnerStep
<1>3. OnlyOwnerEnds <=> [][EndsByOwner]_vars
  BY PTL DEF OnlyOwnerEnds, EndsByOwner
<1> QED BY <1>1, <1>2, <1>3, Invariance, DeadInv, PTL DEF Spec

-----------------------------------------------------------------------------
(* The server knows of the leases.  The frames that are on the way from a   *)
(* client to the server of its lease ask for that lease, and the server     *)
(* keeps it for as long as the client may rely on it: either may find that  *)
(* the other one is ahead.  An ACK that the client will take carries the    *)
(* same promise, and so does a REQUEST that will cause one.  What is true   *)
(* of client c depends on its state k, the frames u[s] it has sent to s,    *)
(* the frames d on the way to it and the leases b[s] that s has, or will    *)
(* have when it runs again.  A server that has lost a table, or failed to   *)
(* save one, promises nothing: it is not in the domain of b.                *)

Wants(m, s, a) == m.kind = "REQUEST" /\ m.server \in {0, s} /\ requested(m) = a
Pursues(k, s, a) ==
    \/ k.addr # 0 /\ k.addr = a
    \/ k.state = "Requesting" /\ k.offered = a /\ k.server = s
Keeps(db, c, a, secs) ==
    \E e \in db : e.mac = c /\ e.address = a /\ ~e.offered /\ e.expires >= secs
Secured(c, s, a, secs, u, b) ==
    /\ \A j \in DOMAIN u[s] : Wants(u[s][j], s, a)
    /\ secs > 0 /\ s \in DOMAIN b => Keeps(b[s], c, a, secs)

StateOK(k) ==
    /\ k.addr # 0 <=> k.state \in {"Bound", "Renewing", "Rebinding"}
    /\ k.state \in {"Requesting", "Bound", "Renewing", "Rebinding"} => k.server \in Servers
    /\ k.state = "Requesting" => k.offered # 0
LeaseOK(c, k, u, b) ==
    k.addr # 0 => Secured(c, k.server, k.addr, k.expires - MaxDelay, u, b)
\* A frame that makes server s answer client k with a lease.
Asks(m, s) == m.kind = "REQUEST" /\ m.cur /\ m.server \in {0, s}
QueueOK(k, s, q) ==
    \A i \in DOMAIN q : Asks(q[i], s) =>
        /\ requested(q[i]) # 0 /\ Pursues(k, s, requested(q[i]))
        /\ \A j \in DOMAIN q : j > i => Wants(q[j], s, requested(q[i]))
AnswerOK(c, k, u, b, m) ==
    /\ m.kind = "OFFER" => m.yiaddr # 0
    /\ m.kind = "ACK" /\ m.cur =>
          /\ m.yiaddr # 0 /\ Pursues(k, m.server, m.yiaddr)
          /\ Secured(c, m.server, m.yiaddr, LeaseSecs - m.age, u, b)
AnswersOK(c, k, u, d, b) == \A i \in DOMAIN d : AnswerOK(c, k, u, b, d[i])
Backed(c, k, u, d, b) ==
    /\ StateOK(k)
    /\ LeaseOK(c, k, u, b)
    /\ \A s \in Servers : QueueOK(k, s, u[s])
    /\ AnswersOK(c, k, u, d, b)

\* The leases of a server: in its table or, while it does not run, in its file.
backing == [s \in {t \in Servers : ~lost[t]} |-> IF alive[s] THEN table[s] ELSE file[s]]
\* A table that is not marked as changed is in the file.
FilesOK ==
    \A s \in Servers : alive[s] /\ ~dirty[s] /\ ~lost[s] =>
        \A e \in table[s] : ~e.offered /\ e.expires > 0 => e \in file[s]
LInv == IInv /\ DeadOK /\ FilesOK
        /\ \A c \in Clients : Backed(c, client[c], up[c], down[c], backing)

\* The types of what Backed is about.
Typed(c, k, u, d, b) ==
    /\ k \in ClientRec
    /\ DOMAIN u = Servers /\ \A s \in Servers : Short(u[s], UpFrame(c))
    /\ Short(d, DownFrame)
    /\ DOMAIN b \subseteq Servers /\ b \in [DOMAIN b -> SUBSET Lease]

\* They follow from the type invariant.
LEMMA TypedInv ==
    ASSUME IInv, NEW c \in Clients
    PROVE  Typed(c, client[c], up[c], down[c], backing)
<1>1. DOMAIN backing \subseteq Servers /\ backing \in [DOMAIN backing -> SUBSET Lease]
  BY DEF IInv, TablesOK, backing
<1>2. DOMAIN up[c] = Servers /\ \A s \in Servers : Short(up[c][s], UpFrame(c))
  BY DEF IInv, UpOK
<1> QED BY <1>1, <1>2 DEF IInv, ClientsOK, DownOK, Typed

-----------------------------------------------------------------------------
(* Queues, by their places. *)

\* A frame joins a queue at its end.
LEMMA PutPlaces ==
    ASSUME NEW F, NEW q \in Seq(F), NEW m, NEW i \in DOMAIN Put(q, m)
    PROVE  \/ i \in DOMAIN q /\ Put(q, m)[i] = q[i]
           \/ Put(q, m)[i] = m /\ \A j \in DOMAIN Put(q, m) : j <= i /\ (j # i => j \in DOMAIN q)
BY DEF Put

\* The first one leaves it.
LEMMA TailPlaces ==
    ASSUME NEW F, NEW q \in Seq(F), q # <<>>
    PROVE  /\ \A i \in DOMAIN Tail(q) : i \in Nat /\ i + 1 \in DOMAIN q /\ Tail(q)[i] = q[i + 1]
           /\ 1 \in DOMAIN q /\ Head(q) = q[1]
           /\ \A i \in DOMAIN Tail(q) : i + 1 > 1
<1>1. /\ Tail(q) \in Seq(F) /\ Len(Tail(q)) = Len(q) - 1
      /\ \A i \in 1 .. Len(Tail(q)) : Tail(q)[i] = q[i + 1]
  BY HeadTailProperties
<1>2. DOMAIN Tail(q) = 1 .. Len(q) - 1 /\ DOMAIN q = 1 .. Len(q) /\ Len(q) \in Nat
  BY <1>1
<1>3. Len(q) > 0
  BY <1>2, EmptySeq
<1> QED BY <1>1, <1>2, <1>3

\* A new transaction: no frame asks for anything, and each is what it was.
LEMMA AgedUp ==
    ASSUME NEW c \in Clients, NEW q, Short(q, UpFrame(c)), NEW b \in BOOLEAN, NEW i \in DOMAIN q
    PROVE  /\ \A s, a : Wants(Aged(q, b)[i], s, a) <=> Wants(q[i], s, a)
           /\ requested(Aged(q, b)[i]) = requested(q[i])
           /\ \A s : Asks(Aged(q, b)[i], s) => Asks(q[i], s) /\ ~b
<1>1. q[i] \in UpFrame(c)
  BY DEF Short
<1>2. Aged(q, b)[i] = IF b THEN [q[i] EXCEPT !.cur = FALSE] ELSE q[i]
  BY DEF Aged
<1> HIDE DEF Aged
<1>3. CASE b
  BY <1>1, <1>2, <1>3 DEF UpFrame, Wants, requested, Asks
<1>4. CASE ~b
  BY <1>2, <1>4
<1> QED BY <1>3, <1>4

\* Nor does one promise anything.
LEMMA AgedDown ==
    ASSUME NEW q, Short(q, DownFrame), NEW b \in BOOLEAN, NEW i \in DOMAIN q
    PROVE  /\ Aged(q, b)[i].kind = q[i].kind /\ Aged(q, b)[i].yiaddr = q[i].yiaddr
           /\ Aged(q, b)[i].server = q[i].server /\ Aged(q, b)[i].age = q[i].age
           /\ Aged(q, b)[i].cur => q[i].cur /\ ~b
<1>1. q[i] \in DownFrame
  BY DEF Short
<1>2. Aged(q, b)[i] = IF b THEN [q[i] EXCEPT !.cur = FALSE] ELSE q[i]
  BY DEF Aged
<1> QED BY <1>1, <1>2 DEF DownFrame

\* A new transaction leaves the places of a queue as they are.
LEMMA AgedPlaces ==
    ASSUME NEW q, NEW b \in BOOLEAN
    PROVE  DOMAIN Aged(q, b) = DOMAIN q
BY DEF Aged

-----------------------------------------------------------------------------
(* Steps that change only the leases, or only take frames away. *)

\* More leases, or the same ones for longer.
LEMMA MoreLeases ==
    ASSUME NEW c, NEW k, NEW u, NEW d, NEW b, NEW b2, Typed(c, k, u, d, b), Backed(c, k, u, d, b),
           DOMAIN b2 \subseteq DOMAIN b,
           \A s \in DOMAIN b2 : \A e \in b[s] :
               e.mac = c /\ ~e.offered /\ e.expires > 0 => e \in b2[s]
    PROVE  Backed(c, k, u, d, b2)
<1>1. ASSUME NEW s \in Servers, NEW a, NEW secs \in Int, Secured(c, s, a, secs, u, b)
      PROVE  Secured(c, s, a, secs, u, b2)
  <2>1. s \in DOMAIN b => \A e \in b[s] : e.expires \in Nat
    BY DEF Typed, Lease
  <2>2. secs > 0 /\ s \in DOMAIN b2 /\ Keeps(b[s], c, a, secs) => Keeps(b2[s], c, a, secs)
    BY <1>1, <2>1 DEF Keeps
  <2> QED BY <1>1, <2>2 DEF Secured
<1>2. LeaseOK(c, k, u, b2)
  <2>1. k.expires - MaxDelay \in Int
    BY Consts DEF Typed, ClientRec
  <2>2. k.addr # 0 => k.server \in Servers
    BY DEF Backed, StateOK
  <2> QED BY <1>1, <2>1, <2>2 DEF Backed, LeaseOK
<1>3. AnswersOK(c, k, u, d, b2)
  <2>1. ASSUME NEW i \in DOMAIN d PROVE AnswerOK(c, k, u, b2, d[i])
    <3>0. d[i] \in DownFrame
      BY DEF Typed, Short
    <3>1. d[i].server \in Servers /\ LeaseSecs - d[i].age \in Int
      BY <3>0, Consts DEF DownFrame
    <3> QED BY <3>1, <1>1 DEF Backed, AnswersOK, AnswerOK
  <2> QED BY <2>1 DEF AnswersOK
<1> QED BY <1>2, <1>3 DEF Backed

\* The first frame to a server is gone.
LEMMA FewerAsked ==
    ASSUME NEW c, NEW k, NEW u, NEW d, NEW b, Typed(c, k, u, d, b), Backed(c, k, u, d, b),
           NEW s \in Servers, u[s] # <<>>
    PROVE  Backed(c, k, [u EXCEPT ![s] = Tail(@)], d, b)
<1> DEFINE q == u[s]
           v == [u EXCEPT ![s] = Tail(q)]
<1>1. q \in Seq(UpFrame(c)) /\ q # <<>>
  BY DEF Typed, Short
<1>2. /\ \A i \in DOMAIN Tail(q) : i \in Nat /\ i + 1 \in DOMAIN q /\ Tail(q)[i] = q[i + 1]
  BY <1>1, TailPlaces
<1>3. v[s] = Tail(q) /\ \A t \in Servers : t # s => v[t] = u[t]
  BY DEF Typed
<1> HIDE DEF v
<1>4. ASSUME NEW t \in Servers, NEW a, NEW secs, Secured(c, t, a, secs, u, b)
      PROVE  Secured(c, t, a, secs, v, b)
  BY <1>2, <1>3, <1>4 DEF Secured
<1>5. LeaseOK(c, k, v, b)
  BY <1>4 DEF Backed, StateOK, LeaseOK
<1>6. AnswersOK(c, k, v, d, b)
  <2>1. ASSUME NEW i \in DOMAIN d PROVE AnswerOK(c, k, v, b, d[i])
    <3>0. d[i] \in DownFrame
      BY DEF Typed, Short
    <3>1. d[i].server \in Servers
      BY <3>0 DEF DownFrame
    <3> QED BY <3>1, <1>4 DEF Backed, AnswersOK, AnswerOK
  <2> QED BY <2>1 DEF AnswersOK
<1>7. QueueOK(k, s, Tail(q))
  <2>1. QueueOK(k, s, q)
    BY DEF Backed
  <2> HIDE DEF q
  <2>2. SUFFICES ASSUME NEW i \in DOMAIN Tail(q), Asks(Tail(q)[i], s)
                 PROVE  /\ requested(Tail(q)[i]) # 0 /\ Pursues(k, s, requested(Tail(q)[i]))
                        /\ \A j \in DOMAIN Tail(q) : j > i => Wants(Tail(q)[j], s, requested(Tail(q)[i]))
    BY DEF QueueOK
  <2>3. /\ requested(q[i + 1]) # 0 /\ Pursues(k, s, requested(q[i + 1]))
        /\ \A j \in DOMAIN q : j > i + 1 => Wants(q[j], s, requested(q[i + 1]))
    BY <1>2, <2>1, <2>2 DEF QueueOK
  <2>4. \A j \in DOMAIN Tail(q) : j > i => j + 1 > i + 1
    BY <1>2
  <2> QED BY <1>2, <2>3, <2>4
<1>8. \A t \in Servers : QueueOK(k, t, v[t])
  BY <1>3, <1>7 DEF Backed
<1> QED BY <1>5, <1>6, <1>8 DEF Backed, v

\* The first frame to the client is gone.
LEMMA FewerAnswers ==
    ASSUME NEW c, NEW k, NEW u, NEW d, NEW b, Typed(c, k, u, d, b), Backed(c, k, u, d, b),
           d # <<>>
    PROVE  Backed(c, k, u, Tail(d), b) /\ AnswerOK(c, k, u, b, Head(d))
<1>1. d \in Seq(DownFrame)
  BY DEF Typed, Short
<1>2. /\ \A i \in DOMAIN Tail(d) : i + 1 \in DOMAIN d /\ Tail(d)[i] = d[i + 1]
      /\ 1 \in DOMAIN d /\ Head(d) = d[1]
  BY <1>1, TailPlaces
<1> QED BY <1>2 DEF Backed, AnswersOK

-----------------------------------------------------------------------------
(* Steps of the client. *)

\* What Send leaves on the way from a client to the servers.
Sent(u, dests, m, new) ==
    [s \in Servers |-> IF s \in dests THEN Put(Aged(u[s], new), m) ELSE Aged(u[s], new)]

\* A client without a lease, and no frame that asks or promises: after a release, a NAK, the
\* end of a lease, and when the client is started or stopped.
LEMMA Fresh ==
    ASSUME NEW c \in Clients, NEW k, NEW u, NEW d, NEW b, Typed(c, k, u, d, b),
           Backed(c, k, u, d, b), NEW k2, k2.addr = 0, k2.state \in {"Off", "Init", "Selecting"},
           NEW m, m.kind # "REQUEST", NEW dests
    PROVE  Backed(c, k2, Sent(u, dests, m, TRUE), Aged(d, TRUE), b)
<1> DEFINE v == Sent(u, dests, m, TRUE)
<1>1. StateOK(k2) /\ LeaseOK(c, k2, v, b)
  BY DEF StateOK, LeaseOK
<1>2. ASSUME NEW s \in Servers PROVE QueueOK(k2, s, v[s])
  <2> DEFINE q == u[s]
             aq == Aged(q, TRUE)
  <2>1. Short(q, UpFrame(c))
    BY DEF Typed
  <2>2. aq \in Seq(UpFrame(c))
    BY <2>1, UpShort DEF Short
  <2>3. \A i \in DOMAIN aq : ~Asks(aq[i], s)
    BY <2>1, AgedPlaces, AgedUp
  <2> HIDE DEF aq
  <2>4. \A i \in DOMAIN Put(aq, m) : ~Asks(Put(aq, m)[i], s)
    BY <2>2, <2>3, PutPlaces DEF Asks
  <2>5. v[s] = aq \/ v[s] = Put(aq, m)
    BY DEF aq, Sent
  <2> HIDE DEF v
  <2> QED BY <2>3, <2>4, <2>5 DEF QueueOK
<1>3. ASSUME NEW i \in DOMAIN Aged(d, TRUE) PROVE AnswerOK(c, k2, v, b, Aged(d, TRUE)[i])
  <2>1. i \in DOMAIN d /\ Short(d, DownFrame)
    BY AgedPlaces DEF Typed
  <2>2. /\ Aged(d, TRUE)[i].kind = d[i].kind /\ Aged(d, TRUE)[i].yiaddr = d[i].yiaddr
        /\ ~Aged(d, TRUE)[i].cur
    <3>1. d[i] \in DownFrame
      BY <2>1 DEF Short
    <3> QED BY <2>1, <3>1 DEF Aged, DownFrame
  <2>3. AnswerOK(c, k, u, b, d[i])
    BY <2>1 DEF Backed, AnswersOK
  <2> QED BY <2>2, <2>3 DEF AnswerOK
<1> QED BY <1>1, <1>2, <1>3 DEF Backed, AnswersOK

\* A queue when its client has become k2, and maybe sent m, maybe under a new transaction id.
LEMMA QueueGrows ==
    ASSUME NEW c \in Clients, NEW k, NEW k2, NEW s \in Servers, NEW q, Short(q, UpFrame(c)),
           QueueOK(k, s, q), NEW m \in UpFrame(c), NEW b \in BOOLEAN,
           \A a : ~b /\ a # 0 /\ Pursues(k, s, a) => Pursues(k2, s, a) /\ Wants(m, s, a),
           Asks(m, s) => requested(m) # 0 /\ Pursues(k2, s, requested(m))
    PROVE  QueueOK(k2, s, Put(Aged(q, b), m)) /\ QueueOK(k2, s, Aged(q, b))
<1> DEFINE aq == Aged(q, b)
           pq == Put(aq, m)
<1>1. aq \in Seq(UpFrame(c)) /\ DOMAIN aq = DOMAIN q
  BY UpShort, AgedPlaces DEF Short
<1>2. \A i \in DOMAIN aq :
          /\ \A t, a : Wants(aq[i], t, a) <=> Wants(q[i], t, a)
          /\ requested(aq[i]) = requested(q[i])
          /\ Asks(aq[i], s) => Asks(q[i], s) /\ ~b
  BY AgedUp, AgedPlaces
<1> HIDE DEF aq
<1>3. \A i \in DOMAIN aq : Asks(aq[i], s) =>
          /\ requested(aq[i]) # 0 /\ Pursues(k2, s, requested(aq[i]))
          /\ Wants(m, s, requested(aq[i]))
          /\ \A j \in DOMAIN aq : j > i => Wants(aq[j], s, requested(aq[i]))
  BY <1>1, <1>2 DEF QueueOK
<1>4. QueueOK(k2, s, aq)
  BY <1>3 DEF QueueOK
<1>5. QueueOK(k2, s, pq)
  <2>1. SUFFICES ASSUME NEW i \in DOMAIN pq, Asks(pq[i], s)
                 PROVE  /\ requested(pq[i]) # 0 /\ Pursues(k2, s, requested(pq[i]))
                        /\ \A j \in DOMAIN pq : j > i => Wants(pq[j], s, requested(pq[i]))
    BY DEF QueueOK
  <2>2. ASSUME NEW j \in DOMAIN pq
        PROVE  \/ j \in DOMAIN aq /\ pq[j] = aq[j]
               \/ pq[j] = m /\ \A n \in DOMAIN pq : n <= j /\ (n # j => n \in DOMAIN aq)
    BY <1>1, PutPlaces
  <2>3. \A j \in DOMAIN pq : j \in Nat
    BY <1>1 DEF Put
  <2> HIDE DEF pq
  <2>4. CASE i \in DOMAIN aq /\ pq[i] = aq[i]
    BY <1>3, <2>1, <2>2, <2>4
  <2>5. CASE pq[i] = m /\ \A n \in DOMAIN pq : n <= i
    BY <2>1, <2>3, <2>5
  <2> QED BY <2>2, <2>4, <2>5
<1> QED BY <1>4, <1>5 DEF aq, pq

\* A client sends m and has become k2, with the lease and the purpose it had.
LEMMA Sends ==
    ASSUME NEW c \in Clients, NEW k, NEW u, NEW d, NEW b, Typed(c, k, u, d, b),
           Backed(c, k, u, d, b), NEW k2, StateOK(k2), k2.addr = k.addr,
           k2.addr # 0 => k2.server = k.server /\ k2.expires = k.expires,
           NEW m \in UpFrame(c), NEW dests, NEW new \in BOOLEAN,
           \A s \in Servers : \A a : a # 0 /\ Pursues(k, s, a) => Pursues(k2, s, a) /\ Wants(m, s, a),
           \A s \in Servers : Asks(m, s) => requested(m) # 0 /\ Pursues(k2, s, requested(m))
    PROVE  Backed(c, k2, Sent(u, dests, m, new), Aged(d, new), b)
<1> DEFINE v == Sent(u, dests, m, new)
<1>1. ASSUME NEW s \in Servers PROVE QueueOK(k2, s, v[s])
  <2>1. Short(u[s], UpFrame(c)) /\ QueueOK(k, s, u[s])
    BY DEF Typed, Backed
  <2>2. QueueOK(k2, s, Put(Aged(u[s], new), m)) /\ QueueOK(k2, s, Aged(u[s], new))
    BY <2>1, QueueGrows
  <2> QED BY <2>2 DEF Sent
<1>2. ASSUME NEW s \in Servers, NEW a, NEW secs, a # 0, Pursues(k, s, a), Secured(c, s, a, secs, u, b)
      PROVE  Secured(c, s, a, secs, v, b)
  <2> DEFINE q == u[s]
             aq == Aged(q, new)
  <2>1. Short(q, UpFrame(c)) /\ Wants(m, s, a) /\ \A j \in DOMAIN q : Wants(q[j], s, a)
    BY <1>2 DEF Typed, Secured
  <2>2. aq \in Seq(UpFrame(c)) /\ \A j \in DOMAIN aq : Wants(aq[j], s, a)
    BY <2>1, UpShort, AgedPlaces, AgedUp DEF Short
  <2> HIDE DEF aq
  <2>3. \A j \in DOMAIN Put(aq, m) : Wants(Put(aq, m)[j], s, a)
    BY <2>1, <2>2, PutPlaces
  <2>4. v[s] = aq \/ v[s] = Put(aq, m)
    BY DEF aq, Sent
  <2> HIDE DEF v
  <2> QED BY <1>2, <2>2, <2>3, <2>4 DEF Secured
<1>3. LeaseOK(c, k2, v, b)
  <2>1. k.addr # 0 => k.server \in Servers /\ Pursues(k, k.server, k.addr)
    BY DEF Backed, StateOK, Pursues
  <2> HIDE DEF v
  <2> QED BY <1>2, <2>1 DEF Backed, LeaseOK
<1>4. ASSUME NEW i \in DOMAIN Aged(d, new) PROVE AnswerOK(c, k2, v, b, Aged(d, new)[i])
  <2> DEFINE f == Aged(d, new)[i]
  <2>1. i \in DOMAIN d /\ Short(d, DownFrame)
    BY AgedPlaces DEF Typed
  <2>2. /\ f.kind = d[i].kind /\ f.yiaddr = d[i].yiaddr /\ f.server = d[i].server
        /\ f.age = d[i].age /\ (f.cur => d[i].cur)
    BY <2>1, AgedDown
  <2>3. AnswerOK(c, k, u, b, d[i])
    BY <2>1 DEF Backed, AnswersOK
  <2>4. d[i].server \in Servers
    <3>1. d[i] \in DownFrame
      BY <2>1 DEF Short
    <3> QED BY <3>1 DEF DownFrame
  <2> HIDE DEF f, v
  <2>5. AnswerOK(c, k2, v, b, f)
    BY <1>2, <2>2, <2>3, <2>4 DEF AnswerOK
  <2> QED BY <2>5 DEF f
<1> QED BY <1>1, <1>3, <1>4 DEF Backed, AnswersOK

\* The client takes an OFFER.
LEMMA TakesOffer ==
    ASSUME NEW c \in Clients, NEW k, NEW u, NEW d, NEW b, Typed(c, k, u, d, b),
           Backed(c, k, u, d, b), NEW k2, StateOK(k2), k.state = "Selecting", k2.addr = 0
    PROVE  Backed(c, k2, u, d, b)
<1>1. \A s, a : ~Pursues(k, s, a)
  BY DEF Backed, StateOK, Pursues
<1> QED BY <1>1 DEF Backed, LeaseOK, QueueOK, AnswersOK, AnswerOK

\* The client takes an ACK.
LEMMA TakesAck ==
    ASSUME NEW c \in Clients, NEW k, NEW u, NEW d, NEW b, Typed(c, k, u, d, b),
           Backed(c, k, u, d, b), NEW m \in DownFrame, AnswerOK(c, k, u, b, m),
           m.kind = "ACK", m.cur
    PROVE  Backed(c, Bind(k, m), u, d, b)
<1> DEFINE k2 == Bind(k, m)
<1>1. /\ k2.state = "Bound" /\ k2.addr = m.yiaddr /\ k2.expires = LeaseSecs /\ k2.server = m.server
  BY DEF Typed, ClientRec, Bind
<1>2. m.server \in Servers /\ m.age \in 0..MaxDelay
  BY DEF DownFrame
<1>3. /\ m.yiaddr # 0 /\ Pursues(k, m.server, m.yiaddr)
      /\ Secured(c, m.server, m.yiaddr, LeaseSecs - m.age, u, b)
  BY DEF AnswerOK
<1>4. \A s, a : Pursues(k, s, a) => a = m.yiaddr
  BY <1>3 DEF Backed, StateOK, Pursues
<1> HIDE DEF k2
<1>5. StateOK(k2)
  BY <1>1, <1>2, <1>3 DEF StateOK
<1>6. \A s, a : Pursues(k, s, a) => Pursues(k2, s, a)
  BY <1>1, <1>3, <1>4 DEF Pursues
<1>7. LeaseOK(c, k2, u, b)
  <2>1. m.server \in DOMAIN b => \A e \in b[m.server] : e.expires \in Nat
    BY <1>2 DEF Typed, Lease
  <2>2. /\ LeaseSecs - MaxDelay \in Int /\ LeaseSecs - m.age \in Int
        /\ LeaseSecs - MaxDelay <= LeaseSecs - m.age
    BY <1>2, Consts
  <2>3. Secured(c, m.server, m.yiaddr, LeaseSecs - MaxDelay, u, b)
    <3> DEFINE x == LeaseSecs - MaxDelay
               y == LeaseSecs - m.age
    <3>1. Secured(c, m.server, m.yiaddr, y, u, b) /\ x \in Int /\ y \in Int /\ x <= y
      BY <1>3, <2>2
    <3> HIDE DEF x, y
    <3>2. Secured(c, m.server, m.yiaddr, x, u, b)
      BY <2>1, <3>1 DEF Secured, Keeps
    <3> QED BY <3>2 DEF x
  <2> QED BY <1>1, <2>3 DEF LeaseOK
<1>8. \A s \in Servers : QueueOK(k2, s, u[s])
  BY <1>6 DEF Backed, QueueOK
<1>9. AnswersOK(c, k2, u, d, b)
  BY <1>6 DEF Backed, AnswersOK, AnswerOK
<1>10. Backed(c, k2, u, d, b)
  BY <1>5, <1>7, <1>8, <1>9 DEF Backed
<1> QED BY <1>10 DEF k2

\* The client's timer, when its lease has not expired.
LEMMA Polls ==
    ASSUME NEW c \in Clients, NEW k, NEW a, NEW u, NEW d, NEW b, Typed(c, k, u, d, b),
           Backed(c, k, u, d, b), Timed(k, a), k.state # "Off", k.deadline = 0,
           ~Expired(k), NEW dests, NEW new \in BOOLEAN
    PROVE  LET m == PollMsg(c, k, PollState(k))
           IN  Backed(c, Polled(k, PollState(k)),
                      Sent(u, dests, m, new), Aged(d, new), b)
<1> DEFINE st == PollState(k)
           k2 == Polled(k, st)
           m == PollMsg(c, k, st)
<1>1. m \in UpFrame(c)
  BY PollKeeps
<1>2. StateOK(k) /\ k \in ClientRec
  BY DEF Backed, Typed
<1>3. /\ k.state \in {"Bound", "Renewing"} => st \in {"Renewing", "Rebinding"}
      /\ k.state = "Init" => st = "Selecting"
      /\ k.state \in {"Selecting", "Requesting", "Rebinding"} => st = k.state
  BY DEF PollState
<1>4. k.state \in {"Init", "Selecting", "Requesting", "Bound", "Renewing", "Rebinding"}
  BY <1>2 DEF ClientRec, States
<1> HIDE DEF st
<1>5. /\ k2.state = st /\ k2.addr = k.addr /\ k2.server = k.server /\ k2.expires = k.expires
      /\ k2.offered = k.offered
  BY <1>2 DEF Polled, ClientRec
<1> HIDE DEF k2
<1>6. StateOK(k2)
  BY <1>2, <1>3, <1>4, <1>5 DEF StateOK
<1>7. CASE k.addr # 0
  <2>1. k.state # "Requesting"
    BY <1>2, <1>7 DEF StateOK
  <2>2. \A s, x : Pursues(k, s, x) => x = k.addr
    BY <1>7, <2>1 DEF Pursues
  <2>3. \A s : Pursues(k2, s, k.addr)
    BY <1>5, <1>7 DEF Pursues
  <2>4. requested(m) = k.addr /\ \A s : Wants(m, s, k.addr)
    BY <1>7 DEF PollMsg, Msg, Wants, requested
  <2> HIDE DEF m
  <2>5. Backed(c, k2, Sent(u, dests, m, new), Aged(d, new), b)
    BY <1>1, <1>5, <1>6, <1>7, <2>2, <2>3, <2>4, Sends
  <2> QED BY <2>5 DEF k2, m, st
<1>8. CASE k.addr = 0 /\ k.state = "Requesting"
  <2>1. st = "Requesting" /\ k.offered # 0 /\ k.server \in Servers
    BY <1>2, <1>3, <1>8 DEF StateOK
  <2>2. \A s, x : Pursues(k, s, x) => x = k.offered /\ s = k.server
    BY <1>8 DEF Pursues
  <2>3. Pursues(k2, k.server, k.offered)
    BY <1>5, <2>1 DEF Pursues
  <2>4. /\ requested(m) = k.offered /\ Wants(m, k.server, k.offered)
        /\ \A s \in Servers : Asks(m, s) => s = k.server
    <3>1. k.server # 0
      BY <2>1, LeaseAssumption
    <3> QED BY <1>8, <2>1, <3>1 DEF PollMsg, Msg, Wants, requested, Asks
  <2> HIDE DEF m
  <2>5. Backed(c, k2, Sent(u, dests, m, new), Aged(d, new), b)
    BY <1>1, <1>5, <1>6, <1>8, <2>1, <2>2, <2>3, <2>4, Sends
  <2> QED BY <2>5 DEF k2, m, st
<1>9. CASE k.addr = 0 /\ k.state # "Requesting"
  <2>1. st = "Selecting"
    BY <1>2, <1>3, <1>4, <1>9 DEF StateOK
  <2>2. \A s, x : ~Pursues(k, s, x)
    BY <1>9 DEF Pursues
  <2>3. \A s : ~Asks(m, s)
    BY <1>9, <2>1 DEF PollMsg, Msg, Asks
  <2> HIDE DEF m
  <2>4. Backed(c, k2, Sent(u, dests, m, new), Aged(d, new), b)
    BY <1>1, <1>5, <1>6, <1>9, <2>2, <2>3, Sends
  <2> QED BY <2>4 DEF k2, m, st
<1> QED BY <1>7, <1>8, <1>9

-----------------------------------------------------------------------------
(* Steps of a server, and the clock. *)

\* What a client learns from an answer is what the table says.
LEMMA Granted ==
    ASSUME NEW db \in SUBSET Lease, Unique(db), NEW s \in Servers, NEW m,
           m.mac \in Macs, m.kind \in Kinds, m.requested \in Nat, m.ciaddr \in Nat
    PROVE  /\ handle(db, s, m).reply.kind = "OFFER" => handle(db, s, m).reply.yiaddr # 0
           /\ handle(db, s, m).reply.kind = "ACK" =>
                 /\ m.server \in {0, s} /\ m.kind = "REQUEST"
                 /\ handle(db, s, m).reply.yiaddr = requested(m)
                 /\ Keeps(handle(db, s, m).db, m.mac, requested(m), LeaseSecs)
           /\ m.server \in {0, s} /\ m.kind = "REQUEST" =>
                 \/ handle(db, s, m).db = expire(db)
                 \/ Keeps(handle(db, s, m).db, m.mac, requested(m), LeaseSecs)
<1> DEFINE x == expire(db)
           r == answer(x, s, m)
           Good == /\ r.reply.kind = "OFFER" => r.reply.yiaddr # 0
                   /\ r.reply.kind = "ACK" =>
                         /\ m.server \in {0, s} /\ m.kind = "REQUEST"
                         /\ r.reply.yiaddr = requested(m)
                         /\ Keeps(r.db, m.mac, requested(m), LeaseSecs)
                   /\ m.server \in {0, s} /\ m.kind = "REQUEST" =>
                         r.db = x \/ Keeps(r.db, m.mac, requested(m), LeaseSecs)
<1>1. handle(db, s, m).db = r.db /\ handle(db, s, m).reply = r.reply
  BY HandleIs
<1>2. SUFFICES Good
  BY <1>1
<1> HIDE DEF x
<1>3. \A y, z : Silent(y, z).reply.kind = "none"
  BY DEF Silent, NoReply
<1>4. CASE m.server \in {0, s} /\ m.kind = "REQUEST"
  <2> DEFINE a == requested(m)
             new == [mac |-> m.mac, address |-> a, expires |-> LeaseSecs, offered |-> FALSE]
  <2>1. r = Request(x, s, m, a)
    BY <1>4 DEF answer
  <2>2. new \in Hold(x, m.mac, a, LeaseSecs, FALSE)
    BY DEF Hold
  <2>3. new.mac = m.mac /\ new.address = a /\ ~new.offered /\ new.expires >= LeaseSecs
    BY Consts
  <2> HIDE DEF a, new
  <2>4. Keeps(Hold(x, m.mac, a, LeaseSecs, FALSE), m.mac, a, LeaseSecs)
    BY <2>2, <2>3 DEF Keeps
  <2> HIDE DEF r
  <2>5. /\ r.reply.kind # "OFFER"
        /\ r.reply.kind = "ACK" =>
              r.reply.yiaddr = a /\ r.db = Hold(x, m.mac, a, LeaseSecs, FALSE)
        /\ r.db = x \/ r.db = Hold(x, m.mac, a, LeaseSecs, FALSE)
    BY <2>1 DEF Request, Result
  <2> QED BY <1>4, <2>4, <2>5 DEF a
<1>5. CASE m.server \in {0, s} /\ m.kind = "DISCOVER"
  <2>1. PICK a : r = Offer(x, m.mac, a)
    BY <1>5 DEF answer
  <2> HIDE DEF r
  <2>2. r.reply.kind # "ACK" /\ (r.reply.kind = "OFFER" => r.reply.yiaddr # 0)
    BY <2>1 DEF Offer, Silent, Result, NoReply
  <2> QED BY <1>5, <2>2
<1>6. CASE m.server \in {0, s} /\ m.kind = "INFORM"
  <2>1. r = Result(x, FALSE, "INFORMED", 0) \/ r = Silent(x, FALSE)
    BY <1>6 DEF answer
  <2> HIDE DEF r
  <2>2. r.reply.kind \notin {"ACK", "OFFER"}
    BY <2>1 DEF Silent, Result, NoReply
  <2> QED BY <1>6, <2>2
<1>7. CASE m.server \notin {0, s} \/ m.kind \in {"RELEASE", "DECLINE"}
  <2>1. \E y, z : r = Silent(y, z)
    BY <1>7 DEF answer
  <2> HIDE DEF r
  <2>2. r.reply.kind = "none"
    BY <1>3, <2>1
  <2> QED BY <1>7, <2>2
<1> QED BY <1>4, <1>5, <1>6, <1>7 DEF Kinds

\* A server handles the first frame of the client.
LEMMA OwnMessage ==
    ASSUME NEW c \in Clients, NEW k, NEW u, NEW d, NEW b, Typed(c, k, u, d, b),
           Backed(c, k, u, d, b), NEW s \in Servers, u[s] # <<>>,
           NEW db \in SUBSET Lease, Unique(db), s \in DOMAIN b => b[s] = db,
           NEW r, r = handle(db, s, Head(u[s]))
    PROVE  Backed(c, k, [u EXCEPT ![s] = Tail(@)],
                  IF r.reply = NoReply THEN d ELSE Put(d, Reply(r.reply, s, Head(u[s]))),
                  [b EXCEPT ![s] = r.db])
<1> DEFINE q == u[s]
           m == Head(q)
           v == [u EXCEPT ![s] = Tail(q)]
           b2 == [b EXCEPT ![s] = r.db]
           f == Reply(r.reply, s, m)
<1>1. q \in Seq(UpFrame(c)) /\ q # <<>> /\ m \in UpFrame(c)
  BY TailShort DEF Typed, Short
<1>2. /\ \A i \in DOMAIN Tail(q) : i + 1 \in DOMAIN q /\ Tail(q)[i] = q[i + 1] /\ i + 1 > 1
      /\ 1 \in DOMAIN q /\ m = q[1]
  BY <1>1, TailPlaces
<1>3. v[s] = Tail(q) /\ \A t \in Servers : t # s => v[t] = u[t]
  BY DEF Typed
<1>4. /\ DOMAIN b2 = DOMAIN b /\ (s \in DOMAIN b => b2[s] = r.db)
      /\ \A t \in DOMAIN b : t # s => b2[t] = b[t]
  BY DEF Typed
<1>5. /\ m.mac = c /\ m.mac \in Macs /\ m.kind \in Kinds
      /\ m.requested \in Nat /\ m.ciaddr \in Nat
  BY <1>1, Consts DEF UpFrame, Kinds
<1>6. /\ r.reply.kind = "OFFER" => r.reply.yiaddr # 0
      /\ r.reply.kind = "ACK" =>
            /\ m.server \in {0, s} /\ m.kind = "REQUEST"
            /\ r.reply.yiaddr = requested(m)
            /\ Keeps(r.db, c, requested(m), LeaseSecs)
      /\ m.server \in {0, s} /\ m.kind = "REQUEST" =>
            r.db = expire(db) \/ Keeps(r.db, c, requested(m), LeaseSecs)
      /\ r.db \in SUBSET Lease
  <2> HIDE DEF m
  <2>1. r.db \in SUBSET Lease
    BY <1>4, <1>5, HandleKeeps DEF m, Answer
  <2>2. r = handle(db, s, m)
    BY DEF m
  <2> QED BY <1>4, <1>5, <2>1, <2>2, Granted
<1>7. Backed(c, k, v, d, b)
  BY FewerAsked
<1> HIDE DEF v, b2, m
<1>8. ASSUME NEW t \in Servers, NEW a, NEW secs \in Int, secs <= LeaseSecs,
             Secured(c, t, a, secs, u, b)
      PROVE  Secured(c, t, a, secs, v, b2)
  <2>1. CASE t # s
    BY <1>3, <1>4, <1>8, <2>1 DEF Secured
  <2>2. CASE t = s
    <3>1. \A j \in DOMAIN q : Wants(q[j], s, a)
      BY <1>8, <2>2 DEF Secured
    <3>2. \A j \in DOMAIN v[s] : Wants(v[s][j], s, a)
      BY <1>2, <1>3, <3>1
    <3>3. m.server \in {0, s} /\ m.kind = "REQUEST" /\ requested(m) = a
      BY <1>2, <3>1 DEF Wants
    <3>4. secs > 0 /\ s \in DOMAIN b => Keeps(db, c, a, secs)
      BY <1>8, <2>2 DEF Secured
    <3>5. \A e : e \in db \/ e \in r.db => e.expires \in Nat
      BY <1>4, <1>6 DEF Lease
    <3>6. r.db = expire(db) /\ secs > 0 /\ s \in DOMAIN b => Keeps(r.db, c, a, secs)
      BY <3>4, <3>5 DEF Keeps, expire
    <3>7. Keeps(r.db, c, a, LeaseSecs) => Keeps(r.db, c, a, secs)
      BY <1>8, <3>5, Consts DEF Keeps
    <3>8. secs > 0 /\ s \in DOMAIN b2 => Keeps(b2[s], c, a, secs)
      BY <1>4, <1>6, <3>3, <3>6, <3>7
    <3> QED BY <2>2, <3>2, <3>8 DEF Secured
  <2> QED BY <2>1, <2>2
<1>9. LeaseOK(c, k, v, b2)
  <2>1. k.expires - MaxDelay \in Int /\ k.expires - MaxDelay <= LeaseSecs
    BY Consts DEF Typed, ClientRec
  <2>2. k.addr # 0 => k.server \in Servers
    BY DEF Backed, StateOK
  <2> QED BY <1>8, <2>1, <2>2 DEF Backed, LeaseOK
<1>10. ASSUME NEW i \in DOMAIN d PROVE AnswerOK(c, k, v, b2, d[i])
  <2>1. d[i] \in DownFrame
    BY DEF Typed, Short
  <2>2. d[i].server \in Servers /\ LeaseSecs - d[i].age \in Int /\ LeaseSecs - d[i].age <= LeaseSecs
    BY <2>1, Consts DEF DownFrame
  <2> QED BY <1>8, <2>2 DEF Backed, AnswersOK, AnswerOK
<1>11. AnswerOK(c, k, v, b2, f)
  <2>1. /\ f.kind = r.reply.kind /\ f.yiaddr = r.reply.yiaddr /\ f.server = s /\ f.age = 0
        /\ f.cur = m.cur
    BY DEF Reply
  <2> HIDE DEF f
  <2>2. SUFFICES ASSUME f.kind = "ACK", f.cur
                 PROVE  /\ f.yiaddr # 0 /\ Pursues(k, s, f.yiaddr)
                        /\ Secured(c, s, f.yiaddr, LeaseSecs, v, b2)
    BY <1>6, <2>1, Consts DEF AnswerOK
  <2>3. Asks(m, s) /\ f.yiaddr = requested(m) /\ Keeps(r.db, c, requested(m), LeaseSecs)
    BY <1>6, <2>1, <2>2 DEF Asks
  <2>4. /\ requested(m) # 0 /\ Pursues(k, s, requested(m))
        /\ \A j \in DOMAIN q : j > 1 => Wants(q[j], s, requested(m))
    BY <1>2, <2>3 DEF Backed, QueueOK
  <2>5. \A j \in DOMAIN v[s] : Wants(v[s][j], s, requested(m))
    BY <1>2, <1>3, <2>4
  <2> QED BY <1>4, <2>3, <2>4, <2>5 DEF Secured
<1>12. \A i \in DOMAIN Put(d, f) : AnswerOK(c, k, v, b2, Put(d, f)[i])
  <2>1. d \in Seq(DownFrame)
    BY DEF Typed, Short
  <2> HIDE DEF f
  <2> QED BY <1>10, <1>11, <2>1, PutPlaces
<1>13. Backed(c, k, v, IF r.reply = NoReply THEN d ELSE Put(d, f), b2)
  <2> HIDE DEF f
  <2> QED BY <1>7, <1>9, <1>10, <1>12 DEF Backed, AnswersOK
<1> QED BY <1>13 DEF v, b2, f, m

Second(k) == [k EXCEPT !.expires = Less(@), !.deadline = Less(@)]
OlderAll(u) == [s \in Servers |-> Older(u[s])]
LaterAll(b) == [s \in DOMAIN b |-> Later(b[s])]

\* A second passes for the client, its frames and the leases.
LEMMA SecondPasses ==
    ASSUME NEW c \in Clients, NEW k, NEW u, NEW d, NEW b, Typed(c, k, u, d, b),
           Backed(c, k, u, d, b)
    PROVE  Backed(c, Second(k), OlderAll(u), Older(d), LaterAll(b))
<1> DEFINE k2 == Second(k)
           v == OlderAll(u)
           b2 == LaterAll(b)
<1>1. /\ k2.state = k.state /\ k2.addr = k.addr /\ k2.server = k.server /\ k2.offered = k.offered
      /\ k2.expires = Less(k.expires) /\ k.expires \in Nat
  BY DEF Typed, ClientRec, Second
<1>2. ASSUME NEW s \in Servers, NEW i \in DOMAIN u[s]
      PROVE  /\ \A a : Wants(v[s][i], s, a) <=> Wants(u[s][i], s, a)
             /\ Asks(v[s][i], s) <=> Asks(u[s][i], s)
             /\ requested(v[s][i]) = requested(u[s][i])
  <2>1. u[s][i] \in UpFrame(c)
    BY <1>2 DEF Typed, Short
  <2>2. v[s][i] = [u[s][i] EXCEPT !.age = @ + 1]
    BY <1>2 DEF Older, OlderAll
  <2> HIDE DEF v
  <2> QED BY <2>1, <2>2 DEF UpFrame, Wants, Asks, requested
<1>3. \A s \in Servers : DOMAIN v[s] = DOMAIN u[s]
  BY DEF Older, OlderAll
<1>4. ASSUME NEW s \in DOMAIN b, NEW e \in b[s]
      PROVE  \E f \in b2[s] : /\ f.mac = e.mac /\ f.address = e.address /\ f.offered = e.offered
                              /\ f.expires = Less(e.expires) /\ e.expires \in Nat
  <2> DEFINE f == [e EXCEPT !.expires = Less(@)]
  <2>1. f \in b2[s]
    BY <1>4, Zenon DEF Later, LaterAll
  <2>2. e \in Lease
    BY DEF Typed
  <2>3. /\ f.mac = e.mac /\ f.address = e.address /\ f.offered = e.offered
        /\ f.expires = Less(e.expires) /\ e.expires \in Nat
    BY <2>2 DEF Lease
  <2> QED BY <2>1, <2>3
<1>0. DOMAIN b2 = DOMAIN b
  BY DEF LaterAll
<1> HIDE DEF k2, v, b2
<1>5. ASSUME NEW s \in Servers, NEW a, NEW secs \in Int, NEW left \in Int,
             left <= secs - 1 \/ left <= 0, Secured(c, s, a, secs, u, b)
      PROVE  Secured(c, s, a, left, v, b2)
  <2>1. \A j \in DOMAIN v[s] : Wants(v[s][j], s, a)
    BY <1>2, <1>3, <1>5 DEF Secured
  <2>2. left > 0 /\ s \in DOMAIN b2 => Keeps(b2[s], c, a, left)
    <3>1. SUFFICES ASSUME left > 0, s \in DOMAIN b2 PROVE Keeps(b2[s], c, a, left)
      OBVIOUS
    <3>2. PICK e \in b[s] : e.mac = c /\ e.address = a /\ ~e.offered /\ e.expires >= secs
      BY <1>0, <1>5, <3>1 DEF Secured, Keeps
    <3>3. PICK f \in b2[s] : /\ f.mac = e.mac /\ f.address = e.address /\ f.offered = e.offered
                             /\ f.expires = Less(e.expires) /\ e.expires \in Nat
      BY <1>0, <1>4, <3>1
    <3>4. Less(e.expires) >= left
      BY <1>5, <3>1, <3>2, <3>3 DEF Less
    <3> QED BY <3>2, <3>3, <3>4 DEF Keeps
  <2> QED BY <2>1, <2>2 DEF Secured
<1>6. \A s, a : Pursues(k, s, a) => Pursues(k2, s, a)
  BY <1>1 DEF Pursues
<1>7. LeaseOK(c, k2, v, b2)
  <2>1. /\ k.expires - MaxDelay \in Int /\ Less(k.expires) - MaxDelay \in Int
        /\ \/ Less(k.expires) - MaxDelay <= (k.expires - MaxDelay) - 1
           \/ Less(k.expires) - MaxDelay <= 0
    BY <1>1, Consts DEF Less
  <2>2. k.addr # 0 => k.server \in Servers
    BY DEF Backed, StateOK
  <2> QED BY <1>1, <1>5, <2>1, <2>2 DEF Backed, LeaseOK
<1>8. ASSUME NEW s \in Servers PROVE QueueOK(k2, s, v[s])
  BY <1>2, <1>3, <1>6 DEF Backed, QueueOK
<1>9. ASSUME NEW i \in DOMAIN Older(d) PROVE AnswerOK(c, k2, v, b2, Older(d)[i])
  <2>1. i \in DOMAIN d /\ Older(d)[i] = [d[i] EXCEPT !.age = @ + 1]
    BY DEF Older
  <2>2. d[i] \in DownFrame
    BY <2>1 DEF Typed, Short
  <2> DEFINE f == Older(d)[i]
  <2>3. /\ f.kind = d[i].kind /\ f.yiaddr = d[i].yiaddr /\ f.server = d[i].server
        /\ f.age = d[i].age + 1 /\ f.cur = d[i].cur
    BY <2>1, <2>2 DEF DownFrame
  <2>4. /\ d[i].server \in Servers /\ LeaseSecs - d[i].age \in Int
        /\ LeaseSecs - (d[i].age + 1) \in Int
        /\ LeaseSecs - (d[i].age + 1) <= (LeaseSecs - d[i].age) - 1
    BY <2>2, Consts DEF DownFrame
  <2>5. AnswerOK(c, k, u, b, d[i])
    BY <2>1 DEF Backed, AnswersOK
  <2> HIDE DEF f
  <2>6. AnswerOK(c, k2, v, b2, f)
    BY <1>5, <1>6, <2>3, <2>4, <2>5 DEF AnswerOK
  <2> QED BY <2>6 DEF f
<1>10. StateOK(k2)
  BY <1>1 DEF Backed, StateOK
<1>11. Backed(c, k2, v, Older(d), b2)
  BY <1>7, <1>8, <1>9, <1>10 DEF Backed, AnswersOK
<1> QED BY <1>11 DEF k2, v, b2

-----------------------------------------------------------------------------
(* Every step together. *)

\* Nothing has happened yet.
LEMMA LInvInit == Init => LInv
<1> SUFFICES ASSUME Init PROVE LInv
  OBVIOUS
<1>1. IInv /\ DeadOK /\ FilesOK
  BY InitInv DEF Init, DeadOK, FilesOK
<1>2. ASSUME NEW c \in Clients PROVE Backed(c, client[c], up[c], down[c], backing)
  <2>1. /\ client[c] = Off /\ down[c] = <<>> /\ \A s \in Servers : up[c][s] = <<>>
    BY DEF Init
  <2>2. StateOK(Off) /\ Off.addr = 0
    BY DEF StateOK, Off
  <2> QED BY <2>1, <2>2 DEF Backed, LeaseOK, QueueOK, AnswersOK
<1> QED BY <1>1, <1>2 DEF LInv

\* Another client's state, frames and leases do not change.
LEMMA OneClientBacked ==
    ASSUME LInv, IInv', NEW c \in Clients, NEW k, NEW u, NEW d,
           client' = [client EXCEPT ![c] = k],
           up' = [up EXCEPT ![c] = u] \/ (up' = up /\ u = up[c]),
           down' = [down EXCEPT ![c] = d] \/ (down' = down /\ d = down[c]),
           UNCHANGED servers, Backed(c, k, u, d, backing)
    PROVE  LInv'
<1>1. backing' = backing /\ DeadOK' /\ FilesOK'
  BY DEF LInv, servers, backing, DeadOK, FilesOK
<1>2. ASSUME NEW x \in Clients
      PROVE  Backed(x, client'[x], up'[x], down'[x], backing)
  <2>1. client \in [Clients -> ClientRec] /\ DOMAIN up = Clients /\ DOMAIN down = Clients
    BY DEF LInv, IInv, ClientsOK, UpOK, DownOK
  <2>2. CASE x = c
    BY <2>1, <2>2
  <2>3. CASE x # c
    <3>1. client'[x] = client[x] /\ up'[x] = up[x] /\ down'[x] = down[x]
      BY <2>1, <2>3
    <3>2. Backed(x, client[x], up[x], down[x], backing)
      BY DEF LInv
    <3> QED BY <3>1, <3>2
  <2> QED BY <2>2, <2>3
<1> QED BY <1>1, <1>2 DEF LInv

\* The steps of a client and its frames.
LEMMA ClientBacked ==
    ASSUME LInv, IInv', NEW c \in Clients,
           \/ start_dhcp(c) \/ stop_dhcp(c) \/ release_dhcp(c) \/ change_updown(c) \/ dhcp_timers(c)
           \/ ReceiveOffer(c) \/ ReceiveAck(c) \/ ReceiveNak(c) \/ ReceiveOther(c)
           \/ LoseDown(c) \/ \E s \in Servers : LoseUp(c, s)
    PROVE  LInv'
<1> DEFINE k == client[c]
           u == up[c]
           d == down[c]
           b == backing
           fresh(dests, m) == Sent(u, dests, m, TRUE)
<1>1. Typed(c, k, u, d, b) /\ Backed(c, k, u, d, b) /\ Timed(k, ip[c])
  BY TypedInv DEF LInv, IInv, ClientsOK
<1>2. client = [client EXCEPT ![c] = k] /\ u = up[c] /\ d = down[c]
  BY DEF LInv, IInv, ClientsOK
<1>3. /\ NewClient.addr = 0 /\ NewClient.state = "Init" /\ Off.addr = 0 /\ Off.state = "Off"
  BY DEF NewClient, Off
<1>4. \A m : fresh({}, m) = [s \in Servers |-> Aged(u[s], TRUE)]
  BY DEF Sent
<1> DEFINE mr == Msg(c, "RELEASE", k.server, 0, k.addr)
<1>5. mr.kind # "REQUEST"
  BY DEF Msg
<1>6. ASSUME NEW k2, k2.addr = 0, k2.state \in {"Off", "Init", "Selecting"},
             NEW dests, NEW m, m.kind # "REQUEST"
      PROVE  Backed(c, k2, fresh(dests, m), Aged(d, TRUE), b)
  BY <1>1, <1>6, Fresh
<1> HIDE DEF k, u, d, b, fresh, mr
<1>7. CASE start_dhcp(c) \/ stop_dhcp(c)
  <2>1. PICK k2 \in {NewClient, Off} : client' = [client EXCEPT ![c] = k2]
    BY <1>7 DEF start_dhcp, stop_dhcp
  <2>2. /\ up' = [up EXCEPT ![c] = fresh({}, mr)] /\ down' = [down EXCEPT ![c] = Aged(d, TRUE)]
        /\ UNCHANGED servers
    BY <1>7, <1>4 DEF start_dhcp, stop_dhcp, NewTransaction, u, d
  <2>3. Backed(c, k2, fresh({}, mr), Aged(d, TRUE), b)
    BY <1>3, <1>5, <1>6, <2>1
  <2> QED BY <2>1, <2>2, <2>3, OneClientBacked DEF b
<1>8. CASE release_dhcp(c)
  <2>1. PICK dests \in {{}, Servers} :
            /\ up' = [up EXCEPT ![c] = fresh(dests, mr)] /\ down' = [down EXCEPT ![c] = Aged(d, TRUE)]
    <3>1. CASE k.addr # 0
      <4>1. Send(c, mr, Servers, TRUE) \/ Send(c, mr, {}, TRUE)
        BY <1>8, <3>1 DEF release_dhcp, mr, k
      <4>2. CASE Send(c, mr, Servers, TRUE)
        BY <4>2 DEF Send, Sent, fresh, u, d
      <4>3. CASE Send(c, mr, {}, TRUE)
        BY <4>3 DEF Send, Sent, fresh, u, d
      <4> QED BY <4>1, <4>2, <4>3
    <3>2. CASE k.addr = 0
      <4>1. NewTransaction(c)
        BY <1>8, <3>2 DEF release_dhcp, k
      <4> QED BY <4>1, <1>4 DEF NewTransaction, u, d
    <3> QED BY <3>1, <3>2
  <2>2. client' = [client EXCEPT ![c] = Off] /\ UNCHANGED servers
    BY <1>8 DEF release_dhcp
  <2>3. Backed(c, Off, fresh(dests, mr), Aged(d, TRUE), b)
    BY <1>3, <1>5, <1>6
  <2> QED BY <2>1, <2>2, <2>3, OneClientBacked DEF b
<1>9. CASE dhcp_timers(c)
  <2> DEFINE st == PollState(k)
  <2>1. CASE Expired(k)
    <3> DEFINE m == PollMsg(c, NewClient, st)
               dests == PollDests(NewClient, st)
    <3>1. st = "Selecting"
      BY <2>1 DEF PollState
    <3>2. /\ client' = [client EXCEPT ![c] = Polled(NewClient, st)]
          /\ Send(c, m, dests, TRUE) /\ UNCHANGED servers
      BY <1>9, <2>1 DEF dhcp_timers, k
    <3>3. m.kind # "REQUEST"
      BY <1>3, <3>1 DEF PollMsg, Msg
    <3>4. Polled(NewClient, st).addr = 0 /\ Polled(NewClient, st).state = "Selecting"
      BY <3>1 DEF Polled, NewClient, Off
    <3> HIDE DEF m, dests
    <3>5. up' = [up EXCEPT ![c] = fresh(dests, m)] /\ down' = [down EXCEPT ![c] = Aged(d, TRUE)]
      BY <3>2 DEF Send, Sent, fresh, u, d
    <3>6. Backed(c, Polled(NewClient, st), fresh(dests, m), Aged(d, TRUE), b)
      BY <1>6, <3>3, <3>4
    <3> QED BY <3>2, <3>5, <3>6, OneClientBacked DEF b
  <2>2. CASE ~Expired(k)
    <3> DEFINE m == PollMsg(c, k, st)
               dests == PollDests(k, st)
               new == k.state = "Bound"
               v == Sent(u, dests, m, new)
    <3>1. /\ client' = [client EXCEPT ![c] = Polled(k, st)]
          /\ Send(c, m, dests, Expired(k) \/ new) /\ UNCHANGED servers
          /\ k.state # "Off" /\ k.deadline = 0
      BY <1>9, <2>2 DEF dhcp_timers, k
    <3>2. new \in BOOLEAN /\ (Expired(k) \/ new) = new
      BY <2>2 DEF Expired
    <3>3. Backed(c, Polled(k, st), v, Aged(d, new), b)
      <4> HIDE DEF new
      <4> QED BY <1>1, <2>2, <3>1, <3>2, Polls
    <3>4. Send(c, m, dests, new)
      BY <3>1, <3>2
    <3> HIDE DEF m, dests, new
    <3>5. up' = [up EXCEPT ![c] = v] /\ down' = [down EXCEPT ![c] = Aged(d, new)]
      BY <3>4 DEF Send, Sent, u, d
    <3> HIDE DEF v
    <3> QED BY <3>1, <3>3, <3>5, OneClientBacked DEF b
  <2> QED BY <2>1, <2>2
<1>10. d # <<>> => /\ Backed(c, k, u, Tail(d), b) /\ AnswerOK(c, k, u, b, Head(d))
                   /\ Head(d) \in DownFrame /\ Typed(c, k, u, Tail(d), b)
  BY <1>1, FewerAnswers, TailShort DEF Typed
<1>11. Arrived(c) => d # <<>> /\ down' = [down EXCEPT ![c] = Tail(d)]
  BY DEF Arrived, d
<1>12. CASE ReceiveOffer(c)
  <2> DEFINE m == Head(d)
             k2 == [k EXCEPT !.server = m.server, !.offered = m.yiaddr,
                             !.state = "Requesting", !.retry = RetryMin, !.deadline = 0]
  <2>1. /\ client' = [client EXCEPT ![c] = k2] /\ up' = up /\ UNCHANGED servers
        /\ Arrived(c) /\ AcceptsOffer(k, m)
    BY <1>2, <1>12 DEF ReceiveOffer, k, d
  <2>2. k.state = "Selecting" /\ m.kind = "OFFER" /\ m.yiaddr # 0 /\ m.server \in Servers
    BY <1>10, <1>11, <2>1 DEF AcceptsOffer, AnswerOK, DownFrame
  <2> HIDE DEF m
  <2>3. /\ k2.state = "Requesting" /\ k2.addr = k.addr /\ k2.server = m.server
        /\ k2.offered = m.yiaddr /\ k.addr = 0
    BY <1>1, <2>2 DEF Typed, ClientRec, Backed, StateOK
  <2> HIDE DEF k2
  <2>4. StateOK(k2)
    BY <2>2, <2>3 DEF StateOK
  <2>5. Backed(c, k2, u, Tail(d), b)
    BY <1>10, <1>11, <2>1, <2>2, <2>3, <2>4, TakesOffer
  <2> QED BY <1>11, <2>1, <2>5, <1>2, OneClientBacked DEF b
<1>13. CASE ReceiveAck(c)
  <2> DEFINE m == Head(d)
  <2>1. /\ client' = [client EXCEPT ![c] = Bind(k, m)] /\ up' = up
        /\ UNCHANGED servers /\ Arrived(c) /\ AcceptsAck(k, m)
    BY <1>2, <1>13 DEF ReceiveAck, k, d
  <2>2. m.kind = "ACK" /\ m.cur
    BY <2>1 DEF AcceptsAck
  <2>3. Backed(c, Bind(k, m), u, Tail(d), b)
    BY <1>10, <1>11, <2>1, <2>2, TakesAck
  <2> HIDE DEF m
  <2> QED BY <1>11, <2>1, <2>3, <1>2, OneClientBacked DEF b
<1>14. CASE ReceiveNak(c)
  <2>1. /\ client' = [client EXCEPT ![c] = NewClient] /\ d # <<>> /\ UNCHANGED servers
        /\ up' = [up EXCEPT ![c] = fresh({}, mr)]
        /\ down' = [down EXCEPT ![c] = Aged(Tail(d), TRUE)]
    BY <1>4, <1>14 DEF ReceiveNak, u, d
  <2>2. Backed(c, NewClient, fresh({}, mr), Aged(Tail(d), TRUE), b)
    BY <1>3, <1>5, <1>10, <2>1, Fresh DEF fresh
  <2> QED BY <2>1, <2>2, OneClientBacked DEF b
<1>15. CASE ReceiveOther(c) \/ LoseDown(c)
  <2>1. /\ client' = [client EXCEPT ![c] = k] /\ d # <<>> /\ UNCHANGED servers
        /\ up' = up /\ down' = [down EXCEPT ![c] = Tail(d)]
    BY <1>2, <1>11, <1>15 DEF ReceiveOther, LoseDown, d
  <2> QED BY <1>10, <2>1, <1>2, OneClientBacked DEF b
<1>16. CASE \E s \in Servers : LoseUp(c, s)
  <2>1. PICK s \in Servers : LoseUp(c, s)
    BY <1>16
  <2>2. /\ client' = [client EXCEPT ![c] = k] /\ u[s] # <<>> /\ UNCHANGED servers
        /\ up' = [up EXCEPT ![c] = [u EXCEPT ![s] = Tail(@)]] /\ down' = down
    BY <1>2, <2>1 DEF LoseUp, u
  <2>3. Backed(c, k, [u EXCEPT ![s] = Tail(@)], d, b)
    BY <1>1, <2>2, FewerAsked
  <2> QED BY <2>2, <2>3, <1>2, OneClientBacked DEF b
<1>17. CASE change_updown(c)
  <2>1. client' = [client EXCEPT ![c] = k] /\ up' = up /\ down' = down /\ UNCHANGED servers
    BY <1>2, <1>17 DEF change_updown
  <2> QED BY <1>1, <1>2, <2>1, OneClientBacked DEF b
<1> QED BY <1>7, <1>8, <1>9, <1>12, <1>13, <1>14, <1>15, <1>16, <1>17

\* A server's table becomes r.db, where r answers a message of `mac'.
LEMMA TableBacked ==
    ASSUME LInv, NEW s \in Servers, alive[s], NEW m,
           m.mac \in Macs, m.kind \in Kinds, m.requested \in Nat, m.ciaddr \in Nat,
           NEW r, r = handle(table[s], s, m),
           table' = [table EXCEPT ![s] = r.db], dirty' = [dirty EXCEPT ![s] = @ \/ r.dirty],
           UNCHANGED <<file, alive, lost>>
    PROVE  /\ DeadOK' /\ FilesOK'
           /\ backing' = [backing EXCEPT ![s] = r.db]
           /\ s \in DOMAIN backing => backing[s] = table[s]
           /\ \A c \in Clients : c # m.mac => Backed(c, client[c], up[c], down[c], backing')
<1>1. /\ table \in [Servers -> SUBSET Lease] /\ Unique(table[s])
      /\ dirty \in [Servers -> BOOLEAN] /\ alive \in [Servers -> BOOLEAN]
  BY DEF LInv, IInv, TablesOK, TableUnique
<1>2. r \in Answer
  BY <1>1, HandleKeeps
<1>3. r.dirty \in BOOLEAN /\ r.db \in SUBSET Lease
  BY <1>2 DEF Answer
<1>4. /\ table'[s] = r.db /\ \A t \in Servers : t # s => table'[t] = table[t]
      /\ dirty'[s] = (dirty[s] \/ r.dirty) /\ \A t \in Servers : t # s => dirty'[t] = dirty[t]
  BY <1>1
<1>5. DeadOK'
  BY <1>4 DEF DeadOK, LInv
<1>6. FilesOK'
  <2>1. SUFFICES ASSUME NEW t \in Servers, alive[t], ~dirty'[t], ~lost[t], NEW e \in table'[t],
                        ~e.offered, e.expires > 0
                 PROVE  e \in file[t]
    BY DEF FilesOK
  <2>2. CASE t # s
    BY <1>4, <2>1, <2>2 DEF FilesOK, LInv
  <2>3. CASE t = s
    <3>1. ~dirty[s] /\ ~r.dirty
      BY <1>1, <1>3, <1>4, <2>1, <2>3
    <3>2. e \in table[s]
      BY <1>1, <1>4, <2>1, <2>3, <3>1, CleanAnswer
    <3> QED BY <2>1, <2>3, <3>1, <3>2 DEF FilesOK, LInv
  <2> QED BY <2>2, <2>3
<1>7. /\ backing' = [backing EXCEPT ![s] = r.db] /\ DOMAIN backing' = DOMAIN backing
      /\ s \in DOMAIN backing => backing[s] = table[s]
      /\ DOMAIN backing \subseteq Servers
  BY <1>1, <1>4 DEF backing
<1>8. ASSUME NEW c \in Clients, c # m.mac
      PROVE  Backed(c, client[c], up[c], down[c], backing')
  <2>1. Typed(c, client[c], up[c], down[c], backing) /\ Backed(c, client[c], up[c], down[c], backing)
    BY TypedInv DEF LInv
  <2>2. \A e \in table[s] : e.mac = c /\ e.expires > 0 => e \in r.db
    BY <1>1, <1>8, Survives
  <2>3. \A t \in DOMAIN backing' : \A e \in backing[t] :
            e.mac = c /\ ~e.offered /\ e.expires > 0 => e \in backing'[t]
    BY <1>7, <2>2
  <2> QED BY <1>7, <2>1, <2>3, MoreLeases
<1> QED BY <1>5, <1>6, <1>7, <1>8

\* A server handles a client's message.
LEMMA ReceiveBacked ==
    ASSUME LInv, IInv', NEW c \in Clients, NEW s \in Servers, ServerReceive(c, s)
    PROVE  LInv'
<1> DEFINE q == up[c][s]
           m == Head(q)
           r == handle(table[s], s, m)
           d == IF r.reply = NoReply THEN down[c] ELSE Put(down[c], Reply(r.reply, s, m))
           v == [up[c] EXCEPT ![s] = Tail(@)]
<1>1. Typed(c, client[c], up[c], down[c], backing) /\ Backed(c, client[c], up[c], down[c], backing)
  BY TypedInv DEF LInv
<1>2. alive[s] /\ q # <<>> /\ m \in UpFrame(c)
  BY <1>1, TailShort DEF ServerReceive, Typed
<1>3. /\ m.mac = c /\ m.mac \in Macs /\ m.kind \in Kinds
      /\ m.requested \in Nat /\ m.ciaddr \in Nat
  BY <1>2, Consts DEF UpFrame, Kinds
<1>4. /\ table' = [table EXCEPT ![s] = r.db] /\ dirty' = [dirty EXCEPT ![s] = @ \/ r.dirty]
      /\ down' = [down EXCEPT ![c] = d] /\ UNCHANGED <<client, file, alive, lost>>
      /\ up' = [up EXCEPT ![c] = v]
  BY DEF ServerReceive, Handled
<1>5. r = handle(table[s], s, m)
  OBVIOUS
<1>6. /\ DOMAIN up = Clients /\ DOMAIN down = Clients
      /\ Unique(table[s]) /\ table[s] \in SUBSET Lease
  BY DEF LInv, IInv, UpOK, DownOK, TablesOK, TableUnique
<1>7. /\ DeadOK' /\ FilesOK'
      /\ backing' = [backing EXCEPT ![s] = r.db]
      /\ s \in DOMAIN backing => backing[s] = table[s]
      /\ \A x \in Clients : x # c => Backed(x, client[x], up[x], down[x], backing')
  <2> HIDE DEF r, m
  <2> QED BY <1>2, <1>3, <1>4, <1>5, TableBacked
<1>8. Backed(c, client[c], v, d, backing')
  <2>1. /\ r = handle(table[s], s, Head(up[c][s])) /\ up[c][s] # <<>>
        /\ table[s] \in SUBSET Lease /\ Unique(table[s])
        /\ s \in DOMAIN backing => backing[s] = table[s]
    BY <1>2, <1>6, <1>7
  <2> HIDE DEF r
  <2>2. Backed(c, client[c], [up[c] EXCEPT ![s] = Tail(@)],
               IF r.reply = NoReply THEN down[c] ELSE Put(down[c], Reply(r.reply, s, Head(up[c][s]))),
               [backing EXCEPT ![s] = r.db])
    BY <1>1, <2>1, OwnMessage
  <2> QED BY <1>7, <2>2
<1> HIDE DEF v, d, r, m, q
<1>9. ASSUME NEW x \in Clients PROVE Backed(x, client'[x], up'[x], down'[x], backing')
  <2>1. CASE x = c
    BY <1>4, <1>6, <1>8, <2>1
  <2>2. CASE x # c
    BY <1>4, <1>6, <1>7, <2>2
  <2> QED BY <2>1, <2>2
<1> QED BY <1>7, <1>9 DEF LInv

\* A server handles a stranger's message.
LEMMA ForeignBacked ==
    ASSUME LInv, IInv', NEW f \in Macs \ Clients, NEW s \in Servers, ServerReceiveForeign(f, s)
    PROVE  LInv'
<1>1. PICK m \in ForeignMessages(f) : HandledForeign(s, handle(table[s], s, m))
  BY DEF ServerReceiveForeign
<1>2. /\ m.mac = f /\ m.mac \in Macs /\ m.kind \in Kinds
      /\ m.requested \in Nat /\ m.ciaddr \in Nat
  BY ForeignType
<1> DEFINE r == handle(table[s], s, m)
<1>3. /\ table' = [table EXCEPT ![s] = r.db] /\ dirty' = [dirty EXCEPT ![s] = @ \/ r.dirty]
      /\ alive[s] /\ UNCHANGED <<client, up, down, file, alive, lost>>
  BY <1>1 DEF HandledForeign, ServerReceiveForeign
<1>4. r = handle(table[s], s, m)
  OBVIOUS
<1> HIDE DEF r
<1>5. /\ DeadOK' /\ FilesOK'
      /\ \A x \in Clients : x # f => Backed(x, client[x], up[x], down[x], backing')
  BY <1>2, <1>3, <1>4, TableBacked
<1> QED BY <1>3, <1>5 DEF LInv

\* A server saves its table or fails to, stops, and is started again.
LEMMA ServerBacked ==
    ASSUME LInv, IInv', DeadOK', NEW s \in Servers,
           Save(s) \/ SaveFails(s) \/ Stop(s) \/ Restart(s)
    PROVE  LInv'
<1>1. /\ table \in [Servers -> SUBSET Lease] /\ file \in [Servers -> SUBSET Lease]
      /\ dirty \in [Servers -> BOOLEAN] /\ alive \in [Servers -> BOOLEAN]
      /\ lost \in [Servers -> BOOLEAN] /\ DeadOK /\ FilesOK
  BY DEF LInv, IInv, TablesOK
<1>2. UNCHANGED <<client, up, down>>
  BY DEF Save, SaveFails, Stop, Restart
<1>3. SUFFICES /\ FilesOK' /\ DOMAIN backing' \subseteq DOMAIN backing
               /\ \A t \in DOMAIN backing' : \A e \in backing[t] :
                     ~e.offered /\ e.expires > 0 => e \in backing'[t]
  <2>1. ASSUME NEW c \in Clients PROVE Backed(c, client'[c], up'[c], down'[c], backing')
    <3>1. /\ Typed(c, client[c], up[c], down[c], backing)
          /\ Backed(c, client[c], up[c], down[c], backing)
      BY TypedInv DEF LInv
    <3>2. Backed(c, client[c], up[c], down[c], backing')
      BY <1>3, <3>1, MoreLeases
    <3> QED BY <1>2, <3>2
  <2> QED BY <1>3, <2>1 DEF LInv
<1>4. CASE Save(s)
  <2>1. /\ alive[s] /\ file' = [file EXCEPT ![s] = render(table[s])]
        /\ UNCHANGED <<table, alive, lost>> /\ dirty' = [dirty EXCEPT ![s] = FALSE]
    BY <1>4 DEF Save
  <2>2. FilesOK'
    BY <1>1, <2>1 DEF FilesOK, render
  <2>3. backing' = backing
    BY <1>1, <2>1 DEF backing
  <2> QED BY <2>2, <2>3
<1>5. CASE SaveFails(s)
  <2>1. /\ lost' = [lost EXCEPT ![s] = TRUE] /\ UNCHANGED <<table, file, alive>>
        /\ dirty' = [dirty EXCEPT ![s] = FALSE]
    BY <1>5 DEF SaveFails
  <2>2. FilesOK'
    BY <1>1, <2>1 DEF FilesOK
  <2>3. /\ DOMAIN backing' \subseteq DOMAIN backing
        /\ \A t \in DOMAIN backing' : backing'[t] = backing[t]
    BY <1>1, <2>1 DEF backing
  <2> QED BY <2>2, <2>3
<1>6. CASE Stop(s)
  <2>1. /\ alive[s] /\ alive' = [alive EXCEPT ![s] = FALSE] /\ UNCHANGED file
        /\ table' = [table EXCEPT ![s] = {}] /\ dirty' = [dirty EXCEPT ![s] = FALSE]
        /\ lost' = [lost EXCEPT ![s] = @ \/ dirty[s]]
    BY <1>6 DEF Stop
  <2>2. FilesOK'
    BY <1>1, <2>1 DEF FilesOK
  <2>3. /\ DOMAIN backing' \subseteq DOMAIN backing
        /\ \A t \in DOMAIN backing' : t # s => backing'[t] = backing[t]
    BY <1>1, <2>1 DEF backing
  <2>4. s \in DOMAIN backing' =>
            ~dirty[s] /\ ~lost[s] /\ backing[s] = table[s] /\ backing'[s] = file[s]
    BY <1>1, <2>1 DEF backing
  <2> QED BY <1>1, <2>1, <2>2, <2>3, <2>4 DEF FilesOK
<1>7. CASE Restart(s)
  <2>1. /\ ~alive[s] /\ alive' = [alive EXCEPT ![s] = TRUE] /\ UNCHANGED <<file, dirty, lost>>
        /\ table' = [table EXCEPT ![s] = restore(file[s])]
    BY <1>7 DEF Restart
  <2>2. FilesOK'
    BY <1>1, <2>1 DEF FilesOK, restore, expire
  <2>3. /\ DOMAIN backing' = DOMAIN backing
        /\ \A t \in DOMAIN backing' : t # s => backing'[t] = backing[t]
    BY <1>1, <2>1 DEF backing
  <2>4. s \in DOMAIN backing => backing[s] = file[s] /\ backing'[s] = restore(file[s])
    BY <1>1, <2>1 DEF backing
  <2> QED BY <1>1, <2>2, <2>3, <2>4 DEF restore, expire
<1> QED BY <1>4, <1>5, <1>6, <1>7

\* A second passes.
LEMMA TickBacked ==
    ASSUME LInv, IInv', DeadOK', Tick
    PROVE  LInv'
<1>1. /\ table' = [s \in Servers |-> Later(table[s])] /\ file' = [s \in Servers |-> Later(file[s])]
      /\ UNCHANGED <<dirty, alive, lost>>
  BY Zenon DEF Tick
<1>0. /\ client' = [c \in Clients |-> Second(client[c])]
      /\ up' = [c \in Clients |-> OlderAll(up[c])]
      /\ down' = [c \in Clients |-> Older(down[c])]
  BY Zenon DEF Tick, Second, OlderAll
<1>2. table \in [Servers -> SUBSET Lease] /\ file \in [Servers -> SUBSET Lease] /\ FilesOK
  BY DEF LInv, IInv, TablesOK
<1>3. FilesOK'
  <2>1. SUFFICES ASSUME NEW s \in Servers, alive[s], ~dirty[s], ~lost[s],
                        NEW e \in Later(table[s]),
                        ~e.offered, e.expires > 0
                 PROVE  e \in Later(file[s])
    BY <1>1 DEF FilesOK
  <2>2. PICK f \in table[s] : e = [f EXCEPT !.expires = Less(@)]
    BY <2>1, Zenon DEF Later
  <2>3. f \in Lease
    BY <1>2
  <2>4. ~f.offered /\ f.expires > 0
    BY <2>1, <2>2, <2>3 DEF Lease, Less
  <2>5. f \in file[s]
    BY <1>2, <2>1, <2>4 DEF FilesOK
  <2> QED BY <2>2, <2>5, Zenon DEF Later
<1>4. backing' = LaterAll(backing)
  <2>1. DOMAIN backing' = DOMAIN backing /\ \A s \in DOMAIN backing : backing'[s] = Later(backing[s])
    BY <1>1 DEF backing
  <2> QED BY <2>1 DEF backing, LaterAll
<1>5. ASSUME NEW c \in Clients PROVE Backed(c, client'[c], up'[c], down'[c], backing')
  <2>1. /\ Typed(c, client[c], up[c], down[c], backing)
        /\ Backed(c, client[c], up[c], down[c], backing)
    BY TypedInv DEF LInv
  <2>2. Backed(c, Second(client[c]), OlderAll(up[c]), Older(down[c]), LaterAll(backing))
    BY <2>1, SecondPasses
  <2>3. /\ client'[c] = Second(client[c]) /\ up'[c] = OlderAll(up[c]) /\ down'[c] = Older(down[c])
    BY <1>0
  <2> QED BY <1>4, <2>2, <2>3
<1> QED BY <1>3, <1>5 DEF LInv

\* The invariant is inductive.
LEMMA LInvNext == LInv /\ [Next]_vars => LInv'
<1> SUFFICES ASSUME LInv, [Next]_vars PROVE LInv'
  OBVIOUS
<1>1. IInv' /\ DeadOK'
  BY NextInv, DeadInv DEF LInv
<1>2. CASE UNCHANGED vars
  <2>1. DeadOK' /\ FilesOK' /\ backing' = backing /\ UNCHANGED <<client, up, down>>
    BY <1>2 DEF LInv, DeadOK, FilesOK, backing, vars, servers
  <2> QED BY <1>1, <2>1 DEF LInv
<1>3. CASE Next
  BY <1>1, <1>3, ClientBacked, ReceiveBacked, ForeignBacked, ServerBacked, TickBacked DEF Next
<1> QED BY <1>2, <1>3

\* A lease that a client may rely on is in its server's table, with restarts of the server,
\* lost frames, retransmissions, strangers' messages, interfaces that go down and leases
\* renewed with another server: until the server has been stopped before it saved what it
\* granted, or a write of its file has failed.
THEOREM LeasesBacked == Spec => []LeaseBacked
<1>1. LInv => LeaseBacked
  <2>1. SUFFICES ASSUME LInv, NEW c \in Clients, client[c].addr # 0,
                        client[c].expires > MaxDelay, alive[client[c].server],
                        client[c].server \in Servers, ~lost[client[c].server]
                 PROVE  \E e \in table[client[c].server] :
                            e.mac = c /\ e.address = client[c].addr /\ ~e.offered
    BY DEF LeaseBacked, Relies, Known, Held
  <2>2. client[c].expires - MaxDelay > 0
    BY <2>1, Consts DEF LInv, IInv, ClientsOK, ClientRec
  <2>3. client[c].server \in DOMAIN backing
    BY <2>1 DEF backing
  <2>4. Keeps(backing[client[c].server], c, client[c].addr, client[c].expires - MaxDelay)
    BY <2>1, <2>2, <2>3 DEF LInv, Backed, LeaseOK, Secured
  <2>5. backing[client[c].server] = table[client[c].server]
    BY <2>1 DEF backing
  <2> QED BY <2>4, <2>5 DEF Keeps
<1> QED BY <1>1, LInvInit, LInvNext, PTL DEF Spec
=============================================================================
