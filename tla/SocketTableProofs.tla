------------------------ MODULE SocketTableProofs ------------------------
(***************************************************************************)
(* The invariants of SocketTable hold for every number of slots, backlog,  *)
(* address and port set.  The inductive invariant is stated of an explicit *)
(* table t, count n and set of handles H, because rx_syn works on a table  *)
(* that is neither the old nor the new one (Reopened).                     *)
(***************************************************************************)
EXTENDS SocketTable, FiniteSetTheorems, TLAPS

Typed(t, n, H) == t \in [Slots -> Socket] /\ n \in 0 .. MaxAllocs /\ H \in SUBSET Handle

\* The generation of a slot counts its past uses, so it cannot have wrapped.
GenBound(t, n) ==
    \A i \in Slots : t[i].gen <= n + 1 /\ (InUse(t, i) => t[i].gen <= n)

FreeIsEmpty(t) == \A i \in Slots : ~InUse(t, i) => t[i].accept_q = {} /\ ~t[i].user_open

\* A handle is out of date, or its slot holds its socket.
Current(t, h) ==
    \/ h.gen < t[h.idx].gen
    \/ h.gen = t[h.idx].gen /\ InUse(t, h.idx) /\ t[h.idx].serial = h.serial
HandlesCurrent(t, H) ==
    /\ \A h \in H : Current(t, h)
    /\ \A l \in Slots : \A c \in t[l].accept_q : Current(t, c)

\* Only children are without a program before they are closed.
Roles(t) ==
    \A i \in Slots :
        /\ t[i].state = "Listen" => t[i].user_open /\ t[i].remote = NoRemote
        /\ t[i].state = "SynSent" => t[i].user_open

\* The properties of SocketTable, of a table t.
QueuedOnce(t) ==
    \A l \in Slots : \A c \in t[l].accept_q : Live(t, c) =>
        /\ ~t[c.idx].user_open
        /\ t[l].state = "Listen" /\ t[c.idx].port = t[l].port
        /\ t[l].ip \in {AnyIp, t[c.idx].ip}
        /\ \A k \in Slots : c \in t[k].accept_q => k = l
Pending(t, i) == ~t[i].user_open /\ t[i].state \in {"SynReceived", "Established", "CloseWait"}
QueuedAt(t, l, i) == t[l].state = "Listen" /\ \E c \in t[l].accept_q : c.idx = i /\ Live(t, c)
AllQueued(t) == \A i \in Slots : Pending(t, i) => \E l \in Slots : QueuedAt(t, l, i)
Demux(t) ==
    \A i, j \in Slots : i # j /\ InUse(t, i) /\ InUse(t, j) /\ t[i].port = t[j].port =>
        /\ t[i].state = "Listen" /\ t[j].state = "Listen" => ~Overlap(t[i].ip, t[j].ip)
        /\ t[i].remote # NoRemote /\ t[j].remote # NoRemote =>
              t[i].ip # t[j].ip \/ t[i].remote # t[j].remote
Bounded(t) ==
    \A l \in Slots : IsFiniteSet(t[l].accept_q) /\ Cardinality(t[l].accept_q) <= t[l].backlog

IInv(t, n, H) ==
    /\ Typed(t, n, H) /\ GenBound(t, n) /\ FreeIsEmpty(t) /\ HandlesCurrent(t, H) /\ Roles(t)
    /\ QueuedOnce(t) /\ AllQueued(t) /\ Demux(t) /\ Bounded(t)

----------------------------------------------------------------------------
(* Steps that free slots or move connections along. *)

\* Slot i is unchanged, freed, or moved to another state by its program or its peer.
Moved(s, u) ==
    \E st \in TcpState \ {"Listen"}, o \in BOOLEAN :
        /\ u = [s EXCEPT !.state = st, !.user_open = o]
        /\ o => s.user_open
        /\ st = "SynSent" => o
        /\ ~o /\ st \in {"SynReceived", "Established", "CloseWait"} =>
              ~s.user_open /\ s.state \in {"SynReceived", "Established", "CloseWait"}
Shrunk(s, u) == u = s \/ (s.state # "Free" /\ (u = free(s) \/ Moved(s, u)))

\* What free does to a slot in use: an empty slot of the next generation.
LEMMA FreeFacts ==
    ASSUME NEW s \in Socket, NEW n \in 0 .. MaxAllocs, s.gen <= n
    PROVE  /\ free(s) \in Socket
           /\ free(s).gen = s.gen + 1 /\ free(s).state = "Free" /\ ~free(s).user_open
           /\ free(s).accept_q = {} /\ free(s).backlog = 0
<1>1. next_gen(s.gen) = s.gen + 1 /\ s.gen + 1 \in Gen
  BY SizesAssumption, GenAssumption DEF Socket, Gen, next_gen
<1>2. {} \in SUBSET Handle /\ AnyIp \in Addrs /\ 0 \in 0 .. MaxAllocs /\ 0 \in 0 .. MaxBacklog
  BY SizesAssumption DEF Addrs
<1> QED  BY <1>1, <1>2 DEF free, Empty, Socket, TcpState

\* What a slot may look like after a step that only frees or moves.
LEMMA ShrunkFacts ==
    ASSUME NEW s \in Socket, NEW u, NEW n \in 0 .. MaxAllocs, Shrunk(s, u),
           s.state # "Free" => s.gen <= n
    PROVE  /\ u \in Socket
           /\ u.state # "Free" => /\ s.state # "Free" /\ u.gen = s.gen /\ u.serial = s.serial
                                  /\ u.ip = s.ip /\ u.port = s.port /\ u.remote = s.remote
                                  /\ u.accept_q = s.accept_q /\ u.backlog = s.backlog
                                  /\ u.user_open => s.user_open
                                  /\ u.state = "Listen" => u = s
           /\ u.state = "Free" => u = s \/ (u = free(s) /\ s.state # "Free")
<1>1. CASE u = s
  BY <1>1
<1>2. CASE s.state # "Free" /\ u = free(s)
  BY <1>2, FreeFacts
<1>3. CASE s.state # "Free" /\ Moved(s, u)
  <2>1. PICK st \in TcpState \ {"Listen"}, o \in BOOLEAN :
           /\ u = [s EXCEPT !.state = st, !.user_open = o]
           /\ o => s.user_open
    BY <1>3 DEF Moved
  <2>2. u.state = st /\ u.user_open = o /\ u.gen = s.gen /\ u.serial = s.serial /\ u.ip = s.ip
        /\ u.port = s.port /\ u.remote = s.remote /\ u.accept_q = s.accept_q /\ u.backlog = s.backlog
    BY <2>1 DEF Socket
  <2>3. u \in Socket
    BY <2>1 DEF Socket
  <2>4. st # "Free" /\ st # "Listen"
    BY DEF TcpState
  <2> QED  BY <1>3, <2>1, <2>2, <2>3, <2>4
<1> QED  BY <1>1, <1>2, <1>3 DEF Shrunk

\* A step that frees slots and moves connections keeps the invariant, provided that a
\* listener goes only together with its live children.
LEMMA ShrinkKeeps ==
    ASSUME NEW t, NEW n, NEW H, NEW t2, IInv(t, n, H),
           t2 \in [Slots -> {t2[i] : i \in Slots}],
           \A i \in Slots : Shrunk(t[i], t2[i]),
           \A l \in Slots : t[l].state = "Listen" /\ t2[l] # t[l] =>
               \A c \in t[l].accept_q : Live(t, c) => t2[c.idx].state = "Free"
    PROVE  IInv(t2, n, H)
<1> USE DEF InUse
<1>1. /\ t \in [Slots -> Socket] /\ n \in 0 .. MaxAllocs /\ H \in SUBSET Handle
      /\ \A i \in Slots : t[i] \in Socket
      /\ \A i \in Slots : t[i].state # "Free" => t[i].gen <= n
  BY DEF IInv, Typed, GenBound
<1>2. \A i \in Slots :
        /\ t2[i] \in Socket
        /\ t2[i].state # "Free" =>
              /\ t[i].state # "Free" /\ t2[i].gen = t[i].gen /\ t2[i].serial = t[i].serial
              /\ t2[i].ip = t[i].ip /\ t2[i].port = t[i].port /\ t2[i].remote = t[i].remote
              /\ t2[i].accept_q = t[i].accept_q /\ t2[i].backlog = t[i].backlog
              /\ t2[i].user_open => t[i].user_open
              /\ t2[i].state = "Listen" => t2[i] = t[i]
        /\ t2[i].state = "Free" => t2[i] = t[i] \/ (t2[i] = free(t[i]) /\ t[i].state # "Free")
  BY <1>1, ShrunkFacts
<1>3. \A i \in Slots : t2[i].state = "Free" =>
        /\ t2[i].accept_q = {} /\ ~t2[i].user_open
        /\ t2[i] = t[i] \/ (t2[i].gen = t[i].gen + 1 /\ t[i].gen <= n /\ t2[i].backlog = 0)
  BY <1>1, <1>2, FreeFacts DEF IInv, FreeIsEmpty
<1>4. Typed(t2, n, H)
  BY <1>1, <1>2 DEF Typed
<1>5. GenBound(t2, n)
  <2>1. \A i \in Slots : t[i].gen \in Nat /\ t[i].gen <= n + 1 /\ n \in Nat
    BY <1>1, SizesAssumption DEF IInv, GenBound, Socket, Gen
  <2> QED  BY <1>1, <1>2, <1>3, <2>1 DEF GenBound
<1>6. FreeIsEmpty(t2)
  BY <1>3 DEF FreeIsEmpty
<1>7. HandlesCurrent(t2, H)
  <2>1. ASSUME NEW h \in Handle, Current(t, h)
        PROVE  Current(t2, h)
    <3>1. h.idx \in Slots /\ h.gen \in Int /\ t[h.idx].gen \in Int
      BY <1>1 DEF Handle, Socket, Gen
    <3>2. CASE t2[h.idx].state = "Free"
      BY <1>3, <2>1, <3>1, <3>2 DEF Current
    <3>3. CASE t2[h.idx].state # "Free"
      BY <1>2, <2>1, <3>1, <3>3 DEF Current
    <3> QED  BY <3>2, <3>3
  <2>2. ASSUME NEW l \in Slots, NEW c \in t2[l].accept_q
        PROVE  c \in Handle /\ c \in t[l].accept_q
    BY <1>1, <1>2, <1>3, <2>2 DEF Socket
  <2> QED  BY <1>1, <2>1, <2>2 DEF HandlesCurrent, IInv
<1>8. Roles(t2)
  <2> SUFFICES ASSUME NEW i \in Slots
               PROVE  /\ t2[i].state = "Listen" => t2[i].user_open /\ t2[i].remote = NoRemote
                      /\ t2[i].state = "SynSent" => t2[i].user_open
    BY DEF Roles
  <2>1. CASE t2[i] = t[i]
    BY <2>1 DEF IInv, Roles
  <2>2. CASE t2[i] = free(t[i])
    BY <2>2, <1>2, <1>3 DEF free, Empty
  <2>3. CASE Moved(t[i], t2[i])
    <3>1. PICK st \in TcpState \ {"Listen"}, o \in BOOLEAN :
             t2[i] = [t[i] EXCEPT !.state = st, !.user_open = o] /\ (st = "SynSent" => o)
      BY <2>3 DEF Moved
    <3>2. t2[i].state = st /\ t2[i].user_open = o
      BY <1>1, <3>1 DEF Socket
    <3> QED  BY <3>1, <3>2
  <2> QED  BY <2>1, <2>2, <2>3 DEF Shrunk
<1>9. ASSUME NEW l \in Slots, NEW c \in t2[l].accept_q, Live(t2, c)
      PROVE  /\ c.idx \in Slots /\ c \in t[l].accept_q /\ Live(t, c)
             /\ t2[l] = t[l] /\ t2[c.idx].state # "Free"
  <2>1. c \in t[l].accept_q /\ c \in Handle /\ c.idx \in Slots
    BY <1>1, <1>2, <1>3, <1>9 DEF Socket, Handle
  <2>2. Live(t, c) /\ t2[c.idx].state # "Free"
    BY <1>2, <1>9, <2>1 DEF Live
  <2>3. t[l].state = "Listen"
    BY <2>1, <2>2 DEF IInv, QueuedOnce
  <2> QED  BY <2>1, <2>2, <2>3
<1>10. QueuedOnce(t2)
  <2> SUFFICES ASSUME NEW l \in Slots, NEW c \in t2[l].accept_q, Live(t2, c)
               PROVE  /\ ~t2[c.idx].user_open
                      /\ t2[l].state = "Listen" /\ t2[c.idx].port = t2[l].port
                      /\ t2[l].ip \in {AnyIp, t2[c.idx].ip}
                      /\ \A k \in Slots : c \in t2[k].accept_q => k = l
    BY DEF QueuedOnce
  <2>1. /\ c.idx \in Slots /\ c \in t[l].accept_q /\ Live(t, c)
        /\ t2[l] = t[l] /\ t2[c.idx].state # "Free"
    BY <1>9
  <2>2. /\ ~t[c.idx].user_open
        /\ t[l].state = "Listen" /\ t[c.idx].port = t[l].port
        /\ t[l].ip \in {AnyIp, t[c.idx].ip}
        /\ \A k \in Slots : c \in t[k].accept_q => k = l
    BY <2>1 DEF IInv, QueuedOnce
  <2>3. \A k \in Slots : c \in t2[k].accept_q => c \in t[k].accept_q
    BY <1>9
  <2> QED  BY <1>2, <2>1, <2>2, <2>3
<1>11. AllQueued(t2)
  <2> SUFFICES ASSUME NEW i \in Slots, Pending(t2, i)
               PROVE  \E l \in Slots : QueuedAt(t2, l, i)
    BY DEF AllQueued
  <2>1. Pending(t, i)
    <3>1. CASE t2[i] = t[i]
      BY <3>1 DEF Pending
    <3>2. CASE t2[i] = free(t[i])
      BY <3>2 DEF free, Empty, Pending
    <3>3. CASE Moved(t[i], t2[i])
      <4>1. PICK st \in TcpState \ {"Listen"}, o \in BOOLEAN :
               /\ t2[i] = [t[i] EXCEPT !.state = st, !.user_open = o]
               /\ ~o /\ st \in {"SynReceived", "Established", "CloseWait"} =>
                    ~t[i].user_open /\ t[i].state \in {"SynReceived", "Established", "CloseWait"}
        BY <3>3 DEF Moved
      <4>2. t2[i].state = st /\ t2[i].user_open = o
        BY <1>1, <4>1 DEF Socket
      <4> QED  BY <4>1, <4>2 DEF Pending
    <3> QED  BY <3>1, <3>2, <3>3 DEF Shrunk
  <2>2. PICK l \in Slots : QueuedAt(t, l, i)
    BY <2>1 DEF IInv, AllQueued
  <2>3. PICK c \in t[l].accept_q : c.idx = i /\ Live(t, c)
    BY <2>2 DEF QueuedAt
  <2>4. t2[i].state # "Free"
    BY DEF Pending
  <2>5. t2[l] = t[l]
    BY <2>2, <2>3, <2>4 DEF QueuedAt
  <2>6. Live(t2, c)
    BY <1>2, <2>3, <2>4 DEF Live
  <2> QED  BY <2>2, <2>3, <2>5, <2>6 DEF QueuedAt
<1>12. Demux(t2)
  <2> SUFFICES ASSUME NEW i \in Slots, NEW j \in Slots, i # j, InUse(t2, i), InUse(t2, j),
                      t2[i].port = t2[j].port
               PROVE  /\ t2[i].state = "Listen" /\ t2[j].state = "Listen" => ~Overlap(t2[i].ip, t2[j].ip)
                      /\ t2[i].remote # NoRemote /\ t2[j].remote # NoRemote =>
                            t2[i].ip # t2[j].ip \/ t2[i].remote # t2[j].remote
    BY DEF Demux
  <2> QED  BY <1>2 DEF IInv, Demux
<1>13. Bounded(t2)
  <2> SUFFICES ASSUME NEW l \in Slots
               PROVE  IsFiniteSet(t2[l].accept_q) /\ Cardinality(t2[l].accept_q) <= t2[l].backlog
    BY DEF Bounded
  <2>1. IsFiniteSet(t[l].accept_q) /\ Cardinality(t[l].accept_q) <= t[l].backlog
    BY DEF IInv, Bounded
  <2>2. CASE t2[l].state # "Free"
    BY <1>2, <2>1, <2>2
  <2>3. CASE t2[l] = t[l]
    BY <2>1, <2>3
  <2>4. CASE t2[l].state = "Free" /\ t2[l] # t[l]
    <3>1. t2[l].accept_q = {} /\ t2[l].backlog = 0
      BY <1>3, <2>4
    <3>2. IsFiniteSet({}) /\ Cardinality({}) = 0
      BY FS_EmptySet
    <3> QED  BY <3>1, <3>2
  <2> QED  BY <2>2, <2>3, <2>4
<1> QED
  BY <1>4, <1>5, <1>6, <1>7, <1>8, <1>10, <1>11, <1>12, <1>13 DEF IInv

----------------------------------------------------------------------------
(* Steps on an accept queue. *)

\* Dropping dead children from a queue keeps the invariant.
LEMMA PruneKeeps ==
    ASSUME NEW t, NEW n, NEW H, IInv(t, n, H), NEW l \in Slots
    PROVE  IInv([t EXCEPT ![l].accept_q = LiveChildren(t, l)], n, H)
<1> DEFINE Q == LiveChildren(t, l)
           t2 == [t EXCEPT ![l].accept_q = Q]
<1> USE DEF InUse
<1>1. t \in [Slots -> Socket] /\ n \in 0 .. MaxAllocs /\ H \in SUBSET Handle
  BY DEF IInv, Typed
<1>2. t[l] \in Socket /\ Q \subseteq t[l].accept_q /\ Q \in SUBSET Handle
  BY <1>1 DEF LiveChildren, Socket
<1>3. t2 \in [Slots -> Socket] /\ t2[l].accept_q = Q
  BY <1>1, <1>2 DEF Socket
<1>4. \A i \in Slots :
        /\ t2[i].gen = t[i].gen /\ t2[i].state = t[i].state /\ t2[i].serial = t[i].serial
        /\ t2[i].user_open = t[i].user_open /\ t2[i].ip = t[i].ip /\ t2[i].port = t[i].port
        /\ t2[i].remote = t[i].remote /\ t2[i].backlog = t[i].backlog
        /\ t2[i].accept_q \subseteq t[i].accept_q
        /\ i # l => t2[i].accept_q = t[i].accept_q
  BY <1>1, <1>2 DEF Socket
<1>5. \A c \in Handle : Live(t2, c) <=> Live(t, c)
  BY <1>4 DEF Live, Handle
<1>6. \A i \in Slots : t[i].accept_q \in SUBSET Handle
  BY <1>1 DEF Socket
<1> HIDE DEF t2, Q
<1>7. Typed(t2, n, H)
  BY <1>1, <1>3 DEF Typed
<1>8. GenBound(t2, n) /\ Roles(t2) /\ FreeIsEmpty(t2)
  BY <1>4 DEF IInv, GenBound, Roles, FreeIsEmpty
<1>9. HandlesCurrent(t2, H)
  BY <1>1, <1>4, <1>6 DEF IInv, HandlesCurrent, Current, Handle
<1>10. QueuedOnce(t2)
  <2> SUFFICES ASSUME NEW m \in Slots, NEW c \in t2[m].accept_q, Live(t2, c)
               PROVE  /\ ~t2[c.idx].user_open
                      /\ t2[m].state = "Listen" /\ t2[c.idx].port = t2[m].port
                      /\ t2[m].ip \in {AnyIp, t2[c.idx].ip}
                      /\ \A k \in Slots : c \in t2[k].accept_q => k = m
    BY DEF QueuedOnce
  <2>1. c \in t[m].accept_q /\ c \in Handle /\ c.idx \in Slots /\ Live(t, c)
    BY <1>4, <1>5, <1>6 DEF Handle
  <2>2. /\ ~t[c.idx].user_open
        /\ t[m].state = "Listen" /\ t[c.idx].port = t[m].port
        /\ t[m].ip \in {AnyIp, t[c.idx].ip}
        /\ \A k \in Slots : c \in t[k].accept_q => k = m
    BY <2>1 DEF IInv, QueuedOnce
  <2> QED  BY <1>4, <2>1, <2>2
<1>11. AllQueued(t2)
  <2> SUFFICES ASSUME NEW i \in Slots, Pending(t2, i)
               PROVE  \E m \in Slots : QueuedAt(t2, m, i)
    BY DEF AllQueued
  <2>1. Pending(t, i)
    BY <1>4 DEF Pending
  <2>2. PICK m \in Slots : QueuedAt(t, m, i)
    BY <2>1 DEF IInv, AllQueued
  <2>3. PICK c \in t[m].accept_q : c.idx = i /\ Live(t, c)
    BY <2>2 DEF QueuedAt
  <2>4. c \in t2[m].accept_q
    BY <1>3, <1>4, <2>3 DEF Q, LiveChildren
  <2>5. Live(t2, c)
    BY <1>5, <1>6, <2>3
  <2> QED  BY <1>4, <2>2, <2>3, <2>4, <2>5 DEF QueuedAt
<1>12. Demux(t2)
  BY <1>4 DEF IInv, Demux
<1>13. Bounded(t2)
  <2> SUFFICES ASSUME NEW m \in Slots
               PROVE  IsFiniteSet(t2[m].accept_q) /\ Cardinality(t2[m].accept_q) <= t2[m].backlog
    BY DEF Bounded
  <2>1. IsFiniteSet(t[m].accept_q) /\ Cardinality(t[m].accept_q) <= t[m].backlog
    BY DEF IInv, Bounded
  <2>2. IsFiniteSet(t2[m].accept_q) /\ Cardinality(t2[m].accept_q) <= Cardinality(t[m].accept_q)
    BY <1>4, <2>1, FS_Subset
  <2>3. Cardinality(t2[m].accept_q) \in Nat /\ Cardinality(t[m].accept_q) \in Nat /\ t[m].backlog \in Nat
    BY <1>1, <2>1, <2>2, FS_CardinalityType, SizesAssumption DEF Socket
  <2> QED  BY <1>4, <2>1, <2>2, <2>3
<1> QED
  BY <1>7, <1>8, <1>9, <1>10, <1>11, <1>12, <1>13 DEF IInv, t2, Q

\* Handing a ready child to a program takes it out of its queue.
LEMMA AcceptKeeps ==
    ASSUME NEW t, NEW n, NEW H, IInv(t, n, H), NEW l \in Slots, NEW c \in t[l].accept_q, Live(t, c)
    PROVE  IInv([t EXCEPT ![l].accept_q = @ \ {c}, ![c.idx].user_open = TRUE], n, H \cup {c})
<1> DEFINE Q == t[l].accept_q \ {c}
           t2 == [t EXCEPT ![l].accept_q = @ \ {c}, ![c.idx].user_open = TRUE]
<1> USE DEF InUse
<1>1. t \in [Slots -> Socket] /\ n \in 0 .. MaxAllocs /\ H \in SUBSET Handle
  BY DEF IInv, Typed
<1>2. /\ ~t[c.idx].user_open /\ t[l].state = "Listen" /\ t[l].user_open
      /\ \A k \in Slots : c \in t[k].accept_q => k = l
  BY DEF IInv, QueuedOnce, Roles
<1>3. c \in Handle /\ c.idx \in Slots /\ c.idx # l /\ Q \in SUBSET Handle /\ t[l] \in Socket /\ t[c.idx] \in Socket
  BY <1>1, <1>2 DEF Socket, Handle
<1>4. /\ t2 \in [Slots -> Socket] /\ t2[l].accept_q = Q /\ t2[c.idx].user_open = TRUE
      /\ \A i \in Slots :
          /\ t2[i].gen = t[i].gen /\ t2[i].state = t[i].state /\ t2[i].serial = t[i].serial
          /\ i # c.idx => t2[i].user_open = t[i].user_open
          /\ t2[i].ip = t[i].ip /\ t2[i].port = t[i].port
          /\ t2[i].remote = t[i].remote /\ t2[i].backlog = t[i].backlog
          /\ t2[i].accept_q \subseteq t[i].accept_q
          /\ i # l => t2[i].accept_q = t[i].accept_q
  <2>1. t2 = [t EXCEPT ![l] = [t[l] EXCEPT !.accept_q = Q], ![c.idx] = [t[c.idx] EXCEPT !.user_open = TRUE]]
    BY <1>1, <1>3
  <2>2. [t[l] EXCEPT !.accept_q = Q] \in Socket /\ [t[c.idx] EXCEPT !.user_open = TRUE] \in Socket
    BY <1>3 DEF Socket
  <2>3. /\ t2 \in [Slots -> Socket] /\ t2[l] = [t[l] EXCEPT !.accept_q = Q]
        /\ t2[c.idx] = [t[c.idx] EXCEPT !.user_open = TRUE]
        /\ \A i \in Slots : i # l /\ i # c.idx => t2[i] = t[i]
    BY <1>1, <1>3, <2>1, <2>2
  <2> HIDE DEF t2
  <2> QED  BY <1>3, <2>3 DEF Socket
<1>5. \A d \in Handle : Live(t2, d) <=> Live(t, d)
  BY <1>4 DEF Live, Handle
<1>6. \A i \in Slots : t[i].accept_q \in SUBSET Handle
  BY <1>1 DEF Socket
<1> HIDE DEF t2
<1>7. Typed(t2, n, H \cup {c})
  BY <1>1, <1>3, <1>4 DEF Typed
<1>8. GenBound(t2, n) /\ Roles(t2)
  BY <1>4 DEF IInv, GenBound, Roles
<1>9. FreeIsEmpty(t2)
  BY <1>4 DEF IInv, FreeIsEmpty, Live
<1>10. HandlesCurrent(t2, H \cup {c})
  BY <1>1, <1>3, <1>4, <1>6 DEF IInv, HandlesCurrent, Current, Handle
<1>11. QueuedOnce(t2)
  <2> SUFFICES ASSUME NEW m \in Slots, NEW d \in t2[m].accept_q, Live(t2, d)
               PROVE  /\ ~t2[d.idx].user_open
                      /\ t2[m].state = "Listen" /\ t2[d.idx].port = t2[m].port
                      /\ t2[m].ip \in {AnyIp, t2[d.idx].ip}
                      /\ \A k \in Slots : d \in t2[k].accept_q => k = m
    BY DEF QueuedOnce
  <2>1. d \in t[m].accept_q /\ d \in Handle /\ d.idx \in Slots /\ Live(t, d)
    BY <1>4, <1>5, <1>6 DEF Handle
  <2>2. /\ ~t[d.idx].user_open
        /\ t[m].state = "Listen" /\ t[d.idx].port = t[m].port
        /\ t[m].ip \in {AnyIp, t[d.idx].ip}
        /\ \A k \in Slots : d \in t[k].accept_q => k = m
    BY <2>1 DEF IInv, QueuedOnce
  <2>3. d.idx # c.idx
    <3> SUFFICES ASSUME d.idx = c.idx PROVE FALSE
      OBVIOUS
    <3>1. d.gen = c.gen
      BY <2>1 DEF Live
    <3>2. d.gen \in Int /\ t[c.idx].gen \in Int
      BY <2>1, <1>3 DEF Handle, Socket, Gen
    <3>3. d.serial = t[c.idx].serial /\ c.serial = t[c.idx].serial
      <4>1. Current(t, d) /\ Current(t, c)
        BY <2>1 DEF IInv, HandlesCurrent
      <4>2. t[c.idx].gen = d.gen /\ t[c.idx].gen = c.gen
        BY <2>1 DEF Live
      <4> QED  BY <3>1, <3>2, <4>1, <4>2 DEF Current
    <3>4. d = c
      BY <2>1, <1>3, <3>1, <3>3 DEF Handle
    <3> QED  BY <1>2, <1>4, <2>1, <3>4
  <2> QED  BY <1>4, <2>1, <2>2, <2>3
<1>12. AllQueued(t2)
  <2> SUFFICES ASSUME NEW i \in Slots, Pending(t2, i)
               PROVE  \E m \in Slots : QueuedAt(t2, m, i)
    BY DEF AllQueued
  <2>1. i # c.idx /\ Pending(t, i)
    BY <1>4 DEF Pending
  <2>2. PICK m \in Slots : QueuedAt(t, m, i)
    BY <2>1 DEF IInv, AllQueued
  <2>3. PICK d \in t[m].accept_q : d.idx = i /\ Live(t, d)
    BY <2>2 DEF QueuedAt
  <2>4. d \in t2[m].accept_q
    BY <1>4, <2>1, <2>3
  <2>5. Live(t2, d)
    BY <1>5, <1>6, <2>3
  <2> QED  BY <1>4, <2>2, <2>3, <2>4, <2>5 DEF QueuedAt
<1>13. Demux(t2)
  BY <1>4 DEF IInv, Demux
<1>14. Bounded(t2)
  <2> SUFFICES ASSUME NEW m \in Slots
               PROVE  IsFiniteSet(t2[m].accept_q) /\ Cardinality(t2[m].accept_q) <= t2[m].backlog
    BY DEF Bounded
  <2>1. IsFiniteSet(t[m].accept_q) /\ Cardinality(t[m].accept_q) <= t[m].backlog
    BY DEF IInv, Bounded
  <2>2. IsFiniteSet(t2[m].accept_q) /\ Cardinality(t2[m].accept_q) <= Cardinality(t[m].accept_q)
    BY <1>4, <2>1, FS_Subset
  <2>3. Cardinality(t2[m].accept_q) \in Nat /\ Cardinality(t[m].accept_q) \in Nat /\ t[m].backlog \in Nat
    BY <1>1, <2>1, <2>2, FS_CardinalityType, SizesAssumption DEF Socket
  <2> QED  BY <1>4, <2>1, <2>2, <2>3
<1> QED
  BY <1>7, <1>8, <1>9, <1>10, <1>11, <1>12, <1>13, <1>14 DEF IInv, t2

----------------------------------------------------------------------------
(* Steps that allocate. *)

\* s may join table t in slot i as socket number n + 1.
Joins(t, n, i, s) ==
    /\ s \in Socket /\ s.gen = t[i].gen /\ s.serial = n + 1 /\ s.accept_q = {}
    /\ \A j \in Slots : j # i /\ InUse(t, j) /\ t[j].port = s.port =>
          /\ t[j].state = "Listen" /\ s.state = "Listen" =>
                ~Overlap(t[j].ip, s.ip) /\ ~Overlap(s.ip, t[j].ip)
          /\ t[j].remote # NoRemote /\ s.remote # NoRemote =>
                t[j].ip # s.ip \/ t[j].remote # s.remote

\* No handle made so far reaches a free slot.
LEMMA FreeIsUnreachable ==
    ASSUME NEW t, NEW n, NEW H, IInv(t, n, H), NEW i \in Slots, ~InUse(t, i)
    PROVE  /\ \A h \in H : h.idx = i => h.gen < t[i].gen
           /\ \A l \in Slots : \A c \in t[l].accept_q : c.idx = i => c.gen < t[i].gen
  BY DEF IInv, HandlesCurrent, Current

\* A socket opened by a program, which gets its handle.
LEMMA OpenKeeps ==
    ASSUME NEW t, NEW n, NEW H, IInv(t, n, H), n < MaxAllocs,
           NEW i \in Slots, ~InUse(t, i), NEW s, Joins(t, n, i, s),
           s.user_open, s.state \in {"Listen", "SynSent"},
           s.state = "Listen" => s.remote = NoRemote
    PROVE  IInv([t EXCEPT ![i] = s], n + 1, H \cup {[idx |-> i, gen |-> t[i].gen, serial |-> n + 1]})
<1> DEFINE t2 == [t EXCEPT ![i] = s]
           h == [idx |-> i, gen |-> t[i].gen, serial |-> n + 1]
<1> USE DEF InUse
<1>1. t \in [Slots -> Socket] /\ n \in 0 .. MaxAllocs /\ H \in SUBSET Handle
  BY DEF IInv, Typed
<1>2. s \in Socket /\ s.gen = t[i].gen /\ s.serial = n + 1 /\ s.accept_q = {}
  BY DEF Joins
<1>3. t2 \in [Slots -> Socket] /\ t2[i] = s /\ \A j \in Slots : j # i => t2[j] = t[j]
  BY <1>1, <1>2
<1>4. n + 1 \in 0 .. MaxAllocs /\ n + 1 \in 1 .. MaxAllocs /\ n \in Int /\ h \in Handle
  BY <1>1, SizesAssumption DEF Handle, Socket
<1>5. h.idx = i /\ h.gen = t[i].gen /\ h.serial = n + 1
  OBVIOUS
<1>6. \A l \in Slots : \A c \in t2[l].accept_q : l # i /\ c \in t[l].accept_q /\ c \in Handle /\ c.idx \in Slots
  BY <1>1, <1>2, <1>3 DEF Socket, Handle
<1> HIDE DEF t2, h
<1>7. Typed(t2, n + 1, H \cup {h})
  BY <1>1, <1>3, <1>4 DEF Typed
<1>8. GenBound(t2, n + 1)
  <2> SUFFICES ASSUME NEW j \in Slots
               PROVE  t2[j].gen <= n + 2 /\ (t2[j].state # "Free" => t2[j].gen <= n + 1)
    BY <1>4 DEF GenBound
  <2>1. t[j].gen \in Int /\ t[j].gen <= n + 1 /\ (t[j].state # "Free" => t[j].gen <= n)
    BY <1>1 DEF IInv, GenBound, Socket, Gen
  <2> QED  BY <1>2, <1>3, <1>4, <2>1
<1>9. FreeIsEmpty(t2)
  BY <1>3 DEF IInv, FreeIsEmpty
<1>10. HandlesCurrent(t2, H \cup {h})
  <2>1. ASSUME NEW g \in Handle, Current(t, g)
        PROVE  Current(t2, g)
    <3>1. CASE g.idx = i
      BY <1>2, <1>3, <2>1, <3>1 DEF Current
    <3>2. CASE g.idx # i
      BY <1>3, <2>1, <3>2 DEF Current, Handle
    <3> QED  BY <3>1, <3>2
  <2>2. Current(t2, h)
    BY <1>2, <1>3, <1>5 DEF Current
  <2> QED  BY <1>1, <1>6, <2>1, <2>2 DEF HandlesCurrent, IInv
<1>11. Roles(t2)
  BY <1>3 DEF IInv, Roles
<1>12. ASSUME NEW l \in Slots, NEW c \in t2[l].accept_q, Live(t2, c)
       PROVE  c.idx # i /\ Live(t, c)
  <2>1. c.idx # i
    <3>1. c.idx = i => c.gen < t[i].gen
      BY <1>6, FreeIsUnreachable
    <3>2. c.gen \in Int /\ t[i].gen \in Int
      BY <1>1, <1>6 DEF Handle, Socket, Gen
    <3> QED  BY <1>2, <1>3, <1>12, <3>1, <3>2 DEF Live
  <2> QED  BY <1>3, <1>6, <1>12, <2>1 DEF Live
<1>13. QueuedOnce(t2)
  <2> SUFFICES ASSUME NEW l \in Slots, NEW c \in t2[l].accept_q, Live(t2, c)
               PROVE  /\ ~t2[c.idx].user_open
                      /\ t2[l].state = "Listen" /\ t2[c.idx].port = t2[l].port
                      /\ t2[l].ip \in {AnyIp, t2[c.idx].ip}
                      /\ \A k \in Slots : c \in t2[k].accept_q => k = l
    BY DEF QueuedOnce
  <2>1. l # i /\ c.idx # i /\ Live(t, c) /\ c \in t[l].accept_q /\ c.idx \in Slots
    BY <1>6, <1>12
  <2>2. /\ ~t[c.idx].user_open
        /\ t[l].state = "Listen" /\ t[c.idx].port = t[l].port
        /\ t[l].ip \in {AnyIp, t[c.idx].ip}
        /\ \A k \in Slots : c \in t[k].accept_q => k = l
    BY <2>1 DEF IInv, QueuedOnce
  <2> QED  BY <1>3, <1>6, <2>1, <2>2
<1>14. AllQueued(t2)
  <2> SUFFICES ASSUME NEW j \in Slots, Pending(t2, j)
               PROVE  \E m \in Slots : QueuedAt(t2, m, j)
    BY DEF AllQueued
  <2>1. j # i /\ Pending(t, j)
    BY <1>3 DEF Pending
  <2>2. PICK m \in Slots : QueuedAt(t, m, j)
    BY <2>1 DEF IInv, AllQueued
  <2>3. m # i
    BY <2>2 DEF QueuedAt
  <2> QED  BY <1>3, <2>1, <2>2, <2>3 DEF QueuedAt, Live
<1>15. Demux(t2)
  <2> SUFFICES ASSUME NEW j \in Slots, NEW k \in Slots, j # k, t2[j].state # "Free", t2[k].state # "Free",
                      t2[j].port = t2[k].port
               PROVE  /\ t2[j].state = "Listen" /\ t2[k].state = "Listen" => ~Overlap(t2[j].ip, t2[k].ip)
                      /\ t2[j].remote # NoRemote /\ t2[k].remote # NoRemote =>
                            t2[j].ip # t2[k].ip \/ t2[j].remote # t2[k].remote
    BY DEF Demux
  <2>1. CASE j = i
    BY <1>3, <2>1 DEF Joins
  <2>2. CASE k = i
    BY <1>3, <2>2 DEF Joins
  <2>3. CASE j # i /\ k # i
    BY <1>3, <2>3 DEF IInv, Demux
  <2> QED  BY <2>1, <2>2, <2>3
<1>16. Bounded(t2)
  <2>1. IsFiniteSet({}) /\ Cardinality({}) = 0 /\ s.backlog >= 0
    BY <1>2, FS_EmptySet, SizesAssumption DEF Socket
  <2> QED  BY <1>2, <1>3, <2>1 DEF IInv, Bounded
<1> QED
  BY <1>7, <1>8, <1>9, <1>10, <1>11, <1>13, <1>14, <1>15, <1>16 DEF IInv, t2, h

\* A child made for a SYN, which waits in its listener's queue.
LEMMA SpawnKeeps ==
    ASSUME NEW t, NEW n, NEW H, IInv(t, n, H), n < MaxAllocs,
           NEW i \in Slots, ~InUse(t, i), NEW s, Joins(t, n, i, s),
           NEW l \in Slots, t[l].state = "Listen", Cardinality(t[l].accept_q) < t[l].backlog,
           ~s.user_open, s.state = "SynReceived", s.port = t[l].port, t[l].ip \in {AnyIp, s.ip}
    PROVE  IInv([t EXCEPT ![i] = s,
                          ![l].accept_q = @ \cup {[idx |-> i, gen |-> t[i].gen, serial |-> n + 1]}], n + 1, H)
<1> DEFINE h == [idx |-> i, gen |-> t[i].gen, serial |-> n + 1]
           t2 == [t EXCEPT ![i] = s, ![l].accept_q = @ \cup {h}]
<1> USE DEF InUse
<1>1. t \in [Slots -> Socket] /\ n \in 0 .. MaxAllocs /\ H \in SUBSET Handle /\ i # l
  BY DEF IInv, Typed
<1>2. s \in Socket /\ s.gen = t[i].gen /\ s.serial = n + 1 /\ s.accept_q = {}
  BY DEF Joins
<1>3. n + 1 \in 0 .. MaxAllocs /\ n + 1 \in 1 .. MaxAllocs /\ n \in Int /\ h \in Handle
  BY <1>1, SizesAssumption DEF Handle, Socket
<1>4. h.idx = i /\ h.gen = t[i].gen /\ h.serial = n + 1
  OBVIOUS
<1>5. /\ t2 \in [Slots -> Socket] /\ t2[i] = s /\ \A j \in Slots : j # i /\ j # l => t2[j] = t[j]
      /\ t2[l].accept_q = t[l].accept_q \cup {h}
      /\ t2[l].gen = t[l].gen /\ t2[l].state = t[l].state /\ t2[l].serial = t[l].serial
      /\ t2[l].user_open = t[l].user_open /\ t2[l].ip = t[l].ip /\ t2[l].port = t[l].port
      /\ t2[l].remote = t[l].remote /\ t2[l].backlog = t[l].backlog
  <2> HIDE DEF h
  <2>1. t2 = [t EXCEPT ![i] = s, ![l] = [t[l] EXCEPT !.accept_q = t[l].accept_q \cup {h}]]
    BY <1>1
  <2>2. t[l] \in Socket /\ [t[l] EXCEPT !.accept_q = t[l].accept_q \cup {h}] \in Socket
    BY <1>1, <1>3 DEF Socket
  <2>3. /\ t2 \in [Slots -> Socket] /\ t2[i] = s /\ \A j \in Slots : j # i /\ j # l => t2[j] = t[j]
        /\ t2[l] = [t[l] EXCEPT !.accept_q = t[l].accept_q \cup {h}]
    BY <1>1, <1>2, <2>1, <2>2
  <2> HIDE DEF t2
  <2> QED  BY <2>2, <2>3 DEF Socket
<1> HIDE DEF t2, h
<1>6. \A j \in Slots : j # i =>
        /\ t2[j].gen = t[j].gen /\ t2[j].state = t[j].state /\ t2[j].serial = t[j].serial
        /\ t2[j].user_open = t[j].user_open /\ t2[j].ip = t[j].ip /\ t2[j].port = t[j].port
        /\ t2[j].remote = t[j].remote /\ t2[j].backlog = t[j].backlog
        /\ j # l => t2[j].accept_q = t[j].accept_q
        /\ t[j].accept_q \subseteq t2[j].accept_q
  BY <1>5
<1>7. \A j \in Slots : \A c \in t2[j].accept_q : (j = l /\ c = h) \/ (j # i /\ c \in t[j].accept_q /\ c # h)
  <2> SUFFICES ASSUME NEW j \in Slots, NEW c \in t2[j].accept_q, ~(j = l /\ c = h)
               PROVE  j # i /\ c \in t[j].accept_q /\ c # h
    OBVIOUS
  <2>1. j # i /\ c \in t[j].accept_q
    BY <1>2, <1>5, <1>6
  <2>2. c.idx = i => c.gen < t[i].gen
    BY <2>1, FreeIsUnreachable
  <2>3. t[i].gen \in Int
    BY <1>1 DEF Socket, Gen
  <2> QED  BY <1>4, <2>1, <2>2, <2>3
<1>8. \A j \in Slots : \A c \in t[j].accept_q : c \in Handle /\ c.idx \in Slots
  BY <1>1 DEF Socket, Handle
<1>9. Typed(t2, n + 1, H)
  BY <1>1, <1>3, <1>5 DEF Typed
<1>10. GenBound(t2, n + 1)
  <2> SUFFICES ASSUME NEW j \in Slots
               PROVE  t2[j].gen <= n + 2 /\ (t2[j].state # "Free" => t2[j].gen <= n + 1)
    BY <1>3 DEF GenBound
  <2>1. t[j].gen \in Int /\ t[j].gen <= n + 1 /\ (t[j].state # "Free" => t[j].gen <= n)
    BY <1>1 DEF IInv, GenBound, Socket, Gen
  <2> QED  BY <1>2, <1>3, <1>5, <1>6, <2>1
<1>11. FreeIsEmpty(t2)
  BY <1>5, <1>6 DEF IInv, FreeIsEmpty
<1>12. HandlesCurrent(t2, H)
  <2>1. ASSUME NEW g \in Handle, Current(t, g)
        PROVE  Current(t2, g)
    <3>1. CASE g.idx = i
      BY <1>2, <1>5, <2>1, <3>1 DEF Current
    <3>2. CASE g.idx # i
      BY <1>6, <2>1, <3>2 DEF Current, Handle
    <3> QED  BY <3>1, <3>2
  <2>2. Current(t2, h)
    BY <1>2, <1>4, <1>5 DEF Current
  <2> QED  BY <1>1, <1>7, <1>8, <2>1, <2>2 DEF HandlesCurrent, IInv
<1>13. Roles(t2)
  BY <1>5, <1>6 DEF IInv, Roles
<1>14. QueuedOnce(t2)
  <2> SUFFICES ASSUME NEW m \in Slots, NEW c \in t2[m].accept_q, Live(t2, c)
               PROVE  /\ ~t2[c.idx].user_open
                      /\ t2[m].state = "Listen" /\ t2[c.idx].port = t2[m].port
                      /\ t2[m].ip \in {AnyIp, t2[c.idx].ip}
                      /\ \A k \in Slots : c \in t2[k].accept_q => k = m
    BY DEF QueuedOnce
  <2>1. CASE c = h
    BY <1>4, <1>5, <1>7, <2>1
  <2>2. CASE c # h
    <3>1. m # i /\ c \in t[m].accept_q /\ c \in Handle /\ c.idx \in Slots
      BY <1>7, <1>8, <2>2
    <3>2. c.idx # i
      <4>1. c.idx = i => c.gen < t[i].gen
        BY <3>1, FreeIsUnreachable
      <4>2. c.gen \in Int /\ t[i].gen \in Int
        BY <1>1, <3>1 DEF Handle, Socket, Gen
      <4> QED  BY <1>2, <1>5, <4>1, <4>2 DEF Live
    <3>3. Live(t, c)
      BY <1>6, <3>1, <3>2 DEF Live
    <3>4. /\ ~t[c.idx].user_open
          /\ t[m].state = "Listen" /\ t[c.idx].port = t[m].port
          /\ t[m].ip \in {AnyIp, t[c.idx].ip}
          /\ \A k \in Slots : c \in t[k].accept_q => k = m
      BY <3>1, <3>3 DEF IInv, QueuedOnce
    <3> QED  BY <1>6, <1>7, <2>2, <3>1, <3>2, <3>4
  <2> QED  BY <2>1, <2>2
<1>15. AllQueued(t2)
  <2> SUFFICES ASSUME NEW j \in Slots, Pending(t2, j)
               PROVE  \E m \in Slots : QueuedAt(t2, m, j)
    BY DEF AllQueued
  <2>1. CASE j = i
    BY <1>2, <1>4, <1>5, <2>1 DEF QueuedAt, Live
  <2>2. CASE j # i
    <3>1. Pending(t, j)
      BY <1>6, <2>2 DEF Pending
    <3>2. PICK m \in Slots : QueuedAt(t, m, j)
      BY <3>1 DEF IInv, AllQueued
    <3>3. m # i
      BY <3>2 DEF QueuedAt
    <3> QED  BY <1>6, <2>2, <3>2, <3>3 DEF QueuedAt, Live
  <2> QED  BY <2>1, <2>2
<1>16. Demux(t2)
  <2> SUFFICES ASSUME NEW j \in Slots, NEW k \in Slots, j # k, t2[j].state # "Free", t2[k].state # "Free",
                      t2[j].port = t2[k].port
               PROVE  /\ t2[j].state = "Listen" /\ t2[k].state = "Listen" => ~Overlap(t2[j].ip, t2[k].ip)
                      /\ t2[j].remote # NoRemote /\ t2[k].remote # NoRemote =>
                            t2[j].ip # t2[k].ip \/ t2[j].remote # t2[k].remote
    BY DEF Demux
  <2>1. CASE j = i
    BY <1>5, <1>6, <2>1 DEF Joins
  <2>2. CASE k = i
    BY <1>5, <1>6, <2>2 DEF Joins
  <2>3. CASE j # i /\ k # i
    BY <1>6, <2>3 DEF IInv, Demux
  <2> QED  BY <2>1, <2>2, <2>3
<1>17. Bounded(t2)
  <2> SUFFICES ASSUME NEW m \in Slots
               PROVE  IsFiniteSet(t2[m].accept_q) /\ Cardinality(t2[m].accept_q) <= t2[m].backlog
    BY DEF Bounded
  <2>1. CASE m = i
    <3>1. IsFiniteSet({}) /\ Cardinality({}) = 0 /\ s.backlog >= 0
      BY <1>2, FS_EmptySet, SizesAssumption DEF Socket
    <3> QED  BY <1>2, <1>5, <2>1, <3>1
  <2>2. CASE m # i /\ m # l
    BY <1>6, <2>2 DEF IInv, Bounded
  <2>3. CASE m = l
    <3>1. IsFiniteSet(t[l].accept_q)
      BY DEF IInv, Bounded
    <3>2. /\ IsFiniteSet(t[l].accept_q \cup {h})
          /\ Cardinality(t[l].accept_q \cup {h}) \in Nat /\ Cardinality(t[l].accept_q) \in Nat
          /\ Cardinality(t[l].accept_q \cup {h}) <= Cardinality(t[l].accept_q) + 1
      <4> DEFINE Q == t[l].accept_q
      <4> HIDE DEF Q
      <4>1. IsFiniteSet(Q) /\ IsFiniteSet(Q \cup {h})
        BY <3>1, FS_AddElement DEF Q
      <4>2. Cardinality(Q \cup {h}) = IF h \in Q THEN Cardinality(Q) ELSE Cardinality(Q) + 1
        BY <4>1, FS_AddElement
      <4>3. Cardinality(Q) \in Nat /\ Cardinality(Q \cup {h}) \in Nat
        BY <4>1, FS_CardinalityType
      <4> QED  BY <4>1, <4>2, <4>3 DEF Q
    <3>3. t[l].backlog \in Nat
      BY <1>1, SizesAssumption DEF Socket
    <3> QED  BY <1>5, <2>3, <3>2, <3>3
  <2> QED  BY <2>1, <2>2, <2>3
<1> QED
  BY <1>9, <1>10, <1>11, <1>12, <1>13, <1>14, <1>15, <1>16, <1>17 DEF IInv, t2, h

----------------------------------------------------------------------------
(* The specification. *)

\* The table Stack::new makes.
LEMMA InitHolds == Init => IInv(slots, allocs, handles)
<1> SUFFICES ASSUME Init PROVE IInv(slots, allocs, handles)
  OBVIOUS
<1> USE DEF Init, InUse
<1>1. Empty(1) \in Socket /\ Empty(1).state = "Free" /\ Empty(1).accept_q = {} /\ Empty(1).gen = 1
      /\ ~Empty(1).user_open /\ Empty(1).backlog = 0
  BY SizesAssumption, GenAssumption DEF Empty, Socket, Gen, TcpState, Addrs
<1>2. slots \in [Slots -> Socket] /\ \A i \in Slots : slots[i] = Empty(1)
  BY <1>1
<1>3. Typed(slots, allocs, handles)
  BY <1>2, SizesAssumption DEF Typed
<1>4. GenBound(slots, allocs) /\ FreeIsEmpty(slots) /\ Roles(slots)
  BY <1>1, <1>2 DEF GenBound, FreeIsEmpty, Roles
<1>5. HandlesCurrent(slots, handles) /\ QueuedOnce(slots)
  BY <1>1, <1>2 DEF HandlesCurrent, QueuedOnce
<1>6. AllQueued(slots) /\ Demux(slots)
  BY <1>1, <1>2 DEF AllQueued, Pending, Demux
<1>7. Bounded(slots)
  BY <1>1, <1>2, FS_EmptySet DEF Bounded
<1> QED
  BY <1>3, <1>4, <1>5, <1>6, <1>7 DEF IInv

\* Moving one slot as a program's call or the peer may.
LEMMA MoveOneKeeps ==
    ASSUME NEW t, NEW n, NEW H, IInv(t, n, H), NEW i \in Slots, NEW u,
           t[i].state # "Listen", t[i].state # "Free", Moved(t[i], u)
    PROVE  IInv([t EXCEPT ![i] = reap(u)], n, H)
<1>1. t \in [Slots -> Socket] /\ n \in 0 .. MaxAllocs
  BY DEF IInv, Typed
<1>2. PICK st \in TcpState \ {"Listen"}, o \in BOOLEAN :
        u = [t[i] EXCEPT !.state = st, !.user_open = o] /\ t[i] \in Socket
  BY <1>1 DEF Moved
<1>3. u.gen = t[i].gen
  BY <1>2 DEF Socket
<1>4. free(u) = free(t[i])
  BY <1>3 DEF free
<1>5. Shrunk(t[i], reap(u))
  BY <1>4 DEF Shrunk, reap
<1> DEFINE t2 == [t EXCEPT ![i] = reap(u)]
<1>6. /\ t2[i] = reap(u) /\ \A j \in Slots : j # i => t2[j] = t[j]
      /\ t2 \in [Slots -> {t2[j] : j \in Slots}]
  BY <1>1
<1>7. \A j \in Slots : Shrunk(t[j], t2[j])
  BY <1>5, <1>6 DEF Shrunk
<1> QED  BY <1>6, <1>7, ShrinkKeeps

\* Closing a listener takes its live children with it.
LEMMA CloseListenerKeeps ==
    ASSUME IInv(slots, allocs, handles), NEW l \in Slots, slots[l].state = "Listen", close_listener(l)
    PROVE  IInv(slots', allocs, handles)
<1>1. slots \in [Slots -> Socket]
  BY DEF IInv, Typed
<1>2. \A i \in Slots : slots'[i] = IF i = l \/ AbortedChild(l, i) THEN free(slots[i]) ELSE slots[i]
  BY DEF close_listener
<1>3. slots' \in [Slots -> {slots'[i] : i \in Slots}]
  BY DEF close_listener
<1>4. \A i \in Slots : AbortedChild(l, i) => slots[i].state # "Free" /\ ~slots[i].user_open
  BY DEF AbortedChild, LiveChildren, Live, InUse
<1>5. \A i \in Slots : Shrunk(slots[i], slots'[i])
  BY <1>2, <1>4 DEF Shrunk
<1>6. ASSUME NEW k \in Slots, slots[k].state = "Listen", slots'[k] # slots[k],
             NEW c \in slots[k].accept_q, Live(slots, c)
      PROVE  slots'[c.idx].state = "Free"
  <2>1. k = l
    BY <1>2, <1>4, <1>6 DEF IInv, Roles
  <2>2. c.idx \in Slots /\ ~slots[c.idx].user_open
    BY <1>1, <1>6 DEF IInv, QueuedOnce, Socket, Handle
  <2>3. AbortedChild(l, c.idx)
    BY <1>6, <2>1, <2>2 DEF AbortedChild, LiveChildren
  <2>4. slots'[c.idx] = free(slots[c.idx])
    BY <1>2, <2>2, <2>3
  <2>5. free(slots[c.idx]).state = "Free"
    BY DEF free, Empty
  <2> QED  BY <2>4, <2>5
<1> QED  BY <1>3, <1>5, <1>6, ShrinkKeeps

\* The table rx_syn goes on with, when a SYN reopens a pair in TIME_WAIT.
LEMMA ReopenedKeeps ==
    ASSUME IInv(slots, allocs, handles), NEW ip, NEW port, NEW r, NewPair(ip, port, r)
    PROVE  IInv(Reopened(ip, port, r), allocs, handles)
<1> DEFINE t == Reopened(ip, port, r)
<1>1. /\ \A i \in Slots : t[i] = IF IsConn(i, ip, port, r) THEN free(slots[i]) ELSE slots[i]
      /\ t \in [Slots -> {t[i] : i \in Slots}]
  BY DEF Reopened
<1>2. \A i \in Slots : IsConn(i, ip, port, r) => slots[i].state = "TimeWait"
  BY DEF NewPair
<1> HIDE DEF t
<1>3. \A i \in Slots : Shrunk(slots[i], t[i]) /\ (slots[i].state = "Listen" => t[i] = slots[i])
  BY <1>1, <1>2 DEF Shrunk
<1> QED  BY <1>1, <1>3, ShrinkKeeps DEF t

\* Every step keeps the inductive invariant.
LEMMA StepKeeps ==
    ASSUME IInv(slots, allocs, handles), [Next]_vars
    PROVE  IInv(slots, allocs, handles)'
<1>t. /\ slots \in [Slots -> Socket] /\ allocs \in 0 .. MaxAllocs /\ handles \in SUBSET Handle
      /\ \A i \in Slots : slots[i] \in Socket /\ slots[i].state \in TcpState \cup {"Free"}
      /\ \A h \in handles : h \in Handle /\ h.idx \in Slots
  BY DEF IInv, Typed, Socket, Handle
<1> SUFFICES IInv(slots', allocs', handles')
  BY DEF IInv, Typed, GenBound, FreeIsEmpty, HandlesCurrent, Current, Roles, QueuedOnce, AllQueued,
         Pending, QueuedAt, Demux, Bounded, InUse, Live
<1>1. ASSUME NEW ip \in Addrs, NEW port \in Ports, NEW n \in 0 .. MaxBacklog + 1, tcp_listen(ip, port, n)
      PROVE  IInv(slots', allocs', handles')
  <2> DEFINE b == Clamped(n)
  <2>0. b \in 1 .. MaxBacklog
    BY SizesAssumption DEF Clamped
  <2>1. PICK i \in Slots :
          /\ FirstFree(slots, i)
          /\ slots' = [slots EXCEPT ![i] = NewSocket(slots, i, "Listen", TRUE, ip, port, NoRemote, b)]
          /\ handles' = handles \cup {NewHandle(slots, i)}
    BY <1>1 DEF tcp_listen
  <2> DEFINE s == NewSocket(slots, i, "Listen", TRUE, ip, port, NoRemote, b)
  <2>2. ~InUse(slots, i) /\ allocs < MaxAllocs /\ allocs' = allocs + 1
    BY <1>1, <2>1 DEF tcp_listen, FirstFree, HasRoom
  <2>3. /\ s \in Socket /\ s.gen = slots[i].gen /\ s.serial = allocs + 1 /\ s.accept_q = {}
        /\ s.user_open /\ s.state = "Listen" /\ s.remote = NoRemote /\ s.port = port /\ s.ip = ip
    <3> HIDE DEF b
    <3> QED  BY <1>t, <2>0, <2>2, SizesAssumption DEF NewSocket, Socket, TcpState
  <2> HIDE DEF s
  <2>4. Joins(slots, allocs, i, s)
    BY <1>1, <2>3 DEF Joins, tcp_listen, Clash, Overlap
  <2> QED  BY <2>1, <2>2, <2>3, <2>4, OpenKeeps DEF s, NewHandle
<1>2. ASSUME NEW ip \in Ips, NEW port \in Ports, NEW r \in Remotes, tcp_connect(ip, port, r)
      PROVE  IInv(slots', allocs', handles')
  <2>1. PICK i \in Slots :
          /\ FirstFree(slots, i)
          /\ slots' = [slots EXCEPT ![i] = NewSocket(slots, i, "SynSent", TRUE, ip, port, r, 0)]
          /\ handles' = handles \cup {NewHandle(slots, i)}
    BY <1>2 DEF tcp_connect
  <2> DEFINE s == NewSocket(slots, i, "SynSent", TRUE, ip, port, r, 0)
  <2>2. ~InUse(slots, i) /\ allocs < MaxAllocs /\ allocs' = allocs + 1
    BY <1>2, <2>1 DEF tcp_connect, FirstFree, HasRoom
  <2>3. /\ s \in Socket /\ s.gen = slots[i].gen /\ s.serial = allocs + 1 /\ s.accept_q = {}
        /\ s.user_open /\ s.state = "SynSent" /\ s.port = port
    BY <1>t, <2>2, SizesAssumption DEF NewSocket, Socket, TcpState, Addrs
  <2> HIDE DEF s
  <2>4. Joins(slots, allocs, i, s)
    BY <1>2, <2>3 DEF Joins, tcp_connect, tcp_port_used
  <2> QED  BY <2>1, <2>2, <2>3, <2>4, OpenKeeps DEF s, NewHandle
<1>3. ASSUME NEW h \in handles, tcp_accept(h)
      PROVE  IInv(slots', allocs', handles')
  <2> DEFINE l == h.idx
             p == [slots EXCEPT ![l].accept_q = LiveChildren(slots, l)]
  <2>1. l \in Slots /\ allocs' = allocs /\ IInv(p, allocs, handles)
    BY <1>t, <1>3, PruneKeeps DEF tcp_accept
  <2>2. CASE AcceptNone(l)
    BY <2>1, <2>2 DEF AcceptNone
  <2>3. CASE AcceptOne(l)
    <3>1. PICK c \in Ready(l) :
            /\ slots' = [slots EXCEPT ![l].accept_q = LiveChildren(slots, l) \ {c}, ![c.idx].user_open = TRUE]
            /\ handles' = handles \cup {c}
      BY <2>3 DEF AcceptOne
    <3>2. c \in LiveChildren(slots, l) /\ Live(slots, c) /\ c \in slots[l].accept_q /\ c \in Handle /\ c.idx \in Slots
      BY <1>t, <2>1 DEF Ready, LiveChildren, Socket, Handle
    <3>3. p[l].accept_q = LiveChildren(slots, l) /\ Live(p, c)
      BY <1>t, <2>1, <3>2 DEF Live, InUse, Socket
    <3>4. IInv([p EXCEPT ![l].accept_q = @ \ {c}, ![c.idx].user_open = TRUE], allocs, handles \cup {c})
      BY <2>1, <3>2, <3>3, AcceptKeeps
    <3>5. [p EXCEPT ![l].accept_q = @ \ {c}, ![c.idx].user_open = TRUE] = slots'
      BY <1>t, <2>1, <3>1, <3>2 DEF Socket
    <3> QED  BY <2>1, <3>1, <3>4, <3>5
  <2> QED  BY <1>3, <2>2, <2>3 DEF tcp_accept
<1>4. ASSUME NEW h \in handles, tcp_shutdown_write(h)
      PROVE  IInv(slots', allocs', handles')
  <2> DEFINE i == h.idx
             u == [slots[i] EXCEPT !.state = Shut(slots[i].state)]
  <2>1. i \in Slots /\ slots[i].state \in {"Established", "CloseWait"} /\ slots[i].user_open
    BY <1>t, <1>4 DEF tcp_shutdown_write, Valid
  <2>2. Shut(slots[i].state) \in {"FinWait1", "LastAck"}
    BY <2>1 DEF Shut
  <2>3. u = [slots[i] EXCEPT !.state = Shut(slots[i].state), !.user_open = TRUE]
    BY <1>t, <2>1 DEF Socket
  <2>4. Moved(slots[i], u)
    BY <2>1, <2>2, <2>3 DEF Moved, TcpState
  <2>5. reap(u) = u
    BY <1>t, <2>1, <2>2 DEF reap, Socket
  <2>6. slots' = [slots EXCEPT ![i] = reap(u)]
    BY <1>t, <1>4, <2>1, <2>5 DEF tcp_shutdown_write
  <2>7. slots[i].state # "Listen" /\ slots[i].state # "Free"
    BY <2>1
  <2> HIDE DEF i, u
  <2>8. IInv([slots EXCEPT ![i] = reap(u)], allocs, handles)
    BY <2>1, <2>4, <2>7, MoveOneKeeps
  <2> QED  BY <1>4, <2>6, <2>8 DEF tcp_shutdown_write
<1>5. ASSUME NEW h \in handles, tcp_close(h)
      PROVE  IInv(slots', allocs', handles')
  <2> DEFINE i == h.idx
             st == Close(slots[i].state)
             u == [slots[i] EXCEPT !.state = st, !.user_open = FALSE]
  <2>1. i \in Slots /\ slots[i].state # "Free" /\ allocs' = allocs /\ handles' = handles
    BY <1>t, <1>5 DEF tcp_close, Valid, Live, InUse
  <2>2. CASE slots[i].state = "Listen"
    BY <1>5, <2>1, <2>2, CloseListenerKeeps DEF tcp_close
  <2>3. CASE slots[i].state # "Listen"
    <3>1. st \in {"Closed", "FinWait1", "FinWait2", "Closing", "LastAck", "TimeWait"}
      BY <1>t, <2>1, <2>3 DEF Close, Shut, TcpState
    <3>2. Moved(slots[i], u)
      BY <3>1 DEF Moved, TcpState
    <3>3. slots' = [slots EXCEPT ![i] = reap(u)]
      BY <1>5, <2>3 DEF tcp_close, close_conn
    <3> QED  BY <2>1, <2>3, <3>2, <3>3, MoveOneKeeps
  <2> QED  BY <2>2, <2>3
<1>6. ASSUME NEW h \in handles, tcp_abort(h)
      PROVE  IInv(slots', allocs', handles')
  <2> DEFINE i == h.idx
             u == [slots[i] EXCEPT !.state = "Closed", !.user_open = FALSE]
  <2>1. i \in Slots /\ slots[i].state # "Free" /\ allocs' = allocs /\ handles' = handles
    BY <1>t, <1>6 DEF tcp_abort, Valid, Live, InUse
  <2>2. CASE slots[i].state = "Listen"
    BY <1>6, <2>1, <2>2, CloseListenerKeeps DEF tcp_abort
  <2>3. CASE slots[i].state # "Listen"
    <3> DEFINE st == "Closed"
               o == FALSE
    <3>a. st \in TcpState \ {"Listen"} /\ o \in BOOLEAN
      BY DEF TcpState
    <3>b. /\ u = [slots[i] EXCEPT !.state = st, !.user_open = o]
          /\ ~o /\ st # "SynSent" /\ st \notin {"SynReceived", "Established", "CloseWait"}
      OBVIOUS
    <3>1. Moved(slots[i], u)
      <4> HIDE DEF st, o, u
      <4> QED  BY <3>a, <3>b DEF Moved
    <3>2. slots' = [slots EXCEPT ![i] = reap(u)]
      BY <1>6, <2>3 DEF tcp_abort, abort_conn
    <3> QED  BY <2>1, <2>3, <3>1, <3>2, MoveOneKeeps
  <2> QED  BY <2>2, <2>3
<1>7. ASSUME NEW i \in Slots, conn_input(i)
      PROVE  IInv(slots', allocs', handles')
  <2>1. PICK st \in Input(slots[i].state) : slots' = [slots EXCEPT ![i] = reap([slots[i] EXCEPT !.state = st])]
    BY <1>7 DEF conn_input
  <2> DEFINE u == [slots[i] EXCEPT !.state = st]
             o == slots[i].user_open
  <2>2. slots[i].state \in TcpState \ {"Listen"} /\ o \in BOOLEAN
    BY <1>t, <1>7 DEF conn_input, InUse, Socket
  <2>3. /\ st \in TcpState \ {"Listen"}
        /\ st = "SynSent" => slots[i].state = "SynSent"
        /\ st \in {"SynReceived", "Established", "CloseWait"} =>
              slots[i].state \in {"SynSent", "SynReceived", "Established", "CloseWait"}
    BY <2>1, <2>2 DEF Input, TcpState
  <2>4. slots[i].state = "SynSent" => o
    BY DEF IInv, Roles
  <2>5. u = [slots[i] EXCEPT !.state = st, !.user_open = o]
    BY <1>t DEF Socket
  <2>6. Moved(slots[i], u)
    BY <2>2, <2>3, <2>4, <2>5 DEF Moved
  <2>7. slots[i].state # "Listen" /\ slots[i].state # "Free" /\ allocs' = allocs /\ handles' = handles
    BY <1>7 DEF conn_input, InUse
  <2> QED  BY <2>1, <2>6, <2>7, MoveOneKeeps
<1>8. ASSUME NEW ip \in Ips, NEW port \in Ports, NEW r \in Remotes, rx_syn(ip, port, r)
      PROVE  IInv(slots', allocs', handles')
  <2> DEFINE t == Reopened(ip, port, r)
  <2>1. IInv(t, allocs, handles) /\ handles' = handles
    BY <1>8, ReopenedKeeps DEF rx_syn
  <2>2. \A j \in Slots : InUse(t, j) /\ t[j].state # "Listen" =>
           ~(t[j].ip = ip /\ t[j].port = port /\ t[j].remote = r)
    BY DEF Reopened, IsConn, InUse, free, Empty
  <2>3. t \in [Slots -> Socket]
    BY <2>1 DEF IInv, Typed
  <2>4. CASE syn_refused(t, ip, port)
    BY <2>1, <2>4 DEF syn_refused
  <2>5. ASSUME NEW l \in Slots, syn_dropped(t, l)
        PROVE  IInv(slots', allocs', handles')
    BY <2>1, <2>5, PruneKeeps DEF syn_dropped
  <2>6. ASSUME NEW l \in Slots, ListensOn(t, l, ip, port), syn_queued(t, l, ip, port, r)
        PROVE  IInv(slots', allocs', handles')
    <3> DEFINE q == [t EXCEPT ![l].accept_q = LiveChildren(t, l)]
    <3>1. PICK i \in Slots :
            /\ FirstFree(t, i)
            /\ slots' = [t EXCEPT ![i] = NewSocket(t, i, "SynReceived", FALSE, ip, port, r, 0),
                                  ![l].accept_q = LiveChildren(t, l) \cup {NewHandle(t, i)}]
      BY <2>6 DEF syn_queued
    <3> DEFINE s == NewSocket(t, i, "SynReceived", FALSE, ip, port, r, 0)
    <3>2. /\ allocs < MaxAllocs /\ allocs' = allocs + 1
          /\ Cardinality(LiveChildren(t, l)) < t[l].backlog
          /\ t[l].state = "Listen" /\ t[l].port = port /\ t[l].ip \in {AnyIp, ip}
      BY <2>6 DEF syn_queued, HasRoom, ListensOn
    <3>3. i # l /\ t[i].state = "Free"
      BY <3>1, <3>2 DEF FirstFree, InUse
    <3> HIDE DEF t
    <3>4. /\ q[i] = t[i] /\ q[l].accept_q = LiveChildren(t, l)
          /\ \A j \in Slots : /\ q[j].gen = t[j].gen /\ q[j].state = t[j].state /\ q[j].ip = t[j].ip
                              /\ q[j].port = t[j].port /\ q[j].remote = t[j].remote /\ q[j].backlog = t[j].backlog
      BY <2>3, <3>3 DEF Socket
    <3>5. IInv(q, allocs, handles)
      BY <2>1, PruneKeeps
    <3>6. /\ s \in Socket /\ s.gen = t[i].gen /\ s.serial = allocs + 1 /\ s.accept_q = {}
          /\ ~s.user_open /\ s.state = "SynReceived" /\ s.port = port /\ s.ip = ip /\ s.remote = r
      BY <1>t, <2>3, <3>2, SizesAssumption DEF NewSocket, Socket, TcpState, Addrs
    <3>7. slots' = [q EXCEPT ![i] = s, ![l].accept_q = @ \cup {[idx |-> i, gen |-> q[i].gen, serial |-> allocs + 1]}]
      BY <2>3, <3>1, <3>3, <3>4 DEF NewHandle, Socket
    <3> HIDE DEF q, s
    <3>8. Joins(q, allocs, i, s)
      <4> SUFFICES ASSUME NEW j \in Slots, j # i, InUse(q, j), q[j].port = s.port, q[j].remote # NoRemote
                   PROVE  q[j].ip # s.ip \/ q[j].remote # s.remote
        BY <3>4, <3>6 DEF Joins
      <4>1. t[j].state # "Listen" /\ InUse(t, j)
        BY <2>1, <3>4 DEF IInv, Roles, InUse
      <4> QED  BY <2>2, <3>4, <3>6, <4>1 DEF t
    <3>9. ~InUse(q, i) /\ q[l].state = "Listen" /\ Cardinality(q[l].accept_q) < q[l].backlog
          /\ s.port = q[l].port /\ q[l].ip \in {AnyIp, s.ip}
      BY <3>2, <3>3, <3>4, <3>6 DEF InUse
    <3>10. IInv(slots', allocs + 1, handles)
      BY <3>2, <3>5, <3>6, <3>7, <3>8, <3>9, SpawnKeeps
    <3> QED  BY <2>1, <3>2, <3>10
  <2> QED  BY <1>8, <2>4, <2>5, <2>6 DEF rx_syn
<1>9. ASSUME NEW ip \in Ips, remove_interface(ip)
      PROVE  IInv(slots', allocs', handles')
  <2> DEFINE Hit(i) == slots[i].state # "Free" /\ slots[i].ip = ip
             u(i) == [slots[i] EXCEPT !.state = "Closed"]
  <2>1. /\ \A i \in Slots : slots'[i] = IF Hit(i) THEN reap(u(i)) ELSE slots[i]
        /\ slots' \in [Slots -> {slots'[i] : i \in Slots}]
        /\ allocs' = allocs /\ handles' = handles
    BY <1>9 DEF remove_interface, InUse
  <2>2. ASSUME NEW i \in Slots, Hit(i)
        PROVE  /\ Shrunk(slots[i], reap(u(i)))
               /\ ~slots[i].user_open => reap(u(i)).state = "Free"
    <3>1. u(i).state = "Closed" /\ u(i).gen = slots[i].gen /\ u(i).user_open = slots[i].user_open
      BY <1>t DEF Socket
    <3>2. u(i) = [slots[i] EXCEPT !.state = "Closed", !.user_open = slots[i].user_open]
          /\ slots[i].user_open \in BOOLEAN
      BY <1>t DEF Socket
    <3>3. Moved(slots[i], u(i))
      BY <3>2 DEF Moved, TcpState
    <3>4. free(u(i)) = free(slots[i]) /\ free(u(i)).state = "Free"
      BY <3>1 DEF free, Empty
    <3> QED  BY <2>2, <3>1, <3>3, <3>4 DEF Shrunk, reap
  <2>3. \A i \in Slots : Shrunk(slots[i], slots'[i])
    BY <2>1, <2>2 DEF Shrunk
  <2>4. ASSUME NEW l \in Slots, slots[l].state = "Listen", slots'[l] # slots[l],
               NEW c \in slots[l].accept_q, Live(slots, c)
        PROVE  slots'[c.idx].state = "Free"
    <3>1. slots[l].ip = ip /\ ip # AnyIp
      BY <2>1, <2>4, AnyAssumption
    <3>2. c.idx \in Slots
      BY <1>t DEF Socket, Handle
    <3>3. ~slots[c.idx].user_open /\ slots[l].ip \in {AnyIp, slots[c.idx].ip}
      BY <2>4 DEF IInv, QueuedOnce
    <3>4. Hit(c.idx)
      BY <2>4, <3>1, <3>3 DEF Live, InUse
    <3> QED  BY <2>1, <2>2, <3>2, <3>3, <3>4
  <2> HIDE DEF Hit, u
  <2> QED  BY <2>1, <2>3, <2>4, ShrinkKeeps
<1>10. CASE UNCHANGED vars
  BY <1>10 DEF vars
<1> QED
  BY <1>1, <1>2, <1>3, <1>4, <1>5, <1>6, <1>7, <1>8, <1>9, <1>10 DEF Next

----------------------------------------------------------------------------
(* Theorems. *)

\* The inductive invariant implies each property of the runs.
LEMMA IInvGivesProperties ==
    IInv(slots, allocs, handles) =>
        TypeOK /\ NoAliasing /\ NoOrphan /\ AcceptOnce /\ UniqueDemux /\ BacklogRespected
<1> SUFFICES ASSUME IInv(slots, allocs, handles)
             PROVE  TypeOK /\ NoAliasing /\ NoOrphan /\ AcceptOnce /\ UniqueDemux /\ BacklogRespected
  OBVIOUS
<1>1. TypeOK
  BY DEF IInv, Typed, TypeOK
<1>2. NoAliasing
  <2> SUFFICES ASSUME NEW h \in AllHandles, Live(slots, h)
               PROVE  slots[h.idx].serial = h.serial
    BY DEF NoAliasing
  <2>1. Current(slots, h) /\ h \in Handle
    BY DEF AllHandles, IInv, HandlesCurrent, Typed, Socket
  <2>2. h.gen \in Int
    BY <2>1 DEF Handle, Gen
  <2> QED  BY <2>1, <2>2 DEF Current, Live
<1>3. NoOrphan
  BY DEF IInv, AllQueued, Pending, QueuedAt, NoOrphan, Waiting, WaitsAt
<1>4. AcceptOnce
  BY DEF IInv, QueuedOnce, AcceptOnce
<1>5. UniqueDemux
  BY DEF IInv, Demux, UniqueDemux
<1>6. BacklogRespected
  BY DEF IInv, Bounded, BacklogRespected
<1> QED  BY <1>1, <1>2, <1>3, <1>4, <1>5, <1>6

\* The inductive invariant holds in every reachable state.
THEOREM Invariant == Spec => []IInv(slots, allocs, handles)
<1>1. Init => IInv(slots, allocs, handles)
  BY InitHolds
<1>2. IInv(slots, allocs, handles) /\ [Next]_vars => IInv(slots, allocs, handles)'
  BY StepKeeps
<1> QED  BY <1>1, <1>2, PTL DEF Spec

\* The table, the count and the handles keep their types, whatever the calls.
THEOREM TypeCorrect == Spec => []TypeOK
  BY Invariant, IInvGivesProperties, PTL

\* No handle reaches a socket it was not made for: stale handles are harmless as long as
\* no slot is reused as often as the generation has values (GenAssumption).
THEOREM HandlesAreSafe == Spec => []NoAliasing
  BY Invariant, IInvGivesProperties, PTL

\* No child is ever stranded outside an open listener's queue.
THEOREM NoOrphans == Spec => []NoOrphan
  BY Invariant, IInvGivesProperties, PTL

\* A child is queued at one listener of its own address, and nothing held is queued.
THEOREM AcceptedOnce == Spec => []AcceptOnce
  BY Invariant, IInvGivesProperties, PTL

\* Segments find at most one connection and at most one listener.
THEOREM DemuxUnambiguous == Spec => []UniqueDemux
  BY Invariant, IInvGivesProperties, PTL

\* No accept queue outgrows its backlog.
THEOREM QueuesBounded == Spec => []BacklogRespected
  BY Invariant, IInvGivesProperties, PTL
============================================================================
