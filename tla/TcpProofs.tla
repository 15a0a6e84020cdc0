---------------------------- MODULE TcpProofs ----------------------------
(***************************************************************************)
(* Theorems about TcpConnection: two hosts, whatever their programs do,    *)
(* whatever the network loses, duplicates, reorders, and for any size of   *)
(* the sequence number space, the buffers, the segments and the queues.    *)
(* TcbProofs shows what each method of a control block preserves; here the *)
(* methods are put into the steps of the hosts.                            *)
(***************************************************************************)
EXTENDS TcbProofs, FiniteSetTheorems

----------------------------------------------------------------------------
(* The inductive invariant. *)

\* A slot of the table is empty or holds a block in order, closed only if a program holds it.
Slot(c) == c = NoTcb \/ (Done(c) /\ (c.state = "Closed" => c.user_open))

Slots == conn \in [Peers -> TcbRec \cup {NoTcb}] /\ \A p \in Peers : Slot(conn[p])
Nets == net \in [Peers -> Seq(Segment)] /\ \A p \in Peers : Len(net[p]) <= MaxInFlight
Counts == born \in [Peers -> Nat] /\ wrote \in [Peers -> Nat] /\ \A p \in Peers : born[p] <= Len(Iss[p])
Inv == Slots /\ Nets /\ Counts

----------------------------------------------------------------------------
(* Hosts, slots and queues. *)

\* There is another host.
LEMMA OtherIs == ASSUME NEW p \in Peers PROVE Other(p) \in Peers /\ Other(p) # p
<1>1. \E q \in Peers : q # p
  <2> SUFFICES ASSUME \A q \in Peers : q = p PROVE FALSE
    OBVIOUS
  <2>1. Peers = {p}
    OBVIOUS
  <2>2. Cardinality(Peers) = 1
    BY <2>1, FS_Singleton
  <2> QED BY <2>2, PeersAssumption
<1> QED BY <1>1 DEF Other

\* A block is not an empty slot.
LEMMA NotFree == ASSUME NEW t \in TcbRec PROVE t # NoTcb /\ t.state # "Free"
<1>1. t.state \in States
  BY DEF TcbRec
<1>2. NoTcb.state = "Free" /\ "Free" \notin States
  BY DEF NoTcb, States
<1> QED BY <1>1, <1>2

\* What a slot that is not empty holds.
LEMMA SlotBlock ==
    ASSUME NEW c, Slot(c), c # NoTcb
    PROVE  Done(c) /\ c \in TcbRec /\ Sized(c) /\ (c.state = "Closed" => c.user_open)
BY DoneTypes DEF Slot

\* reap leaves a slot in order.
LEMMA ReapedSlot ==
    ASSUME NEW t, Done(t)
    PROVE  Slot(Reaped(t)) /\ Reaped(t) \in TcbRec \cup {NoTcb} /\ (Reaped(t) # NoTcb => Reaped(t) = t)
BY DoneTypes DEF Reaped, Slot

\* What does not fit into a transmit queue is dropped, the rest keeps its order.
LEMMA QueuedType ==
    ASSUME NEW q \in Seq(Segment), Len(q) <= MaxInFlight, NEW segs \in Seq(Segment)
    PROVE  Queued(q, segs) \in Seq(Segment) /\ Len(Queued(q, segs)) <= MaxInFlight
<1> DEFINE s == q \o segs
           n == Least(Len(q) + Len(segs), MaxInFlight)
<1>1. s \in Seq(Segment) /\ Len(s) = Len(q) + Len(segs)
  BY ConcatProperties
<1>2. Len(q) \in Nat /\ Len(segs) \in Nat
  BY LenProperties
<1>3. n \in Int /\ n <= Len(s) /\ n <= MaxInFlight /\ 0 <= n
  BY <1>1, <1>2, QueueAssumption DEF Least
<1>4. Queued(q, segs) = SubSeq(s, 1, n)
  BY DEF Queued
<1> HIDE DEF s, n
<1>5. SubSeq(s, 1, n) \in Seq(Segment) /\ Len(SubSeq(s, 1, n)) = IF 1 <= n THEN n - 1 + 1 ELSE 0
  BY <1>1, <1>3, SubSeqType
<1> QED BY <1>3, <1>4, <1>5, QueueAssumption

\* A segment taken out of a queue.
LEMMA WithoutType ==
    ASSUME NEW s \in Seq(Segment), NEW i \in DOMAIN s
    PROVE  Without(s, i) \in Seq(Segment) /\ Len(Without(s, i)) <= Len(s)
<1>1. Len(s) \in Nat /\ i \in 1 .. Len(s)
  BY LenProperties
<1>2. /\ SubSeq(s, 1, i - 1) \in Seq(Segment)
      /\ Len(SubSeq(s, 1, i - 1)) = IF 1 <= i - 1 THEN (i - 1) - 1 + 1 ELSE 0
  <2>1. i - 1 \in Int /\ i - 1 <= Len(s)
    BY <1>1
  <2> QED BY <2>1, SubSeqType
<1>3. /\ SubSeq(s, i + 1, Len(s)) \in Seq(Segment)
      /\ Len(SubSeq(s, i + 1, Len(s))) = IF i + 1 <= Len(s) THEN Len(s) - (i + 1) + 1 ELSE 0
  <2>1. i + 1 \in Int /\ i + 1 >= 1 /\ Len(s) <= Len(s) /\ Len(s) \in Int
    BY <1>1
  <2> QED BY <2>1, SubSeqType
<1> DEFINE a == SubSeq(s, 1, i - 1)
           b == SubSeq(s, i + 1, Len(s))
<1>4. Without(s, i) = a \o b
  BY DEF Without
<1> HIDE DEF a, b
<1>5. a \o b \in Seq(Segment) /\ Len(a \o b) = Len(a) + Len(b)
  BY <1>2, <1>3, ConcatProperties DEF a, b
<1>6. Len(a) = i - 1
  BY <1>1, <1>2 DEF a
<1>7. Len(b) = Len(s) - i
  BY <1>1, <1>3 DEF b
<1> QED BY <1>1, <1>4, <1>5, <1>6, <1>7

----------------------------------------------------------------------------
(* One step of one host. *)

\* The step as TcpLifecycle sees it: only the state and who holds the block.
View(c) == [state |-> c.state, held |-> c.user_open]
Sees(v, w) ==
    \/ w = v
    \/ v = Lifecycle!Free /\ w = [state |-> "SynSent", held |-> TRUE]
    \/ /\ v = Lifecycle!Free \/ v = [state |-> "TimeWait", held |-> FALSE]
       /\ w = [state |-> "SynReceived", held |-> FALSE]
    \/ /\ v.state \in Lifecycle!TcpState \ {"SynReceived", "Closed"} /\ ~v.held
       /\ w = [v EXCEPT !.held = TRUE]
    \/ v # Lifecycle!Free /\ \E s \in Lifecycle!Input(v.state) : w = Lifecycle!Reap([v EXCEPT !.state = s])
    \/ v.held /\ w = [v EXCEPT !.state = Lifecycle!Shut(v.state)]
    \/ v.held /\ w = Lifecycle!Reap([state |-> Lifecycle!Close(v.state), held |-> FALSE])
    \/ /\ v # Lifecycle!Free
       /\ \E held \in BOOLEAN : (held => v.held) /\ w = Lifecycle!Reap([state |-> "Closed", held |-> held])
    \/ v = [state |-> "TimeWait", held |-> FALSE] /\ w = Lifecycle!Free

\* Host p's slot becomes c, and nothing that must hold of the step fails.
Becoming(p, c) ==
    /\ conn' = [conn EXCEPT ![p] = c] /\ Slot(c)
    /\ Exists(p) /\ c # NoTcb /\ born'[p] = born[p] => Kept(conn[p], c)
    /\ Sees(View(conn[p]), View(c))
Stepped(p) == (\E c \in TcbRec \cup {NoTcb} : Becoming(p, c)) /\ Nets' /\ Counts'

\* What a step puts on the network.
LEMMA NetsAfter ==
    ASSUME Nets, NEW p \in Peers, NEW left \in Seq(Segment), Len(left) <= MaxInFlight, NEW out \in Seq(Segment),
           \/ net' = [net EXCEPT ![Other(p)] = Queued(@, out)]
           \/ net' = [net EXCEPT ![p] = left, ![Other(p)] = Queued(@, out)]
           \/ net' = [net EXCEPT ![p] = left]
           \/ net' = net
    PROVE  Nets'
<1>1. Other(p) \in Peers /\ Other(p) # p
  BY OtherIs
<1> DEFINE q == Queued(net[Other(p)], out)
<1>2. q \in Seq(Segment) /\ Len(q) <= MaxInFlight
  BY <1>1, QueuedType DEF Nets
<1>3. \/ net' = [net EXCEPT ![Other(p)] = q]
      \/ net' = [[net EXCEPT ![p] = left] EXCEPT ![Other(p)] = q]
      \/ net' = [net EXCEPT ![p] = left]
      \/ net' = net
  BY <1>1 DEF Nets
<1> HIDE DEF q
<1> QED BY <1>1, <1>2, <1>3 DEF Nets

\* The counters are in order when they stay.
LEMMA CountsSame == ASSUME Counts, born' = born, wrote' = wrote PROVE Counts'
BY DEF Counts

\* A new block takes the next initial sequence number, and is told from its predecessor by the count.
LEMMA BirthCounts ==
    ASSUME Counts, NEW p \in Peers, born[p] < Len(Iss[p]), Birth(p)
    PROVE  Counts' /\ born'[p] # born[p] /\ NextIss(p) \in Seq32
<1>1. born \in [Peers -> Nat] /\ wrote \in [Peers -> Nat]
  BY DEF Counts
<1>2. Iss[p] \in Seq(Seq32) /\ Len(Iss[p]) \in Nat
  BY IssAssumption, LenProperties
<1>3. born' = [born EXCEPT ![p] = born[p] + 1] /\ wrote' = [wrote EXCEPT ![p] = 0]
  BY DEF Birth
<1>4. born[p] \in Nat /\ born[p] + 1 <= Len(Iss[p]) /\ born[p] + 1 # born[p]
  BY <1>1, <1>2
<1>5. Counts'
  BY <1>1, <1>3, <1>4 DEF Counts
<1>6. NextIss(p) \in Seq32
  BY <1>2, <1>4, ElementOfSeq DEF NextIss
<1> QED BY <1>1, <1>3, <1>4, <1>5, <1>6

\* The names TcpLifecycle gives to an empty slot and to reaping.
LEMMA ViewFree == View(NoTcb) = Lifecycle!Free
BY DEF View, NoTcb, Lifecycle!Free

\* reap, as TcpLifecycle sees it.
LEMMA ViewReaped == ASSUME NEW t \in TcbRec PROVE View(Reaped(t)) = Lifecycle!Reap(View(t))
<1>1. View(t).state = t.state /\ View(t).held = t.user_open
  BY DEF View
<1>2. CASE t.state = "Closed" /\ ~t.user_open
  BY <1>1, <1>2, ViewFree DEF Reaped, Lifecycle!Reap
<1>3. CASE ~(t.state = "Closed" /\ ~t.user_open)
  BY <1>1, <1>3 DEF Reaped, Lifecycle!Reap
<1> QED BY <1>2, <1>3

\* TcpLifecycle tells a block from an empty slot.
LEMMA ViewBlock == ASSUME NEW t \in TcbRec PROVE View(t) # Lifecycle!Free
BY NotFree DEF View, Lifecycle!Free

\* A block that moved along TcpStates.
LEMMA SeesInput ==
    ASSUME NEW t \in TcbRec, NEW u \in TcbRec, u.user_open = t.user_open, u.state \in Lifecycle!Input(t.state)
    PROVE  Sees(View(t), View(Reaped(u)))
<1>1. View(u) = [View(t) EXCEPT !.state = u.state] /\ View(t).state = t.state
  BY DEF View
<1>2. \E s \in Lifecycle!Input(View(t).state) : View(Reaped(u)) = Lifecycle!Reap([View(t) EXCEPT !.state = s])
  BY <1>1, ViewReaped
<1> QED BY <1>2, ViewBlock DEF Sees

\* A block that was aborted, or failed.
LEMMA SeesKill ==
    ASSUME NEW t \in TcbRec, NEW u \in TcbRec, u.user_open => t.user_open, u.state = "Closed"
    PROVE  Sees(View(t), View(Reaped(u)))
<1>1. View(u) = [state |-> "Closed", held |-> u.user_open] /\ View(t).held = t.user_open /\ u.user_open \in BOOLEAN
  BY DEF View, TcbRec
<1>2. \E held \in BOOLEAN : /\ held => View(t).held
                            /\ View(Reaped(u)) = Lifecycle!Reap([state |-> "Closed", held |-> held])
  BY <1>1, ViewReaped
<1> QED BY <1>2, ViewBlock DEF Sees

\* A block that its program closed.
LEMMA SeesClose ==
    ASSUME NEW t \in TcbRec, NEW u \in TcbRec, t.user_open, ~u.user_open, u.state = Lifecycle!Close(t.state)
    PROVE  Sees(View(t), View(Reaped(u)))
<1>1. u.user_open = FALSE
  BY DEF TcbRec
<1>2. View(u) = [state |-> Lifecycle!Close(View(t).state), held |-> FALSE] /\ View(t).held
  BY <1>1 DEF View
<1>3. View(Reaped(u)) = Lifecycle!Reap([state |-> Lifecycle!Close(View(t).state), held |-> FALSE])
  BY <1>2, ViewReaped
<1> QED BY <1>2, <1>3 DEF Sees

\* A block in good order after a call.
LEMMA BecomingGood ==
    ASSUME NEW p \in Peers, Slots, NEW r, Good(conn[p], r), conn' = [conn EXCEPT ![p] = Reaped(r.tcb)],
           Sees(View(conn[p]), View(Reaped(r.tcb)))
    PROVE  \E c \in TcbRec \cup {NoTcb} : Becoming(p, c)
<1>1. Done(r.tcb) /\ Kept(conn[p], r.tcb)
  BY DEF Good
<1>2. Slot(Reaped(r.tcb)) /\ Reaped(r.tcb) \in TcbRec \cup {NoTcb} /\ (Reaped(r.tcb) # NoTcb => Reaped(r.tcb) = r.tcb)
  BY <1>1, ReapedSlot
<1>3. Becoming(p, Reaped(r.tcb))
  BY <1>1, <1>2 DEF Becoming
<1> QED BY <1>2, <1>3

----------------------------------------------------------------------------
(* The programs' calls. *)

\* A call on a block that leaves the counters of its host alone.
LEMMA TakeStep ==
    ASSUME Inv, NEW p \in Peers, NEW r, Take(p, r), Good(conn[p], r),
           Sees(View(conn[p]), View(Reaped(r.tcb))), Counts'
    PROVE  Stepped(p)
<1>1. r.out \in Seq(Segment) /\ net' = [net EXCEPT ![Other(p)] = Queued(@, r.out)]
  BY DEF Good, Take
<1>2. <<>> \in Seq(Segment) /\ Len(<<>>) <= MaxInFlight
  BY QueueAssumption
<1>3. Nets'
  BY <1>1, <1>2, NetsAfter DEF Inv
<1>4. \E c \in TcbRec \cup {NoTcb} : Becoming(p, c)
  BY BecomingGood DEF Take, Inv
<1> QED BY <1>3, <1>4 DEF Stepped

\* tcp_connect creates a block in order.
LEMMA ConnectStep == ASSUME Inv, NEW p \in Peers, tcp_connect(p) PROVE Stepped(p)
<1> DEFINE r == new_connect(NextIss(p))
<1>1. conn[p] = NoTcb /\ born[p] < Len(Iss[p]) /\ Take(p, r) /\ Birth(p)
  BY DEF tcp_connect, Exists
<1>2. Counts' /\ born'[p] # born[p] /\ NextIss(p) \in Seq32
  BY <1>1, BirthCounts DEF Inv
<1>3. Done(r.tcb) /\ r.out \in Seq(Segment) /\ r.tcb.state = "SynSent" /\ r.tcb.user_open
  BY <1>2, NewConnectKeeps
<1> HIDE DEF r
<1>4. r.tcb \in TcbRec /\ Slot(r.tcb) /\ Reaped(r.tcb) = r.tcb
  BY <1>3, DoneTypes DEF Slot, Reaped
<1>5. r.tcb.user_open = TRUE
  BY <1>3, <1>4 DEF TcbRec
<1>6. View(r.tcb) = [state |-> "SynSent", held |-> TRUE] /\ View(conn[p]) = Lifecycle!Free
  BY <1>1, <1>3, <1>5, ViewFree DEF View
<1>7. Sees(View(conn[p]), View(r.tcb))
  BY <1>6 DEF Sees
<1>8. Becoming(p, r.tcb)
  BY <1>1, <1>2, <1>4, <1>7 DEF Becoming, Take
<1>9. Nets'
  <2>1. <<>> \in Seq(Segment) /\ Len(<<>>) <= MaxInFlight
    BY QueueAssumption
  <2> QED BY <1>1, <1>3, <2>1, NetsAfter DEF Inv, Take
<1> QED BY <1>2, <1>4, <1>8, <1>9 DEF Stepped

\* accept: the block gets a holder and nothing else changes.
LEMMA HeldKeeps ==
    ASSUME NEW t, Done(t), t.state # "Closed", ~t.discard_rx
    PROVE  LET u == [t EXCEPT !.user_open = TRUE]
           IN  Done(u) /\ u.user_open /\ u.state = t.state /\ Kept(t, u)
<1> DEFINE u == [t EXCEPT !.user_open = TRUE]
<1>1. Core(t) /\ Settled(t) /\ Timed(t) /\ t \in TcbRec
  BY DEF Done, Ended, Core
<1>2. u \in TcbRec
  BY <1>1 DEF TcbRec
<1>3. /\ u.state = t.state /\ u.iss = t.iss /\ u.una = t.una /\ u.nxt = t.nxt /\ u.max = t.max
      /\ u.tx = t.tx /\ u.fin_pending = t.fin_pending /\ u.fin_seq = t.fin_seq /\ u.fin_acked = t.fin_acked
      /\ u.rcv_nxt = t.rcv_nxt /\ u.rx = t.rx /\ u.ooo = t.ooo /\ u.rto = t.rto /\ u.close_dl = t.close_dl
      /\ u.fin_received = t.fin_received /\ u.discard_rx = t.discard_rx /\ u.retries = t.retries
      /\ u.user_open /\ u.error = t.error
  BY <1>1 DEF TcbRec
<1> HIDE DEF u
<1>4. Sized(u) /\ LifeOK(u) /\ Settled(u) /\ Timed(u) /\ u.state # "Closed"
  BY <1>1, <1>3 DEF Core, Sized, LifeOK, FinState, GotFin, Settled, Timed, can_send_data
<1>5. rcv_wnd(u) = rcv_wnd(t)
  BY <1>3 DEF rcv_wnd
<1>6. RcvOK(u)
  BY <1>1, <1>3, <1>5 DEF Core, RcvOK, Receiving
<1>7. SynState(u) => SndSyn(u)
  BY <1>1, <1>3 DEF Core, SynState, SndSyn
<1>8. synchronized(u) => SndSync(u)
  BY <1>1, <1>3 DEF Core, synchronized, SndSync, Flight, Top
<1>9. DeadlineOK(u)
  BY <1>1, <1>3 DEF Core, DeadlineOK, SynState
<1>10. Kept(t, u)
  <2>1. synchronized(t) => u.state \notin {"SynSent", "SynReceived"}
    BY <1>3 DEF synchronized
  <2> QED BY <1>3, <2>1, KeptSame
<1> QED BY <1>2, <1>3, <1>4, <1>6, <1>7, <1>8, <1>9, <1>10 DEF Core, Done, u

\* A view with another holder.
LEMMA HolderSet == \A a, b, c : [[state |-> a, held |-> b] EXCEPT !.held = c] = [state |-> a, held |-> c]
OBVIOUS

\* tcp_accept hands out a block and changes nothing else of it.
LEMMA AcceptStep == ASSUME Inv, NEW p \in Peers, tcp_accept(p) PROVE Stepped(p)
<1> DEFINE t == conn[p]
           u == [t EXCEPT !.user_open = TRUE]
<1>1. /\ t # NoTcb /\ ~t.user_open /\ ~t.discard_rx /\ t.state # "SynReceived"
      /\ net' = net /\ born' = born /\ wrote' = wrote
  BY DEF tcp_accept, Exists, Unaccepted
<1>2. conn' = [conn EXCEPT ![p] = u] /\ Slot(t)
  BY DEF tcp_accept, Inv, Slots
<1> HIDE DEF t
<1>3. Done(t) /\ t \in TcbRec /\ t.state # "Closed"
  BY <1>1, <1>2, SlotBlock
<1>4. Done(u) /\ u.user_open /\ u.state = t.state /\ Kept(t, u)
  BY <1>1, <1>3, HeldKeeps
<1>5. View(u) = [View(t) EXCEPT !.held = TRUE] /\ View(t).state = t.state /\ ~View(t).held
  <2>4. View(t).state = t.state /\ View(t).held = t.user_open
    BY DEF View
  <2>1. [View(t) EXCEPT !.held = TRUE] = [state |-> t.state, held |-> TRUE]
    BY HolderSet, Zenon DEF View
  <2>2. u.user_open = TRUE /\ u.state = t.state
    BY <1>3 DEF TcbRec
  <2>3. View(u) = [state |-> t.state, held |-> TRUE]
    BY <2>2 DEF View
  <2> QED BY <1>1, <2>1, <2>3, <2>4
<1>6. t.state \in Lifecycle!TcpState \ {"SynReceived", "Closed"}
  BY <1>1, <1>3 DEF TcbRec, States, Lifecycle!TcpState
<1> HIDE DEF u
<1>7. Sees(View(t), View(u))
  BY <1>5, <1>6 DEF Sees
<1>8. u \in TcbRec
  BY <1>4, DoneTypes
<1>9. Becoming(p, u)
  BY <1>2, <1>4, <1>7 DEF Becoming, Slot, t
<1>10. Nets' /\ Counts'
  BY <1>1 DEF Inv, Nets, Counts
<1> QED BY <1>8, <1>9, <1>10 DEF Stepped

\* tcp_send leaves the block in order.
LEMMA SendStep == ASSUME Inv, NEW p \in Peers, tcp_send(p) PROVE Stepped(p)
<1> DEFINE t == conn[p]
<1>1. PICK n \in Chunks :
          /\ t # NoTcb /\ t.state \in {"SynSent", "SynReceived", "Established", "CloseWait"}
          /\ Take(p, write(t, [i \in 1 .. n |-> Byte(p, wrote[p] + i)]))
          /\ wrote' = [wrote EXCEPT ![p] = @ + Least(n, tx_space(t))] /\ born' = born
  BY DEF tcp_send, Held, Exists
<1> DEFINE data == [i \in 1 .. n |-> Byte(p, wrote[p] + i)]
           r == write(t, data)
<1>2. n \in Nat /\ wrote[p] \in Nat /\ born[p] \in Nat
  BY ProgramAssumption DEF Inv, Counts
<1>3. data \in Seq(Datum)
  <2>1. \A i \in 1 .. n : Byte(p, wrote[p] + i) \in Datum
    BY <1>2 DEF Byte, Datum
  <2> QED BY <1>2, <2>1
<1>4. Slot(t)
  BY DEF Inv, Slots
<1> HIDE DEF t, data
<1>5. Done(t) /\ t \in TcbRec /\ (t.state = "Closed" => t.user_open)
  BY <1>1, <1>4, SlotBlock
<1>6. Good(t, r) /\ r.tcb.state = t.state /\ r.tcb.user_open = t.user_open
  BY <1>1, <1>3, <1>5, WriteKeeps
<1>7. Take(p, r)
  BY <1>1 DEF data
<1> HIDE DEF r
<1>8. r.tcb \in TcbRec
  BY <1>6, DoneTypes DEF Good
<1>9. Sees(View(t), View(Reaped(r.tcb)))
  BY <1>5, <1>6, <1>8, SeesInput, InputSelf
<1>10. Counts'
  <2>1. tx_space(t) \in Nat
    <3>1. Len(t.tx) \in Nat
      BY <1>5, FieldTypes
    <3> QED BY <3>1, BufferAssumption DEF tx_space
  <2>2. wrote[p] + Least(n, tx_space(t)) \in Nat
    BY <1>2, <2>1 DEF Least
  <2> QED BY <1>1, <2>2 DEF Inv, Counts
<1> QED BY <1>6, <1>7, <1>9, <1>10, TakeStep DEF t

\* tcp_recv leaves the block in order.
LEMMA RecvStep == ASSUME Inv, NEW p \in Peers, tcp_recv(p) PROVE Stepped(p)
<1> DEFINE t == conn[p]
<1>1. PICK size \in Chunks :
          t # NoTcb /\ Take(p, read(t, Least(size, Len(t.rx)))) /\ born' = born /\ wrote' = wrote
  BY DEF tcp_recv, Held, Exists
<1> DEFINE n == Least(size, Len(t.rx))
           r == read(t, n)
<1>2. Slot(t)
  BY DEF Inv, Slots
<1> HIDE DEF t
<1>3. Done(t) /\ t \in TcbRec
  BY <1>1, <1>2, SlotBlock
<1>4. n \in Nat /\ n <= Len(t.rx)
  <2>1. Len(t.rx) \in Nat /\ size \in Nat
    BY <1>3, FieldTypes, ProgramAssumption, PeersAssumption
  <2> QED BY <2>1 DEF Least
<1>5. Take(p, r)
  BY <1>1
<1> HIDE DEF n
<1>6. Good(t, r) /\ r.tcb.state = t.state /\ r.tcb.user_open = t.user_open
  BY <1>3, <1>4, ReadKeeps
<1> HIDE DEF r
<1>7. r.tcb \in TcbRec
  BY <1>6, DoneTypes DEF Good
<1>8. Sees(View(t), View(Reaped(r.tcb)))
  BY <1>3, <1>6, <1>7, SeesInput, InputSelf
<1>9. Counts'
  BY <1>1, CountsSame DEF Inv
<1> QED BY <1>5, <1>6, <1>8, <1>9, TakeStep DEF t

\* tcp_shutdown_write leaves the block in order.
LEMMA ShutdownStep == ASSUME Inv, NEW p \in Peers, tcp_shutdown_write(p) PROVE Stepped(p)
<1> DEFINE t == conn[p]
           r == shutdown_write(t)
<1>1. /\ t # NoTcb /\ t.user_open /\ t.state \in {"Established", "CloseWait"} /\ Take(p, r)
      /\ born' = born /\ wrote' = wrote /\ Slot(t)
  BY DEF tcp_shutdown_write, Held, Exists, Inv, Slots
<1> HIDE DEF t
<1>2. Done(t) /\ t \in TcbRec
  BY <1>1, SlotBlock
<1>3. /\ Good(t, r) /\ r.tcb.user_open = t.user_open
      /\ r.tcb.state = IF t.state = "Established" THEN "FinWait1" ELSE "LastAck"
  BY <1>1, <1>2, ShutdownKeeps
<1> HIDE DEF r
<1>4. r.tcb \in TcbRec
  BY <1>3, DoneTypes DEF Good
<1>5. r.tcb.state = Lifecycle!Shut(t.state) /\ r.tcb.state # "Closed"
  BY <1>1, <1>3 DEF Lifecycle!Shut
<1>6. Reaped(r.tcb) = r.tcb
  BY <1>5 DEF Reaped
<1>7. Sees(View(t), View(Reaped(r.tcb)))
  <2>1. View(r.tcb) = [View(t) EXCEPT !.state = Lifecycle!Shut(t.state)]
    BY <1>3, <1>5 DEF View
  <2>2. View(t).state = t.state /\ View(t).held = t.user_open
    BY DEF View
  <2> QED BY <1>1, <1>6, <2>1, <2>2 DEF Sees
<1>8. Counts'
  BY <1>1, CountsSame DEF Inv
<1> QED BY <1>1, <1>3, <1>7, <1>8, TakeStep DEF t

\* tcp_close leaves the block in order, or gives it back.
LEMMA CloseStep == ASSUME Inv, NEW p \in Peers, tcp_close(p) PROVE Stepped(p)
<1> DEFINE t == conn[p]
           r == close(t)
<1>1. /\ t # NoTcb /\ t.user_open /\ Take(p, r)
      /\ born' = born /\ wrote' = wrote /\ Slot(t)
  BY DEF tcp_close, Held, Exists, Inv, Slots
<1> HIDE DEF t
<1>2. Done(t) /\ t \in TcbRec
  BY <1>1, SlotBlock
<1>3. Good(t, r) /\ ~r.tcb.user_open /\ r.tcb.state = Lifecycle!Close(t.state)
  BY <1>1, <1>2, CloseKeeps
<1> HIDE DEF r
<1>4. r.tcb \in TcbRec
  BY <1>3, DoneTypes DEF Good
<1>5. Sees(View(t), View(Reaped(r.tcb)))
  BY <1>1, <1>2, <1>3, <1>4, SeesClose
<1>6. Counts'
  BY <1>1, CountsSame DEF Inv
<1> QED BY <1>1, <1>3, <1>5, <1>6, TakeStep DEF t

\* tcp_abort gives the block back.
LEMMA AbortStep == ASSUME Inv, NEW p \in Peers, tcp_abort(p) PROVE Stepped(p)
<1> DEFINE t == conn[p]
           c == [t EXCEPT !.user_open = FALSE]
           r == abort(c)
<1>1. /\ t # NoTcb /\ t.user_open /\ Take(p, r)
      /\ born' = born /\ wrote' = wrote /\ Slot(t)
  BY DEF tcp_abort, Held, Exists, Inv, Slots
<1> HIDE DEF t
<1>2. Done(t) /\ t \in TcbRec /\ Sized(t)
  BY <1>1, SlotBlock
<1>3. /\ c \in TcbRec /\ c.state = t.state /\ c.rcv_nxt = t.rcv_nxt /\ c.una = t.una
      /\ c.fin_received = t.fin_received /\ c.error = t.error /\ ~c.user_open
      /\ c.tx = t.tx /\ c.rx = t.rx /\ c.ooo = t.ooo /\ c.retries = t.retries
  BY <1>2 DEF TcbRec
<1> HIDE DEF c
<1>4. Sized(c)
  BY <1>2, <1>3 DEF Sized
<1>5. Good(c, r) /\ r.tcb.state = "Closed" /\ r.tcb.user_open = c.user_open
  BY <1>3, <1>4, AbortKeeps
<1> HIDE DEF r
<1>6. Kept(t, r.tcb)
  BY <1>3, <1>5, KeptVia DEF Good
<1>7. Good(t, r) /\ r.tcb \in TcbRec
  BY <1>5, <1>6, DoneTypes DEF Good
<1>8. Sees(View(t), View(Reaped(r.tcb)))
  BY <1>2, <1>3, <1>5, <1>7, SeesKill
<1>9. Counts'
  BY <1>1, CountsSame DEF Inv
<1> QED BY <1>1, <1>7, <1>8, <1>9, TakeStep DEF t

----------------------------------------------------------------------------
(* Timers, and failures below TCP. *)

\* A step of the stack on its own: the block is in order and moved along TcpStates.
LEMMA AnswersTake ==
    ASSUME Inv, NEW p \in Peers, conn[p] # NoTcb, NEW r, Answers(conn[p], r), Take(p, r),
           born' = born, wrote' = wrote
    PROVE  Stepped(p)
<1>1. conn[p] \in TcbRec
  BY SlotBlock DEF Inv, Slots
<1>2. Good(conn[p], r) /\ r.tcb \in TcbRec /\ r.tcb.user_open = conn[p].user_open
      /\ r.tcb.state \in Lifecycle!Input(conn[p].state)
  BY DoneTypes DEF Answers, Good
<1>3. Sees(View(conn[p]), View(Reaped(r.tcb)))
  BY <1>1, <1>2, SeesInput
<1>4. Counts'
  BY CountsSame DEF Inv
<1> QED BY <1>2, <1>3, <1>4, TakeStep

\* Timers and unreachable hosts leave the block in order.
LEMMA TimerStep == ASSUME Inv, NEW p \in Peers, RtoTimer(p) \/ CloseTimer(p) \/ Unreachable(p) PROVE Stepped(p)
<1>1. conn[p] # NoTcb /\ born' = born /\ wrote' = wrote
  BY DEF RtoTimer, CloseTimer, Unreachable, Exists
<1>2. Done(conn[p])
  BY <1>1, SlotBlock DEF Inv, Slots
<1>3. CASE RtoTimer(p)
  <2>1. Answers(conn[p], rto_timer(conn[p]))
    BY <1>2, <1>3, RtoTimerKeeps DEF RtoTimer, Answers
  <2> QED BY <1>1, <1>3, <2>1, AnswersTake DEF RtoTimer
<1>4. CASE CloseTimer(p)
  <2>1. Answers(conn[p], Quiet(close_timer(conn[p])))
    BY <1>2, CloseTimerKeeps DEF Answers
  <2> QED BY <1>1, <1>4, <2>1, AnswersTake DEF CloseTimer
<1>5. CASE Unreachable(p)
  <2>1. Answers(conn[p], Quiet(on_unreachable(conn[p])))
    BY <1>2, UnreachableKeeps DEF Answers
  <2> QED BY <1>1, <1>5, <2>1, AnswersTake DEF Unreachable
<1> QED BY <1>3, <1>4, <1>5

\* remove_interface closes the block of its host.
LEMMA RemoveStep == ASSUME Inv, NEW p \in Peers, remove_interface(p) PROVE Stepped(p)
<1> DEFINE t == conn[p]
           r == Quiet(fail(t))
<1>1. t # NoTcb /\ Take(p, r) /\ born' = born /\ wrote' = wrote /\ Slot(t)
  BY DEF remove_interface, Exists, Inv, Slots
<1> HIDE DEF t
<1>2. Done(t) /\ t \in TcbRec
  BY <1>1, SlotBlock
<1>3. Good(t, r) /\ r.tcb.user_open = t.user_open /\ r.tcb.state = "Closed"
  BY <1>2, FailKeeps
<1> HIDE DEF r
<1>4. r.tcb \in TcbRec
  BY <1>3, DoneTypes DEF Good
<1>5. Sees(View(t), View(Reaped(r.tcb)))
  BY <1>2, <1>3, <1>4, SeesKill
<1>6. Counts'
  BY <1>1, CountsSame DEF Inv
<1> QED BY <1>1, <1>3, <1>5, <1>6, TakeStep DEF t

----------------------------------------------------------------------------
(* Segments arriving, and getting lost. *)

\* The RST for a segment no block wants.
LEMMA RefusalType == ASSUME NEW h \in Segment PROVE send_rst_for(h) \in Segment
<1>1. h.ack \in Seq32 /\ h.seq \in Seq32 /\ h.data \in Seq(Datum) /\ 0 \in Seq32
  BY SpaceFacts DEF Segment, Seq32
<1>2. RstSeg(h.ack) \in Segment /\ RstSeg(0) \in Segment
  BY <1>1, RstType
<1>3. SegLen(h) \in Nat
  <2>1. Len(h.data) \in Nat
    BY <1>1, LenProperties
  <2> DEFINE a == IF "SYN" \in h.flags THEN 1 ELSE 0
             b == IF "FIN" \in h.flags THEN 1 ELSE 0
  <2>2. a \in Nat /\ b \in Nat /\ SegLen(h) = Len(h.data) + a + b
    BY DEF SegLen
  <2> HIDE DEF a, b
  <2> QED BY <2>1, <2>2
<1>4. Plus(h.seq, SegLen(h)) \in Seq32
  <2>1. h.seq \in Int /\ SegLen(h) \in Int
    BY <1>1, <1>3, SpaceFacts DEF Seq32
  <2> QED BY <2>1, PlusType
<1>5. {"RST", "ACK"} \in SUBSET {"SYN", "ACK", "FIN", "RST"}
  OBVIOUS
<1>6. [RstSeg(0) EXCEPT !.ack = Plus(h.seq, SegLen(h)), !.flags = {"RST", "ACK"}] \in Segment
  BY <1>2, <1>4, <1>5 DEF Segment
<1> QED BY <1>2, <1>6 DEF send_rst_for

\* rx_tcp: a segment meets a block, a TIME_WAIT block that a SYN replaces, a listener or nobody.
LEMMA ReceiveStep ==
    ASSUME Inv, NEW p \in Peers, NEW h \in Segment, NEW left \in Seq(Segment), Len(left) <= MaxInFlight,
           rx_tcp(p, h, left)
    PROVE  Stepped(p)
<1> DEFINE t == conn[p]
<1>1. Slot(t) /\ (Exists(p) <=> t # NoTcb)
  BY DEF Inv, Slots, Exists
<1>2. CASE Exists(p) /\ ~Reopens(t, h) /\ conn_input(p, h, left)
  <2> DEFINE r == on_segment(t, h)
  <2>1. /\ conn' = [conn EXCEPT ![p] = Reaped(r.tcb)]
        /\ net' = [net EXCEPT ![p] = left, ![Other(p)] = Queued(@, r.out)]
        /\ born' = born /\ wrote' = wrote
    BY <1>2 DEF conn_input, Answered
  <2>2. Done(t) /\ t \in TcbRec
    BY <1>1, <1>2, SlotBlock
  <2> HIDE DEF t
  <2>3. Answers(t, r)
    BY <2>2, OnSegmentKeeps
  <2> HIDE DEF r
  <2>4. /\ Good(t, r) /\ r.tcb \in TcbRec /\ r.tcb.user_open = t.user_open /\ r.out \in Seq(Segment)
        /\ r.tcb.state \in Lifecycle!Input(t.state)
    BY <2>3, DoneTypes DEF Answers, Good
  <2>5. Sees(View(t), View(Reaped(r.tcb)))
    BY <2>2, <2>4, SeesInput
  <2>6. \E c \in TcbRec \cup {NoTcb} : Becoming(p, c)
    BY <2>1, <2>4, <2>5, BecomingGood DEF Inv, t
  <2>7. Nets'
    BY <2>1, <2>4, NetsAfter DEF Inv
  <2>8. Counts'
    BY <2>1, CountsSame DEF Inv
  <2> QED BY <2>6, <2>7, <2>8 DEF Stepped
<1>3. ASSUME Exists(p) => Reopens(t, h)
      PROVE  View(t) = Lifecycle!Free \/ View(t) = [state |-> "TimeWait", held |-> FALSE]
  <2>1. CASE t = NoTcb
    BY <2>1, ViewFree
  <2>2. CASE t # NoTcb
    <3>1. t.state = "TimeWait" /\ ~t.user_open /\ t.user_open \in BOOLEAN
      BY <1>1, <1>3, <2>2, SlotBlock DEF Reopens, TcbRec
    <3>2. t.user_open = FALSE
      BY <3>1
    <3> QED BY <3>1, <3>2 DEF View
  <2> QED BY <2>1, <2>2
<1>4. CASE (Exists(p) => Reopens(t, h)) /\ Spawns(p, h) /\ listen_input(p, h, left)
  <2> DEFINE r == new_passive(NextIss(p), h)
  <2>1. /\ conn' = [conn EXCEPT ![p] = r.tcb] /\ Birth(p) /\ born[p] < Len(Iss[p])
        /\ net' = [net EXCEPT ![p] = left, ![Other(p)] = Queued(@, r.out)]
    BY <1>4 DEF listen_input, Spawns
  <2>2. Counts' /\ born'[p] # born[p] /\ NextIss(p) \in Seq32
    BY <2>1, BirthCounts DEF Inv
  <2>3. Done(r.tcb) /\ r.out \in Seq(Segment) /\ r.tcb.state = "SynReceived" /\ ~r.tcb.user_open
    BY <2>2, NewPassiveKeeps
  <2> HIDE DEF r
  <2>4. r.tcb \in TcbRec /\ Slot(r.tcb)
    BY <2>3, DoneTypes DEF Slot
  <2>5. r.tcb.user_open = FALSE
    BY <2>3, <2>4 DEF TcbRec
  <2>6. View(r.tcb) = [state |-> "SynReceived", held |-> FALSE]
    BY <2>3, <2>5 DEF View
  <2>7. Sees(View(t), View(r.tcb))
    BY <1>3, <1>4, <2>6 DEF Sees
  <2>8. Becoming(p, r.tcb)
    BY <2>1, <2>2, <2>4, <2>7 DEF Becoming
  <2>9. Nets'
    BY <2>1, <2>3, NetsAfter DEF Inv
  <2> QED BY <2>2, <2>4, <2>8, <2>9 DEF Stepped
<1>5. CASE (Exists(p) => Reopens(t, h)) /\ ~Spawns(p, h) /\ Refuse(p, h, left)
  <2> DEFINE answer == IF \/ "RST" \in h.flags
                          \/ p \in Listeners /\ "ACK" \notin h.flags
                       THEN <<>> ELSE << send_rst_for(h) >>
  <2>1. /\ conn' = [conn EXCEPT ![p] = NoTcb] /\ born' = born /\ wrote' = wrote
        /\ net' = [net EXCEPT ![p] = left, ![Other(p)] = Queued(@, answer)]
    BY <1>5 DEF Refuse
  <2>2. answer \in Seq(Segment)
    BY RefusalType
  <2> HIDE DEF answer
  <2>3. Sees(View(t), View(NoTcb))
    BY <1>3, <1>5, ViewFree DEF Sees
  <2>4. Becoming(p, NoTcb)
    BY <2>1, <2>3 DEF Becoming, Slot
  <2>5. Nets'
    BY <2>1, <2>2, NetsAfter DEF Inv
  <2>6. Counts'
    BY <2>1, CountsSame DEF Inv
  <2> QED BY <2>4, <2>5, <2>6 DEF Stepped
<1> QED BY <1>2, <1>4, <1>5 DEF rx_tcp

\* A frame that arrives, is lost, or is duplicated.
LEMMA NetworkStep == ASSUME Inv, NEW p \in Peers, Network(p) PROVE Stepped(p)
<1>1. net[p] \in Seq(Segment) /\ Len(net[p]) <= MaxInFlight /\ MaxInFlight \in Nat
  BY QueueAssumption DEF Inv, Nets
<1>2. Len(net[p]) \in Nat
  BY <1>1, LenProperties
<1>3. ASSUME NEW i \in DOMAIN net[p]
      PROVE  net[p][i] \in Segment /\ Without(net[p], i) \in Seq(Segment) /\ Len(Without(net[p], i)) <= MaxInFlight
  <2>1. Without(net[p], i) \in Seq(Segment) /\ Len(Without(net[p], i)) <= Len(net[p])
    BY <1>1, WithoutType
  <2>2. Len(Without(net[p], i)) \in Nat
    BY <2>1, LenProperties
  <2>3. net[p][i] \in Segment
    BY <1>1, ElementOfSeq, LenProperties
  <2>4. Len(Without(net[p], i)) <= MaxInFlight
    BY <1>1, <1>2, <2>1, <2>2
  <2> QED BY <2>1, <2>3, <2>4
<1>4. CASE Deliver(p)
  <2>1. PICK i \in DOMAIN net[p] : rx_tcp(p, net[p][i], Without(net[p], i))
    BY <1>4 DEF Deliver
  <2> QED BY <1>3, <2>1, ReceiveStep
<1>5. CASE DeliverCopy(p)
  BY <1>1, <1>3, <1>5, ReceiveStep DEF DeliverCopy
<1>6. CASE Lose(p)
  <2>1. PICK i \in DOMAIN net[p] : net' = [net EXCEPT ![p] = Without(net[p], i)]
    BY <1>6 DEF Lose
  <2>2. conn' = conn /\ born' = born /\ wrote' = wrote
    BY <1>6 DEF Lose
  <2>3. <<>> \in Seq(Segment)
    OBVIOUS
  <2>4. Nets'
    BY <1>3, <2>1, <2>3, NetsAfter DEF Inv
  <2>5. conn' = [conn EXCEPT ![p] = conn[p]] /\ conn[p] \in TcbRec \cup {NoTcb} /\ Slot(conn[p])
    BY <2>2 DEF Inv, Slots
  <2>6. Kept(conn[p], conn[p])
    BY SameKept DEF Same
  <2>7. Becoming(p, conn[p])
    BY <2>5, <2>6 DEF Becoming, Sees
  <2>8. Counts'
    BY <2>2, CountsSame DEF Inv
  <2> QED BY <2>4, <2>5, <2>7, <2>8 DEF Stepped
<1> QED BY <1>4, <1>5, <1>6 DEF Network

\* Every step is a step of one host that keeps all that must be kept.
LEMMA EveryStep == ASSUME Inv, Next PROVE \E p \in Peers : Stepped(p)
<1>1. PICK p \in Peers : Program(p) \/ Network(p) \/ Host(p)
  BY DEF Next
<1>2. Stepped(p)
  BY <1>1, ConnectStep, AcceptStep, SendStep, RecvStep, ShutdownStep, CloseStep, AbortStep,
     NetworkStep, TimerStep, RemoveStep DEF Program, Host
<1> QED BY <1>2

----------------------------------------------------------------------------
(* The invariant, and what follows from it. *)

\* The two hosts begin without blocks and with empty queues.
LEMMA InvInit == Init => Inv
<1> SUFFICES ASSUME Init PROVE Inv
  OBVIOUS
<1>1. Slots
  BY DEF Init, Slots, Slot
<1>2. Nets
  <2>1. <<>> \in Seq(Segment) /\ Len(<<>>) <= MaxInFlight
    BY QueueAssumption
  <2> QED BY <2>1 DEF Init, Nets
<1>3. Counts
  <2>1. \A p \in Peers : Len(Iss[p]) \in Nat
    BY IssAssumption, LenProperties
  <2> QED BY <2>1 DEF Init, Counts
<1> QED BY <1>1, <1>2, <1>3 DEF Inv

\* The invariant is inductive.
LEMMA InvStep == Inv /\ [Next]_vars => Inv'
<1> SUFFICES ASSUME Inv, [Next]_vars PROVE Inv'
  OBVIOUS
<1>1. CASE Next
  <2>1. PICK p \in Peers : Stepped(p)
    BY <1>1, EveryStep
  <2>2. PICK c \in TcbRec \cup {NoTcb} : Becoming(p, c)
    BY <2>1 DEF Stepped
  <2>3. Slots'
    BY <2>2 DEF Inv, Slots, Becoming
  <2> QED BY <2>1, <2>3 DEF Stepped, Inv
<1>2. CASE UNCHANGED vars
  BY <1>2 DEF vars, Inv, Slots, Nets, Counts
<1> QED BY <1>1, <1>2

\* Whatever the programs, the timers and the network do, every block is in order (Done), closed
\* blocks are kept only for the programs that hold them, and no queue exceeds its limit (reap, emit).
THEOREM Invariance == Spec => []Inv
BY InvInit, InvStep, PTL DEF Spec

\* The ranges of a block in order.
LEMMA BlockTypes ==
    ASSUME NEW t, Done(t)
    PROVE  /\ t.state \in States /\ t.error \in Errors
           /\ {t.iss, t.una, t.nxt, t.max, t.rcv_nxt, t.wl1, t.wl2} \subseteq Seq32
           /\ {t.fin_seq, t.rx_fin_seq} \subseteq Seq32 \cup {NoSeq}
           /\ {t.fin_pending, t.fin_acked, t.fin_received, t.discard_rx,
               t.rto, t.close_dl, t.user_open} \subseteq BOOLEAN
           /\ t.retries \in 0 .. MaxRetries + 1 /\ t.dupacks \in 0 .. 4
           /\ t.wnd \in 0 .. RxCap /\ t.last_adv_wnd \in 0 .. RxCap
           /\ Len(t.tx) <= TxCap /\ Len(t.rx) <= RxCap /\ Len(t.ooo) <= MaxOoo
<1>1. t \in TcbRec /\ Sized(t)
  BY DoneTypes
<1>2. /\ t.state \in States /\ t.error \in Errors
      /\ t.iss \in Seq32 /\ t.una \in Seq32 /\ t.nxt \in Seq32 /\ t.max \in Seq32 /\ t.rcv_nxt \in Seq32
      /\ t.wl1 \in Seq32 /\ t.wl2 \in Seq32
      /\ t.fin_seq \in Seq32 \cup {NoSeq} /\ t.rx_fin_seq \in Seq32 \cup {NoSeq}
      /\ t.retries \in Nat /\ t.dupacks \in Dups /\ t.wnd \in Window /\ t.last_adv_wnd \in Window
  BY <1>1 DEF TcbRec, OptSeq
<1>3. /\ t.fin_pending \in BOOLEAN /\ t.fin_acked \in BOOLEAN /\ t.fin_received \in BOOLEAN
      /\ t.discard_rx \in BOOLEAN /\ t.rto \in BOOLEAN /\ t.close_dl \in BOOLEAN /\ t.user_open \in BOOLEAN
  BY <1>1 DEF TcbRec
<1>4. t.retries \in 0 .. MaxRetries + 1
  BY <1>1, <1>2, LimitAssumption DEF Sized
<1>5. t.dupacks \in 0 .. 4 /\ t.wnd \in 0 .. RxCap /\ t.last_adv_wnd \in 0 .. RxCap
  BY <1>2 DEF Dups, Window
<1>6. {t.fin_pending, t.fin_acked, t.fin_received, t.discard_rx,
       t.rto, t.close_dl, t.user_open} \subseteq BOOLEAN
  BY <1>3, Zenon
<1>7. /\ {t.iss, t.una, t.nxt, t.max, t.rcv_nxt, t.wl1, t.wl2} \subseteq Seq32
      /\ {t.fin_seq, t.rx_fin_seq} \subseteq Seq32 \cup {NoSeq}
  BY <1>2, Zenon
<1> QED BY <1>1, <1>2, <1>4, <1>5, <1>6, <1>7 DEF Sized

\* Type correctness, for every size of the buffers, windows, queues and of the sequence
\* number space: no field of a block leaves its range and no buffer its capacity, whatever
\* segments arrive and in whatever order (Tcb's counters, accept_data, write, emit).
THEOREM TypeCorrect == Spec => []TypeOK
<1>1. Inv => TypeOK
  <2> SUFFICES ASSUME Inv PROVE TypeOK
    OBVIOUS
  <2>1. ASSUME NEW p \in Peers
        PROVE  born[p] \in 0 .. Len(Iss[p]) /\ Len(net[p]) <= MaxInFlight
    <3>1. born[p] \in Nat /\ born[p] <= Len(Iss[p]) /\ Len(Iss[p]) \in Nat
      BY IssAssumption, LenProperties DEF Inv, Counts
    <3> QED BY <3>1 DEF Inv, Nets
  <2>2. ASSUME NEW p \in Peers, Exists(p) PROVE Done(conn[p])
    BY <2>2, SlotBlock DEF Inv, Slots, Exists
  <2> QED BY <2>1, <2>2, BlockTypes DEF TypeOK
<1> QED BY <1>1, Invariance, PTL

\* No silent stall, for every size of window, buffer and number of retries: whenever a block
\* has an unacknowledged SYN, unacknowledged or unsent data or a FIN to deliver, its timer is
\* armed, through every sequence of segments, calls and timer firings (ArmRto, NewAck, rto_timer).
THEOREM NeverStalls == Spec => []NoSilentStall
<1>1. Inv => NoSilentStall
  <2> SUFFICES ASSUME Inv, NEW p \in Peers, Exists(p),
                      \/ conn[p].state \in {"SynSent", "SynReceived"}
                      \/ can_send_data(conn[p]) /\ (conn[p].una # conn[p].max \/ conn[p].tx # <<>>)
                      \/ conn[p].fin_pending /\ ~conn[p].fin_acked /\ conn[p].state # "Closed"
               PROVE  conn[p].rto
    BY DEF NoSilentStall
  <2> DEFINE t == conn[p]
  <2>1. Done(t)
    BY SlotBlock DEF Inv, Slots, Exists
  <2> HIDE DEF t
  <2>2. t.state # "Closed"
    BY DEF t, can_send_data
  <2>3. Core(t) /\ Timed(t)
    BY <2>1, <2>2 DEF Done, Ended
  <2>4. CASE SynState(t)
    BY <2>3, <2>4 DEF Core, DeadlineOK, t
  <2>5. CASE can_send_data(t) /\ (t.una # t.max \/ t.tx # <<>>)
    BY <2>3, <2>5 DEF Timed, t
  <2>6. CASE t.fin_pending /\ ~t.fin_acked
    <3>1. can_send_data(t)
      BY <2>3, <2>6 DEF Core, LifeOK, FinState, can_send_data
    <3> QED BY <2>3, <2>6, <3>1 DEF Timed, t
  <2> QED BY <2>4, <2>5, <2>6 DEF SynState, t
<1> QED BY <1>1, Invariance, PTL

\* No leaked block: one that no program holds and none can accept any more has a deadline,
\* in whatever order close, FINs, acknowledgements and timers came (close, enter_fin_wait2,
\* enter_time_wait).
THEOREM NothingLeaks == Spec => []NoLeakedBlock
<1>1. Inv => NoLeakedBlock
  <2> SUFFICES ASSUME Inv, NEW p \in Peers, Exists(p), ~conn[p].user_open,
                      conn[p].discard_rx \/ conn[p].state = "SynReceived"
               PROVE  conn[p].rto \/ conn[p].close_dl
    BY DEF NoLeakedBlock
  <2> DEFINE t == conn[p]
  <2>1. Done(t) /\ t.state # "Closed"
    BY SlotBlock DEF Inv, Slots, Exists
  <2> HIDE DEF t
  <2>2. Core(t) /\ Timed(t)
    BY <2>1 DEF Done, Ended
  <2>3. CASE t.state = "SynReceived"
    BY <2>2, <2>3 DEF Core, DeadlineOK, SynState, t
  <2>4. CASE t.discard_rx
    <3>1. FinState(t) /\ t.fin_pending
      BY <2>2, <2>4 DEF Core, LifeOK
    <3>2. CASE t.state \in {"FinWait2", "TimeWait"}
      BY <2>2, <3>2 DEF Core, DeadlineOK, t
    <3>3. CASE t.state \notin {"FinWait2", "TimeWait"}
      <4>1. can_send_data(t)
        BY <3>1, <3>3 DEF FinState, can_send_data
      <4> QED BY <2>2, <3>1, <4>1 DEF Timed, t
    <3> QED BY <3>2, <3>3
  <2> QED BY <2>3, <2>4 DEF t
<1> QED BY <1>1, Invariance, PTL

\* Nothing is taken back, by any step: snd_una and rcv_nxt only advance (in the modular order
\* of sequence numbers, also when they wrap), a received FIN stays received, a closed block
\* stays closed and the first error stays (AckArrived, accept_data, FinArrived, set_closed).
THEOREM NothingRetreats == Spec => NoRetreat
<1> DEFINE Held1 ==
        \A p \in Peers : Exists(p) /\ conn'[p] # NoTcb /\ born'[p] = born[p] =>
          LET t == conn[p]
              u == conn'[p]
          IN  /\ synchronized(t) => SeqLe(t.rcv_nxt, u.rcv_nxt) /\ SeqLe(t.una, u.una)
              /\ synchronized(t) => u.state \notin {"SynSent", "SynReceived"}
              /\ t.fin_received => u.fin_received /\ u.rcv_nxt = t.rcv_nxt
              /\ t.state = "Closed" => u.state = "Closed"
              /\ t.error # NoError => u.error = t.error
<1>1. Inv /\ [Next]_vars => [Held1]_vars
  <2> SUFFICES ASSUME Inv, Next PROVE Held1
    OBVIOUS
  <2>1. PICK q \in Peers : Stepped(q)
    BY EveryStep
  <2>2. PICK c \in TcbRec \cup {NoTcb} : Becoming(q, c)
    BY <2>1 DEF Stepped
  <2>3. ASSUME NEW p \in Peers, Exists(p), conn'[p] # NoTcb, born'[p] = born[p]
        PROVE  Kept(conn[p], conn'[p])
    <3>1. CASE p = q
      BY <2>2, <2>3, <3>1 DEF Becoming, Inv, Slots
    <3>2. CASE p # q
      <4>1. conn'[p] = conn[p]
        BY <2>2, <3>2 DEF Becoming, Inv, Slots
      <4>2. Kept(conn[p], conn[p])
        BY SameKept DEF Same
      <4> QED BY <4>1, <4>2
    <3> QED BY <3>1, <3>2
  <2> QED BY <2>3 DEF Kept
<1> HIDE DEF Held1
<1>2. Spec => [][Held1]_vars
  BY <1>1, Invariance, PTL DEF Spec
<1> QED BY <1>2 DEF NoRetreat, Held1

----------------------------------------------------------------------------
(* Refinement. *)

\* The blocks as TcpLifecycle has them.
Blocks == [p \in Peers |-> [state |-> conn[p].state, held |-> conn[p].user_open]]

\* A step of one slot, as TcpLifecycle sees it.
LEMMA BlocksStep ==
    ASSUME NEW p \in Peers, Slots, NEW c, conn' = [conn EXCEPT ![p] = c]
    PROVE  Blocks[p] = View(conn[p]) /\ Blocks' = [Blocks EXCEPT ![p] = View(c)]
<1>1. conn'[p] = c /\ \A q \in Peers : q # p => conn'[q] = conn[q]
  BY DEF Slots
<1>2. Blocks' = [q \in Peers |-> [state |-> conn'[q].state, held |-> conn'[q].user_open]]
  BY DEF Blocks
<1>3. \A q \in Peers : Blocks'[q] = [Blocks EXCEPT ![p] = View(c)][q]
  BY <1>1, <1>2 DEF Blocks, View
<1> QED BY <1>2, <1>3 DEF Blocks, View

\* Every step is a step of TcpLifecycle, or none.
LEMMA LifecycleStep == Inv /\ [Next]_vars => [Lifecycle!Next]_Blocks
<1> SUFFICES ASSUME Inv, [Next]_vars PROVE [Lifecycle!Next]_Blocks
  OBVIOUS
<1>1. CASE UNCHANGED vars
  BY <1>1 DEF vars, Blocks
<1>2. CASE Next
  <2>1. PICK p \in Peers : Stepped(p)
    BY <1>2, EveryStep
  <2>2. PICK c \in TcbRec \cup {NoTcb} : Becoming(p, c)
    BY <2>1 DEF Stepped
  <2> DEFINE v == View(conn[p])
             w == View(c)
  <2>3. Blocks[p] = v /\ Blocks' = [Blocks EXCEPT ![p] = w] /\ Sees(v, w)
    BY <2>2, BlocksStep DEF Inv, Becoming
  <2> HIDE DEF v, w
  <2>4. CASE w = v
    BY <2>3, <2>4 DEF Blocks
  <2>5. CASE w # v
    <3>1. \/ Lifecycle!Connect(p) \/ Lifecycle!Spawn(p) \/ Lifecycle!Accept(p) \/ Lifecycle!Proceed(p)
          \/ Lifecycle!Shutdown(p) \/ Lifecycle!CloseIt(p) \/ Lifecycle!Kill(p) \/ Lifecycle!Drop(p)
      BY <2>3, <2>5 DEF Sees, Lifecycle!Connect, Lifecycle!Spawn, Lifecycle!Accept, Lifecycle!Proceed,
         Lifecycle!Shutdown, Lifecycle!CloseIt, Lifecycle!Kill, Lifecycle!Drop, Lifecycle!Becomes, Blocks
    <3> QED BY <3>1 DEF Lifecycle!Next
  <2> QED BY <2>4, <2>5
<1> QED BY <1>1, <1>2

\* The connection implements TcpLifecycle: seen from outside, the blocks of the two hosts are
\* created, move along TcpStates, are held and released, and disappear exactly as the socket
\* table (SocketTable) assumes, with any numbers of retries, sizes of buffers and faults.
THEOREM RefinesLifecycle == Spec => ImplementsLifecycle
<1>1. Init => Lifecycle!Init
  BY ViewFree DEF Init, Lifecycle!Init, View
<1>2. Inv /\ [Next]_vars =>
         [Lifecycle!Next]_([p \in Peers |-> [state |-> conn[p].state, held |-> conn[p].user_open]])
  BY LifecycleStep DEF Blocks
<1>3. Spec => Lifecycle!Spec
  BY <1>1, <1>2, Invariance, PTL DEF Spec, Lifecycle!Spec
<1> QED BY <1>3 DEF ImplementsLifecycle
============================================================================
