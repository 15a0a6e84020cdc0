------------------------- MODULE TcpStreamProofs -------------------------
(***************************************************************************)
(* Theorems about the stream that TcpConnection carries: what a program    *)
(* reads is what the other one wrote, in order, from one connection; the   *)
(* two hosts agree on the connection; nothing is acknowledged that was not *)
(* received; end of file comes after the last byte.  For any programs,     *)
(* losses, copies and reordering, any sizes of buffers and segments, and   *)
(* any initial numbers that keep the connections of a host apart           *)
(* (NumbersApart).                                                         *)
(***************************************************************************)
EXTENDS TcpProofs

----------------------------------------------------------------------------
(* Runs: consecutive bytes of one connection. *)

\* data holds the bytes that connection c numbers from s on.
Run(data, c, s) == \A j \in 1 .. Len(data) : data[j] = <<c, s + j - 1>>

\* A part of a run is a run.
LEMMA RunPart ==
    ASSUME NEW data \in Seq(Datum), NEW c, NEW s \in Int, Run(data, c, s),
           NEW m \in Int, NEW n \in Int, m >= 1, n <= Len(data)
    PROVE  /\ SubSeq(data, m, n) \in Seq(Datum) /\ Run(SubSeq(data, m, n), c, s + m - 1)
           /\ Len(SubSeq(data, m, n)) = IF m <= n THEN n - m + 1 ELSE 0
<1>1. Len(data) \in Nat
  BY LenProperties
<1>2. \A i \in m .. n : i \in 1 .. Len(data) /\ data[i] \in Datum
  BY <1>1, ElementOfSeq
<1>3. /\ SubSeq(data, m, n) \in Seq(Datum)
      /\ Len(SubSeq(data, m, n)) = IF m <= n THEN n - m + 1 ELSE 0
      /\ \A i \in 1 .. n - m + 1 : SubSeq(data, m, n)[i] = data[m + i - 1]
  BY <1>2, SubSeqProperties
<1>4. ASSUME NEW j \in 1 .. Len(SubSeq(data, m, n))
      PROVE  SubSeq(data, m, n)[j] = <<c, (s + m - 1) + j - 1>>
  <2>1. m <= n /\ j \in 1 .. n - m + 1 /\ m + j - 1 \in 1 .. Len(data)
    BY <1>1, <1>3, <1>4
  <2>2. SubSeq(data, m, n)[j] = data[m + j - 1]
    BY <1>3, <2>1
  <2>3. data[m + j - 1] = <<c, s + (m + j - 1) - 1>>
    BY <2>1 DEF Run
  <2>4. s + (m + j - 1) - 1 = (s + m - 1) + j - 1
    BY <2>1
  <2> QED BY <2>2, <2>3, <2>4
<1> QED BY <1>3, <1>4 DEF Run

\* Two runs, the second from where the first ends, are a run.
LEMMA RunConcat ==
    ASSUME NEW a \in Seq(Datum), NEW b \in Seq(Datum), NEW c, NEW s \in Int,
           Run(a, c, s), Run(b, c, s + Len(a))
    PROVE  a \o b \in Seq(Datum) /\ Run(a \o b, c, s) /\ Len(a \o b) = Len(a) + Len(b)
<1>1. Len(a) \in Nat /\ Len(b) \in Nat
  BY LenProperties
<1>2. /\ a \o b \in Seq(Datum) /\ Len(a \o b) = Len(a) + Len(b)
      /\ \A i \in 1 .. Len(a) + Len(b) : (a \o b)[i] = IF i <= Len(a) THEN a[i] ELSE b[i - Len(a)]
  BY ConcatProperties
<1>3. ASSUME NEW j \in 1 .. Len(a) + Len(b) PROVE (a \o b)[j] = <<c, s + j - 1>>
  <2>1. CASE j <= Len(a)
    <3>1. j \in 1 .. Len(a)
      BY <1>1, <2>1
    <3> QED BY <1>2, <2>1, <3>1 DEF Run
  <2>2. CASE ~(j <= Len(a))
    <3>1. j - Len(a) \in 1 .. Len(b)
      BY <1>1, <2>2
    <3>2. b[j - Len(a)] = <<c, (s + Len(a)) + (j - Len(a)) - 1>>
      BY <3>1 DEF Run
    <3>3. (s + Len(a)) + (j - Len(a)) - 1 = s + j - 1
      BY <1>1
    <3> QED BY <1>2, <2>2, <3>2, <3>3
  <2> QED BY <2>1, <2>2
<1> QED BY <1>2, <1>3 DEF Run

\* No bytes at all are a run.
LEMMA RunEmpty == \A c, s : Run(<<>>, c, s) /\ Len(<<>>) = 0 /\ <<>> \in Seq(Datum)
<1>1. Len(<<>>) = 0 /\ <<>> \in Seq(Datum)
  OBVIOUS
<1> QED BY <1>1 DEF Run

----------------------------------------------------------------------------
(* Places: how far a number is from the SYN of its connection. *)

\* A step forward that does not come round.
LEMMA StepOn ==
    ASSUME NEW a \in Seq32, NEW c \in Seq32, NEW n \in Nat, Minus(a, c) + n < SeqSpace
    PROVE  Plus(a, n) \in Seq32 /\ Minus(Plus(a, n), c) = Minus(a, c) + n
<1>1. Minus(a, c) \in Nat
  <2>1. Minus(a, c) \in Seq32
    BY MinusFrom
  <2> QED BY <2>1, SpaceFacts DEF Seq32
<1>2. n \in 0 .. SeqSpace
  BY <1>1, SpaceFacts
<1>3. /\ Plus(a, n) \in Seq32
      /\ Minus(Plus(a, n), c) = IF Minus(a, c) + n < SeqSpace THEN Minus(a, c) + n ELSE Minus(a, c) + n - SeqSpace
  BY <1>2, PlusFrom
<1> QED BY <1>3

\* Two steps, seen from the first number.
LEMMA WayOn ==
    ASSUME NEW a \in Seq32, NEW b \in Seq32, NEW c \in Seq32
    PROVE  /\ Minus(a, c) \in Nat /\ Minus(b, c) \in Nat /\ Minus(a, b) \in Nat
           /\ Minus(a, c) < SeqSpace /\ Minus(b, c) < SeqSpace /\ Minus(c, c) = 0
           /\ Minus(b, c) + Minus(a, b) < SeqSpace => Minus(a, c) = Minus(b, c) + Minus(a, b)
           /\ Minus(a, c) >= Minus(b, c) => Minus(a, b) = Minus(a, c) - Minus(b, c)
           /\ Minus(a, c) < Minus(b, c) => Minus(a, b) = Minus(a, c) - Minus(b, c) + SeqSpace
<1>1. /\ Minus(a, c) \in Seq32 /\ Minus(b, c) \in Seq32 /\ Minus(a, b) \in Seq32 /\ Minus(c, c) = 0
      /\ Minus(a, b) = IF Minus(a, c) >= Minus(b, c) THEN Minus(a, c) - Minus(b, c)
                       ELSE Minus(a, c) - Minus(b, c) + SeqSpace
  BY MinusFrom
<1> QED BY <1>1, SpaceFacts DEF Seq32

----------------------------------------------------------------------------
(* What the history of the two hosts says of a block. *)

\* A block's ledger: the number of its connection and what its program wrote and read; and the
\* connection of the peer that it answered (base is NoSeq while there is none): its first number,
\* how many bytes the peer has written on it, and where the peer may have put its FIN.
Ledger == [own : Nat, wrote : Nat, read : Seq(Datum),
           base : OptSeq, peer : Nat, limit : Nat, ends : SUBSET Nat]
Fits(L) ==
    /\ L \in Ledger
    /\ L.wrote + RxCap + 1 < SeqSpace /\ L.limit + RxCap + 1 < SeqSpace
    /\ L.ends \subseteq 1 .. L.limit + 1

\* A program may still write to the block.
Writable(t) == t.state \in {"SynSent", "SynReceived", "Established", "CloseWait"}

\* A segment of connection c whose SYN has number base: its text are the bytes that its number
\* says, none beyond limit, and its FIN is where the writer ended.
Carries(h, base, c, limit, ends) ==
    LET s == Minus(h.seq, base)
    IN  /\ "SYN" \in h.flags => s = 0 /\ h.data = <<>> /\ "FIN" \notin h.flags
        /\ "SYN" \notin h.flags => s >= 1 /\ s + Len(h.data) <= limit + 2
        /\ h.data # <<>> => s + Len(h.data) <= limit + 1
        /\ Run(h.data, c, s)
        /\ "FIN" \in h.flags => s + Len(h.data) \in ends

\* The send side: the buffer holds the last of what was written, from the first byte that is not
\* acknowledged.
Front(t) == IF SynState(t) THEN 1 ELSE Minus(t.una, t.iss)
TxOK(t, L) ==
    t.state # "Closed" =>
        /\ Front(t) >= 1 /\ Run(t.tx, L.own, Front(t))
        /\ ~t.fin_acked => Front(t) + Len(t.tx) = L.wrote + 1
        /\ t.fin_acked => Front(t) = L.wrote + 2

\* The receive side of a block that has answered a SYN.
HeldOK(o, L) ==
    LET s == Minus(o.seq, L.base)
    IN  s + Len(o.data) <= L.limit + 1 /\ Run(o.data, L.peer, s)
Place(t, L) == Minus(t.rcv_nxt, L.base)
RxOK(t, L) ==
    /\ t.state # "SynSent"
    /\ Run(L.read, L.peer, 1) /\ Run(t.rx, L.peer, Len(L.read) + 1)
    /\ ~t.fin_received => Place(t, L) >= 1 /\ Place(t, L) <= L.limit + 1
    /\ t.fin_received => Place(t, L) - 1 \in L.ends
    /\ ~t.discard_rx => Place(t, L) = Len(L.read) + Len(t.rx) + (IF t.fin_received THEN 2 ELSE 1)
    /\ \A i \in DOMAIN t.ooo : HeldOK(t.ooo[i], L)
    /\ t.rx_fin_seq # NoSeq => Minus(t.rx_fin_seq, L.base) \in L.ends

\* The receive side of a block that waits for a SYN, or was closed waiting.
Virgin(t) ==
    /\ t.state \in {"SynSent", "Closed"} /\ t.rx = <<>> /\ t.ooo = <<>>
    /\ t.rx_fin_seq = NoSeq /\ ~t.fin_received

Stream(t, L) ==
    /\ TxOK(t, L)
    /\ L.base = NoSeq => Virgin(t) /\ L.read = <<>>
    /\ L.base # NoSeq => RxOK(t, L)

\* What a block says: its own bytes under their numbers, and no more than it has received.
Fins(t, L) == IF Writable(t) THEN {} ELSE {L.wrote + 1}
Tells(t, L, h) ==
    \/ "RST" \in h.flags
    \/ /\ Carries(h, t.iss, L.own, L.wrote, Fins(t, L))
       /\ "ACK" \in h.flags => L.base # NoSeq /\ Minus(h.ack, L.base) \in 1 .. Place(t, L)
Told(t, L, out) == \A i \in DOMAIN out : Tells(t, L, out[i])

\* What a step may not take back.
Follows(t, L, u) ==
    /\ u.iss = t.iss /\ (Writable(u) => Writable(t))
    /\ L.base # NoSeq /\ t.state # "SynSent" => Place(t, L) <= Place(u, L)

Right(t, L, r) == Stream(r.tcb, L) /\ Told(r.tcb, L, r.out) /\ Follows(t, L, r.tcb)

\* The fields of a ledger.
LEMMA LedgerTypes ==
    ASSUME NEW L, Fits(L)
    PROVE  /\ L.own \in Nat /\ L.wrote \in Nat /\ L.read \in Seq(Datum) /\ Len(L.read) \in Nat
           /\ L.base \in Seq32 \cup {NoSeq} /\ L.peer \in Nat /\ L.limit \in Nat /\ L.ends \in SUBSET Nat
           /\ L.wrote + RxCap + 1 < SeqSpace /\ L.limit + RxCap + 1 < SeqSpace
           /\ L.ends \subseteq 1 .. L.limit + 1
           /\ L.base # NoSeq => L.base \in Seq32
<1>1. L \in Ledger
  BY DEF Fits
<1>2. /\ L.own \in Nat /\ L.wrote \in Nat /\ L.read \in Seq(Datum)
      /\ L.base \in Seq32 \cup {NoSeq} /\ L.peer \in Nat /\ L.limit \in Nat /\ L.ends \in SUBSET Nat
  BY <1>1 DEF Ledger, OptSeq
<1>3. Len(L.read) \in Nat
  BY <1>2, LenProperties
<1> QED BY <1>2, <1>3 DEF Fits

----------------------------------------------------------------------------
(* Blocks that the ledger does not tell apart. *)

Alike(t, u) ==
    /\ u.state = t.state /\ u.iss = t.iss /\ u.una = t.una /\ u.tx = t.tx /\ u.fin_acked = t.fin_acked
    /\ u.rcv_nxt = t.rcv_nxt /\ u.rx = t.rx /\ u.ooo = t.ooo /\ u.rx_fin_seq = t.rx_fin_seq
    /\ u.fin_received = t.fin_received /\ u.discard_rx = t.discard_rx

\* Where the next number expected lies in the peer's stream.
LEMMA PlaceType ==
    ASSUME NEW t \in TcbRec, NEW L, Fits(L), L.base # NoSeq
    PROVE  Place(t, L) \in Nat /\ Place(t, L) < SeqSpace
<1>1. t.rcv_nxt \in Seq32 /\ L.base \in Seq32
  BY FieldTypes, LedgerTypes
<1>2. Place(t, L) \in Seq32
  BY <1>1, MinusFrom DEF Place
<1> QED BY <1>2, SpaceFacts DEF Seq32

\* It is no further than a FIN behind what was written.
LEMMA PlaceBound ==
    ASSUME NEW t \in TcbRec, NEW L, Fits(L), L.base # NoSeq, RxOK(t, L)
    PROVE  Place(t, L) \in 1 .. L.limit + 2 /\ Place(t, L) + RxCap <= SeqSpace
<1>1. Place(t, L) \in Nat /\ L.limit \in Nat /\ L.ends \subseteq 1 .. L.limit + 1 /\ L.limit + RxCap + 1 < SeqSpace
  BY PlaceType, LedgerTypes
<1>2. CASE t.fin_received
  <2>1. Place(t, L) - 1 \in 1 .. L.limit + 1
    BY <1>1, <1>2 DEF RxOK
  <2> QED BY <1>1, <2>1, SpaceFacts
<1>3. CASE ~t.fin_received
  BY <1>1, <1>3, SpaceFacts DEF RxOK
<1> QED BY <1>2, <1>3

\* A ledger says the same of two blocks that differ only in timers, windows and counters.
LEMMA AlikeStream ==
    ASSUME NEW t \in TcbRec, NEW u, Alike(t, u), NEW L, Fits(L)
    PROVE  /\ Stream(t, L) => Stream(u, L)
           /\ Follows(t, L, u)
           /\ \A out : Told(u, L, out) <=> Told(t, L, out)
<1>1. Front(u) = Front(t) /\ Place(u, L) = Place(t, L) /\ (Writable(u) <=> Writable(t))
  BY DEF Alike, Front, SynState, Place, Writable
<1>2. Stream(t, L) => Stream(u, L)
  BY <1>1 DEF Stream, TxOK, RxOK, Virgin, Alike
<1>3. \A out : Told(u, L, out) <=> Told(t, L, out)
  BY <1>1 DEF Told, Tells, Fins, Alike
<1>4. L.base # NoSeq => Place(t, L) \in Nat
  BY PlaceType
<1> QED BY <1>1, <1>2, <1>3, <1>4 DEF Follows, Alike

\* output makes no difference to the ledger.
LEMMA SteadyAlike == ASSUME NEW t, NEW u, Steady(t, u) PROVE Alike(t, u)
BY DEF Steady, Alike

\* A step that only sends.
LEMMA SteadyRight ==
    ASSUME NEW t \in TcbRec, NEW L, Fits(L), Stream(t, L), NEW r, Steady(t, r.tcb), Told(t, L, r.out)
    PROVE  Right(t, L, r)
BY SteadyAlike, AlikeStream DEF Right

----------------------------------------------------------------------------
(* What a block puts out. *)

\* Where the numbers of the send side lie in the block's own stream.
LEMMA FrontPlace ==
    ASSUME NEW t, Core(t), NEW L, Fits(L), TxOK(t, L)
    PROVE  /\ Front(t) \in Nat /\ Front(t) >= 1 /\ Front(t) <= L.wrote + 2
           /\ ~t.fin_acked => Front(t) + Len(t.tx) = L.wrote + 1
           /\ synchronized(t) =>
                 /\ Minus(t.una, t.iss) = Front(t) /\ Minus(t.nxt, t.iss) = Front(t) + Flight(t)
                 /\ Front(t) + Top(t) <= L.wrote + 2
           /\ Minus(t.nxt, t.iss) \in 1 .. L.wrote + 2
<1>1. /\ t \in TcbRec /\ t.una \in Seq32 /\ t.nxt \in Seq32 /\ t.iss \in Seq32 /\ Len(t.tx) \in Nat
      /\ t.state # "Closed"
  <2>1. t \in TcbRec /\ t.state # "Closed"
    BY DEF Core
  <2> QED BY <2>1, FieldTypes
<1>2. L.wrote \in Nat /\ L.wrote + RxCap + 1 < SeqSpace
  BY LedgerTypes
<1>3. CASE SynState(t)
  <2>1. Front(t) = 1 /\ ~synchronized(t) /\ t.nxt = Plus(t.iss, 1) /\ ~t.fin_acked
    BY <1>1, <1>3, NotBoth DEF Front, Core, SndSyn
  <2>2. Minus(t.iss, t.iss) = 0 /\ Minus(t.iss, t.iss) + 1 < SeqSpace
    BY <1>1, WayOn, SpaceFacts
  <2>3. Minus(t.nxt, t.iss) = Minus(t.iss, t.iss) + 1
    BY <1>1, <2>1, <2>2, StepOn
  <2>4. Minus(t.nxt, t.iss) = 1
    BY <2>2, <2>3
  <2> QED BY <1>1, <1>2, <2>1, <2>4 DEF TxOK
<1>4. CASE ~SynState(t)
  <2>1. synchronized(t) /\ Front(t) = Minus(t.una, t.iss)
    BY <1>1, <1>4, NotBoth DEF Front
  <2>2. /\ SndSync(t) /\ Top(t) \in Nat /\ Flight(t) \in Nat /\ Flight(t) <= Top(t) /\ Top(t) <= Len(t.tx) + 1
    BY <2>1, DistancesFrom
  <2>3. /\ Minus(t.una, t.iss) \in Nat /\ Minus(t.una, t.iss) < SeqSpace
        /\ Minus(t.nxt, t.iss) \in Nat /\ Minus(t.nxt, t.iss) < SeqSpace
        /\ Flight(t) = IF Minus(t.nxt, t.iss) >= Minus(t.una, t.iss) THEN Minus(t.nxt, t.iss) - Minus(t.una, t.iss)
                       ELSE Minus(t.nxt, t.iss) - Minus(t.una, t.iss) + SeqSpace
    BY <1>1, WayOn DEF Flight
  <2>4. Front(t) >= 1 /\ (~t.fin_acked => Front(t) + Len(t.tx) = L.wrote + 1) /\ (t.fin_acked => Front(t) = L.wrote + 2)
    BY <1>1 DEF TxOK
  <2>5. Front(t) + Top(t) <= L.wrote + 2
    <3>1. CASE t.fin_acked
      BY <1>2, <2>2, <2>4, <3>1 DEF SndSync
    <3>2. CASE ~t.fin_acked
      BY <1>1, <1>2, <2>1, <2>2, <2>3, <2>4, <3>2
    <3> QED BY <3>1, <3>2
  <2>6. Minus(t.nxt, t.iss) = Front(t) + Flight(t)
    BY <1>2, <2>1, <2>2, <2>3, <2>5, SpaceFacts, SMTT(30)
  <2> QED BY <1>1, <1>2, <2>1, <2>2, <2>3, <2>4, <2>5, <2>6
<1> QED BY <1>3, <1>4

\* A segment without text, with any number from snd_una to snd_nxt.
LEMMA BareTells ==
    ASSUME NEW t \in TcbRec, NEW L, Fits(L), L.base # NoSeq, RxOK(t, L), NEW seq,
           Minus(seq, t.iss) \in 1 .. L.wrote + 2
    PROVE  Tells(t, L, seg(t, seq, {"ACK"}, <<>>))
<1> DEFINE h == seg(t, seq, {"ACK"}, <<>>)
<1>1. h.seq = seq /\ h.ack = t.rcv_nxt /\ h.flags = {"ACK"} /\ h.data = <<>>
  BY DEF seg
<1> HIDE DEF h
<1>2. Minus(h.ack, L.base) \in 1 .. Place(t, L)
  <2>1. Place(t, L) \in Nat /\ Place(t, L) >= 1
    BY PlaceBound, PlaceType
  <2> QED BY <1>1, <2>1 DEF Place
<1>3. Carries(h, t.iss, L.own, L.wrote, Fins(t, L))
  <2>1. Len(h.data) = 0 /\ Run(h.data, L.own, Minus(h.seq, t.iss))
    BY <1>1, RunEmpty
  <2>2. "SYN" \notin h.flags /\ "FIN" \notin h.flags
    BY <1>1
  <2>3. Minus(h.seq, t.iss) \in 1 .. L.wrote + 2 /\ L.wrote \in Nat
    BY <1>1, LedgerTypes
  <2> HIDE DEF h
  <2> QED BY <1>1, <2>1, <2>2, <2>3 DEF Carries
<1> QED BY <1>2, <1>3 DEF Tells, h

\* A bare acknowledgement.
LEMMA SendAckRight ==
    ASSUME NEW t, Core(t), NEW L, Fits(L), Stream(t, L), L.base # NoSeq
    PROVE  Right(t, L, send_ack(t)) /\ Told(t, L, send_ack(t).out)
<1>1. t \in TcbRec /\ TxOK(t, L) /\ RxOK(t, L)
  BY DEF Core, Stream
<1>2. Minus(t.nxt, t.iss) \in 1 .. L.wrote + 2
  BY <1>1, FrontPlace
<1>3. send_ack(t).out = << seg(t, t.nxt, {"ACK"}, <<>>) >> /\ Steady(t, send_ack(t).tcb)
  BY <1>1, SendAckKeeps, SendingKeeps DEF send_ack
<1>4. Tells(t, L, seg(t, t.nxt, {"ACK"}, <<>>))
  BY <1>1, <1>2, BareTells
<1>5. Told(t, L, send_ack(t).out)
  BY <1>3, <1>4 DEF Told
<1> QED BY <1>1, <1>3, <1>5, SteadyRight

\* A SYN, with an acknowledgement if there is something to acknowledge.
LEMMA SendSynRight ==
    ASSUME NEW t \in TcbRec, SynState(t), NEW L, Fits(L), Stream(t, L)
    PROVE  Right(t, L, send_syn(t))
<1> DEFINE r == send_syn(t)
<1>1. Steady(t, r.tcb) /\ t.iss \in Seq32
  BY SendSynKeeps, FieldTypes
<1>2. Minus(t.iss, t.iss) = 0
  BY <1>1, MinusFrom
<1>3. ASSUME NEW h, h.seq = t.iss, h.data = <<>>, "SYN" \in h.flags, "FIN" \notin h.flags
      PROVE  Carries(h, t.iss, L.own, L.wrote, Fins(t, L))
  <2>1. Run(h.data, L.own, Minus(h.seq, t.iss))
    BY <1>3, RunEmpty
  <2> QED BY <1>2, <1>3, <2>1 DEF Carries
<1>4. CASE t.state = "SynSent"
  <2> DEFINE h == [seg(t, t.iss, {"SYN"}, <<>>) EXCEPT !.ack = 0]
  <2>1. r.out = <<h>>
    BY <1>4, SendingKeeps DEF send_syn
  <2>2. h.seq = t.iss /\ h.data = <<>> /\ h.flags = {"SYN"}
    BY DEF seg
  <2> HIDE DEF h
  <2>3. Tells(t, L, h)
    BY <1>3, <2>2 DEF Tells
  <2>4. Told(t, L, r.out)
    BY <2>1, <2>3 DEF Told
  <2> QED BY <1>1, <2>4, SteadyRight
<1>5. CASE t.state # "SynSent"
  <2> DEFINE h == seg(t, t.iss, {"SYN", "ACK"}, <<>>)
  <2>1. r.out = <<h>>
    BY <1>5, SendingKeeps DEF send_syn
  <2>2. h.seq = t.iss /\ h.data = <<>> /\ h.flags = {"SYN", "ACK"} /\ h.ack = t.rcv_nxt
    BY DEF seg
  <2>3. L.base # NoSeq /\ RxOK(t, L)
    BY <1>5 DEF Stream, Virgin, SynState
  <2>4. Place(t, L) \in Nat /\ Place(t, L) >= 1
    BY <2>3, PlaceBound, PlaceType
  <2> HIDE DEF h
  <2>5. Minus(h.ack, L.base) \in 1 .. Place(t, L)
    BY <2>2, <2>4 DEF Place
  <2>6. Tells(t, L, h)
    BY <1>3, <2>2, <2>3, <2>5 DEF Tells
  <2>7. Told(t, L, r.out)
    BY <2>1, <2>6 DEF Told
  <2> QED BY <1>1, <2>7, SteadyRight
<1> QED BY <1>4, <1>5

\* A segment of the send buffer: the bytes from place m to place n, under their number.
LEMMA TextTells ==
    ASSUME NEW t, Core(t), synchronized(t), ~t.fin_acked, NEW L, Fits(L), Stream(t, L), L.base # NoSeq,
           NEW m \in Nat, NEW n \in Nat, m <= Len(t.tx), n <= Len(t.tx), NEW seq, NEW fin \in BOOLEAN,
           Minus(seq, t.iss) = Front(t) + m, fin => ~Writable(t) /\ m <= n /\ n = Len(t.tx)
    PROVE  Tells(t, L, seg(t, seq, {"ACK"} \cup (IF fin THEN {"FIN"} ELSE {}), SubSeq(t.tx, m + 1, n)))
<1> DEFINE data == SubSeq(t.tx, m + 1, n)
           flags == {"ACK"} \cup (IF fin THEN {"FIN"} ELSE {})
           h == seg(t, seq, flags, data)
<1>1. /\ t \in TcbRec /\ t.tx \in Seq(Datum) /\ Len(t.tx) \in Nat /\ t.state # "Closed" /\ RxOK(t, L)
  <2>1. t \in TcbRec /\ t.state # "Closed"
    BY DEF Core
  <2> QED BY <2>1, FieldTypes DEF Stream
<1>2. /\ Front(t) \in Nat /\ Front(t) >= 1 /\ Front(t) + Len(t.tx) = L.wrote + 1 /\ Run(t.tx, L.own, Front(t))
  <2>1. TxOK(t, L)
    BY DEF Stream
  <2> QED BY <1>1, <2>1, FrontPlace DEF TxOK
<1>3. /\ data \in Seq(Datum) /\ Run(data, L.own, Front(t) + m)
      /\ Len(data) = IF m + 1 <= n THEN n - m ELSE 0
  <2>1. m + 1 \in Int /\ m + 1 >= 1 /\ n \in Int /\ Front(t) \in Int
    BY <1>2
  <2>2. /\ data \in Seq(Datum) /\ Run(data, L.own, Front(t) + (m + 1) - 1)
        /\ Len(data) = IF m + 1 <= n THEN n - (m + 1) + 1 ELSE 0
    BY <1>1, <1>2, <2>1, RunPart
  <2>3. Front(t) + (m + 1) - 1 = Front(t) + m /\ n - (m + 1) + 1 = n - m
    BY <1>2
  <2> HIDE DEF data
  <2> QED BY <2>2, <2>3
<1>4. h.seq = seq /\ h.ack = t.rcv_nxt /\ h.flags = flags /\ h.data = data
  BY DEF seg
<1>5. "SYN" \notin flags /\ ("FIN" \in flags => fin)
  OBVIOUS
<1> HIDE DEF h, data, flags
<1>6. L.wrote \in Nat
  BY LedgerTypes
<1>7. data # <<>> => Len(data) # 0
  BY <1>3, LenProperties
<1>8. Front(t) + m + Len(data) <= L.wrote + 1 /\ Front(t) + m >= 1
  BY <1>1, <1>2, <1>3, <1>6
<1>9. fin => Front(t) + m + Len(data) = L.wrote + 1
  BY <1>1, <1>2, <1>3, <1>6
<1>10. fin => L.wrote + 1 \in Fins(t, L)
  BY DEF Fins
<1>11. Carries(h, t.iss, L.own, L.wrote, Fins(t, L))
  <2>1. Front(t) + m + Len(data) <= L.wrote + 2
    BY <1>2, <1>3, <1>6, <1>8
  <2> QED BY <1>3, <1>4, <1>5, <1>8, <1>9, <1>10, <2>1 DEF Carries
<1>12. Minus(h.ack, L.base) \in 1 .. Place(t, L)
  <2>1. Place(t, L) \in Nat /\ Place(t, L) >= 1
    BY <1>1, PlaceBound, PlaceType
  <2> QED BY <1>4, <2>1 DEF Place
<1> QED BY <1>11, <1>12 DEF Tells, h, data, flags

\* How far the pieces of n bytes reach: each one begins at or before byte n, and the last ends there.
LEMMA PieceEnds ==
    ASSUME NEW n \in Nat, n > 0, NEW i \in 1 .. (n + Mss - 1) \div Mss
    PROVE  /\ (i - 1) * Mss \in Nat /\ (i - 1) * Mss < n /\ Least(i * Mss, n) \in Nat /\ Least(i * Mss, n) <= n
           /\ i = (n + Mss - 1) \div Mss => Least(i * Mss, n) = n
<1> DEFINE k == (n + Mss - 1) \div Mss
<1>1. Mss \in Nat /\ Mss >= 1
  BY BufferAssumption
<1>2. k \in Nat /\ k * Mss <= n + Mss - 1 /\ n + Mss - 1 < k * Mss + Mss
  BY <1>1
<1>3. i \in Nat /\ i >= 1 /\ i <= k
  BY <1>2
<1> HIDE DEF k
<1>4. i * Mss <= k * Mss /\ i * Mss \in Nat /\ k * Mss \in Nat
  BY <1>1, <1>2, <1>3
<1>5. (i - 1) * Mss = i * Mss - Mss /\ (i - 1) * Mss \in Nat
  BY <1>1, <1>3
<1>6. (i - 1) * Mss < n
  BY <1>1, <1>2, <1>4, <1>5
<1>7. i = k => Least(i * Mss, n) = n
  BY <1>1, <1>2, <1>4 DEF Least
<1>8. Least(i * Mss, n) \in Nat /\ Least(i * Mss, n) <= n
  BY <1>4 DEF Least
<1> QED BY <1>5, <1>6, <1>7, <1>8 DEF k

\* output's segments.
LEMMA PiecesTell ==
    ASSUME NEW t, Core(t), synchronized(t), ~t.fin_acked, NEW L, Fits(L), Stream(t, L), L.base # NoSeq,
           NEW n \in Nat, NEW fin \in BOOLEAN, Flight(t) + n <= Len(t.tx),
           fin => ~Writable(t) /\ Flight(t) + n = Len(t.tx)
    PROVE  Told(t, L, Pieces(t, n, fin))
<1> DEFINE k == IF n = 0 THEN (IF fin THEN 1 ELSE 0) ELSE (n + Mss - 1) \div Mss
           off == Minus(t.nxt, t.una)
           piece(i) == SubSeq(t.tx, off + (i - 1) * Mss + 1, off + Least(i * Mss, n))
           flags(i) == {"ACK"} \cup (IF fin /\ i = k THEN {"FIN"} ELSE {})
           sent(i) == seg(t, Plus(t.nxt, (i - 1) * Mss), flags(i), piece(i))
<1>1. Pieces(t, n, fin) = [i \in 1 .. k |-> sent(i)]
  BY DEF Pieces
<1>2. /\ off \in Nat /\ off + n <= Len(t.tx) /\ Len(t.tx) \in Nat /\ t.nxt \in Seq32 /\ t.iss \in Seq32
      /\ fin => ~Writable(t) /\ off + n = Len(t.tx)
  <2>1. t \in TcbRec
    BY DEF Core
  <2> QED BY <2>1, DistancesFrom, FieldTypes DEF Flight
<1>3. /\ Front(t) \in Nat /\ Front(t) >= 1 /\ Front(t) + Len(t.tx) = L.wrote + 1
      /\ Minus(t.nxt, t.iss) = Front(t) + off /\ L.wrote + RxCap + 1 < SeqSpace /\ L.wrote \in Nat
  <2>1. TxOK(t, L)
    BY DEF Stream
  <2> QED BY <2>1, FrontPlace, LedgerTypes DEF Flight
<1> HIDE DEF off
<1>4. Mss \in Nat /\ Mss >= 1
  BY BufferAssumption
<1>5. ASSUME NEW i \in 1 .. k PROVE Tells(t, L, sent(i))
  <2> DEFINE b == (i - 1) * Mss
             e == Least(i * Mss, n)
             last == fin /\ i = k
  <2>1. /\ b \in Nat /\ b <= n /\ e \in Nat /\ e <= n /\ (last => b <= e /\ e = n)
    <3>1. CASE n = 0
      <4>1. i = 1 /\ b = 0
        BY <1>4, <3>1, <1>5
      <4>2. e = 0
        BY <1>4, <3>1, <4>1 DEF Least
      <4> QED BY <3>1, <4>1, <4>2
    <3>2. CASE n # 0
      <4>1. k = (n + Mss - 1) \div Mss /\ n > 0
        BY <3>2
      <4> HIDE DEF k
      <4>2. /\ b \in Nat /\ b < n /\ e \in Nat /\ e <= n /\ (i = k => e = n)
        BY <1>5, <4>1, PieceEnds
      <4> HIDE DEF b, e
      <4> QED BY <4>2
    <3> QED BY <3>1, <3>2
  <2>2. last \in BOOLEAN
    OBVIOUS
  <2>3. piece(i) = SubSeq(t.tx, (off + b) + 1, off + e) /\ flags(i) = {"ACK"} \cup (IF last THEN {"FIN"} ELSE {})
    OBVIOUS
  <2> DEFINE seq == Plus(t.nxt, b)
  <2>4. sent(i) = seg(t, seq, {"ACK"} \cup (IF last THEN {"FIN"} ELSE {}), SubSeq(t.tx, (off + b) + 1, off + e))
    BY <2>3
  <2>5. last => fin
    OBVIOUS
  <2> HIDE DEF b, e, last, sent
  <2>6. Front(t) + off + b < SeqSpace
    <3>1. L.wrote + 1 < SeqSpace
      BY <1>3, SpaceFacts
    <3>2. off + b <= Len(t.tx) /\ off + b \in Nat
      BY <1>2, <2>1
    <3>3. Front(t) + (off + b) <= L.wrote + 1
      BY <1>2, <1>3, <3>2
    <3> QED BY <1>2, <1>3, <2>1, <3>1, <3>2, <3>3, SpaceFacts
  <2>7. Minus(seq, t.iss) = Minus(t.nxt, t.iss) + b
    BY <1>2, <1>3, <2>1, <2>6, StepOn
  <2>8. Minus(seq, t.iss) = Front(t) + (off + b)
    <3> HIDE DEF seq
    <3> QED BY <1>2, <1>3, <2>1, <2>7
  <2>9. off + b \in Nat /\ off + e \in Nat /\ off + b <= Len(t.tx) /\ off + e <= Len(t.tx)
    BY <1>2, <2>1
  <2>10. last => ~Writable(t) /\ off + b <= off + e /\ off + e = Len(t.tx)
    BY <1>2, <2>1, <2>5
  <2> DEFINE m1 == off + b
             n1 == off + e
  <2> HIDE DEF seq, m1, n1
  <2>11. Tells(t, L, seg(t, seq, {"ACK"} \cup (IF last THEN {"FIN"} ELSE {}), SubSeq(t.tx, m1 + 1, n1)))
    <3>1. m1 \in Nat /\ n1 \in Nat /\ m1 <= Len(t.tx) /\ n1 <= Len(t.tx) /\ Minus(seq, t.iss) = Front(t) + m1
      BY <2>8, <2>9 DEF m1, n1
    <3>2. last => ~Writable(t) /\ m1 <= n1 /\ n1 = Len(t.tx)
      BY <2>10 DEF m1, n1
    <3> QED BY <2>2, <3>1, <3>2, TextTells
  <2> QED BY <2>4, <2>11 DEF m1, n1
<1> HIDE DEF sent, k
<1>6. \A i \in DOMAIN Pieces(t, n, fin) : i \in 1 .. k /\ Pieces(t, n, fin)[i] = sent(i)
  BY <1>1
<1> QED BY <1>5, <1>6 DEF Told

\* retransmit_first's segment.
LEMMA RetransmitTells ==
    ASSUME NEW t, Core(t), synchronized(t), ~t.fin_acked, NEW L, Fits(L), Stream(t, L), L.base # NoSeq
    PROVE  Told(t, L, retransmit_first(t).out)
<1> DEFINE len == Least(Len(t.tx), Mss)
           fin == t.fin_seq # NoSeq /\ t.fin_seq = Plus(t.una, len)
           h == seg(t, t.una, {"ACK"} \cup (IF fin THEN {"FIN"} ELSE {}), SubSeq(t.tx, 1, len))
<1>1. t \in TcbRec
  BY DEF Core
<1>2. /\ Len(t.tx) \in Nat /\ t.una \in Seq32 /\ SndSync(t) /\ TxOK(t, L)
  BY <1>1, FieldTypes, DistancesFrom DEF Stream
<1>3. len \in Nat /\ len <= Len(t.tx)
  BY <1>2, BufferAssumption DEF Least
<1>4. /\ Minus(t.una, t.iss) = Front(t) + 0 /\ Len(t.tx) < SeqSpace
  <2>1. /\ Minus(t.una, t.iss) = Front(t) /\ Front(t) \in Nat /\ Front(t) >= 1 /\ Front(t) + Len(t.tx) = L.wrote + 1
        /\ L.wrote \in Nat /\ L.wrote + RxCap + 1 < SeqSpace
    BY <1>2, FrontPlace, LedgerTypes
  <2> QED BY <1>2, <2>1, SpaceFacts
<1>5. CASE len = 0 /\ ~fin
  <2>1. retransmit_first(t).out = <<>>
    BY <1>5 DEF retransmit_first, Quiet, Step
  <2> QED BY <2>1 DEF Told
<1>6. CASE ~(len = 0 /\ ~fin)
  <2>1. retransmit_first(t).out = << h >>
    BY <1>1, <1>6, SendingKeeps DEF retransmit_first
  <2>2. fin => ~Writable(t) /\ len = Len(t.tx)
    <3> SUFFICES ASSUME fin PROVE ~Writable(t) /\ len = Len(t.tx)
      OBVIOUS
    <3>1. t.fin_pending /\ Minus(t.fin_seq, t.una) = Len(t.tx)
      BY <1>2 DEF SndSync
    <3>2. ~Writable(t)
      BY <3>1 DEF Core, LifeOK, FinState, Writable
    <3>3. Minus(t.una, t.una) = 0 /\ Minus(t.una, t.una) + len < SeqSpace
      <4>1. Minus(t.una, t.una) = 0
        BY <1>2, WayOn
      <4> HIDE DEF len, fin
      <4> QED BY <1>2, <1>3, <1>4, <4>1, SpaceFacts
    <3>4. Minus(Plus(t.una, len), t.una) = Minus(t.una, t.una) + len
      BY <1>2, <1>3, <3>3, StepOn
    <3>5. t.fin_seq = Plus(t.una, len)
      OBVIOUS
    <3> HIDE DEF len, fin
    <3>6. len = Len(t.tx)
      BY <1>2, <1>3, <1>4, <3>1, <3>3, <3>4, <3>5
    <3> QED BY <3>2, <3>6
  <2>3. fin \in BOOLEAN
    OBVIOUS
  <2>4. h = seg(t, t.una, {"ACK"} \cup (IF fin THEN {"FIN"} ELSE {}), SubSeq(t.tx, 0 + 1, len))
    OBVIOUS
  <2> HIDE DEF len, fin, h
  <2>5. 0 \in Nat /\ 0 <= Len(t.tx) /\ (fin => ~Writable(t) /\ 0 <= len /\ len = Len(t.tx))
    BY <1>2, <1>3, <2>2
  <2>6. Tells(t, L, h)
    BY <1>3, <1>4, <2>3, <2>4, <2>5, TextTells
  <2> QED BY <2>1, <2>6 DEF Told
<1> QED BY <1>5, <1>6

\* What output sends within the window.
LEMMA SendWindowTells ==
    ASSUME NEW t, Core(t), synchronized(t), ~t.fin_acked, NEW L, Fits(L), Stream(t, L), L.base # NoSeq,
           NEW probe \in BOOLEAN, probe => t.nxt = t.una
    PROVE  Told(t, L, SendWindow(t, probe).out)
<1> DEFINE n == Least(Unsent(t), Usable(t, probe))
           fin == FinNow(t, n)
<1>1. t \in TcbRec /\ SndSync(t) /\ Flight(t) \in Nat /\ Len(t.tx) \in Nat
  <2>1. t \in TcbRec
    BY DEF Core
  <2> QED BY <2>1, DistancesFrom, FieldTypes
<1>2. CASE Flight(t) > Len(t.tx)
  <2>1. SendWindow(t, probe).out = <<>>
    BY <1>2 DEF SendWindow, Quiet, Step, Flight
  <2> QED BY <2>1 DEF Told
<1>3. CASE ~(Flight(t) > Len(t.tx))
  <2>1. Flight(t) <= Len(t.tx) /\ Flight(t) <= RxCap
    <3>1. Flight(t) <= Len(t.tx)
      BY <1>1, <1>3
    <3>2. Flight(t) <= Top(t) /\ Top(t) \in Nat
      BY DistancesFrom
    <3>3. CASE t.fin_seq = NoSeq
      BY <1>1, <3>1, <3>2, <3>3, SpaceFacts DEF SndSync
    <3>4. CASE t.fin_seq # NoSeq
      BY <1>1, <3>1, <3>2, <3>4, SpaceFacts DEF SndSync
    <3> QED BY <3>1, <3>3, <3>4
  <2>2. /\ n \in Nat /\ n <= Len(t.tx) - Flight(t) /\ Unsent(t) = Len(t.tx) - Flight(t)
    BY <1>1, <2>1, UsableBound
  <2>3. fin => t.fin_pending /\ n = Unsent(t)
    BY DEF FinNow
  <2>4. fin \in BOOLEAN
    BY <1>1 DEF FinNow, TcbRec
  <2>5. SendWindow(t, probe) = SendPieces(t, n, fin)
    BY <1>3 DEF SendWindow, SendBytes, Flight
  <2> HIDE DEF n, fin
  <2>6. t.fin_pending => ~Writable(t)
    BY DEF Core, LifeOK, FinState, Writable
  <2>7. Flight(t) + n <= Len(t.tx) /\ (fin => ~Writable(t) /\ Flight(t) + n = Len(t.tx))
    BY <1>1, <2>2, <2>3, <2>6
  <2>8. Told(t, L, Pieces(t, n, fin))
    BY <2>2, <2>4, <2>7, PiecesTell
  <2>9. CASE n = 0 /\ ~fin
    <3>1. SendPieces(t, n, fin).out = <<>>
      BY <2>9 DEF SendPieces, Quiet, Step
    <3> QED BY <2>5, <3>1 DEF Told
  <2>10. CASE ~(n = 0 /\ ~fin)
    <3>1. SendPieces(t, n, fin).out = Pieces(t, n, fin)
      BY <2>10 DEF SendPieces, Sending, Step
    <3> QED BY <2>5, <2>8, <3>1
  <2> QED BY <2>9, <2>10
<1> QED BY <1>2, <1>3

\* output says nothing but what the ledger has.
LEMMA OutputRight ==
    ASSUME NEW t, Core(t), Settled(t), NEW L, Fits(L), Stream(t, L),
           NEW force_ack \in BOOLEAN, NEW probe \in BOOLEAN, probe => t.nxt = t.una,
           synchronized(t) \/ ~force_ack
    PROVE  Right(t, L, output(t, force_ack, probe))
<1> DEFINE q == IF can_send_data(t) THEN Armed(SendWindow(t, probe)) ELSE Quiet(t)
           r == output(t, force_ack, probe)
<1>1. t \in TcbRec /\ Steady(t, r.tcb)
  BY OutputKeeps DEF Core
<1>2. synchronized(t) => L.base # NoSeq
  BY DEF Stream, Virgin, synchronized
<1>3. can_send_data(t) => synchronized(t) /\ ~t.fin_acked
  BY <1>1, NotBoth DEF Settled
<1>4. Told(t, L, q.out)
  <2>1. CASE can_send_data(t)
    <3>1. q.out = SendWindow(t, probe).out
      BY <2>1 DEF Armed, Step
    <3> QED BY <1>2, <1>3, <2>1, <3>1, SendWindowTells
  <2>2. CASE ~can_send_data(t)
    <3>1. q.out = <<>>
      BY <2>2 DEF Quiet, Step
    <3> QED BY <3>1 DEF Told
  <2> QED BY <2>1, <2>2
<1>5. r = IF q.out = <<>> /\ force_ack THEN send_ack(q.tcb) ELSE q
  BY DEF output, Acking
<1>6. CASE q.out = <<>> /\ force_ack
  <2>1. Core(q.tcb) /\ Steady(t, q.tcb) /\ r = send_ack(q.tcb)
    <3>1. output(t, FALSE, probe) = q
      BY DEF output, Acking
    <3>2. Core(output(t, FALSE, probe).tcb) /\ Steady(t, output(t, FALSE, probe).tcb)
      BY OutputKeeps
    <3> QED BY <1>5, <1>6, <3>1, <3>2
  <2> HIDE DEF q
  <2>2. Stream(q.tcb, L) /\ L.base # NoSeq
    BY <1>1, <1>2, <1>6, <2>1, SteadyAlike, AlikeStream
  <2>3. Told(q.tcb, L, send_ack(q.tcb).out)
    BY <2>1, <2>2, SendAckRight
  <2>4. Told(t, L, r.out)
    BY <1>1, <2>1, <2>3, SteadyAlike, AlikeStream
  <2> QED BY <1>1, <2>4, SteadyRight
<1>7. CASE ~(q.out = <<>> /\ force_ack)
  BY <1>1, <1>4, <1>5, <1>7, SteadyRight
<1> QED BY <1>6, <1>7

----------------------------------------------------------------------------
(* The programs' calls, timers, and failures. *)

\* One step after another.
LEMMA FollowsTrans ==
    ASSUME NEW t \in TcbRec, NEW u \in TcbRec, NEW v \in TcbRec, NEW L, Fits(L),
           Follows(t, L, u), Follows(u, L, v), t.state # "SynSent" => u.state # "SynSent"
    PROVE  Follows(t, L, v)
<1>1. L.base # NoSeq => Place(t, L) \in Nat /\ Place(u, L) \in Nat /\ Place(v, L) \in Nat
  BY PlaceType
<1> QED BY <1>1 DEF Follows

\* What was said before a step still holds after it.
LEMMA ToldOn ==
    ASSUME NEW t \in TcbRec, NEW u \in TcbRec, NEW L, Fits(L), Follows(t, L, u), t.state # "SynSent",
           NEW out, Told(t, L, out)
    PROVE  Told(u, L, out)
<1>1. L.base # NoSeq => Place(t, L) \in Nat /\ Place(u, L) \in Nat /\ Place(t, L) <= Place(u, L)
  BY PlaceType DEF Follows
<1>2. Fins(t, L) \subseteq Fins(u, L) /\ u.iss = t.iss
  BY DEF Fins, Follows
<1>3. ASSUME NEW i \in DOMAIN out PROVE Tells(u, L, out[i])
  <2>1. Tells(t, L, out[i])
    BY <1>3 DEF Told
  <2>2. CASE "RST" \in out[i].flags
    BY <2>2 DEF Tells
  <2>3. CASE "RST" \notin out[i].flags
    <3>1. /\ Carries(out[i], t.iss, L.own, L.wrote, Fins(t, L))
          /\ "ACK" \in out[i].flags => L.base # NoSeq /\ Minus(out[i].ack, L.base) \in 1 .. Place(t, L)
      BY <2>1, <2>3 DEF Tells
    <3>2. Carries(out[i], u.iss, L.own, L.wrote, Fins(u, L))
      BY <1>2, <3>1 DEF Carries
    <3>3. "ACK" \in out[i].flags => L.base # NoSeq /\ Minus(out[i].ack, L.base) \in 1 .. Place(u, L)
      <4>1. SUFFICES ASSUME "ACK" \in out[i].flags
                     PROVE  L.base # NoSeq /\ Minus(out[i].ack, L.base) \in 1 .. Place(u, L)
        OBVIOUS
      <4> DEFINE a == Minus(out[i].ack, L.base)
      <4>2. L.base # NoSeq /\ a \in 1 .. Place(t, L)
        BY <3>1, <4>1
      <4> HIDE DEF a
      <4>3. a \in 1 .. Place(u, L)
        BY <1>1, <4>2
      <4> QED BY <4>2, <4>3 DEF a
    <3> QED BY <3>2, <3>3 DEF Tells
  <2> QED BY <2>2, <2>3
<1> QED BY <1>3 DEF Told

\* u keeps t's receive side, or throws away what waits in it.
Dropped(t, u) ==
    /\ u.rcv_nxt = t.rcv_nxt /\ u.rx_fin_seq = t.rx_fin_seq /\ u.fin_received = t.fin_received
    /\ u.ooo = t.ooo \/ u.ooo = <<>>
    /\ \/ u.rx = t.rx /\ u.discard_rx = t.discard_rx
       \/ u.rx = <<>> /\ u.discard_rx

\* What is thrown away does no harm.
LEMMA DroppedRx ==
    ASSUME NEW t \in TcbRec, NEW L, Fits(L), NEW u, Dropped(t, u), u.state # "SynSent", RxOK(t, L)
    PROVE  RxOK(u, L) /\ Place(u, L) = Place(t, L)
<1>1. Place(u, L) = Place(t, L)
  BY DEF Place, Dropped
<1>2. \A i \in DOMAIN u.ooo : HeldOK(u.ooo[i], L)
  <2>1. CASE u.ooo = t.ooo
    BY <2>1 DEF RxOK
  <2>2. CASE u.ooo = <<>>
    <3>1. DOMAIN u.ooo = {}
      BY <2>2
    <3> QED BY <3>1
  <2> QED BY <2>1, <2>2 DEF Dropped
<1>3. Run(u.rx, L.peer, Len(L.read) + 1)
  <2>1. CASE u.rx = t.rx
    BY <2>1 DEF RxOK
  <2>2. CASE u.rx = <<>>
    BY <2>2, RunEmpty
  <2> QED BY <2>1, <2>2 DEF Dropped
<1>4. ~u.discard_rx => u.rx = t.rx /\ ~t.discard_rx
  BY DEF Dropped
<1> QED BY <1>1, <1>2, <1>3, <1>4 DEF RxOK, Dropped

\* A block that closes, whatever it threw away.
LEMMA ClosedRight ==
    ASSUME NEW t \in TcbRec, NEW L, Fits(L), Stream(t, L), NEW r, r.tcb.state = "Closed",
           r.tcb.iss = t.iss, Dropped(t, r.tcb), \A i \in DOMAIN r.out : "RST" \in r.out[i].flags
    PROVE  Right(t, L, r)
<1>1. Told(r.tcb, L, r.out)
  BY DEF Told, Tells
<1>2. L.base # NoSeq => RxOK(r.tcb, L) /\ Place(r.tcb, L) = Place(t, L) /\ Place(t, L) \in Nat
  BY DroppedRx, PlaceType DEF Stream
<1>3. L.base = NoSeq => Virgin(r.tcb) /\ L.read = <<>>
  BY DEF Stream, Virgin, Dropped
<1>4. TxOK(r.tcb, L) /\ ~Writable(r.tcb)
  BY DEF TxOK, Writable
<1> QED BY <1>1, <1>2, <1>3, <1>4 DEF Right, Stream, Follows

\* set_closed, from a block that may have thrown away its receive buffer.
LEMMA SetClosedRight ==
    ASSUME NEW t \in TcbRec, NEW L, Fits(L), Stream(t, L), NEW c \in TcbRec, c.iss = t.iss, Dropped(t, c),
           NEW err, NEW out, \A i \in DOMAIN out : "RST" \in out[i].flags
    PROVE  Right(t, L, Step(set_closed(c, err), out))
<1> DEFINE u == set_closed(c, err)
           r == Step(u, out)
<1>1. /\ u.state = "Closed" /\ u.iss = c.iss /\ u.rcv_nxt = c.rcv_nxt /\ u.rx_fin_seq = c.rx_fin_seq
      /\ u.fin_received = c.fin_received /\ u.ooo = <<>> /\ u.rx = c.rx /\ u.discard_rx = c.discard_rx
  BY DEF set_closed, TcbRec
<1>2. r.tcb = u /\ r.out = out
  BY DEF Step
<1> HIDE DEF u, r
<1>3. Dropped(t, u)
  BY <1>1 DEF Dropped
<1> QED BY <1>1, <1>2, <1>3, ClosedRight DEF r, u

\* set_closed without a word, from a block as it is.
LEMMA EndRight ==
    ASSUME NEW t \in TcbRec, NEW L, Fits(L), Stream(t, L), NEW err
    PROVE  Right(t, L, Quiet(set_closed(t, err)))
<1>1. Dropped(t, t)
  BY DEF Dropped
<1>2. Quiet(set_closed(t, err)) = Step(set_closed(t, err), <<>>) /\ \A i \in DOMAIN << >> : "RST" \in << >>[i].flags
  BY DEF Quiet
<1> QED BY <1>1, <1>2, SetClosedRight

\* abort, from a block that may have thrown away its receive buffer.
LEMMA AbortRight ==
    ASSUME NEW t \in TcbRec, NEW L, Fits(L), Stream(t, L), NEW c \in TcbRec, c.iss = t.iss, Dropped(t, c)
    PROVE  Right(t, L, abort(c))
<1> DEFINE out == IF synchronized(c) \/ c.state = "SynReceived" THEN << RstSeg(c.nxt) >> ELSE <<>>
<1>1. \A i \in DOMAIN out : "RST" \in out[i].flags
  <2>1. "RST" \in RstSeg(c.nxt).flags
    BY DEF RstSeg
  <2> QED BY <2>1
<1> HIDE DEF out
<1>2. Right(t, L, Step(set_closed(c, "ConnectionAborted"), out))
  BY <1>1, SetClosedRight
<1> QED BY <1>2 DEF abort, out

\* A block left as it is, or with other timers and counters, that says nothing or resets.
LEMMA QuietRight ==
    ASSUME NEW t \in TcbRec, NEW L, Fits(L), Stream(t, L), NEW u, Alike(t, u),
           NEW out, \A i \in DOMAIN out : "RST" \in out[i].flags
    PROVE  Right(t, L, Step(u, out)) /\ Right(t, L, Quiet(u))
<1>1. Told(u, L, out) /\ Told(u, L, <<>>)
  BY DEF Told, Tells
<1>2. Stream(u, L) /\ Follows(t, L, u)
  BY AlikeStream
<1> QED BY <1>1, <1>2 DEF Right, Quiet, Step

\* A step from a block with other timers and counters.
LEMMA AlikeRight ==
    ASSUME NEW t \in TcbRec, NEW L, Fits(L), NEW u, Alike(t, u), NEW r, Right(u, L, r)
    PROVE  Right(t, L, r)
<1>1. Place(u, L) = Place(t, L) /\ (Writable(u) <=> Writable(t))
  BY DEF Alike, Place, Writable
<1> QED BY <1>1 DEF Right, Follows, Alike

\* The send side is the same.
LEMMA SameTx ==
    ASSUME NEW t, NEW L, TxOK(t, L), t.state # "Closed", NEW u, u.una = t.una, u.iss = t.iss,
           u.tx = t.tx, u.fin_acked = t.fin_acked, SynState(u) <=> SynState(t)
    PROVE  TxOK(u, L) /\ Front(u) = Front(t)
<1>1. Front(u) = Front(t)
  BY DEF Front
<1> QED BY <1>1 DEF TxOK

\* shutdown_write, of a block that may have thrown away its receive buffer.
LEMMA ShutdownRight ==
    ASSUME NEW t, Core(t), Settled(t), t.state \in {"Established", "CloseWait"}, NEW L, Fits(L), Stream(t, L),
           NEW c \in TcbRec, c.state = t.state, c.iss = t.iss,
           c.una = t.una, c.nxt = t.nxt, c.max = t.max, c.tx = t.tx, c.ooo = t.ooo, c.retries = t.retries,
           c.fin_seq = t.fin_seq, c.fin_acked = t.fin_acked, c.rcv_nxt = t.rcv_nxt,
           c.fin_received = t.fin_received, c.discard_rx => ~c.user_open,
           Len(c.rx) <= RxCap, rcv_wnd(c) >= rcv_wnd(t), Dropped(t, c)
    PROVE  Right(t, L, shutdown_write(c))
<1> DEFINE s == IF t.state = "Established" THEN "FinWait1" ELSE "LastAck"
           u == [c EXCEPT !.fin_pending = TRUE, !.state = s]
           r == shutdown_write(c)
<1>1. s \in States /\ s \in {"FinWait1", "LastAck"}
  BY FinStates
<1>2. r = output(u, FALSE, FALSE)
  BY DEF shutdown_write
<1> HIDE DEF s
<1>3. u \in TcbRec /\ u.state = s /\ u.fin_pending
  BY <1>1 DEF TcbRec
<1>4. /\ u.una = t.una /\ u.nxt = t.nxt /\ u.max = t.max /\ u.tx = t.tx /\ u.ooo = t.ooo /\ u.retries = t.retries
      /\ u.fin_seq = t.fin_seq /\ u.fin_acked = t.fin_acked /\ u.rcv_nxt = t.rcv_nxt /\ u.iss = t.iss
      /\ u.fin_received = t.fin_received /\ (u.discard_rx => ~u.user_open)
      /\ u.rx = c.rx /\ u.discard_rx = c.discard_rx /\ u.rx_fin_seq = c.rx_fin_seq
  BY DEF TcbRec
<1>5. rcv_wnd(u) = rcv_wnd(c)
  BY <1>4 DEF rcv_wnd
<1> HIDE DEF u, r
<1>6. Core(u) /\ Settled(u)
  BY <1>3, <1>4, <1>5, FinQueued DEF s
<1>7. t \in TcbRec /\ L.base # NoSeq /\ RxOK(t, L) /\ TxOK(t, L) /\ t.state # "Closed"
  BY DEF Core, Stream, Virgin
<1>8. Dropped(t, u) /\ u.state # "SynSent"
  BY <1>1, <1>3, <1>4 DEF Dropped
<1>9. RxOK(u, L) /\ Place(u, L) = Place(t, L)
  BY <1>7, <1>8, DroppedRx
<1>10. ~SynState(u) /\ ~SynState(t) /\ synchronized(u) /\ ~Writable(u)
  BY <1>1, <1>3 DEF SynState, synchronized, Writable
<1>11. TxOK(u, L)
  BY <1>4, <1>7, <1>10, SameTx
<1>12. Right(u, L, r)
  <2>1. Stream(u, L)
    BY <1>7, <1>9, <1>11 DEF Stream
  <2>2. FALSE \in BOOLEAN
    OBVIOUS
  <2> QED BY <1>2, <1>6, <1>10, <2>1, <2>2, OutputRight
<1>13. Follows(t, L, r.tcb)
  BY <1>4, <1>8, <1>9, <1>10, <1>12 DEF Right, Follows
<1> QED BY <1>12, <1>13 DEF Right, r

\* The send side of a block with more to send.
LEMMA MoreTx ==
    ASSUME NEW t, Core(t), ~t.fin_acked, NEW L, Fits(L), TxOK(t, L), NEW more \in Seq(Datum),
           Run(more, L.own, L.wrote + 1), NEW u, u.una = t.una, u.iss = t.iss, u.tx = t.tx \o more,
           u.fin_acked = t.fin_acked, SynState(u) <=> SynState(t),
           NEW M, M.own = L.own, M.wrote = L.wrote + Len(more)
    PROVE  TxOK(u, M)
<1> DEFINE f == Front(t)
           a == Len(t.tx)
           b == Len(more)
           w == L.wrote
<1>1. t.tx \in Seq(Datum) /\ a \in Nat /\ b \in Nat /\ w \in Nat /\ t.state # "Closed"
  <2>1. t \in TcbRec
    BY DEF Core
  <2> QED BY <2>1, FieldTypes, LenProperties, LedgerTypes DEF Core
<1>2. f \in Nat /\ f >= 1 /\ f + a = w + 1 /\ Run(t.tx, L.own, f)
  BY <1>1, FrontPlace DEF TxOK
<1>3. Front(u) = f
  BY DEF Front
<1>4. Run(u.tx, L.own, f) /\ Len(u.tx) = a + b
  <2>1. f \in Int /\ Run(more, L.own, f + Len(t.tx)) /\ Run(t.tx, L.own, f) /\ t.tx \in Seq(Datum)
    BY <1>1, <1>2
  <2> HIDE DEF f
  <2>2. Run(t.tx \o more, L.own, f) /\ Len(t.tx \o more) = Len(t.tx) + Len(more)
    BY <2>1, RunConcat
  <2> QED BY <2>2
<1>5. M.wrote = w + b
  OBVIOUS
<1> HIDE DEF f, a, b, w
<1>6. a \in Nat /\ b \in Nat /\ w \in Nat /\ f \in Nat /\ f + a = w + 1
  BY <1>1, <1>2
<1>7. f + (a + b) = (w + b) + 1
  BY <1>6
<1> QED BY <1>2, <1>3, <1>4, <1>5, <1>7 DEF TxOK

\* write: the new bytes follow the ones before.
LEMMA WriteRight ==
    ASSUME NEW t, Done(t), Writable(t), NEW L, Fits(L), Stream(t, L), NEW data \in Seq(Datum),
           Run(data, L.own, L.wrote + 1), NEW M, Fits(M),
           M.wrote = L.wrote + Least(Len(data), tx_space(t)), M.own = L.own, M.read = L.read,
           M.base = L.base, M.peer = L.peer, M.limit = L.limit, M.ends = L.ends
    PROVE  Right(t, M, write(t, data))
<1> DEFINE m == Least(Len(data), tx_space(t))
           more == SubSeq(data, 1, m)
           u == [t EXCEPT !.tx = @ \o more]
<1>1. /\ Core(t) /\ t \in TcbRec /\ t.state # "Closed" /\ t.tx \in Seq(Datum) /\ ~t.fin_acked /\ Len(t.tx) \in Nat
  <2>1. Core(t) /\ Settled(t) /\ t \in TcbRec
    BY DEF Done, Ended, Core, Writable
  <2> QED BY <2>1, FieldTypes DEF Settled, Writable, Core
<1>2. /\ Core(u) /\ Settled(u) /\ m \in Nat /\ m <= Len(data)
      /\ u.tx = t.tx \o more
      /\ u.state = t.state /\ u.iss = t.iss /\ u.una = t.una /\ u.fin_acked = t.fin_acked
      /\ u.rcv_nxt = t.rcv_nxt /\ u.rx = t.rx /\ u.ooo = t.ooo /\ u.rx_fin_seq = t.rx_fin_seq
      /\ u.fin_received = t.fin_received /\ u.discard_rx = t.discard_rx
  BY Written DEF Writable
<1>3. write(t, data) = output(u, FALSE, FALSE)
  BY DEF write
<1>4. /\ M.own = L.own /\ M.wrote = L.wrote + m /\ M.read = L.read /\ M.base = L.base /\ M.peer = L.peer
      /\ M.limit = L.limit /\ M.ends = L.ends
  OBVIOUS
<1>5. more \in Seq(Datum) /\ Run(more, L.own, L.wrote + 1) /\ Len(more) = m
  <2>1. L.wrote + 1 \in Int /\ 1 \in Int /\ m \in Int /\ L.wrote + 1 = (L.wrote + 1) + 1 - 1 /\ 1 >= 1
    BY <1>2, LedgerTypes
  <2> HIDE DEF m
  <2>2. /\ more \in Seq(Datum) /\ Run(more, L.own, (L.wrote + 1) + 1 - 1)
        /\ Len(more) = IF 1 <= m THEN m - 1 + 1 ELSE 0
    BY <1>2, <2>1, RunPart
  <2>3. (IF 1 <= m THEN m - 1 + 1 ELSE 0) = m
    BY <1>2
  <2> QED BY <2>1, <2>2, <2>3
<1> HIDE DEF m, more, u
<1>9. TxOK(u, M)
  <2>1. TxOK(t, L) /\ (SynState(u) <=> SynState(t))
    BY <1>2 DEF Stream, SynState
  <2> QED BY <1>1, <1>2, <1>4, <1>5, <2>1, MoreTx
<1>10. M.base = NoSeq => Virgin(u) /\ M.read = <<>>
  BY <1>2, <1>4 DEF Stream, Virgin
<1>11. M.base # NoSeq => RxOK(u, M)
  <2>1. Place(u, M) = Place(t, L)
    BY <1>2, <1>4 DEF Place
  <2>2. \A o : HeldOK(o, L) => HeldOK(o, M)
    BY <1>4 DEF HeldOK
  <2> QED BY <1>2, <1>4, <2>1, <2>2 DEF Stream, RxOK
<1>12. Right(u, M, output(u, FALSE, FALSE))
  <2>1. Stream(u, M)
    BY <1>9, <1>10, <1>11 DEF Stream
  <2>2. FALSE \in BOOLEAN
    OBVIOUS
  <2> QED BY <1>2, <2>1, <2>2, OutputRight
<1>13. Place(u, M) = Place(t, M) /\ (Writable(u) <=> Writable(t)) /\ u.iss = t.iss /\ u.state = t.state
  BY <1>2 DEF Place, Writable
<1> QED BY <1>3, <1>12, <1>13 DEF Right, Follows

\* read: what the program took is the next part of the peer's stream.
LEMMA ReadRight ==
    ASSUME NEW t, Done(t), t.rx # <<>>, NEW L, Fits(L), Stream(t, L), NEW n \in Nat, n <= Len(t.rx),
           NEW M, Fits(M), M.read = L.read \o SubSeq(t.rx, 1, n), M.own = L.own, M.wrote = L.wrote,
           M.base = L.base, M.peer = L.peer, M.limit = L.limit, M.ends = L.ends
    PROVE  Right(t, M, read(t, n))
<1> DEFINE a == SubSeq(t.rx, 1, n)
           b == SubSeq(t.rx, n + 1, Len(t.rx))
           u == [t EXCEPT !.rx = b]
           k == Len(L.read)
           m == Len(t.rx)
<1>1. t \in TcbRec /\ Sized(t) /\ L.base # NoSeq /\ RxOK(t, L) /\ TxOK(t, L)
  BY DEF Done, Ended, Core, Stream, Virgin
<1>2. t.rx \in Seq(Datum) /\ m \in Nat /\ k \in Nat /\ L.read \in Seq(Datum)
  BY <1>1, FieldTypes, LedgerTypes
<1>3. Run(L.read, L.peer, 1) /\ Run(t.rx, L.peer, k + 1)
  BY <1>1 DEF RxOK
<1>4. a \in Seq(Datum) /\ Run(a, L.peer, 1 + k) /\ Len(a) = n
  <2>1. k + 1 \in Int /\ 1 \in Int /\ n \in Int /\ 1 >= 1
    BY <1>2
  <2>2. a \in Seq(Datum) /\ Run(a, L.peer, (k + 1) + 1 - 1) /\ Len(a) = IF 1 <= n THEN n - 1 + 1 ELSE 0
    <3> HIDE DEF k
    <3> QED BY <1>2, <1>3, <2>1, RunPart
  <2>3. (k + 1) + 1 - 1 = 1 + k /\ (IF 1 <= n THEN n - 1 + 1 ELSE 0) = n
    <3> HIDE DEF k
    <3> QED BY <1>2
  <2> HIDE DEF a, k
  <2> QED BY <2>2, <2>3
<1>5. b \in Seq(Datum) /\ Run(b, L.peer, (k + n) + 1) /\ Len(b) = m - n
  <2>1. /\ k + 1 \in Int /\ n + 1 \in Int /\ Len(t.rx) \in Int /\ n + 1 >= 1 /\ Len(t.rx) <= Len(t.rx)
        /\ t.rx \in Seq(Datum) /\ Run(t.rx, L.peer, k + 1)
    BY <1>2, <1>3
  <2>2. b \in Seq(Datum) /\ Run(b, L.peer, (k + 1) + (n + 1) - 1) /\ Len(b) = IF n + 1 <= m THEN m - (n + 1) + 1 ELSE 0
    <3> HIDE DEF k
    <3> QED BY <2>1, RunPart
  <2>3. (k + 1) + (n + 1) - 1 = (k + n) + 1 /\ (IF n + 1 <= m THEN m - (n + 1) + 1 ELSE 0) = m - n
    <3> HIDE DEF k
    <3> QED BY <1>2
  <2> HIDE DEF b, k, m
  <2> QED BY <2>2, <2>3
<1>6. u \in TcbRec /\ u.rx = b
  <2> HIDE DEF b
  <2> QED BY <1>1, <1>5 DEF TcbRec
<1>7. /\ u.state = t.state /\ u.iss = t.iss /\ u.una = t.una /\ u.nxt = t.nxt /\ u.max = t.max
      /\ u.tx = t.tx /\ u.fin_pending = t.fin_pending /\ u.fin_seq = t.fin_seq /\ u.fin_acked = t.fin_acked
      /\ u.rcv_nxt = t.rcv_nxt /\ u.ooo = t.ooo /\ u.rx_fin_seq = t.rx_fin_seq
      /\ u.fin_received = t.fin_received /\ u.discard_rx = t.discard_rx /\ u.retries = t.retries
      /\ u.close_dl = t.close_dl /\ u.user_open = t.user_open
  BY <1>1 DEF TcbRec
<1>8. read(t, n) = Quiet(u) \/ (synchronized(t) /\ read(t, n) = send_ack(u))
  BY DEF read
<1> HIDE DEF u
<1>9. Run(M.read, L.peer, 1) /\ Len(M.read) = k + n
  <2> HIDE DEF a
  <2>1. Run(L.read, L.peer, 1) /\ Run(a, L.peer, 1 + Len(L.read)) /\ a \in Seq(Datum) /\ L.read \in Seq(Datum) /\ 1 \in Int
    BY <1>2, <1>3, <1>4
  <2>2. Run(L.read \o a, L.peer, 1) /\ Len(L.read \o a) = Len(L.read) + Len(a)
    BY <2>1, RunConcat
  <2>3. M.read = L.read \o a
    BY DEF a
  <2> QED BY <1>4, <2>2, <2>3
<1>10. Place(u, M) = Place(t, L)
  BY <1>7 DEF Place
<1>11. Stream(u, M)
  <2>1. TxOK(u, M)
    <3>1. Front(u) = Front(t)
      BY <1>7 DEF Front, SynState
    <3> QED BY <1>1, <1>7, <3>1 DEF TxOK
  <2>2. \A i \in DOMAIN u.ooo : HeldOK(u.ooo[i], M)
    BY <1>1, <1>7 DEF RxOK, HeldOK
  <2>3. ~u.discard_rx => Place(u, M) = Len(M.read) + Len(u.rx) + (IF u.fin_received THEN 2 ELSE 1)
    <3>1. ~t.discard_rx => Place(t, L) = k + m + (IF t.fin_received THEN 2 ELSE 1)
      BY <1>1 DEF RxOK
    <3> DEFINE f == IF t.fin_received THEN 2 ELSE 1
    <3>2. f \in Nat
      OBVIOUS
    <3> HIDE DEF k, m, f
    <3>3. (k + n) + (m - n) + f = k + m + f
      BY <1>2, <3>2
    <3> QED BY <1>5, <1>6, <1>7, <1>9, <1>10, <3>1, <3>3 DEF f
  <2>4. Run(u.rx, M.peer, Len(M.read) + 1)
    BY <1>5, <1>6, <1>9
  <2>5. /\ u.state # "SynSent"
        /\ ~u.fin_received => Place(u, M) >= 1 /\ Place(u, M) <= M.limit + 1
        /\ u.fin_received => Place(u, M) - 1 \in M.ends
        /\ u.rx_fin_seq # NoSeq => Minus(u.rx_fin_seq, M.base) \in M.ends
    BY <1>1, <1>7, <1>10 DEF RxOK
  <2>6. RxOK(u, M)
    BY <1>9, <2>2, <2>3, <2>4, <2>5 DEF RxOK
  <2> QED BY <1>1, <2>1, <2>6 DEF Stream
<1>12. Right(u, M, read(t, n))
  <2>1. CASE read(t, n) = Quiet(u)
    <3>1. Alike(u, u) /\ \A i \in DOMAIN << >> : "RST" \in << >>[i].flags
      BY DEF Alike
    <3> QED BY <1>6, <1>11, <2>1, <3>1, QuietRight
  <2>2. CASE synchronized(t) /\ read(t, n) = send_ack(u)
    <3>1. Core(t) /\ Settled(t) /\ RcvOK(t)
      BY <2>2 DEF Done, Ended, synchronized, Core
    <3>2. Len(u.rx) <= Len(t.rx) /\ Len(u.rx) \in Nat /\ Len(u.rx) <= RxCap
      <4>1. Len(b) \in Nat /\ m <= RxCap
        BY <1>1, <1>2, <1>5 DEF Sized
      <4> HIDE DEF b, m
      <4>2. Len(b) <= m /\ Len(b) <= RxCap
        BY <1>2, <1>5, <4>1, SpaceFacts
      <4> QED BY <1>6, <4>1, <4>2 DEF m
    <3>3. rcv_wnd(u) >= rcv_wnd(t)
      <4>1. CASE t.discard_rx
        <5>1. rcv_wnd(u) = RxCap /\ rcv_wnd(t) = RxCap
          BY <1>7, <4>1 DEF rcv_wnd
        <5> QED BY <5>1, SpaceFacts
      <4>2. CASE ~t.discard_rx
        <5>1. Len(t.rx) <= RxCap
          BY <1>1 DEF Sized
        <5>2. rcv_wnd(u) = RxCap - Len(u.rx) /\ rcv_wnd(t) = RxCap - Len(t.rx)
          BY <1>1, <1>6, <1>7, <3>2, <4>2, <5>1, WindowIs
        <5> QED BY <1>2, <3>2, <5>2, SpaceFacts
      <4> QED BY <4>1, <4>2
    <3>4. RcvOK(u)
      BY <1>1, <1>6, <1>7, <3>1, <3>3, WiderWindow
    <3>5. Len(u.ooo) <= MaxOoo
      BY <1>1, <1>7 DEF Sized
    <3>6. Core(u)
      BY <1>6, <1>7, <2>2, <3>1, <3>2, <3>4, <3>5, CoreAccepted
    <3> QED BY <1>1, <1>11, <2>2, <3>6, SendAckRight
  <2> QED BY <1>8, <2>1, <2>2
<1>13. Place(u, M) = Place(t, M) /\ (Writable(u) <=> Writable(t))
  BY <1>7 DEF Place, Writable
<1> QED BY <1>7, <1>12, <1>13 DEF Right, Follows

\* A block that throws away its receive buffer and says nothing.
LEMMA DropRight ==
    ASSUME NEW t \in TcbRec, NEW L, Fits(L), Stream(t, L), t.state \notin {"SynSent", "Closed"},
           NEW u, u.state = t.state, u.iss = t.iss, u.una = t.una, u.tx = t.tx, u.fin_acked = t.fin_acked,
           Dropped(t, u)
    PROVE  Right(t, L, Quiet(u))
<1>1. L.base # NoSeq /\ RxOK(t, L) /\ TxOK(t, L)
  BY DEF Stream, Virgin
<1>2. RxOK(u, L) /\ Place(u, L) = Place(t, L) /\ Place(t, L) \in Nat
  BY <1>1, DroppedRx, PlaceType
<1>3. TxOK(u, L) /\ (Writable(u) <=> Writable(t))
  <2>1. SynState(u) <=> SynState(t)
    BY DEF SynState
  <2> QED BY <1>1, <2>1, SameTx DEF Writable
<1>4. Quiet(u).tcb = u /\ Told(u, L, Quiet(u).out)
  BY DEF Quiet, Step, Told
<1> QED BY <1>1, <1>2, <1>3, <1>4 DEF Right, Stream, Follows

\* close.
LEMMA CloseRight ==
    ASSUME NEW t, Done(t), NEW L, Fits(L), Stream(t, L)
    PROVE  Right(t, L, close(t))
<1> DEFINE c == [t EXCEPT !.user_open = FALSE, !.discard_rx = TRUE, !.rx = <<>>]
<1>1. t \in TcbRec /\ Sized(t)
  BY DoneTypes
<1>2. c \in TcbRec
  <2>1. <<>> \in Seq(Datum)
    OBVIOUS
  <2> QED BY <1>1, <2>1 DEF TcbRec
<1>3. /\ c.state = t.state /\ c.iss = t.iss /\ c.una = t.una /\ c.nxt = t.nxt /\ c.max = t.max /\ c.tx = t.tx
      /\ c.ooo = t.ooo /\ c.retries = t.retries /\ c.fin_seq = t.fin_seq /\ c.fin_acked = t.fin_acked
      /\ c.rcv_nxt = t.rcv_nxt /\ c.fin_received = t.fin_received /\ c.rx_fin_seq = t.rx_fin_seq
      /\ c.discard_rx /\ ~c.user_open /\ c.rx = <<>>
  BY <1>1 DEF TcbRec
<1>4. Dropped(t, c)
  BY <1>3 DEF Dropped
<1>5. CASE t.state \in {"SynSent", "SynReceived", "Closed"}
  <2>1. close(t) = abort(c)
    BY <1>5 DEF close
  <2> HIDE DEF c
  <2> QED BY <1>1, <1>2, <1>3, <1>4, <2>1, AbortRight
<1>6. CASE t.state \in {"Established", "CloseWait"}
  <2>1. close(t) = shutdown_write(c)
    BY <1>6 DEF close
  <2> HIDE DEF c
  <2>2. Core(t) /\ Settled(t)
    BY <1>6 DEF Done, Ended
  <2>3. rcv_wnd(c) = RxCap /\ rcv_wnd(t) \in Window
    BY <1>1, <1>3, FieldTypes DEF rcv_wnd
  <2>4. rcv_wnd(c) >= rcv_wnd(t) /\ Len(c.rx) <= RxCap
    BY <1>3, <2>3, SpaceFacts DEF Window
  <2> QED BY <1>2, <1>3, <1>4, <1>6, <2>1, <2>2, <2>4, ShutdownRight
<1>7. CASE t.state = "FinWait2"
  <2> DEFINE u == [c EXCEPT !.close_dl = TRUE]
  <2>1. close(t) = Quiet(u)
    BY <1>7 DEF close
  <2> HIDE DEF c
  <2>2. /\ u.state = t.state /\ u.iss = t.iss /\ u.una = t.una /\ u.tx = t.tx /\ u.fin_acked = t.fin_acked
        /\ u.rcv_nxt = t.rcv_nxt /\ u.fin_received = t.fin_received /\ u.rx_fin_seq = t.rx_fin_seq
        /\ u.ooo = t.ooo /\ u.discard_rx /\ u.rx = <<>>
    BY <1>2, <1>3 DEF TcbRec
  <2> HIDE DEF u
  <2>3. Dropped(t, u)
    BY <2>2 DEF Dropped
  <2> QED BY <1>1, <1>7, <2>1, <2>2, <2>3, DropRight
<1>8. CASE t.state \in {"FinWait1", "Closing", "LastAck", "TimeWait"}
  <2>1. close(t) = Quiet(c)
    BY <1>8 DEF close
  <2> HIDE DEF c
  <2> QED BY <1>1, <1>3, <1>4, <1>8, <2>1, DropRight
<1>9. t.state \in States
  BY <1>1 DEF TcbRec
<1> QED BY <1>5, <1>6, <1>7, <1>8, <1>9 DEF States

\* close_timer, notify_unreachable and the loss of the interface.
LEMMA EndingRight ==
    ASSUME NEW t, Done(t), NEW L, Fits(L), Stream(t, L)
    PROVE  /\ Right(t, L, Quiet(close_timer(t))) /\ Right(t, L, Quiet(on_unreachable(t)))
           /\ Right(t, L, Quiet(fail(t)))
<1>1. t \in TcbRec
  BY DoneTypes
<1>2. Right(t, L, Quiet(t))
  <2>1. Alike(t, t) /\ \A i \in DOMAIN << >> : "RST" \in << >>[i].flags
    BY DEF Alike
  <2> QED BY <1>1, <2>1, QuietRight
<1>3. \A err : Right(t, L, Quiet(set_closed(t, err)))
  BY <1>1, EndRight
<1> QED BY <1>2, <1>3 DEF close_timer, on_unreachable, fail

\* The retransmission timer.
LEMMA RtoRight ==
    ASSUME NEW t, Done(t), t.rto, NEW L, Fits(L), Stream(t, L)
    PROVE  Right(t, L, rto_timer(t))
<1> DEFINE persist == t.wnd = 0 /\ t.una = t.max /\ t.tx # <<>>
           tries == IF persist THEN t.retries ELSE t.retries + 1
           t1 == [t EXCEPT !.rto = FALSE, !.retries = tries, !.dupacks = 0]
           q == Resend(t1)
           again == q.tcb.rto \/ q.tcb.una # q.tcb.max \/ persist
           u == [q.tcb EXCEPT !.rto = again]
           r == rto_timer(t)
<1>1. Core(t) /\ Settled(t) /\ t \in TcbRec
  BY DEF Done, Ended, Core
<1>2. tries \in Nat /\ MaxRetries \in Nat
  <2>1. t.retries \in Nat
    BY <1>1 DEF TcbRec
  <2> QED BY <2>1, LimitAssumption
<1>3. r = IF tries > MaxRetries THEN Quiet(set_closed(t1, "TimedOut")) ELSE Step(u, q.out)
  BY DEF rto_timer, Rearmed
<1> HIDE DEF persist, tries, r
<1>4. t1 \in TcbRec
  <2>1. 0 \in Dups
    BY DEF Dups
  <2> QED BY <1>1, <1>2, <2>1 DEF TcbRec
<1>5. Same(t, t1) /\ Alike(t, t1) /\ t1.retries = tries /\ t1.close_dl = t.close_dl
  BY <1>1 DEF TcbRec, Same, Alike
<1> HIDE DEF t1
<1>6. Stream(t1, L)
  BY <1>1, <1>5, AlikeStream
<1>7. ASSUME Right(t1, L, q), q.tcb \in TcbRec PROVE Right(t, L, Step(u, q.out))
  <2> HIDE DEF q, again
  <2>1. Alike(q.tcb, u)
    BY <1>7 DEF Alike, TcbRec
  <2> HIDE DEF u
  <2>2. Stream(u, L) /\ Told(u, L, q.out)
    BY <1>7, <2>1, AlikeStream DEF Right
  <2>3. Follows(t1, L, u)
    <3>1. Place(u, L) = Place(q.tcb, L) /\ (Writable(u) <=> Writable(q.tcb)) /\ u.iss = q.tcb.iss
      BY <2>1 DEF Alike, Place, Writable
    <3> QED BY <1>7, <3>1 DEF Right, Follows
  <2>4. Right(t1, L, Step(u, q.out))
    BY <2>2, <2>3 DEF Right, Step
  <2> QED BY <1>1, <1>5, <2>4, AlikeRight
<1>8. CASE tries > MaxRetries
  <2>1. Right(t1, L, Quiet(set_closed(t1, "TimedOut")))
    BY <1>4, <1>6, EndRight
  <2> QED BY <1>1, <1>3, <1>5, <1>8, <2>1, AlikeRight DEF r
<1>9. CASE ~(tries > MaxRetries) /\ SynState(t)
  <2>1. q = send_syn(t1) /\ SynState(t1)
    <3>1. t1.state \in {"SynSent", "SynReceived"} /\ ~can_send_data(t1)
      BY <1>5, <1>9 DEF SynState, Same, can_send_data
    <3> QED BY <3>1, Zenon DEF Resend, SynState
  <2> HIDE DEF q, u
  <2>2. Right(t1, L, q) /\ q.tcb \in TcbRec
    BY <1>4, <1>6, <2>1, SendSynRight, SendSynKeeps
  <2> QED BY <1>3, <1>7, <1>9, <2>2 DEF r
<1>10. CASE ~(tries > MaxRetries) /\ can_send_data(t)
  <2> DEFINE v == [t1 EXCEPT !.nxt = t1.una]
  <2>1. synchronized(t) /\ ~SynState(t)
    BY <1>1, <1>10, NotBoth
  <2>2. t1.una \in Seq32
    BY <1>4, FieldTypes
  <2>3. v \in TcbRec
    BY <1>4, <2>2 DEF TcbRec
  <2>4. /\ v.nxt = v.una /\ v.state = t.state /\ v.una = t.una /\ v.max = t.max /\ v.iss = t.iss
        /\ v.tx = t.tx /\ v.fin_pending = t.fin_pending /\ v.fin_seq = t.fin_seq /\ v.fin_acked = t.fin_acked
        /\ v.rcv_nxt = t.rcv_nxt /\ v.rx = t.rx /\ v.ooo = t.ooo
        /\ v.fin_received = t.fin_received /\ v.discard_rx = t.discard_rx
        /\ v.user_open = t.user_open /\ v.close_dl = t.close_dl /\ v.retries = tries
    BY <1>4, <1>5 DEF TcbRec, Same
  <2>5. Alike(t1, v)
    BY <1>4 DEF TcbRec, Alike
  <2>6. q = output(v, FALSE, TRUE)
    BY <1>5, <1>10, <2>1 DEF Resend, SynState, Same, can_send_data
  <2> HIDE DEF v
  <2>7. v.retries <= MaxRetries
    BY <1>2, <1>10, <2>4
  <2>8. Core(v) /\ Settled(v) /\ synchronized(v)
    <3>1. synchronized(v)
      BY <2>1, <2>4 DEF synchronized
    <3> QED BY <1>1, <2>1, <2>3, <2>4, <2>7, <3>1, Rewound
  <2>9. Stream(v, L)
    BY <1>4, <1>6, <2>5, AlikeStream
  <2>10. FALSE \in BOOLEAN /\ TRUE \in BOOLEAN
    OBVIOUS
  <2>11. Right(v, L, output(v, FALSE, TRUE))
    BY <2>4, <2>8, <2>9, <2>10, OutputRight
  <2>12. Core(output(v, FALSE, TRUE).tcb)
    BY <2>4, <2>8, <2>10, OutputKeeps
  <2> HIDE DEF q, u
  <2>13. Right(t1, L, q) /\ q.tcb \in TcbRec
    BY <1>4, <2>5, <2>6, <2>11, <2>12, AlikeRight DEF Core
  <2> QED BY <1>3, <1>7, <1>10, <2>13 DEF r
<1>11. CASE ~(tries > MaxRetries) /\ ~SynState(t) /\ ~can_send_data(t)
  <2>1. q = Quiet(t1)
    BY <1>5, <1>11 DEF Resend, SynState, Same, can_send_data
  <2>2. Alike(t1, t1) /\ \A i \in DOMAIN << >> : "RST" \in << >>[i].flags
    BY DEF Alike
  <2>3. Right(t1, L, Quiet(t1)) /\ Quiet(t1).tcb = t1
    BY <1>4, <1>6, <2>2, QuietRight DEF Quiet, Step
  <2> HIDE DEF q, u
  <2> QED BY <1>3, <1>4, <1>7, <1>11, <2>1, <2>3 DEF r
<1> QED BY <1>8, <1>9, <1>10, <1>11

----------------------------------------------------------------------------
(* Acknowledgements. *)

\* Where an acknowledgement of something new lies in the block's own stream, and whether it
\* covers the FIN.
LEMMA AckReaches ==
    ASSUME NEW t, Core(t), synchronized(t), NEW L, Fits(L), TxOK(t, L),
           NEW ack \in Seq32, SeqGt(ack, t.una), ~SeqGt(ack, t.max)
    PROVE  LET d == Minus(ack, t.una)
           IN  /\ ~t.fin_acked /\ d \in 1 .. Len(t.tx) + 1 /\ Minus(ack, t.iss) = Front(t) + d
               /\ (t.fin_seq # NoSeq /\ ack = Plus(t.fin_seq, 1)) <=> d = Len(t.tx) + 1
<1> DEFINE d == Minus(ack, t.una)
           n == Len(t.tx)
           f == Front(t)
<1>1. /\ t \in TcbRec /\ SndSync(t) /\ Top(t) \in Nat /\ Top(t) <= RxCap + 1 /\ Top(t) <= n + 1
      /\ t.una \in Seq32 /\ t.iss \in Seq32 /\ n \in Nat /\ t.fin_seq \in Seq32 \cup {NoSeq}
  BY DistancesFrom, FieldTypes
<1>2. d \in Nat /\ d >= 1 /\ d <= Top(t)
  BY AckPlace
<1>3. /\ f \in Nat /\ Minus(t.una, t.iss) = f /\ f + Top(t) <= L.wrote + 2 /\ f >= 1
      /\ ~t.fin_acked => f + n = L.wrote + 1
  BY FrontPlace
<1>4. L.wrote \in Nat /\ L.wrote + RxCap + 1 < SeqSpace
  BY LedgerTypes
<1>5. ~t.fin_acked
  <2>1. t.fin_acked => Top(t) = 0
    BY <1>1 DEF SndSync
  <2> HIDE DEF d
  <2> QED BY <1>2, <2>1
<1>6. Minus(ack, t.iss) = f + d
  <2>1. f + d < SeqSpace
    <3> HIDE DEF d, f, n
    <3> QED BY <1>1, <1>2, <1>3, <1>4, SpaceFacts
  <2>2. Minus(t.una, t.iss) + Minus(ack, t.una) < SeqSpace => Minus(ack, t.iss) = Minus(t.una, t.iss) + Minus(ack, t.una)
    BY <1>1, WayOn
  <2> HIDE DEF f
  <2> QED BY <1>3, <2>1, <2>2
<1>7. n + 1 < SeqSpace
  <2> HIDE DEF f, n
  <2> QED BY <1>1, <1>3, <1>4, <1>5, SpaceFacts
<1>8. t.fin_seq # NoSeq => (ack = Plus(t.fin_seq, 1) <=> d = n + 1)
  <2> SUFFICES ASSUME t.fin_seq # NoSeq PROVE ack = Plus(t.fin_seq, 1) <=> d = n + 1
    OBVIOUS
  <2>1. t.fin_seq \in Seq32 /\ Minus(t.fin_seq, t.una) = n
    BY <1>1, <1>5 DEF SndSync
  <2>2. Minus(t.fin_seq, t.una) + 1 < SeqSpace /\ 1 \in Nat
    BY <1>7, <2>1
  <2>3. Plus(t.fin_seq, 1) \in Seq32 /\ Minus(Plus(t.fin_seq, 1), t.una) = Minus(t.fin_seq, t.una) + 1
    BY <1>1, <2>1, <2>2, StepOn
  <2>4. Minus(ack, t.una) = Minus(Plus(t.fin_seq, 1), t.una) <=> ack = Plus(t.fin_seq, 1)
    BY <1>1, <2>3, MinusFrom
  <2> HIDE DEF n
  <2> QED BY <2>1, <2>3, <2>4
<1>9. t.fin_seq = NoSeq => d <= n
  <2>1. t.fin_seq = NoSeq => Top(t) <= n
    BY <1>1 DEF SndSync
  <2> HIDE DEF d, n
  <2> QED BY <1>1, <1>2, <2>1
<1> HIDE DEF d, n, f
<1>10. d \in 1 .. n + 1 /\ (t.fin_seq = NoSeq => d # n + 1)
  BY <1>1, <1>2, <1>9
<1> QED BY <1>5, <1>6, <1>8, <1>10 DEF d, n, f

\* An acknowledgement of something new takes it off the front of the send buffer.
LEMMA NewAckRight ==
    ASSUME NEW t, Core(t), synchronized(t), NEW L, Fits(L), Stream(t, L),
           NEW ack \in Seq32, SeqGt(ack, t.una), ~SeqGt(ack, t.max)
    PROVE  Stream(NewAck(t, ack), L) /\ Follows(t, L, NewAck(t, ack))
<1> DEFINE u == NewAck(t, ack)
           d == Minus(ack, t.una)
           n == Len(t.tx)
           f == Front(t)
           w == L.wrote
<1>1. /\ t \in TcbRec /\ t.tx \in Seq(Datum) /\ n \in Nat /\ t.state # "Closed" /\ ~SynState(t) /\ TxOK(t, L)
  <2>1. t \in TcbRec
    BY DEF Core
  <2> QED BY <2>1, FieldTypes, NotBoth DEF Core, Stream
<1>2. /\ ~t.fin_acked /\ d \in 1 .. n + 1 /\ Minus(ack, t.iss) = f + d
      /\ (t.fin_seq # NoSeq /\ ack = Plus(t.fin_seq, 1)) <=> d = n + 1
  BY <1>1, AckReaches
<1>3. f \in Nat /\ f >= 1 /\ f + n = w + 1 /\ w \in Nat
  BY <1>1, <1>2, FrontPlace, LedgerTypes
<1>4. Core(u) /\ synchronized(u) /\ SendOnly(t, u) /\ u.una = ack
  BY NewAckKeeps
<1>5. /\ u.tx = SubSeq(t.tx, Least(d, n) + 1, n)
      /\ u.fin_acked = (t.fin_acked \/ (t.fin_seq # NoSeq /\ ack = Plus(t.fin_seq, 1)))
  BY <1>1 DEF NewAck, TcbRec
<1> HIDE DEF u
<1>6. u.iss = t.iss /\ u.state = t.state /\ u \in TcbRec
  BY <1>4 DEF SendOnly, Core
<1>7. Front(u) = f + d
  <2>1. ~SynState(u)
    BY <1>1, <1>6 DEF SynState
  <2> QED BY <1>2, <1>4, <1>6, <2>1 DEF Front
<1>8. Run(t.tx, L.own, f)
  BY <1>1 DEF TxOK
<1> HIDE DEF f, d, n, w
<1>9. f + d >= 1
  BY <1>2, <1>3, <1>1
<1>10. TxOK(u, L)
  <2>1. CASE d = n + 1
    <3>1. u.fin_acked
      BY <1>2, <1>5, <2>1
    <3>2. f + d = w + 2
      BY <1>1, <1>3, <2>1
    <3>3. Least(d, n) = n
      BY <1>1, <2>1 DEF Least
    <3>4. u.tx = <<>>
      <4>1. n + 1 \in Int /\ n \in Int /\ n + 1 >= 1 /\ n <= Len(t.tx)
        BY <1>1 DEF n
      <4>2. u.tx \in Seq(Datum) /\ Len(u.tx) = IF n + 1 <= n THEN n - (n + 1) + 1 ELSE 0
        BY <1>1, <1>5, <3>3, <4>1, SubSeqType
      <4>3. Len(u.tx) = 0
        BY <1>1, <4>2
      <4> QED BY <4>2, <4>3, EmptySeq
    <3>5. Run(u.tx, L.own, Front(u))
      BY <3>4, RunEmpty
    <3> QED BY <1>7, <1>9, <3>1, <3>2, <3>5 DEF TxOK, w
  <2>2. CASE d # n + 1
    <3>1. ~u.fin_acked
      BY <1>2, <1>5, <2>2
    <3>2. d \in Nat /\ d >= 1 /\ d <= n
      BY <1>1, <1>2, <2>2
    <3>3. Least(d, n) = d
      BY <1>1, <3>2 DEF Least
    <3>4. Run(u.tx, L.own, f + d) /\ Len(u.tx) = n - d
      <4>1. /\ d + 1 \in Int /\ Len(t.tx) \in Int /\ d + 1 >= 1 /\ Len(t.tx) <= Len(t.tx) /\ f \in Int
            /\ t.tx \in Seq(Datum) /\ Run(t.tx, L.own, f)
        BY <1>1, <1>3, <1>8, <3>2 DEF n
      <4>2. /\ Run(SubSeq(t.tx, d + 1, Len(t.tx)), L.own, f + (d + 1) - 1)
            /\ Len(SubSeq(t.tx, d + 1, Len(t.tx))) = IF d + 1 <= Len(t.tx) THEN Len(t.tx) - (d + 1) + 1 ELSE 0
        BY <4>1, RunPart
      <4>3. f + (d + 1) - 1 = f + d /\ (IF d + 1 <= n THEN n - (d + 1) + 1 ELSE 0) = n - d
        BY <1>1, <1>3, <3>2
      <4>4. u.tx = SubSeq(t.tx, d + 1, Len(t.tx))
        BY <1>5, <3>3 DEF n
      <4> QED BY <4>2, <4>3, <4>4 DEF n
    <3>5. (f + d) + (n - d) = w + 1
      BY <1>1, <1>3, <3>2
    <3> QED BY <1>7, <1>9, <3>1, <3>4, <3>5 DEF TxOK, w
  <2> QED BY <2>1, <2>2
<1>11. Place(u, L) = Place(t, L) /\ (L.base # NoSeq => Place(t, L) \in Nat)
  BY <1>1, <1>4, PlaceType DEF SendOnly, Place
<1>12. Stream(u, L)
  BY <1>4, <1>10, <1>11 DEF SendOnly, Stream, RxOK, Virgin
<1>13. Follows(t, L, u)
  BY <1>6, <1>11 DEF Follows, Writable
<1> QED BY <1>12, <1>13 DEF u

\* An acknowledgement of nothing new.
LEMMA DupAckRight ==
    ASSUME NEW t, Core(t), synchronized(t), NEW L, Fits(L), Stream(t, L), L.base # NoSeq, NEW h \in Segment
    PROVE  Right(t, L, DupAck(t, h))
<1> DEFINE dup == h.data = <<>> /\ "FIN" \notin h.flags /\ h.wnd = t.wnd /\ t.una # t.max
           t1 == [t EXCEPT !.dupacks = IF dup THEN Least(@ + 1, 4) ELSE @]
           q == IF dup /\ t1.dupacks = 3 THEN retransmit_first(t1) ELSE Quiet(t1)
           u == [q.tcb EXCEPT !.retries = IF h.wnd = 0 THEN 0 ELSE @]
<1>1. t \in TcbRec /\ SndSync(t) /\ t.una \in Seq32 /\ t.max \in Seq32
  BY DistancesFrom, FieldTypes
<1>2. DupAck(t, h).tcb = u /\ DupAck(t, h).out = q.out
  BY DEF DupAck, Step
<1>3. t1 \in TcbRec
  <2>1. t.dupacks \in 0 .. 4
    BY <1>1 DEF TcbRec, Dups
  <2>2. (IF dup THEN Least(t.dupacks + 1, 4) ELSE t.dupacks) \in Dups
    BY <2>1 DEF Dups, Least
  <2> HIDE DEF dup
  <2> QED BY <1>1, <2>2 DEF TcbRec
<1>4. Alike(t, t1) /\ Same(t, t1) /\ t1.retries = t.retries /\ t1.rto = t.rto /\ t1.close_dl = t.close_dl
  BY <1>1 DEF TcbRec, Alike, Same
<1> HIDE DEF t1
<1>5. Core(t1) /\ synchronized(t1)
  <2>1. DeadlineOK(t1)
    BY <1>4 DEF Core, DeadlineOK, SynState, Same
  <2>2. t1.retries <= MaxRetries
    BY <1>4 DEF Core, LifeOK
  <2> QED BY <1>3, <1>4, <2>1, <2>2, CoreSame DEF synchronized, Same
<1>6. Stream(t1, L)
  BY <1>1, <1>4, AlikeStream
<1>7. q.tcb \in TcbRec /\ Alike(t1, q.tcb) /\ Told(t1, L, q.out)
  <2>1. CASE dup /\ t1.dupacks = 3
    <3>1. q = retransmit_first(t1)
      BY <2>1
    <3>2. ~t1.fin_acked
      <4>1. Top(t) # 0
        <5>1. Minus(t.max, t.una) = Minus(t.una, t.una) <=> t.max = t.una
          BY <1>1, MinusFrom
        <5>2. Minus(t.una, t.una) = 0
          BY <1>1, MinusFrom
        <5> QED BY <2>1, <5>1, <5>2 DEF Top
      <4> QED BY <1>1, <1>4, <4>1 DEF SndSync, Same
    <3> HIDE DEF q
    <3> QED BY <1>3, <1>5, <1>6, <3>1, <3>2, RetransmitTells, RetransmitKeeps, SteadyAlike
  <2>2. CASE ~(dup /\ t1.dupacks = 3)
    <3>1. q.tcb = t1 /\ q.out = <<>>
      BY <2>2 DEF Quiet, Step
    <3> HIDE DEF q
    <3> QED BY <1>3, <3>1 DEF Alike, Told
  <2> QED BY <2>1, <2>2
<1> HIDE DEF q
<1>8. Alike(q.tcb, u)
  BY <1>7 DEF TcbRec, Alike
<1> HIDE DEF u
<1>9. Alike(t, u)
  BY <1>4, <1>7, <1>8 DEF Alike
<1>10. Told(u, L, q.out)
  <2>1. Alike(t1, u)
    BY <1>7, <1>8 DEF Alike
  <2> QED BY <1>3, <1>7, <2>1, AlikeStream
<1>11. Stream(u, L) /\ Follows(t, L, u)
  BY <1>1, <1>9, AlikeStream
<1> QED BY <1>2, <1>10, <1>11 DEF Right

\* The window field of a segment is not the ledger's business.
LEMMA WindowAlike ==
    ASSUME NEW t \in TcbRec, NEW h
    PROVE  Alike(t, WindowUpdate(t, h)) /\ WindowUpdate(t, h).una = t.una
<1>1. CASE WindowUpdate(t, h) = t
  BY <1>1 DEF Alike
<1>2. CASE WindowUpdate(t, h) = [t EXCEPT !.wnd = h.wnd, !.wl1 = h.seq, !.wl2 = h.ack]
  BY <1>2 DEF Alike, TcbRec
<1> QED BY <1>1, <1>2 DEF WindowUpdate

\* The acknowledgement field of a segment.
LEMMA AckArrivedRight ==
    ASSUME NEW t, Core(t), synchronized(t), NEW L, Fits(L), Stream(t, L), L.base # NoSeq,
           NEW h \in Segment, ~SeqGt(h.ack, t.max)
    PROVE  LET r == AckArrived(t, h)
           IN  Right(t, L, r) /\ (r.tcb.una = t.una \/ r.tcb.una = h.ack)
<1> DEFINE q == CASE SeqGt(h.ack, t.una) -> Quiet(NewAck(t, h.ack))
                  [] h.ack = t.una -> DupAck(t, h)
                  [] OTHER -> Quiet(t)
           u == WindowUpdate(q.tcb, h)
           r == AckArrived(t, h)
<1>1. r.tcb = u /\ r.out = q.out
  BY DEF AckArrived, Step
<1>2. t \in TcbRec /\ h.ack \in Seq32 /\ t.una \in Seq32
  <2>1. t \in TcbRec /\ h.ack \in Seq32
    BY DEF Core, Segment
  <2> QED BY <2>1, FieldTypes
<1>3. Right(t, L, q) /\ q.tcb \in TcbRec /\ (q.tcb.una = t.una \/ q.tcb.una = h.ack)
  <2>1. CASE SeqGt(h.ack, t.una)
    <3>1. h.ack # t.una
      <4>1. SUFFICES ASSUME h.ack = t.una PROVE FALSE
        OBVIOUS
      <4>2. Minus(t.una, t.una) = 0
        BY <1>2, MinusFrom
      <4> QED BY <2>1, <4>1, <4>2, SpaceFacts DEF SeqGt, SeqLt, Half
    <3>2. q = Quiet(NewAck(t, h.ack))
      BY <2>1, <3>1
    <3>3. Stream(NewAck(t, h.ack), L) /\ Follows(t, L, NewAck(t, h.ack)) /\ Core(NewAck(t, h.ack)) /\ NewAck(t, h.ack).una = h.ack
      BY <1>2, <2>1, NewAckRight, NewAckKeeps
    <3> HIDE DEF q
    <3>4. q.tcb = NewAck(t, h.ack) /\ q.out = <<>>
      BY <3>2 DEF Quiet, Step
    <3> QED BY <3>3, <3>4 DEF Right, Told, Core
  <2>2. CASE ~SeqGt(h.ack, t.una) /\ h.ack = t.una
    <3>1. q = DupAck(t, h)
      BY <2>2
    <3> HIDE DEF q
    <3> QED BY <3>1, DupAckRight, DupAckKeeps DEF Core
  <2>3. CASE ~SeqGt(h.ack, t.una) /\ h.ack # t.una
    <3>1. q = Quiet(t)
      BY <2>3
    <3>2. Alike(t, t) /\ \A i \in DOMAIN << >> : "RST" \in << >>[i].flags
      BY DEF Alike
    <3> HIDE DEF q
    <3>3. q.tcb = t
      BY <3>1 DEF Quiet, Step
    <3> QED BY <1>2, <3>1, <3>2, <3>3, QuietRight
  <2> QED BY <2>1, <2>2, <2>3
<1> HIDE DEF q
<1>4. Alike(q.tcb, u) /\ u.una = q.tcb.una
  BY <1>3, WindowAlike
<1> HIDE DEF u, r
<1>5. Stream(u, L) /\ Told(u, L, q.out)
  BY <1>3, <1>4, AlikeStream DEF Right
<1>6. Follows(t, L, u)
  <2>1. Place(u, L) = Place(q.tcb, L) /\ (Writable(u) <=> Writable(q.tcb)) /\ u.iss = q.tcb.iss
    BY <1>4 DEF Alike, Place, Writable
  <2> QED BY <1>3, <2>1 DEF Right, Follows
<1> QED BY <1>1, <1>3, <1>4, <1>5, <1>6 DEF Right, r

----------------------------------------------------------------------------
(* Reassembly: every byte goes where its number says. *)

\* How far into a stretch of the stream, starting at seq, the next number expected lies.
LEMMA WithinStretch ==
    ASSUME NEW t \in TcbRec, NEW L, Fits(L), L.base # NoSeq, NEW seq \in Seq32, NEW n \in Nat,
           Minus(seq, L.base) + n <= L.limit + 1, Minus(t.rcv_nxt, seq) < n
    PROVE  Place(t, L) = Minus(seq, L.base) + Minus(t.rcv_nxt, seq)
<1> DEFINE s == Minus(seq, L.base)
           k == Minus(t.rcv_nxt, seq)
<1>1. t.rcv_nxt \in Seq32 /\ L.base \in Seq32 /\ L.limit \in Nat /\ L.limit + RxCap + 1 < SeqSpace
  BY FieldTypes, LedgerTypes
<1>2. s \in Nat /\ k \in Nat /\ (s + k < SeqSpace => Minus(t.rcv_nxt, L.base) = s + k)
  BY <1>1, WayOn
<1> HIDE DEF s, k
<1>3. s + n <= L.limit + 1 /\ k < n
  BY DEF s, k
<1>4. s + k < SeqSpace
  BY <1>1, <1>2, <1>3, SpaceFacts
<1> QED BY <1>2, <1>4 DEF Place, s, k

\* push_rx of the bytes that come next.
LEMMA PushRight ==
    ASSUME NEW t \in TcbRec, ~t.fin_received, NEW L, Fits(L), L.base # NoSeq, RxOK(t, L),
           NEW data \in Seq(Datum), Run(data, L.peer, Place(t, L)), Place(t, L) + Len(data) <= L.limit + 1
    PROVE  LET u == push_rx(t, data) IN RxOK(u, L)
<1> DEFINE u == push_rx(t, data)
           n == Len(data)
           r == Place(t, L)
           k == Len(L.read)
           m == Len(t.rx)
<1>1. /\ t.rcv_nxt \in Seq32 /\ t.rx \in Seq(Datum) /\ L.base \in Seq32 /\ n \in Nat /\ k \in Nat /\ m \in Nat
      /\ r \in Nat /\ L.limit \in Nat /\ L.limit + RxCap + 1 < SeqSpace
  BY FieldTypes, LedgerTypes, LenProperties, PlaceType
<1>2. /\ u.rx = (IF t.discard_rx THEN t.rx ELSE t.rx \o data) /\ u.rcv_nxt = Plus(t.rcv_nxt, n)
      /\ u.state = t.state /\ u.ooo = t.ooo /\ u.rx_fin_seq = t.rx_fin_seq
      /\ u.fin_received = t.fin_received /\ u.discard_rx = t.discard_rx
  BY DEF push_rx, TcbRec
<1> HIDE DEF u
<1>3. Place(u, L) = r + n
  <2>1. r + n < SeqSpace
    <3>1. r + n <= L.limit + 1
      OBVIOUS
    <3> HIDE DEF r, n
    <3> QED BY <1>1, <3>1, SpaceFacts
  <2>2. Minus(Plus(t.rcv_nxt, n), L.base) = Minus(t.rcv_nxt, L.base) + n
    <3> HIDE DEF n
    <3> QED BY <1>1, <2>1, StepOn DEF r, Place
  <2> QED BY <1>2, <2>2 DEF Place
<1>4. r >= 1 /\ Run(t.rx, L.peer, k + 1) /\ (~t.discard_rx => r = k + m + 1)
  BY DEF RxOK
<1>5. Run(u.rx, L.peer, k + 1) /\ (~t.discard_rx => Len(u.rx) = m + n)
  <2>1. CASE t.discard_rx
    BY <1>2, <1>4, <2>1
  <2>2. CASE ~t.discard_rx
    <3>1. u.rx = t.rx \o data
      BY <1>2, <2>2
    <3>2. r = (k + 1) + m /\ k + 1 \in Int
      <4> HIDE DEF r, k, m
      <4> QED BY <1>1, <1>4, <2>2
    <3>3. Run(data, L.peer, (k + 1) + Len(t.rx)) /\ Run(t.rx, L.peer, k + 1)
      BY <1>4, <3>2
    <3> HIDE DEF k
    <3>4. Run(t.rx \o data, L.peer, k + 1) /\ Len(t.rx \o data) = Len(t.rx) + Len(data)
      BY <1>1, <3>2, <3>3, RunConcat
    <3> QED BY <3>1, <3>4
  <2> QED BY <2>1, <2>2
<1>6. r + n >= 1 /\ r + n <= L.limit + 1
  <2>1. r + n <= L.limit + 1
    OBVIOUS
  <2> HIDE DEF r, n
  <2> QED BY <1>1, <1>4, <2>1
<1>7. ~u.discard_rx => Place(u, L) = k + Len(u.rx) + 1
  <2>1. SUFFICES ASSUME ~t.discard_rx PROVE Place(u, L) = k + Len(u.rx) + 1
    BY <1>2
  <2>2. r = k + m + 1 /\ Len(u.rx) = m + n
    BY <1>4, <1>5, <2>1
  <2> HIDE DEF r, n, k, m
  <2>3. r + n = k + (m + n) + 1
    BY <1>1, <2>2
  <2> QED BY <1>3, <2>2, <2>3
<1>8. \A i \in DOMAIN u.ooo : HeldOK(u.ooo[i], L)
  BY <1>2 DEF RxOK
<1>9. u.state # "SynSent" /\ Run(L.read, L.peer, 1) /\ (u.rx_fin_seq # NoSeq => Minus(u.rx_fin_seq, L.base) \in L.ends)
  BY <1>2 DEF RxOK
<1>10. ~u.fin_received
  BY <1>2
<1> HIDE DEF r, n
<1>11. RxOK(u, L)
  BY <1>3, <1>5, <1>6, <1>7, <1>8, <1>9, <1>10 DEF RxOK
<1> QED BY <1>11 DEF u

\* The rest of a stretch, from the next number expected.
LEMMA RestRuns ==
    ASSUME NEW t \in TcbRec, NEW L, Fits(L), L.base # NoSeq, NEW seq \in Seq32, NEW data \in Seq(Datum),
           Run(data, L.peer, Minus(seq, L.base)), Minus(seq, L.base) + Len(data) <= L.limit + 1,
           Minus(t.rcv_nxt, seq) < Len(data), NEW e \in Int, e <= Len(data)
    PROVE  LET part == SubSeq(data, Minus(t.rcv_nxt, seq) + 1, e)
           IN  /\ part \in Seq(Datum) /\ Run(part, L.peer, Place(t, L))
               /\ Place(t, L) + Len(part) <= L.limit + 1
<1> DEFINE k == Minus(t.rcv_nxt, seq)
           s == Minus(seq, L.base)
           n == Len(data)
           part == SubSeq(data, k + 1, e)
<1>1. t.rcv_nxt \in Seq32 /\ L.base \in Seq32 /\ L.limit \in Nat /\ n \in Nat
  BY FieldTypes, LedgerTypes, LenProperties
<1>2. s \in Nat /\ k \in Nat
  BY <1>1, WayOn
<1>3. Place(t, L) = s + k
  BY <1>1, WithinStretch
<1>4. s + n <= L.limit + 1 /\ k < n /\ e <= n /\ Run(data, L.peer, s)
  OBVIOUS
<1> HIDE DEF k, s
<1>5. /\ part \in Seq(Datum) /\ Run(part, L.peer, s + (k + 1) - 1)
      /\ Len(part) = IF k + 1 <= e THEN e - (k + 1) + 1 ELSE 0
  <2>1. s \in Int /\ k + 1 \in Int /\ k + 1 >= 1
    BY <1>2
  <2> QED BY <1>4, <2>1, RunPart
<1> HIDE DEF n, part
<1>6. s + (k + 1) - 1 = s + k /\ s + n <= L.limit + 1 /\ k < n /\ e <= n
  BY <1>2, <1>4
<1>7. (s + k) + (IF k + 1 <= e THEN e - (k + 1) + 1 ELSE 0) <= L.limit + 1
  BY <1>1, <1>2, <1>6
<1> QED BY <1>3, <1>5, <1>6, <1>7 DEF part, k, s

\* A round of drain_ooo.
LEMMA DrainOneRight ==
    ASSUME NEW t \in TcbRec, ~t.fin_received, NEW L, Fits(L), L.base # NoSeq, RxOK(t, L)
    PROVE  RxOK(DrainOne(t), L) /\ ~DrainOne(t).fin_received
<1>1. CASE Ready(t) = {}
  BY <1>1 DEF DrainOne, Ready
<1>2. CASE Ready(t) # {}
  <2> DEFINE i == CHOOSE j \in Ready(t) : \A k \in Ready(t) : j <= k
             skip == Minus(t.rcv_nxt, t.ooo[i].seq)
             v == [t EXCEPT !.ooo = SwapRemove(@, i)]
             rest == SubSeq(t.ooo[i].data, skip + 1, Len(t.ooo[i].data))
  <2>1. t.ooo \in Seq(HeldSeg)
    BY FieldTypes
  <2>2. i \in Ready(t)
    <3>1. Ready(t) \in SUBSET Nat
      BY <2>1, LenProperties DEF Ready
    <3>2. \E j \in Ready(t) : \A k \in Ready(t) : j <= k
      BY <1>2, <3>1, LeastExists
    <3> QED BY <3>2
  <2>3. DrainOne(t) = IF skip < Len(t.ooo[i].data) THEN push_rx(v, rest) ELSE v
    BY <1>2 DEF DrainOne, Ready
  <2> HIDE DEF i
  <2>4. i \in DOMAIN t.ooo
    BY <2>2 DEF Ready
  <2>5. t.ooo[i].seq \in Seq32 /\ t.ooo[i].data \in Seq(Datum) /\ Len(t.ooo[i].data) \in Int
    <3>1. t.ooo[i] \in HeldSeg
      BY <2>1, <2>4, ElementOfSeq, LenProperties
    <3> QED BY <3>1, LenProperties DEF HeldSeg
  <2>6. HeldOK(t.ooo[i], L)
    BY <2>4 DEF RxOK
  <2>7. /\ SwapRemove(t.ooo, i) \in Seq(HeldSeg)
        /\ \A j \in DOMAIN SwapRemove(t.ooo, i) : \E k \in DOMAIN t.ooo : SwapRemove(t.ooo, i)[j] = t.ooo[k]
    BY <2>1, <2>4, SwapRemoveKeeps
  <2>8. v \in TcbRec /\ v.ooo = SwapRemove(t.ooo, i)
    BY <2>7 DEF TcbRec
  <2>9. /\ v.state = t.state /\ v.rcv_nxt = t.rcv_nxt /\ v.rx = t.rx /\ v.rx_fin_seq = t.rx_fin_seq
        /\ v.fin_received = t.fin_received /\ v.discard_rx = t.discard_rx
    BY DEF TcbRec
  <2> HIDE DEF v
  <2>10. RxOK(v, L) /\ Place(v, L) = Place(t, L)
    <3>1. Place(v, L) = Place(t, L)
      BY <2>9 DEF Place
    <3>2. \A j \in DOMAIN v.ooo : HeldOK(v.ooo[j], L)
      BY <2>7, <2>8 DEF RxOK
    <3> QED BY <2>9, <3>1, <3>2 DEF RxOK
  <2>11. CASE ~(skip < Len(t.ooo[i].data))
    BY <2>3, <2>9, <2>10, <2>11
  <2>12. CASE skip < Len(t.ooo[i].data)
    <3>1. /\ Run(t.ooo[i].data, L.peer, Minus(t.ooo[i].seq, L.base))
          /\ Minus(t.ooo[i].seq, L.base) + Len(t.ooo[i].data) <= L.limit + 1
          /\ Len(t.ooo[i].data) <= Len(t.ooo[i].data)
      BY <2>5, <2>6 DEF HeldOK
    <3>2. rest \in Seq(Datum) /\ Run(rest, L.peer, Place(t, L)) /\ Place(t, L) + Len(rest) <= L.limit + 1
      BY <2>5, <2>12, <3>1, RestRuns
    <3> HIDE DEF rest, skip
    <3>3. RxOK(push_rx(v, rest), L)
      BY <2>8, <2>9, <2>10, <3>2, PushRight
    <3>4. ~push_rx(v, rest).fin_received
      BY <2>8, <2>9 DEF push_rx, TcbRec
    <3> QED BY <2>3, <2>12, <3>3, <3>4
  <2> QED BY <2>11, <2>12
<1> QED BY <1>1, <1>2

\* drain_ooo.
LEMMA DrainRight ==
    ASSUME NEW t \in TcbRec, NEW u, Filling(t, u), ~u.fin_received, NEW L, Fits(L), L.base # NoSeq, RxOK(u, L)
    PROVE  RxOK(drain_ooo(u), L)
<1> DEFINE n == Len(u.ooo)
           f == CHOOSE g : Rounds(u, g, n)
<1>1. n \in Nat
  BY FieldTypes DEF Filling
<1>2. drain_ooo(u) = f[n]
  BY DEF drain_ooo, Rounds
<1>3. Rounds(u, f, n)
  BY <1>1, RoundsExist
<1> HIDE DEF f
<1> DEFINE At(k) == Filling(t, f[k]) /\ RxOK(f[k], L) /\ ~f[k].fin_received
           T == {k \in 0 .. n : At(k)}
<1>4. 0 \in T
  <2>1. f[0] = u /\ 0 \in 0 .. n
    BY <1>1, <1>3 DEF Rounds
  <2> QED BY <2>1
<1>5. ASSUME NEW k \in 0 .. n - 1, k \in T PROVE k + 1 \in T
  <2>1. k + 1 \in 0 .. n /\ k + 1 # 0 /\ (k + 1) - 1 = k
    BY <1>1
  <2>2. f[k + 1] = DrainOne(f[k])
    BY <1>3, <2>1 DEF Rounds
  <2> DEFINE a == f[k]
  <2>3. Filling(t, a) /\ RxOK(a, L) /\ ~a.fin_received /\ a \in TcbRec
    BY <1>5 DEF Filling
  <2> HIDE DEF a
  <2>4. Filling(t, DrainOne(a)) /\ RxOK(DrainOne(a), L) /\ ~DrainOne(a).fin_received
    BY <2>3, DrainOneFills, DrainOneRight
  <2>5. At(k + 1)
    BY <2>2, <2>4 DEF a
  <2> HIDE DEF At
  <2> QED BY <2>1, <2>5
<1>6. At(n)
  <2>1. \A k \in 0 .. n : k \in T
    <3> HIDE DEF T, n
    <3> QED BY <1>1, <1>4, <1>5, UpTo
  <2>2. n \in 0 .. n
    BY <1>1
  <2> QED BY <2>1, <2>2
<1> QED BY <1>2, <1>6

\* accept_data of a stretch of the peer's stream.
LEMMA AcceptRight ==
    ASSUME NEW t \in TcbRec, Sized(t), RcvOK(t), Receiving(t), ~t.fin_received,
           NEW L, Fits(L), L.base # NoSeq, RxOK(t, L), NEW seq \in Seq32, NEW data \in Seq(Datum),
           Run(data, L.peer, Minus(seq, L.base)), Minus(seq, L.base) + Len(data) <= L.limit + 1
    PROVE  RxOK(accept_data(t, seq, data), L)
<1> DEFINE skip == IF SeqLt(seq, t.rcv_nxt) THEN Minus(t.rcv_nxt, seq) ELSE 0
           start == IF skip > 0 THEN t.rcv_nxt ELSE seq
           off == Minus(start, t.rcv_nxt)
           room == rcv_wnd(t) - off
           end == Least(Len(data), skip + room)
           part == SubSeq(data, skip + 1, end)
           u == accept_data(t, seq, data)
           held == [t EXCEPT !.ooo = Append(@, [seq |-> start, data |-> part])]
           s == Minus(seq, L.base)
<1>1. /\ t.rcv_nxt \in Seq32 /\ Len(data) \in Nat /\ Len(t.rx) <= RxCap /\ L.base \in Seq32 /\ L.limit \in Nat
      /\ rcv_wnd(t) \in Nat /\ rcv_wnd(t) <= RxCap /\ t.ooo \in Seq(HeldSeg)
  BY FieldTypes, LedgerTypes, LenProperties, WindowIs DEF Sized
<1>2. Minus(t.rcv_nxt, seq) \in Nat /\ Minus(seq, seq) = 0 /\ s \in Nat
  BY <1>1, WayOn
<1>3. skip \in Nat /\ start \in Seq32
  BY <1>1, <1>2
<1>4. off \in Nat /\ (start = t.rcv_nxt => off = 0)
  <2> HIDE DEF start
  <2> QED BY <1>1, <1>3, WayOn
<1>5. (start = t.rcv_nxt => skip = Minus(t.rcv_nxt, seq)) /\ (start # t.rcv_nxt => skip = 0 /\ start = seq)
  BY <1>2, <1>3
<1> HIDE DEF skip, start, off
<1>6. CASE skip >= Len(data) \/ room <= 0
  <2>1. u = t
    BY <1>6 DEF accept_data, skip, start, off
  <2> QED BY <2>1
<1>7. CASE ~(skip >= Len(data) \/ room <= 0)
  <2>1. /\ room \in Nat /\ end \in Nat /\ end <= Len(data) /\ end <= skip + room /\ skip + 1 <= end /\ skip < Len(data)
    <3>1. room \in Nat /\ room >= 1 /\ skip < Len(data)
      BY <1>1, <1>3, <1>4, <1>7
    <3> HIDE DEF room
    <3> QED BY <1>1, <1>3, <3>1 DEF Least
  <2>2. \/ start = t.rcv_nxt /\ u = drain_ooo(push_rx(t, part))
        \/ start # t.rcv_nxt /\ (u = t \/ u = held)
    BY <1>7 DEF accept_data, skip, start, off
  <2> HIDE DEF u, end, room
  <2>3. part \in Seq(Datum) /\ Len(part) = end - skip
    <3>1. skip + 1 \in Int /\ end \in Int /\ skip + 1 >= 1
      BY <1>3, <2>1
    <3>2. part \in Seq(Datum) /\ Len(part) = end - (skip + 1) + 1
      BY <2>1, <3>1, SubSeqType
    <3> HIDE DEF part
    <3> QED BY <1>3, <2>1, <3>2
  <2>4. CASE start = t.rcv_nxt /\ u = drain_ooo(push_rx(t, part))
    <3> DEFINE v == push_rx(t, part)
    <3>1. Run(part, L.peer, Place(t, L)) /\ Place(t, L) + Len(part) <= L.limit + 1
      <4>1. skip = Minus(t.rcv_nxt, seq) /\ Minus(t.rcv_nxt, seq) < Len(data) /\ end \in Int /\ end <= Len(data)
        BY <1>5, <2>1, <2>4
      <4>2. part = SubSeq(data, Minus(t.rcv_nxt, seq) + 1, end)
        BY <4>1
      <4> HIDE DEF part
      <4> QED BY <4>1, <4>2, RestRuns
    <3> HIDE DEF part
    <3>2. RxOK(v, L)
      BY <2>3, <3>1, PushRight
    <3>3. Ahead(t, t) = 0 /\ Filling(t, t)
      BY AcceptedSelf, FillingSelf
    <3>4. Ahead(t, t) + Len(part) <= rcv_wnd(t)
      <4>1. room = rcv_wnd(t)
        BY <1>1, <1>4, <2>4 DEF room
      <4> QED BY <1>1, <1>3, <2>1, <2>3, <3>3, <4>1
    <3>5. Filling(t, v)
      BY <2>3, <3>3, <3>4, PushFills
    <3>6. ~v.fin_received
      BY DEF push_rx, TcbRec
    <3> HIDE DEF v
    <3>7. RxOK(drain_ooo(v), L)
      BY <3>2, <3>5, <3>6, DrainRight
    <3> QED BY <2>4, <3>7 DEF u, v
  <2>5. CASE u = t
    BY <2>5 DEF u
  <2>6. CASE start # t.rcv_nxt /\ u = held
    <3> DEFINE e == [seq |-> start, data |-> part]
               more == Append(t.ooo, e)
    <3>1. e \in HeldSeg /\ e.seq = seq /\ e.data = part
      BY <1>3, <1>5, <2>3, <2>6 DEF HeldSeg
    <3>2. HeldOK(e, L)
      <4>1. skip = 0 /\ 1 \in Int /\ end \in Int /\ s \in Int /\ 1 >= 1
        BY <1>2, <1>5, <2>1, <2>6
      <4>2. part = SubSeq(data, 1, end)
        BY <4>1
      <4>3. Run(data, L.peer, s)
        OBVIOUS
      <4> HIDE DEF part, s
      <4>4. Run(part, L.peer, s + 1 - 1)
        BY <2>1, <4>1, <4>2, <4>3, RunPart
      <4>5. s + 1 - 1 = s /\ s + Len(data) <= L.limit + 1
        BY <4>1 DEF s
      <4>6. s + Len(part) <= L.limit + 1
        BY <1>1, <1>2, <2>1, <2>3, <4>1, <4>5
      <4>7. s = Minus(e.seq, L.base) /\ Run(e.data, L.peer, s) /\ s + Len(e.data) <= L.limit + 1
        BY <3>1, <4>4, <4>5, <4>6 DEF s
      <4> HIDE DEF e
      <4> QED BY <4>7 DEF HeldOK
    <3> HIDE DEF e
    <3>3. /\ more \in Seq(HeldSeg) /\ Len(more) = Len(t.ooo) + 1
          /\ \A i \in 1 .. Len(t.ooo) : more[i] = t.ooo[i]
          /\ more[Len(t.ooo) + 1] = e
      BY <1>1, <3>1, AppendProperties
    <3> HIDE DEF more
    <3>4. /\ u.ooo = more /\ u.state = t.state /\ u.rcv_nxt = t.rcv_nxt /\ u.rx = t.rx
          /\ u.rx_fin_seq = t.rx_fin_seq /\ u.fin_received = t.fin_received /\ u.discard_rx = t.discard_rx
      BY <2>6, <3>3 DEF TcbRec, more, e
    <3>5. ASSUME NEW i \in DOMAIN u.ooo PROVE HeldOK(u.ooo[i], L)
      <4>1. Len(t.ooo) \in Nat /\ DOMAIN t.ooo = 1 .. Len(t.ooo) /\ DOMAIN u.ooo = 1 .. Len(t.ooo) + 1
        BY <1>1, <3>3, <3>4, LenProperties
      <4>2. CASE i \in 1 .. Len(t.ooo)
        BY <3>3, <3>4, <4>1, <4>2 DEF RxOK
      <4>3. CASE i = Len(t.ooo) + 1
        BY <3>2, <3>3, <3>4, <4>3
      <4> QED BY <3>5, <4>1, <4>2, <4>3
    <3>6. Place(u, L) = Place(t, L)
      BY <3>4 DEF Place
    <3>7. RxOK(u, L)
      BY <3>4, <3>5, <3>6 DEF RxOK
    <3> QED BY <3>7 DEF u
  <2> QED BY <2>2, <2>4, <2>5, <2>6
<1> QED BY <1>6, <1>7

\* None is not a sequence number.
LEMMA NoSeqApart == \A n \in Seq32 : n # NoSeq
BY SpaceFacts DEF Seq32, NoSeq

\* A window at most beyond what was expected, the place moves by as much.
LEMMA PlaceGrows ==
    ASSUME NEW t \in TcbRec, NEW u \in TcbRec, NEW L, Fits(L), L.base # NoSeq, RxOK(t, L), ~t.fin_received,
           Ahead(t, u) \in Nat, Ahead(t, u) <= RxCap
    PROVE  Place(u, L) = Place(t, L) + Ahead(t, u) /\ Place(t, L) <= Place(u, L)
<1>1. t.rcv_nxt \in Seq32 /\ u.rcv_nxt \in Seq32 /\ L.base \in Seq32 /\ L.limit \in Nat /\ L.limit + RxCap + 1 < SeqSpace
  BY FieldTypes, LedgerTypes
<1>2. Place(t, L) \in Nat /\ Place(t, L) <= L.limit + 1
  BY PlaceType DEF RxOK
<1>3. Place(t, L) + Ahead(t, u) < SeqSpace
  BY <1>1, <1>2, SpaceFacts
<1>4. Minus(u.rcv_nxt, L.base) = Minus(t.rcv_nxt, L.base) + Minus(u.rcv_nxt, t.rcv_nxt)
  BY <1>1, <1>3, WayOn DEF Place, Ahead
<1>5. Place(u, L) = Place(t, L) + Ahead(t, u)
  BY <1>4 DEF Place, Ahead
<1> QED BY <1>2, <1>5

\* The text of a segment of the connection that the block answered.
LEMMA DataArrivedRight ==
    ASSUME NEW t, Core(t), Settled(t), synchronized(t), NEW L, Fits(L), Stream(t, L), L.base # NoSeq,
           NEW h \in Segment, "SYN" \notin h.flags, Carries(h, L.base, L.peer, L.limit, L.ends)
    PROVE  LET u == DataArrived(t, h) IN Stream(u, L) /\ Follows(t, L, u)
<1>1. t \in TcbRec /\ Sized(t) /\ RcvOK(t) /\ RxOK(t, L) /\ TxOK(t, L) /\ t.state # "Closed"
  BY DEF Core, Stream
<1>2. CASE ~Receiving(t)
  <2>1. DataArrived(t, h) = t
    BY <1>2 DEF DataArrived
  <2>2. Alike(t, t)
    BY DEF Alike
  <2> QED BY <1>1, <2>1, <2>2, AlikeStream
<1>3. CASE Receiving(t)
  <2> DEFINE a == IF h.data # <<>> THEN accept_data(t, h.seq, h.data) ELSE t
             f == Plus(h.seq, Len(h.data))
             v == [a EXCEPT !.rx_fin_seq = f]
             u == DataArrived(t, h)
             s == Minus(h.seq, L.base)
             n == Len(h.data)
  <2>1. /\ h.seq \in Seq32 /\ h.data \in Seq(Datum) /\ n \in Nat /\ L.base \in Seq32 /\ s \in Nat
        /\ L.limit \in Nat /\ L.ends \subseteq 1 .. L.limit + 1 /\ L.limit + RxCap + 1 < SeqSpace
    <3>1. h.seq \in Seq32 /\ h.data \in Seq(Datum) /\ L.base \in Seq32 /\ n \in Nat
      BY LedgerTypes, LenProperties DEF Segment
    <3>2. s \in Nat
      BY <3>1, WayOn
    <3> QED BY <3>1, <3>2, LedgerTypes
  <2>2. ~t.fin_received
    BY <1>3 DEF Core, LifeOK, GotFin, Receiving
  <2>3. /\ h.data # <<>> => s + n <= L.limit + 1
        /\ Run(h.data, L.peer, s) /\ ("FIN" \in h.flags => s + n \in L.ends)
    BY DEF Carries
  <2>4. RxOK(a, L)
    <3>1. CASE h.data = <<>>
      BY <1>1, <3>1
    <3>2. CASE h.data # <<>>
      <4>1. RxOK(accept_data(t, h.seq, h.data), L)
        BY <1>1, <1>3, <2>1, <2>2, <2>3, <3>2, AcceptRight
      <4> QED BY <3>2, <4>1
    <3> QED BY <3>1, <3>2
  <2>5. Accepted(t, a)
    BY <1>1, <1>3, <2>1, AcceptedSelf, AcceptDataKeeps
  <2>6. a \in TcbRec /\ Beside(t, a)
    BY <2>5 DEF Accepted
  <2>7. u = a \/ ("FIN" \in h.flags /\ u = v)
    BY <1>3 DEF DataArrived, FinNoted
  <2>8. Arrived(t, u) /\ Core(u) /\ synchronized(u)
    BY DataArrivedKeeps
  <2> HIDE DEF a, u
  <2>10. /\ u.state = t.state /\ u.iss = t.iss /\ u.una = t.una /\ u.tx = t.tx /\ u.fin_acked = t.fin_acked
         /\ u.rcv_nxt = a.rcv_nxt /\ u.rx = a.rx /\ u.ooo = a.ooo /\ u.fin_received = t.fin_received
         /\ u.discard_rx = t.discard_rx
    BY <2>6, <2>7 DEF TcbRec, Beside
  <2>11. u.rx_fin_seq = a.rx_fin_seq \/ ("FIN" \in h.flags /\ u.rx_fin_seq = f)
    BY <2>6, <2>7 DEF TcbRec
  <2>12. "FIN" \in h.flags => Minus(f, L.base) \in L.ends
    <3> SUFFICES ASSUME "FIN" \in h.flags PROVE Minus(f, L.base) \in L.ends
      OBVIOUS
    <3>1. s + n \in L.ends
      BY <2>3
    <3>2. s + n <= L.limit + 1
      BY <2>1, <3>1
    <3>3. s + n < SeqSpace
      <4> HIDE DEF s, n
      <4> QED BY <2>1, <3>2, SpaceFacts
    <3>4. Minus(Plus(h.seq, n), L.base) = Minus(h.seq, L.base) + n
      <4> HIDE DEF n
      <4> QED BY <2>1, <3>3, StepOn DEF s
    <3> QED BY <3>1, <3>4
  <2>13. u.rx_fin_seq # NoSeq => Minus(u.rx_fin_seq, L.base) \in L.ends
    <3> HIDE DEF f
    <3> QED BY <2>4, <2>11, <2>12 DEF RxOK
  <2>14. Place(u, L) = Place(a, L) /\ a.fin_received = t.fin_received /\ a.discard_rx = t.discard_rx /\ a.state = t.state
    BY <2>6, <2>10 DEF Place, Beside
  <2>15. RxOK(u, L)
    <3> HIDE DEF f, v
    <3> QED BY <2>4, <2>10, <2>13, <2>14 DEF RxOK
  <2>16. TxOK(u, L)
    <3>1. SynState(u) <=> SynState(t)
      BY <2>10 DEF SynState
    <3> QED BY <1>1, <2>10, <3>1, SameTx
  <2>17. Follows(t, L, u)
    <3>1. Ahead(t, u) \in Nat /\ Ahead(t, u) <= RxCap /\ u \in TcbRec
      BY <2>8 DEF Arrived, Core
    <3>2. Place(t, L) <= Place(u, L)
      BY <1>1, <2>2, <3>1, PlaceGrows
    <3> QED BY <2>10, <3>2 DEF Follows, Writable
  <2> QED BY <2>15, <2>16, <2>17 DEF Stream, u
<1> QED BY <1>2, <1>3

\* The peer's FIN, which ends its stream.
LEMMA FinArrivedRight ==
    ASSUME NEW t, Core(t), Settled(t), synchronized(t), NEW L, Fits(L), Stream(t, L), L.base # NoSeq
    PROVE  LET u == FinArrived(t) IN Stream(u, L) /\ Follows(t, L, u)
<1> DEFINE u == FinArrived(t)
           t1 == [t EXCEPT !.fin_received = TRUE, !.rcv_nxt = Plus(@, 1), !.ooo = <<>>]
<1>1. t \in TcbRec /\ RxOK(t, L) /\ TxOK(t, L) /\ t.state # "Closed"
  BY DEF Core, Stream
<1>2. Core(u) /\ (u = t \/ (~t.fin_received /\ FinTaken(t, u)))
  BY FinArrivedKeeps
<1>3. CASE u = t
  <2>1. Alike(t, t)
    BY DEF Alike
  <2> QED BY <1>1, <1>3, <2>1, AlikeStream
<1>4. CASE u # t /\ ~t.fin_received /\ FinTaken(t, u)
  <2>1. t.rx_fin_seq = t.rcv_nxt
    BY <1>4 DEF FinArrived
  <2>2. t1 \in TcbRec /\ t1.iss = t.iss /\ t1.rx_fin_seq = t.rx_fin_seq
    <3>1. Plus(t.rcv_nxt, 1) \in Seq32 /\ <<>> \in Seq(HeldSeg)
      BY <1>1, FieldTypes, SynOpen
    <3> QED BY <1>1, <3>1 DEF TcbRec
  <2>3. u.iss = t.iss /\ u.rx_fin_seq = t.rx_fin_seq
    <3>1. \/ u = [t1 EXCEPT !.state = "CloseWait"] \/ u = [t1 EXCEPT !.state = "Closing"]
          \/ u = enter_time_wait(t1) \/ u = t1
      BY <1>4, <2>1 DEF FinArrived
    <3> HIDE DEF t1, u
    <3> QED BY <2>2, <3>1 DEF TcbRec, enter_time_wait
  <2> HIDE DEF u, t1
  <2>4. t.rcv_nxt \in Seq32 /\ L.base \in Seq32 /\ Place(t, L) \in Nat /\ t.rcv_nxt # NoSeq
    BY <1>1, FieldTypes, LedgerTypes, PlaceType, NoSeqApart
  <2>5. Place(t, L) \in L.ends
    BY <1>1, <2>1, <2>4 DEF RxOK, Place
  <2>6. Place(u, L) = Place(t, L) + 1
    <3>1. L.ends \subseteq 1 .. L.limit + 1 /\ L.limit \in Nat /\ L.limit + RxCap + 1 < SeqSpace
      BY LedgerTypes
    <3>2. Place(t, L) + 1 < SeqSpace
      BY <2>4, <2>5, <3>1, SpaceFacts
    <3>3. Minus(Plus(t.rcv_nxt, 1), L.base) = Minus(t.rcv_nxt, L.base) + 1
      BY <2>4, <3>2, StepOn DEF Place
    <3> QED BY <1>4, <3>3 DEF FinTaken, Place
  <2>7. /\ u.fin_received /\ u.ooo = <<>> /\ u.rx = t.rx /\ u.discard_rx = t.discard_rx /\ u.una = t.una
        /\ u.tx = t.tx /\ u.fin_acked = t.fin_acked /\ u.state \in {"CloseWait", "Closing", "TimeWait"}
        /\ (Writable(u) => Writable(t)) /\ ~SynState(u) /\ ~SynState(t)
    BY <1>4 DEF FinTaken, Writable, SynState
  <2>8. RxOK(u, L)
    <3>1. Place(u, L) - 1 \in L.ends
      BY <2>4, <2>5, <2>6
    <3>2. ~u.discard_rx => Place(u, L) = Len(L.read) + Len(u.rx) + 2
      <4>1. Len(L.read) \in Nat /\ Len(t.rx) \in Nat
        BY <1>1, FieldTypes, LedgerTypes
      <4>2. ~t.discard_rx => Place(t, L) = Len(L.read) + Len(t.rx) + 1
        BY <1>1, <1>4 DEF RxOK
      <4>3. Len(u.rx) = Len(t.rx) /\ (u.discard_rx <=> t.discard_rx)
        BY <2>7
      <4>4. SUFFICES ASSUME ~t.discard_rx PROVE Place(u, L) = Len(L.read) + Len(u.rx) + 2
        BY <4>3
      <4>5. Place(t, L) = Len(L.read) + Len(t.rx) + 1
        BY <4>2, <4>4
      <4>6. (Len(L.read) + Len(t.rx) + 1) + 1 = Len(L.read) + Len(t.rx) + 2
        BY <4>1
      <4> QED BY <2>6, <4>3, <4>5, <4>6
    <3>3. \A i \in DOMAIN u.ooo : HeldOK(u.ooo[i], L)
      BY <2>7
    <3>4. Run(L.read, L.peer, 1) /\ Run(u.rx, L.peer, Len(L.read) + 1)
      BY <1>1, <2>7 DEF RxOK
    <3>5. u.rx_fin_seq # NoSeq => Minus(u.rx_fin_seq, L.base) \in L.ends
      BY <1>1, <2>3 DEF RxOK
    <3> QED BY <2>7, <3>1, <3>2, <3>3, <3>4, <3>5 DEF RxOK
  <2>9. TxOK(u, L)
    BY <1>1, <2>3, <2>7, SameTx
  <2>10. Follows(t, L, u)
    <3>1. Place(t, L) <= Place(u, L)
      BY <2>4, <2>6
    <3> QED BY <2>3, <2>7, <3>1 DEF Follows
  <2> QED BY <2>8, <2>9, <2>10 DEF Stream, u
<1> QED BY <1>2, <1>3, <1>4

\* Our FIN acknowledged: the buffer was empty already.
LEMMA FinAckedRight ==
    ASSUME NEW t, Core(t), synchronized(t), ~(t.fin_acked /\ t.state = "LastAck"), NEW L, Fits(L), Stream(t, L)
    PROVE  LET u == FinAcked(t) IN Stream(u, L) /\ Follows(t, L, u)
<1> DEFINE u == FinAcked(t)
<1>1. t \in TcbRec /\ TxOK(t, L) /\ t.state # "Closed" /\ ~SynState(t) /\ SndSync(t)
  <2>1. t \in TcbRec /\ SndSync(t) /\ t.state # "Closed"
    BY DEF Core
  <2> QED BY <2>1, NotBoth DEF Stream
<1>2. synchronized(u) /\ SameRcv(t, u) /\ u \in TcbRec
  BY FinAckedKeeps DEF Core
<1>3. u = t \/ (t.fin_acked /\ t.state # "Established" /\ t.state # "CloseWait" /\ (u = enter_fin_wait2(t) \/ u = enter_time_wait(t)))
  BY DEF FinAcked
<1>4. CASE u = t
  <2>1. Alike(t, t)
    BY DEF Alike
  <2> QED BY <1>1, <1>4, <2>1, AlikeStream
<1>5. CASE u # t
  <2>1. t.tx = <<>>
    BY <1>1, <1>3, <1>5 DEF SndSync
  <2>2. /\ u.iss = t.iss /\ u.tx = t.tx /\ u.fin_acked = t.fin_acked /\ u.rx_fin_seq = t.rx_fin_seq
        /\ u.state \in {"FinWait2", "TimeWait"}
    <3> HIDE DEF u
    <3> QED BY <1>1, <1>3, <1>5, <2>1, ZenonT(60) DEF TcbRec, enter_fin_wait2, enter_time_wait
  <2> HIDE DEF u
  <2>3. ~SynState(u) /\ u.state # "SynSent" /\ ~Writable(u)
    BY <2>2 DEF SynState, Writable
  <2>4. TxOK(u, L)
    BY <1>1, <1>2, <2>2, <2>3, SameTx DEF SameRcv
  <2>5. Dropped(t, u)
    BY <1>2, <2>2 DEF Dropped, SameRcv
  <2>6. L.base # NoSeq
    BY DEF Stream, Virgin, synchronized
  <2>7. RxOK(u, L) /\ Place(u, L) = Place(t, L) /\ Place(t, L) \in Nat
    BY <1>1, <2>3, <2>5, <2>6, DroppedRx, PlaceType DEF Stream
  <2> QED BY <2>2, <2>3, <2>4, <2>6, <2>7 DEF Stream, Follows, u
<1> QED BY <1>4, <1>5

\* Everything after the acknowledgement field, of a segment of the connection that the block answered.
LEMMA TextArrivedRight ==
    ASSUME NEW t, Core(t), synchronized(t), NEW L, Fits(L), Stream(t, L),
           NEW h \in Segment, "SYN" \notin h.flags, Carries(h, L.base, L.peer, L.limit, L.ends)
    PROVE  Right(t, L, TextArrived(t, h))
<1> DEFINE r == TextArrived(t, h)
<1>1. t \in TcbRec /\ t.state # "SynSent"
  BY DEF Core, synchronized
<1>2. CASE t.fin_acked /\ t.state = "LastAck"
  <2>1. r = Quiet(set_closed(t, NoError))
    BY <1>2 DEF TextArrived
  <2> QED BY <1>1, <2>1, EndRight
<1>3. CASE ~(t.fin_acked /\ t.state = "LastAck")
  <2> DEFINE a == FinAcked(t)
             b == DataArrived(a, h)
             c == FinArrived(b)
             d == Lingering(c, h)
             force == (h.data # <<>> \/ "FIN" \in h.flags)
  <2>1. r = output(d, force, FALSE)
    BY <1>3 DEF TextArrived
  <2>2. L.base # NoSeq
    BY DEF Stream, Virgin, synchronized
  <2>3. Core(a) /\ Settled(a) /\ synchronized(a) /\ Stream(a, L) /\ Follows(t, L, a)
    BY <1>3, FinAckedKeeps, FinAckedRight
  <2> HIDE DEF a
  <2>4. Core(b) /\ Settled(b) /\ synchronized(b) /\ Stream(b, L) /\ Follows(a, L, b)
    BY <2>2, <2>3, DataArrivedKeeps, DataArrivedRight
  <2> HIDE DEF b
  <2>5. Core(c) /\ Settled(c) /\ synchronized(c) /\ Stream(c, L) /\ Follows(b, L, c)
    BY <2>2, <2>4, FinArrivedKeeps, FinArrivedRight
  <2> HIDE DEF c
  <2>6. Core(d) /\ Settled(d) /\ synchronized(d)
    BY <2>5, LingeringKeeps
  <2>7. a \in TcbRec /\ b \in TcbRec /\ c \in TcbRec
    BY <2>3, <2>4, <2>5 DEF Core
  <2>8. Alike(c, d)
    BY <2>7 DEF Alike, Lingering, TcbRec
  <2>9. Stream(d, L) /\ Follows(c, L, d)
    BY <2>5, <2>7, <2>8, AlikeStream
  <2> HIDE DEF d
  <2>10. force \in BOOLEAN
    OBVIOUS
  <2> HIDE DEF force, r
  <2>11. Outputs(d, r)
    BY <2>1, <2>6, <2>10, OutputPlain, Zenon
  <2>12. Right(d, L, r)
    BY <2>1, <2>6, <2>9, <2>10, OutputRight
  <2>13. a.state # "SynSent" /\ b.state # "SynSent" /\ c.state # "SynSent" /\ d.state # "SynSent" /\ d \in TcbRec /\ r.tcb \in TcbRec
    BY <2>3, <2>4, <2>5, <2>6, <2>11 DEF synchronized, Outputs, Core
  <2>14. Follows(t, L, b)
    BY <1>1, <2>3, <2>4, <2>7, <2>13, FollowsTrans
  <2>15. Follows(t, L, c)
    BY <1>1, <2>5, <2>7, <2>13, <2>14, FollowsTrans
  <2>16. Follows(t, L, d)
    BY <1>1, <2>7, <2>9, <2>13, <2>15, FollowsTrans
  <2>17. Follows(d, L, r.tcb)
    BY <2>12 DEF Right
  <2>18. Follows(t, L, r.tcb)
    BY <1>1, <2>13, <2>16, <2>17, FollowsTrans
  <2> QED BY <2>12, <2>18 DEF Right, r
<1> QED BY <1>2, <1>3

----------------------------------------------------------------------------
(* Segments. *)

\* The segment is one that on_synchronized looks into.
Reaches(t, h) ==
    \/ acceptable(t, h.seq, SegLen(h))
    \/ h.data = <<>> /\ "FIN" \in h.flags /\ "SYN" \notin h.flags /\ h.seq = t.rcv_nxt

\* What a synchronized block has had acknowledged: what it had before, or what h says.
Acknowledges(t, h, u) ==
    synchronized(u) => \/ synchronized(t) /\ u.una = t.una
                       \/ u.una = h.ack /\ "ACK" \in h.flags /\ "RST" \notin h.flags /\ Reaches(t, h)

\* What is in two sequences joined is in one of them.
LEMMA JoinParts ==
    ASSUME NEW S, NEW a \in Seq(S), NEW b \in Seq(S), NEW i \in DOMAIN (a \o b)
    PROVE  (\E j \in DOMAIN a : (a \o b)[i] = a[j]) \/ (\E j \in DOMAIN b : (a \o b)[i] = b[j])
<1> DEFINE m == Len(a)
           n == Len(b)
           c == a \o b
<1>1. m \in Nat /\ n \in Nat /\ DOMAIN a = 1 .. m /\ DOMAIN b = 1 .. n
  BY LenProperties
<1>2. /\ c \in Seq(S) /\ Len(c) = m + n
      /\ \A k \in 1 .. m + n : c[k] = IF k <= m THEN a[k] ELSE b[k - m]
  BY ConcatProperties
<1>3. i \in 1 .. m + n
  <2>1. DOMAIN c = 1 .. Len(c)
    <3> HIDE DEF c
    <3> QED BY <1>2, LenProperties
  <2> QED BY <1>2, <2>1
<1> HIDE DEF m, n, c
<1>4. CASE i <= m
  <2>1. i \in 1 .. m
    BY <1>1, <1>3, <1>4
  <2> QED BY <1>1, <1>2, <1>3, <1>4, <2>1 DEF c
<1>5. CASE ~(i <= m)
  <2>1. i - m \in 1 .. n
    BY <1>1, <1>3, <1>5
  <2> QED BY <1>1, <1>2, <1>3, <1>5, <2>1 DEF c
<1> QED BY <1>4, <1>5

\* An acknowledgement and the text behind it.
LEMMA ContinueRight ==
    ASSUME NEW t, Core(t), synchronized(t), NEW L, Fits(L), Stream(t, L),
           NEW h \in Segment, "SYN" \notin h.flags, Carries(h, L.base, L.peer, L.limit, L.ends),
           ~SeqGt(h.ack, t.max)
    PROVE  LET r == Continue(AckArrived(t, h), h)
           IN  Right(t, L, r) /\ (r.tcb.una = t.una \/ r.tcb.una = h.ack)
<1> DEFINE a == AckArrived(t, h)
           b == TextArrived(a.tcb, h)
           r == Continue(a, h)
<1>1. L.base # NoSeq
  BY DEF Stream, Virgin, synchronized
<1>2. /\ Core(a.tcb) /\ synchronized(a.tcb) /\ Right(t, L, a) /\ a.out \in Seq(Segment)
      /\ (a.tcb.una = t.una \/ a.tcb.una = h.ack)
  BY <1>1, AckArrivedKeeps, AckArrivedRight
<1> HIDE DEF a
<1>3. Stream(a.tcb, L) /\ Told(a.tcb, L, a.out) /\ Follows(t, L, a.tcb)
  BY <1>2 DEF Right
<1>4. Right(a.tcb, L, b) /\ Texted(a.tcb, b)
  BY <1>2, <1>3, TextArrivedRight, TextArrivedKeeps
<1>5. r.tcb = b.tcb /\ r.out = a.out \o b.out
  BY DEF Continue, After, Step
<1> HIDE DEF b, r
<1>6. /\ b.tcb \in TcbRec /\ b.out \in Seq(Segment) /\ b.tcb.una = a.tcb.una
      /\ Stream(b.tcb, L) /\ Told(b.tcb, L, b.out) /\ Follows(a.tcb, L, b.tcb)
  BY <1>4, DoneTypes DEF Texted, Good, Right
<1>7. t \in TcbRec /\ a.tcb \in TcbRec /\ t.state # "SynSent" /\ a.tcb.state # "SynSent"
  BY <1>2 DEF Core, synchronized
<1>8. Told(b.tcb, L, a.out)
  BY <1>3, <1>6, <1>7, ToldOn
<1>9. Told(b.tcb, L, a.out \o b.out)
  <2> DEFINE x == a.out
             y == b.out
  <2>1. x \in Seq(Segment) /\ y \in Seq(Segment) /\ Told(b.tcb, L, x) /\ Told(b.tcb, L, y)
    BY <1>2, <1>6, <1>8
  <2> HIDE DEF x, y
  <2>2. ASSUME NEW i \in DOMAIN (x \o y) PROVE Tells(b.tcb, L, (x \o y)[i])
    <3>1. (\E j \in DOMAIN x : (x \o y)[i] = x[j]) \/ (\E j \in DOMAIN y : (x \o y)[i] = y[j])
      BY <2>1, <2>2, JoinParts
    <3> QED BY <2>1, <3>1 DEF Told
  <2> QED BY <2>2 DEF Told, x, y
<1>10. Follows(t, L, b.tcb)
  BY <1>3, <1>6, <1>7, FollowsTrans
<1> QED BY <1>2, <1>5, <1>6, <1>9, <1>10 DEF Right, r, a

\* A step that leaves state and snd_una alone.
LEMMA SameAcknowledges ==
    ASSUME NEW t, NEW h, NEW u, u.state = t.state, u.una = t.una, SynState(t) \/ synchronized(t)
    PROVE  Acknowledges(t, h, u)
BY DEF Acknowledges, synchronized

\* The SYN acknowledged: the send buffer begins with the first byte.
LEMMA OpenedTx ==
    ASSUME NEW t, Core(t), SynState(t), NEW L, Fits(L), TxOK(t, L), NEW u, u.state = "Established",
           u.una = t.max, u.iss = t.iss, u.tx = t.tx, u.fin_acked = t.fin_acked
    PROVE  TxOK(u, L)
<1>1. t \in TcbRec /\ t.max = Plus(t.iss, 1) /\ t.state # "Closed" /\ Front(t) = 1
  BY DEF Core, SndSyn, Front
<1>2. t.iss \in Seq32
  BY <1>1, FieldTypes
<1>3. Minus(t.iss, t.iss) = 0 /\ Minus(t.iss, t.iss) + 1 < SeqSpace
  BY <1>2, WayOn, SpaceFacts
<1>4. Minus(t.max, t.iss) = Minus(t.iss, t.iss) + 1
  BY <1>1, <1>2, <1>3, StepOn
<1>5. Minus(t.max, t.iss) = 1
  BY <1>3, <1>4
<1>6. Front(u) = Front(t)
  BY <1>1, <1>5 DEF Front, SynState
<1> QED BY <1>1, <1>6 DEF TxOK

\* A block that has answered a SYN and received nothing since.
LEMMA FreshRx ==
    ASSUME NEW v \in TcbRec, v.state # "SynSent", v.rx = <<>>, v.ooo = <<>>, v.rx_fin_seq = NoSeq, ~v.fin_received,
           NEW L, Fits(L), L.base # NoSeq, L.read = <<>>, v.rcv_nxt = Plus(L.base, 1)
    PROVE  RxOK(v, L)
<1>1. L.base \in Seq32 /\ L.limit \in Nat
  BY LedgerTypes
<1>2. Minus(L.base, L.base) = 0 /\ Minus(L.base, L.base) + 1 < SeqSpace
  BY <1>1, WayOn, SpaceFacts
<1>3. Minus(v.rcv_nxt, L.base) = Minus(L.base, L.base) + 1
  BY <1>1, <1>2, StepOn
<1>4. Place(v, L) = 1
  BY <1>2, <1>3 DEF Place
<1>5. /\ Run(L.read, L.peer, 1) /\ Run(v.rx, L.peer, Len(L.read) + 1)
      /\ Len(L.read) = 0 /\ Len(v.rx) = 0
  BY RunEmpty
<1>6. DOMAIN v.ooo = {}
  OBVIOUS
<1> QED BY <1>1, <1>4, <1>5, <1>6 DEF RxOK

\* A segment that finds a block beyond SYN_SENT: if the block looks into it, it is one of the
\* connection that the block answered.
LEMMA OnSynchronizedRight ==
    ASSUME NEW t, Core(t), Settled(t), t.state # "SynSent", NEW L, Fits(L), Stream(t, L), NEW h \in Segment,
           "RST" \notin h.flags /\ Reaches(t, h) => Carries(h, L.base, L.peer, L.limit, L.ends)
    PROVE  LET r == on_synchronized(t, h)
           IN  Right(t, L, r) /\ Acknowledges(t, h, r.tcb)
<1> DEFINE again == t.state = "SynReceived" /\ "SYN" \in h.flags /\ "ACK" \notin h.flags
                                            /\ Plus(h.seq, 1) = t.rcv_nxt
           ok == Reaches(t, h)
           r == on_synchronized(t, h)
<1>1. t \in TcbRec /\ t.state # "Closed" /\ Alike(t, t) /\ h.ack \in Seq32
  BY DEF Core, Alike, Segment
<1>2. L.base # NoSeq /\ (SynState(t) \/ synchronized(t))
  BY <1>1, NotBoth DEF Stream, Virgin
<1>3. Right(t, L, Quiet(t)) /\ Acknowledges(t, h, Quiet(t).tcb)
  <2>1. Right(t, L, Quiet(t))
    <3>1. \A i \in DOMAIN << >> : "RST" \in << >>[i].flags
      OBVIOUS
    <3> QED BY <1>1, <3>1, QuietRight
  <2>2. Quiet(t).tcb = t
    BY DEF Quiet, Step
  <2> QED BY <1>2, <2>1, <2>2, SameAcknowledges
<1>4. Right(t, L, send_ack(t)) /\ Acknowledges(t, h, send_ack(t).tcb)
  <2>1. Steady(t, send_ack(t).tcb)
    BY <1>1, SendAckKeeps
  <2>2. Acknowledges(t, h, send_ack(t).tcb)
    BY <1>2, <2>1, SameAcknowledges DEF Steady
  <2> QED BY <1>2, <2>2, SendAckRight
<1>5. CASE again
  <2>1. r = send_syn(t)
    BY <1>5 DEF on_synchronized
  <2>2. SynState(t)
    BY <1>5 DEF SynState
  <2>3. Right(t, L, send_syn(t)) /\ Steady(t, send_syn(t).tcb)
    BY <1>1, <2>2, SendSynRight, SendSynKeeps
  <2>4. Acknowledges(t, h, send_syn(t).tcb)
    BY <1>2, <2>3, SameAcknowledges DEF Steady
  <2> QED BY <2>1, <2>3, <2>4
<1>6. CASE ~again /\ ~ok
  <2>1. CASE "RST" \in h.flags
    <3>1. r = Quiet(t)
      BY <1>6, <2>1 DEF on_synchronized, Reaches
    <3> QED BY <1>3, <3>1
  <2>2. CASE "RST" \notin h.flags
    <3> DEFINE dl == t.close_dl \/ (t.state = "TimeWait" /\ "FIN" \in h.flags)
               c == [t EXCEPT !.close_dl = dl]
    <3>1. r = send_ack(c)
      BY <1>6, <2>2 DEF on_synchronized, Reaches
    <3>2. dl \in BOOLEAN /\ (t.close_dl => dl)
      BY <1>1 DEF TcbRec
    <3> HIDE DEF dl, r
    <3>3. c \in TcbRec /\ Same(t, c) /\ c.close_dl = dl /\ c.rto = t.rto /\ c.retries = t.retries
      BY <1>1, <3>2 DEF TcbRec, Same
    <3>31. Alike(t, c)
      BY <1>1 DEF TcbRec, Alike
    <3> HIDE DEF c
    <3>4. DeadlineOK(c) /\ c.retries <= MaxRetries
      BY <3>2, <3>3 DEF Core, LifeOK, DeadlineOK, SynState, Same
    <3>5. Core(c)
      BY <3>3, <3>4, CoreSame
    <3>6. Stream(c, L)
      BY <1>1, <3>31, AlikeStream
    <3>7. Right(c, L, r) /\ Steady(c, r.tcb)
      BY <1>2, <3>1, <3>3, <3>5, <3>6, SendAckRight, SendAckKeeps
    <3>8. Right(t, L, r)
      BY <1>1, <3>31, <3>7, AlikeRight
    <3>9. Acknowledges(t, h, r.tcb)
      BY <1>2, <3>31, <3>7, SameAcknowledges DEF Steady, Alike
    <3> QED BY <3>8, <3>9 DEF r
  <2> QED BY <2>1, <2>2
<1>7. CASE ~again /\ ok /\ "RST" \in h.flags
  <2> DEFINE err == CASE t.state = "SynReceived" /\ t.user_open -> "ConnectionRefused"
                      [] t.state = "SynReceived" /\ ~t.user_open -> NoError
                      [] t.state \in {"Closing", "LastAck", "TimeWait"} -> NoError
                      [] OTHER -> "ConnectionReset"
  <2>1. r = Quiet(set_closed(t, err)) \/ r = send_ack(t)
    BY <1>7 DEF on_synchronized, ResetArrived, Reaches
  <2> HIDE DEF err, r
  <2>2. Right(t, L, Quiet(set_closed(t, err)))
    BY <1>1, EndRight
  <2>3. Acknowledges(t, h, Quiet(set_closed(t, err)).tcb)
    <3>1. Quiet(set_closed(t, err)).tcb.state = "Closed"
      BY <1>1 DEF Quiet, Step, set_closed, TcbRec
    <3> QED BY <3>1 DEF Acknowledges, synchronized
  <2> QED BY <1>4, <2>1, <2>2, <2>3 DEF r
<1>8. CASE ~again /\ ok /\ "RST" \notin h.flags /\ ("SYN" \in h.flags \/ "ACK" \notin h.flags)
  <2>1. r = send_ack(t) \/ r = Quiet(t)
    BY <1>8 DEF on_synchronized, Reaches
  <2> QED BY <1>3, <1>4, <2>1
<1>9. CASE ~again /\ ok /\ "RST" \notin h.flags /\ "SYN" \notin h.flags /\ "ACK" \in h.flags
  <2>0. Carries(h, L.base, L.peer, L.limit, L.ends)
    BY <1>9
  <2>1. CASE t.state = "SynReceived" /\ SeqGt(h.ack, t.una) /\ SeqLe(h.ack, t.max)
    <3> DEFINE v == [t EXCEPT !.state = "Established", !.una = h.ack, !.wnd = h.wnd,
                              !.wl1 = h.seq, !.wl2 = h.ack, !.rto = FALSE, !.retries = 0]
    <3>1. r = TextArrived(v, h)
      BY <1>9, <2>1 DEF on_synchronized, Reaches
    <3>2. h.seq \in Seq32 /\ h.wnd \in Window /\ "Established" \in States /\ SynState(t)
      BY <2>1, FinStates DEF Segment, SynState
    <3>3. h.ack = t.max
      BY <1>1, <2>1, <3>2, SynAcked
    <3>4. v \in TcbRec
      BY <1>1, <3>2 DEF TcbRec
    <3>5. /\ v.state = "Established" /\ v.una = h.ack /\ v.retries = 0 /\ v.iss = t.iss
          /\ v.nxt = t.nxt /\ v.max = t.max /\ v.tx = t.tx /\ v.fin_pending = t.fin_pending
          /\ v.fin_seq = t.fin_seq /\ v.fin_acked = t.fin_acked /\ v.rx = t.rx /\ v.ooo = t.ooo
          /\ v.fin_received = t.fin_received /\ v.discard_rx = t.discard_rx
          /\ v.rcv_nxt = t.rcv_nxt /\ v.rx_fin_seq = t.rx_fin_seq
      BY <1>1 DEF TcbRec
    <3> HIDE DEF v, r
    <3>6. Core(v) /\ synchronized(v)
      BY <3>2, <3>3, <3>4, <3>5, OpenedCore
    <3>7. TxOK(v, L)
      BY <3>2, <3>3, <3>5, OpenedTx DEF Stream
    <3>8. Dropped(t, v) /\ v.state # "SynSent"
      BY <3>5 DEF Dropped
    <3>9. RxOK(v, L) /\ Place(v, L) = Place(t, L) /\ Place(t, L) \in Nat
      BY <1>1, <1>2, <3>8, DroppedRx, PlaceType DEF Stream
    <3>10. Stream(v, L) /\ Follows(t, L, v)
      BY <1>2, <2>1, <3>5, <3>7, <3>9 DEF Stream, Follows, Writable
    <3>11. Right(v, L, r) /\ Texted(v, r)
      BY <1>9, <2>0, <3>1, <3>6, <3>10, TextArrivedRight, TextArrivedKeeps
    <3>12. r.tcb \in TcbRec /\ r.tcb.una = h.ack /\ Follows(v, L, r.tcb)
      BY <3>5, <3>11, DoneTypes DEF Texted, Good, Right
    <3>13. Follows(t, L, r.tcb)
      BY <1>1, <3>4, <3>8, <3>10, <3>12, FollowsTrans
    <3> QED BY <1>9, <3>11, <3>12, <3>13 DEF Right, Acknowledges, r
  <2>2. CASE t.state = "SynReceived" /\ ~(SeqGt(h.ack, t.una) /\ SeqLe(h.ack, t.max))
    <3> DEFINE out == << RstSeg(h.ack) >>
    <3>1. r = Step(t, out)
      BY <1>9, <2>2 DEF on_synchronized, Reaches
    <3>2. \A i \in DOMAIN out : "RST" \in out[i].flags
      BY DEF RstSeg
    <3> HIDE DEF out, r
    <3>3. Right(t, L, r)
      BY <1>1, <3>1, <3>2, QuietRight
    <3>4. r.tcb = t
      BY <3>1 DEF Step
    <3> QED BY <1>2, <3>3, <3>4, SameAcknowledges DEF r
  <2>3. CASE t.state # "SynReceived" /\ SeqGt(h.ack, t.max)
    <3>1. r = send_ack(t)
      BY <1>9, <2>3 DEF on_synchronized, Reaches
    <3> QED BY <1>4, <3>1
  <2>4. CASE t.state # "SynReceived" /\ ~SeqGt(h.ack, t.max)
    <3>1. r = Continue(AckArrived(t, h), h)
      BY <1>9, <2>4 DEF on_synchronized, Reaches
    <3>2. synchronized(t)
      BY <1>1, <2>4, NotBoth DEF SynState
    <3>3. Right(t, L, r) /\ (r.tcb.una = t.una \/ r.tcb.una = h.ack)
      BY <1>9, <2>0, <2>4, <3>1, <3>2, ContinueRight
    <3> QED BY <1>9, <3>2, <3>3 DEF Acknowledges
  <2> QED BY <2>1, <2>2, <2>3, <2>4
<1> QED BY <1>5, <1>6, <1>7, <1>8, <1>9

\* A segment that finds a block in SYN_SENT: a SYN gives it the connection to answer, from
\* the ledger L to K; anything else leaves it without.
LEMMA OnSynSentRight ==
    ASSUME NEW t, Core(t), Settled(t), t.state = "SynSent", NEW L, Fits(L), Stream(t, L), NEW h \in Segment,
           NEW K, Fits(K), K.own = L.own, K.wrote = L.wrote, K.read = L.read, K.base = h.seq
    PROVE  LET r == on_syn_sent(t, h)
           IN  /\ r.tcb.state \in {"Established", "SynReceived"} =>
                     Right(t, K, r) /\ "SYN" \in h.flags /\ "RST" \notin h.flags
               /\ r.tcb.state \notin {"Established", "SynReceived"} => Right(t, L, r) /\ ~synchronized(r.tcb)
               /\ synchronized(r.tcb) => r.tcb.una = h.ack /\ "ACK" \in h.flags
<1> DEFINE ack_ok == "ACK" \in h.flags /\ SeqGt(h.ack, t.iss) /\ SeqLe(h.ack, t.max)
           t1 == [t EXCEPT !.rcv_nxt = Plus(h.seq, 1), !.wnd = h.wnd, !.wl1 = h.seq]
           r == on_syn_sent(t, h)
<1>1. t \in TcbRec /\ SynState(t) /\ SndSyn(t) /\ Alike(t, t)
  BY DEF Core, SynState, Alike
<1>2. h.seq \in Seq32 /\ h.ack \in Seq32 /\ h.wnd \in Window
  BY DEF Segment
<1>3. Plus(h.seq, 1) \in Seq32 /\ K.base # NoSeq
  BY <1>2, SynOpen, NoSeqApart
<1>4. /\ L.base = NoSeq /\ t.rx = <<>> /\ t.ooo = <<>> /\ t.rx_fin_seq = NoSeq /\ ~t.fin_received
      /\ L.read = <<>> /\ TxOK(t, L)
  BY DEF Stream, Virgin, RxOK
<1>5. TxOK(t, K)
  BY <1>4 DEF TxOK
<1>6. CASE \E out : r = Step(t, out) /\ \A i \in DOMAIN out : "RST" \in out[i].flags
  <2>1. PICK out : r = Step(t, out) /\ \A i \in DOMAIN out : "RST" \in out[i].flags
    BY <1>6
  <2> HIDE DEF r
  <2>2. Right(t, L, r)
    BY <1>1, <2>1, QuietRight
  <2>3. r.tcb = t /\ ~synchronized(t)
    BY <2>1 DEF Step, synchronized
  <2> QED BY <2>2, <2>3 DEF r
<1>7. CASE r = Quiet(set_closed(t, "ConnectionRefused"))
  <2> HIDE DEF r
  <2>1. Right(t, L, r)
    BY <1>1, <1>7, EndRight
  <2>2. r.tcb.state = "Closed"
    BY <1>1, <1>7 DEF Quiet, Step, set_closed, TcbRec
  <2> QED BY <2>1, <2>2 DEF r, synchronized
<1>8. CASE "RST" \notin h.flags /\ ack_ok /\ "SYN" \in h.flags
  <2> DEFINE v == [t1 EXCEPT !.una = h.ack, !.wl2 = h.ack, !.state = "Established",
                             !.rto = FALSE, !.retries = 0]
  <2>1. r = output(v, TRUE, FALSE)
    BY <1>8 DEF on_syn_sent
  <2>2. h.ack = t.max
    BY <1>1, <1>2, <1>8, SynAcked DEF SndSyn
  <2>3. t1 \in TcbRec
    BY <1>1, <1>2, <1>3 DEF TcbRec
  <2>4. /\ t1.nxt = t.nxt /\ t1.max = t.max /\ t1.tx = t.tx /\ t1.fin_pending = t.fin_pending
        /\ t1.fin_seq = t.fin_seq /\ t1.fin_acked = t.fin_acked /\ t1.rx = t.rx /\ t1.ooo = t.ooo
        /\ t1.fin_received = t.fin_received /\ t1.discard_rx = t.discard_rx
        /\ t1.iss = t.iss /\ t1.rx_fin_seq = t.rx_fin_seq /\ t1.rcv_nxt = Plus(h.seq, 1)
    BY <1>1 DEF TcbRec
  <2> HIDE DEF t1, r
  <2>5. "Established" \in States
    BY FinStates
  <2>6. v \in TcbRec
    BY <1>2, <2>3, <2>5 DEF TcbRec
  <2>7. /\ v.state = "Established" /\ v.una = h.ack /\ v.retries = 0
        /\ v.nxt = t1.nxt /\ v.max = t1.max /\ v.tx = t1.tx /\ v.fin_pending = t1.fin_pending
        /\ v.fin_seq = t1.fin_seq /\ v.fin_acked = t1.fin_acked /\ v.rx = t1.rx /\ v.ooo = t1.ooo
        /\ v.fin_received = t1.fin_received /\ v.discard_rx = t1.discard_rx
        /\ v.iss = t1.iss /\ v.rx_fin_seq = t1.rx_fin_seq /\ v.rcv_nxt = t1.rcv_nxt
    BY <2>3 DEF TcbRec
  <2> HIDE DEF v
  <2>8. Core(v) /\ Settled(v) /\ synchronized(v)
    BY <1>1, <2>2, <2>4, <2>6, <2>7, OpenedCore
  <2>9. TxOK(v, K)
    BY <1>1, <1>5, <2>2, <2>4, <2>7, OpenedTx
  <2>10. RxOK(v, K)
    <3>1. v.state # "SynSent" /\ v.rcv_nxt = Plus(K.base, 1) /\ v.rx = <<>> /\ v.ooo = <<>> /\ v.rx_fin_seq = NoSeq /\ ~v.fin_received
      BY <1>4, <2>4, <2>7
    <3> QED BY <1>3, <1>4, <2>6, <3>1, FreshRx
  <2>11. Stream(v, K)
    BY <1>3, <2>9, <2>10 DEF Stream
  <2>12. TRUE \in BOOLEAN /\ FALSE \in BOOLEAN
    OBVIOUS
  <2>13. Right(v, K, r)
    BY <2>1, <2>8, <2>11, <2>12, OutputRight
  <2>14. Outputs(v, r)
    BY <2>1, <2>8, <2>12, OutputPlain, Zenon
  <2>15. r.tcb.state = "Established" /\ r.tcb.una = h.ack /\ r.tcb.iss = t.iss
    BY <2>4, <2>7, <2>14 DEF Outputs, Steady
  <2>16. Right(t, K, r)
    BY <2>13, <2>15 DEF Right, Follows, Writable
  <2> QED BY <1>8, <2>15, <2>16 DEF r
<1>9. CASE "RST" \notin h.flags /\ "ACK" \notin h.flags /\ "SYN" \in h.flags
  <2> DEFINE v == [t1 EXCEPT !.state = "SynReceived", !.rto = TRUE]
  <2>1. r = send_syn(v)
    BY <1>9 DEF on_syn_sent
  <2>2. t1 \in TcbRec
    BY <1>1, <1>2, <1>3 DEF TcbRec
  <2>3. /\ t1.iss = t.iss /\ t1.una = t.una /\ t1.tx = t.tx /\ t1.fin_acked = t.fin_acked
        /\ t1.rx = t.rx /\ t1.ooo = t.ooo /\ t1.fin_received = t.fin_received
        /\ t1.rx_fin_seq = t.rx_fin_seq /\ t1.rcv_nxt = Plus(h.seq, 1)
    BY <1>1 DEF TcbRec
  <2> HIDE DEF t1, r
  <2>4. "SynReceived" \in States
    BY FinStates
  <2>5. v \in TcbRec
    BY <2>2, <2>4 DEF TcbRec
  <2>6. /\ v.state = "SynReceived"
        /\ v.iss = t1.iss /\ v.una = t1.una /\ v.tx = t1.tx /\ v.fin_acked = t1.fin_acked
        /\ v.rx = t1.rx /\ v.ooo = t1.ooo /\ v.fin_received = t1.fin_received
        /\ v.rx_fin_seq = t1.rx_fin_seq /\ v.rcv_nxt = t1.rcv_nxt
    BY <2>2 DEF TcbRec
  <2> HIDE DEF v
  <2>7. SynState(v) /\ t.state # "Closed"
    BY <2>6 DEF SynState
  <2>8. TxOK(v, K)
    BY <1>1, <1>5, <2>3, <2>6, <2>7, SameTx
  <2>9. RxOK(v, K)
    <3>1. v.state # "SynSent" /\ v.rcv_nxt = Plus(K.base, 1) /\ v.rx = <<>> /\ v.ooo = <<>> /\ v.rx_fin_seq = NoSeq /\ ~v.fin_received
      BY <1>4, <2>3, <2>6
    <3> QED BY <1>3, <1>4, <2>5, <3>1, FreshRx
  <2>10. Stream(v, K)
    BY <1>3, <2>8, <2>9 DEF Stream
  <2>11. Right(v, K, r) /\ Steady(v, r.tcb)
    BY <2>1, <2>5, <2>7, <2>10, SendSynRight, SendSynKeeps
  <2>12. r.tcb.state = "SynReceived" /\ r.tcb.iss = t.iss
    BY <2>3, <2>6, <2>11 DEF Steady
  <2>13. Right(t, K, r)
    BY <2>11, <2>12 DEF Right, Follows, Writable
  <2> QED BY <1>9, <2>12, <2>13 DEF r, synchronized
<1>10. \/ \E out : r = Step(t, out) /\ \A i \in DOMAIN out : "RST" \in out[i].flags
       \/ r = Quiet(set_closed(t, "ConnectionRefused"))
       \/ "RST" \notin h.flags /\ ack_ok /\ "SYN" \in h.flags
       \/ "RST" \notin h.flags /\ "ACK" \notin h.flags /\ "SYN" \in h.flags
  <2> DEFINE rst == << RstSeg(h.ack) >>
  <2>1. \A i \in DOMAIN rst : "RST" \in rst[i].flags
    BY DEF RstSeg
  <2>2. \A i \in DOMAIN << >> : "RST" \in << >>[i].flags
    OBVIOUS
  <2>3. CASE "ACK" \in h.flags /\ ~ack_ok
    <3>1. r = Step(t, rst) \/ r = Step(t, <<>>)
      BY <2>3 DEF on_syn_sent
    <3> HIDE DEF rst, r
    <3> QED BY <2>1, <2>2, <3>1
  <2>4. CASE ~("ACK" \in h.flags /\ ~ack_ok) /\ "RST" \in h.flags
    <3>1. r = Quiet(set_closed(t, "ConnectionRefused")) \/ r = Step(t, <<>>)
      BY <2>4 DEF on_syn_sent, Quiet
    <3> HIDE DEF r
    <3> QED BY <2>2, <3>1
  <2>5. CASE "RST" \notin h.flags /\ ~("ACK" \in h.flags /\ ~ack_ok) /\ "SYN" \notin h.flags
    <3>1. r = Step(t, <<>>)
      BY <2>5 DEF on_syn_sent, Quiet
    <3> HIDE DEF r
    <3> QED BY <2>2, <3>1
  <2> QED BY <2>3, <2>4, <2>5
<1> QED BY <1>6, <1>7, <1>8, <1>9, <1>10

----------------------------------------------------------------------------
(* New blocks. *)

\* A block that connects has a ledger without a peer.
LEMMA NewConnectRight ==
    ASSUME NEW iss \in Seq32, NEW L, Fits(L), L.wrote = 0, L.read = <<>>, L.base = NoSeq
    PROVE  LET r == new_connect(iss)
           IN  Stream(r.tcb, L) /\ Told(r.tcb, L, r.out) /\ r.tcb.iss = iss
<1> DEFINE b == blank(iss, "SynSent")
           v == [b EXCEPT !.nxt = Plus(iss, 1), !.max = Plus(iss, 1), !.rto = TRUE]
           r == new_connect(iss)
<1>1. r = send_syn(v)
  BY DEF new_connect
<1>2. /\ b \in TcbRec /\ b.state = "SynSent" /\ b.iss = iss /\ b.tx = <<>> /\ b.rx = <<>> /\ b.ooo = <<>>
      /\ ~b.fin_acked /\ ~b.fin_received
  BY BlankType
<1>3. Plus(iss, 1) \in Seq32 /\ b.rx_fin_seq = NoSeq
  BY SynOpen DEF blank
<1> HIDE DEF b, r
<1>4. v \in TcbRec
  BY <1>2, <1>3, ZenonT(60) DEF TcbRec
<1>5. /\ v.state = "SynSent" /\ v.iss = iss /\ v.tx = <<>> /\ v.rx = <<>> /\ v.ooo = <<>>
      /\ ~v.fin_acked /\ ~v.fin_received /\ v.rx_fin_seq = NoSeq
  BY <1>2, <1>3 DEF TcbRec
<1> HIDE DEF v
<1>6. SynState(v) /\ Virgin(v)
  BY <1>5 DEF SynState, Virgin
<1>7. TxOK(v, L)
  BY <1>5, <1>6, RunEmpty DEF TxOK, Front
<1>8. Right(v, L, r) /\ Steady(v, r.tcb)
  BY <1>1, <1>4, <1>6, <1>7, SendSynRight, SendSynKeeps DEF Stream
<1> QED BY <1>5, <1>8 DEF Right, Steady, r

\* The block that a listener makes for a SYN.
LEMMA PassiveBlock ==
    ASSUME NEW iss \in Seq32, NEW h \in Segment
    PROVE  \E v \in TcbRec :
              /\ new_passive(iss, h) = send_syn(v)
              /\ v.state = "SynReceived" /\ v.iss = iss /\ v.tx = <<>> /\ v.rx = <<>> /\ v.ooo = <<>>
              /\ ~v.fin_acked /\ ~v.fin_received /\ v.rx_fin_seq = NoSeq /\ v.rcv_nxt = Plus(h.seq, 1)
<1> DEFINE b == blank(iss, "SynReceived")
           v == [b EXCEPT !.user_open = FALSE, !.rcv_nxt = Plus(h.seq, 1),
                          !.nxt = Plus(iss, 1), !.max = Plus(iss, 1),
                          !.wnd = h.wnd, !.wl1 = h.seq, !.rto = TRUE]
<1>1. new_passive(iss, h) = send_syn(v)
  BY DEF new_passive
<1>2. /\ b \in TcbRec /\ b.state = "SynReceived" /\ b.iss = iss /\ b.una = iss
      /\ b.tx = <<>> /\ b.rx = <<>> /\ b.ooo = <<>> /\ b.retries = 0
      /\ ~b.fin_pending /\ b.fin_seq = NoSeq /\ ~b.fin_acked /\ ~b.fin_received /\ ~b.discard_rx
  BY BlankType
<1>3. h.seq \in Seq32 /\ h.wnd \in Window
  BY DEF Segment
<1>4. Plus(iss, 1) \in Seq32 /\ Plus(h.seq, 1) \in Seq32
  BY <1>3, SynOpen
<1>5. b.rx_fin_seq = NoSeq
  BY DEF blank
<1> HIDE DEF b
<1>6. v \in TcbRec
  BY <1>2, <1>3, <1>4, ZenonT(60) DEF TcbRec
<1>7. /\ v.state = "SynReceived" /\ v.iss = iss /\ v.tx = <<>> /\ v.rx = <<>> /\ v.ooo = <<>>
      /\ ~v.fin_acked /\ ~v.fin_received /\ v.rx_fin_seq = NoSeq /\ v.rcv_nxt = Plus(h.seq, 1)
  BY <1>2, <1>5 DEF TcbRec
<1> HIDE DEF v
<1> QED BY <1>1, <1>6, <1>7

\* A child of a listener has answered the SYN that made it.
LEMMA NewPassiveRight ==
    ASSUME NEW iss \in Seq32, NEW h \in Segment, NEW L, Fits(L), L.wrote = 0, L.read = <<>>, L.base = h.seq
    PROVE  LET r == new_passive(iss, h)
           IN  Stream(r.tcb, L) /\ Told(r.tcb, L, r.out) /\ r.tcb.iss = iss
<1> DEFINE r == new_passive(iss, h)
<1>1. PICK v \in TcbRec :
          /\ r = send_syn(v)
          /\ v.state = "SynReceived" /\ v.iss = iss /\ v.tx = <<>> /\ v.rx = <<>> /\ v.ooo = <<>>
          /\ ~v.fin_acked /\ ~v.fin_received /\ v.rx_fin_seq = NoSeq /\ v.rcv_nxt = Plus(h.seq, 1)
  BY PassiveBlock
<1> HIDE DEF r
<1>2. SynState(v) /\ L.base # NoSeq
  BY <1>1, NoSeqApart DEF SynState, Segment
<1>3. TxOK(v, L)
  BY <1>1, <1>2, RunEmpty DEF TxOK, Front
<1>4. RxOK(v, L)
  BY <1>1, <1>2, FreshRx
<1>5. Right(v, L, r) /\ Steady(v, r.tcb)
  BY <1>1, <1>2, <1>3, <1>4, SendSynRight, SendSynKeeps DEF Stream
<1> QED BY <1>1, <1>5 DEF Right, Steady, r

----------------------------------------------------------------------------
(* Which connection a segment belongs to. *)

\* A number in the receive window is less than a window beyond rcv_nxt.
LEMMA InWindow ==
    ASSUME NEW r \in Seq32, NEW x \in Seq32, NEW w \in Nat, w >= 1, w <= RxCap,
           SeqGe(x, r), SeqLt(x, Plus(r, w))
    PROVE  Minus(x, r) < w
<1> DEFINE d == Minus(x, r)
<1>1. d \in Seq32 /\ Minus(r, r) = 0
  BY MinusFrom
<1>2. Plus(r, w) \in Seq32 /\ Minus(Plus(r, w), r) = w
  <2>1. Minus(r, r) + w < SeqSpace
    BY <1>1, SpaceFacts
  <2>2. Plus(r, w) \in Seq32 /\ Minus(Plus(r, w), r) = Minus(r, r) + w
    BY <2>1, StepOn
  <2> QED BY <1>1, <2>2
<1>3. SeqLt(x, Plus(r, w)) <=> d >= w + Half \/ (d < w /\ w <= d + Half)
  BY <1>2, SeqLtFrom, Zenon
<1>4. SeqLt(r, x) <=> Minus(r, r) >= d + Half \/ (Minus(r, r) < d /\ d <= Minus(r, r) + Half)
  BY SeqLtFrom, Zenon
<1>5. x = r => d = 0
  BY <1>1
<1>6. x = r \/ SeqLt(r, x)
  BY DEF SeqGe, SeqLe
<1> HIDE DEF d
<1>7. d <= Half
  BY <1>1, <1>4, <1>5, <1>6, SpaceFacts DEF Seq32
<1>8. d < w
  BY <1>1, <1>3, <1>7, SpaceFacts DEF Seq32
<1> QED BY <1>8 DEF d

\* A segment that a block looks into shares a number with what the block can receive: it lies
\* less than a window beyond the end of the stream that the block answered, and belongs to the
\* connection that the segment carries.
LEMMA ReachesShares ==
    ASSUME NEW t \in TcbRec, NEW L, Fits(L), L.base # NoSeq, RxOK(t, L), NEW h \in Segment, Reaches(t, h),
           NEW base \in Seq32, NEW c, NEW limit \in Nat, limit + RxCap + 1 < SeqSpace, NEW ends, ends \subseteq 1 .. limit + 1,
           Carries(h, base, c, limit, ends)
    PROVE  \E x \in Seq32 : Minus(x, L.base) <= L.limit + RxCap + 1 /\ Minus(x, base) <= limit + RxCap + 1
<1> DEFINE n == Len(h.data)
           len == SegLen(h)
           s == Minus(h.seq, base)
           w == rcv_wnd(t)
           y == Plus(h.seq, len - 1)
<1>1. /\ t.rcv_nxt \in Seq32 /\ L.base \in Seq32 /\ L.limit \in Nat /\ L.limit + RxCap + 1 < SeqSpace
      /\ h.seq \in Seq32 /\ h.data \in Seq(Datum) /\ n \in Nat /\ w \in 0 .. RxCap
  <2>1. h.data \in Seq(Datum) /\ h.seq \in Seq32
    BY DEF Segment
  <2> QED BY <2>1, FieldTypes, LedgerTypes, LenProperties DEF Window
<1>2. s \in Nat /\ s < SeqSpace
  BY <1>1, WayOn
<1>3. /\ len \in Nat /\ (len = 0 => n = 0) /\ s + len <= limit + 3 /\ (len >= 1 => s + (len - 1) <= limit + 1)
      /\ s <= limit + 2
  <2>1. n = 0 <=> h.data = <<>>
    BY <1>1, EmptySeq
  <2>2. CASE "SYN" \in h.flags
    <3>1. s = 0 /\ n = 0 /\ "FIN" \notin h.flags
      BY <2>1, <2>2 DEF Carries
    <3>2. len = n + 1 + 0
      BY <2>2, <3>1 DEF SegLen
    <3> HIDE DEF n, s, len
    <3> QED BY <3>1, <3>2
  <2>3. CASE "SYN" \notin h.flags
    <3>1. s >= 1 /\ s + n <= limit + 2 /\ (n # 0 => s + n <= limit + 1) /\ ("FIN" \in h.flags => s + n \in ends)
      BY <2>1, <2>3 DEF Carries
    <3>2. "FIN" \in h.flags => s + n <= limit + 1
      <4> HIDE DEF n, s
      <4> QED BY <1>1, <1>2, <3>1
    <3>3. ("FIN" \in h.flags => len = n + 0 + 1) /\ ("FIN" \notin h.flags => len = n + 0 + 0)
      BY <2>3 DEF SegLen
    <3> HIDE DEF n, s, len
    <3> QED BY <1>1, <1>2, <3>1, <3>2, <3>3
  <2> QED BY <2>2, <2>3
<1>4. ASSUME NEW x \in Seq32, x = t.rcv_nxt \/ Minus(x, t.rcv_nxt) < w
      PROVE  Minus(x, L.base) <= L.limit + RxCap + 1
  <2> DEFINE d == Minus(x, t.rcv_nxt)
             r == Minus(t.rcv_nxt, L.base)
  <2>1. r \in 1 .. L.limit + 2
    BY PlaceBound DEF Place
  <2>2. d \in Nat /\ (x = t.rcv_nxt => d = 0)
    <3>1. d \in Nat /\ Minus(t.rcv_nxt, t.rcv_nxt) = 0
      BY <1>1, <1>4, WayOn
    <3> QED BY <3>1
  <2>3. d <= RxCap - 1
    <3> HIDE DEF d, w
    <3> QED BY <1>1, <1>4, <2>2, SpaceFacts DEF d
  <2>4. r + d < SeqSpace /\ r + d <= L.limit + RxCap + 1
    <3> HIDE DEF d, r
    <3>1. r \in Nat /\ r <= L.limit + 2 /\ L.limit \in Nat /\ RxCap \in Nat /\ SeqSpace \in Nat
      BY <1>1, <2>1, SpaceFacts
    <3>2. r + d <= L.limit + RxCap + 1
      BY <2>2, <2>3, <3>1
    <3>3. L.limit + RxCap + 1 < SeqSpace
      BY <1>1
    <3> QED BY <2>2, <3>1, <3>2, <3>3
  <2>5. Minus(x, L.base) = r + d
    BY <1>1, <1>4, <2>4, WayOn
  <2> QED BY <2>4, <2>5
<1>5. Minus(h.seq, base) <= limit + RxCap + 1
  <2> HIDE DEF s, n, len
  <2>1. s <= limit + RxCap + 1
    BY <1>2, <1>3, SpaceFacts
  <2> QED BY <2>1 DEF s
<1>6. ASSUME len >= 1 PROVE y \in Seq32 /\ Minus(y, base) <= limit + RxCap + 1
  <2>1. len - 1 \in Nat /\ s + (len - 1) < SeqSpace /\ s + (len - 1) <= limit + RxCap + 1
    <3> HIDE DEF s, n, len
    <3> QED BY <1>2, <1>3, <1>6, SpaceFacts
  <2>2. y \in Seq32 /\ Minus(y, base) = s + (len - 1)
    <3> HIDE DEF len
    <3> QED BY <1>1, <2>1, StepOn
  <2> QED BY <2>1, <2>2
<1>7. \/ h.seq = t.rcv_nxt
      \/ w >= 1 /\ SeqGe(h.seq, t.rcv_nxt) /\ SeqLt(h.seq, Plus(t.rcv_nxt, w))
      \/ len >= 1 /\ w >= 1 /\ SeqGe(y, t.rcv_nxt) /\ SeqLt(y, Plus(t.rcv_nxt, w))
  <2>1. CASE h.seq = t.rcv_nxt
    BY <2>1
  <2>2. CASE acceptable(t, h.seq, len)
    <3> HIDE DEF len
    <3>1. w = 0 \/ w > 0
      BY <1>1
    <3>2. len = 0 \/ len > 0
      BY <1>3
    <3>3. w > 0 => w >= 1
      BY <1>1
    <3>4. len > 0 => len >= 1
      BY <1>3
    <3> QED BY <2>2, <3>1, <3>2, <3>3, <3>4, <1>1, <1>3 DEF acceptable
  <2> QED BY <2>1, <2>2 DEF Reaches
<1> HIDE DEF y, w, len, s, n
<1>8. CASE h.seq = t.rcv_nxt
  BY <1>1, <1>4, <1>5, <1>8
<1>9. CASE w >= 1 /\ SeqGe(h.seq, t.rcv_nxt) /\ SeqLt(h.seq, Plus(t.rcv_nxt, w))
  <2>1. Minus(h.seq, t.rcv_nxt) < w
    BY <1>1, <1>9, InWindow
  <2> QED BY <1>1, <1>4, <1>5, <2>1
<1>10. CASE len >= 1 /\ w >= 1 /\ SeqGe(y, t.rcv_nxt) /\ SeqLt(y, Plus(t.rcv_nxt, w))
  <2>1. Minus(y, t.rcv_nxt) < w
    BY <1>1, <1>6, <1>10, InWindow
  <2> QED BY <1>4, <1>6, <1>10, <2>1
<1> QED BY <1>7, <1>8, <1>9, <1>10

\* The number at a distance is where it is.
LEMMA ThereAndBack == ASSUME NEW x \in Seq32, NEW b \in Seq32 PROVE Plus(b, Minus(x, b)) = x
<1>1. Minus(x, b) \in Seq32
  BY MinusFrom
<1>2. Minus(x, b) \in 0 .. SeqSpace
  BY <1>1, SpaceFacts DEF Seq32
<1> QED BY <1>2, PlusIs, MinusIs, SpaceFacts DEF Seq32

----------------------------------------------------------------------------
(* Only segments acknowledge. *)

\* A block that is synchronized after the step was so before, with the same snd_una.
Silent(t, u) == synchronized(u) => synchronized(t) /\ u.una = t.una

\* output leaves snd_una and the state alone.
LEMMA OutputSilent ==
    ASSUME NEW t, {"state", "una"} \subseteq DOMAIN t, NEW force_ack \in BOOLEAN, NEW probe \in BOOLEAN
    PROVE  LET u == output(t, force_ack, probe).tcb
           IN  u.state = t.state /\ u.una = t.una /\ {"state", "una"} \subseteq DOMAIN u
<1> DEFINE Unmoved(u) == u.state = t.state /\ u.una = t.una /\ {"state", "una"} \subseteq DOMAIN u
<1>1. \A v, segs : Unmoved(v) => Unmoved(Sending(v, segs).tcb)
  BY DEF Sending, Step
<1>2. \A v, nxt, fin : Unmoved(v) => Unmoved(Advanced(v, nxt, fin))
  BY DEF Advanced
<1>3. \A v : Unmoved(v) => Unmoved(ArmRto(v))
  BY DEF ArmRto
<1>4. Unmoved(t)
  OBVIOUS
<1>5. \A s : Step(t, s).tcb = t
  BY DEF Step
<1> HIDE DEF Unmoved
<1>6. \A n, fin : Unmoved(SendPieces(t, n, fin).tcb)
  BY <1>1, <1>2, <1>4, <1>5 DEF SendPieces, Quiet
<1>7. Unmoved(SendWindow(t, probe).tcb)
  BY <1>4, <1>5, <1>6 DEF SendWindow, SendBytes, Quiet
<1>8. Unmoved(Armed(SendWindow(t, probe)).tcb) /\ Unmoved(Quiet(t).tcb)
  BY <1>3, <1>4, <1>5, <1>7 DEF Armed, Step, Quiet
<1>9. \A r : Unmoved(r.tcb) => Unmoved(Acking(r, force_ack).tcb)
  BY <1>1 DEF Acking, send_ack
<1>10. Unmoved(output(t, force_ack, probe).tcb)
  BY <1>8, <1>9 DEF output
<1> QED BY <1>10 DEF Unmoved

\* What the programs, the timers and failures do to a block moves no snd_una and opens nothing.
LEMMA CallsSilent ==
    ASSUME NEW t \in TcbRec
    PROVE  /\ \A data : Silent(t, write(t, data).tcb)
           /\ \A n : Silent(t, read(t, n).tcb)
           /\ Silent(t, shutdown_write(t).tcb) /\ Silent(t, close(t).tcb)
           /\ Silent(t, abort([t EXCEPT !.user_open = FALSE]).tcb)
           /\ Silent(t, Quiet(close_timer(t)).tcb) /\ Silent(t, Quiet(on_unreachable(t)).tcb)
           /\ Silent(t, Quiet(fail(t)).tcb) /\ Silent(t, rto_timer(t).tcb)
<1> DEFINE Has(u) == {"state", "una"} \subseteq DOMAIN u
           Unmoved(u) == u.state = t.state /\ u.una = t.una
           c == [t EXCEPT !.user_open = FALSE, !.discard_rx = TRUE, !.rx = <<>>]
           b == [t EXCEPT !.user_open = FALSE]
<1>0. FALSE \in BOOLEAN /\ TRUE \in BOOLEAN
  OBVIOUS
<1>1. Has(t) /\ Has(c) /\ Has(b) /\ Unmoved(t) /\ Unmoved(c) /\ Unmoved(b)
  BY DEF TcbRec
<1>2. \A u : Unmoved(u) => Silent(t, u)
  BY DEF Silent, synchronized
<1>3. \A u, err : Has(u) => set_closed(u, err).state = "Closed" /\ Silent(t, set_closed(u, err))
  BY DEF set_closed, Silent, synchronized
<1>4. \A u, out : Step(u, out).tcb = u /\ Quiet(u).tcb = u
  BY DEF Step, Quiet
<1>5. \A u : Has(u) => Silent(t, abort(u).tcb)
  BY <1>3, <1>4 DEF abort
<1>6. \A u : Has(u) /\ Unmoved(u) => Silent(t, shutdown_write(u).tcb)
  <2> SUFFICES ASSUME NEW u, Has(u), Unmoved(u) PROVE Silent(t, shutdown_write(u).tcb)
    OBVIOUS
  <2>1. CASE u.state = "Established"
    <3> DEFINE v == [u EXCEPT !.fin_pending = TRUE, !.state = "FinWait1"]
    <3>1. v.una = t.una /\ v.state = "FinWait1" /\ {"state", "una"} \subseteq DOMAIN v /\ synchronized(t)
      BY <2>1 DEF synchronized
    <3>2. shutdown_write(u) = output(v, FALSE, FALSE)
      BY <2>1 DEF shutdown_write
    <3> HIDE DEF v
    <3> QED BY <1>0, <3>1, <3>2, OutputSilent DEF Silent
  <2>2. CASE u.state = "CloseWait"
    <3> DEFINE v == [u EXCEPT !.fin_pending = TRUE, !.state = "LastAck"]
    <3>1. v.una = t.una /\ v.state = "LastAck" /\ {"state", "una"} \subseteq DOMAIN v /\ synchronized(t)
      BY <2>2 DEF synchronized
    <3>2. shutdown_write(u) = output(v, FALSE, FALSE)
      BY <2>2 DEF shutdown_write
    <3> HIDE DEF v
    <3> QED BY <1>0, <3>1, <3>2, OutputSilent DEF Silent
  <2>3. CASE u.state \notin {"Established", "CloseWait"}
    <3>1. shutdown_write(u) = Quiet(u)
      BY <2>3 DEF shutdown_write
    <3> QED BY <1>2, <1>4, <3>1
  <2> QED BY <2>1, <2>2, <2>3
<1>7. \A data : Silent(t, write(t, data).tcb)
  <2> TAKE data
  <2> DEFINE v == [t EXCEPT !.tx = @ \o SubSeq(data, 1, Least(Len(data), tx_space(t)))]
  <2>1. Has(v) /\ Unmoved(v) /\ write(t, data) = output(v, FALSE, FALSE)
    BY DEF write, TcbRec
  <2> HIDE DEF v
  <2>2. Unmoved(write(t, data).tcb)
    BY <1>0, <2>1, OutputSilent
  <2> QED BY <1>2, <2>2
<1>8. \A n : Silent(t, read(t, n).tcb)
  <2> TAKE n
  <2> DEFINE v == [t EXCEPT !.rx = SubSeq(@, n + 1, Len(@))]
  <2>1. Has(v) /\ Unmoved(v) /\ (read(t, n) = send_ack(v) \/ read(t, n) = Quiet(v))
    BY DEF read, TcbRec
  <2> HIDE DEF v
  <2>2. send_ack(v).tcb.una = v.una /\ send_ack(v).tcb.state = v.state
    BY <2>1 DEF send_ack, Sending, Step
  <2>3. Unmoved(read(t, n).tcb)
    BY <1>4, <2>1, <2>2
  <2> QED BY <1>2, <2>3
<1>9. Silent(t, close(t).tcb)
  <2> DEFINE e == [c EXCEPT !.close_dl = TRUE]
  <2>1. Unmoved(e)
    BY DEF TcbRec
  <2>2. close(t) \in {abort(c), shutdown_write(c), Quiet(e), Quiet(c)}
    BY DEF close
  <2> HIDE DEF c, e, Has, Unmoved
  <2> QED BY <1>1, <1>2, <1>4, <1>5, <1>6, <2>1, <2>2
<1>10. Silent(t, rto_timer(t).tcb)
  <2> DEFINE persist == t.wnd = 0 /\ t.una = t.max /\ t.tx # <<>>
             tries == IF persist THEN t.retries ELSE t.retries + 1
             v == [t EXCEPT !.rto = FALSE, !.retries = tries, !.dupacks = 0]
             w == [v EXCEPT !.nxt = v.una]
  <2>1. Has(v) /\ Unmoved(v) /\ Has(w) /\ Unmoved(w)
    BY DEF TcbRec
  <2>2. rto_timer(t) \in {Quiet(set_closed(v, "TimedOut")), Rearmed(Resend(v), persist)}
    BY DEF rto_timer
  <2>3. Resend(v) \in {send_syn(v), output(w, FALSE, TRUE), Quiet(v)}
    BY DEF Resend
  <2> HIDE DEF persist, v, w
  <2>4. Has(send_syn(v).tcb) /\ Unmoved(send_syn(v).tcb)
    BY <2>1 DEF send_syn, Sending, Step
  <2>7. Has(output(w, FALSE, TRUE).tcb) /\ Unmoved(output(w, FALSE, TRUE).tcb)
    BY <1>0, <2>1, OutputSilent
  <2>5. Has(Resend(v).tcb) /\ Unmoved(Resend(v).tcb)
    <3> HIDE DEF Has, Unmoved
    <3> QED BY <1>4, <2>1, <2>3, <2>4, <2>7, Zenon
  <2>6. Unmoved(Rearmed(Resend(v), persist).tcb)
    BY <2>5 DEF Rearmed, Step
  <2> HIDE DEF Has, Unmoved
  <2> QED BY <1>2, <1>3, <1>4, <2>1, <2>2, <2>6
<1> HIDE DEF c, b, Has
<1>11. /\ Silent(t, shutdown_write(t).tcb) /\ Silent(t, abort(b).tcb)
       /\ Silent(t, Quiet(close_timer(t)).tcb) /\ Silent(t, Quiet(on_unreachable(t)).tcb)
       /\ Silent(t, Quiet(fail(t)).tcb)
  BY <1>1, <1>2, <1>3, <1>4, <1>5, <1>6 DEF close_timer, on_unreachable, fail
<1> QED BY <1>7, <1>8, <1>9, <1>10, <1>11 DEF b

----------------------------------------------------------------------------
(* The two hosts. *)

\* There are two of them.
LEMMA Pair ==
    ASSUME NEW p \in Peers
    PROVE  Peers = {p, Other(p)} /\ Other(Other(p)) = p
<1>1. Other(p) \in Peers /\ Other(p) # p
  BY OtherIs
<1>2. IsFiniteSet(Peers \ {p}) /\ Cardinality(Peers \ {p}) = 1
  BY PeersAssumption, FS_RemoveElement
<1>3. PICK x : Peers \ {p} = {x}
  BY <1>2, FS_Singleton
<1>4. Peers = {p, Other(p)}
  BY <1>1, <1>3
<1>5. Other(Other(p)) \in Peers /\ Other(Other(p)) # Other(p)
  BY <1>1, OtherIs
<1> QED BY <1>4, <1>5

\* What is known of connection c of host q: how far its bytes go and where its FIN may be.  An
\* earlier connection of q may have written anything up to the most a program writes.
Writes(q) == Exists(q) /\ Writable(conn[q])
Limit(q, c) == IF c = born[q] THEN wrote[q] ELSE Bytes[q]
Ends(q, c) == IF c = born[q] THEN (IF Writes(q) THEN {} ELSE {wrote[q] + 1}) ELSE 1 .. Bytes[q] + 1

\* The ledger of p's block, if d is the peer's connection that it answered (0: none yet).
Book(p, d) ==
    [own |-> born[p], wrote |-> wrote[p], read |-> got[p], base |-> irs[p],
     peer |-> d, limit |-> Limit(Other(p), d), ends |-> Ends(Other(p), d)]
Link(p, d) ==
    /\ d \in 0 .. born[Other(p)]
    /\ d = 0 => irs[p] = NoSeq
    /\ d > 0 => irs[p] = Iss[Other(p)][d]

\* The block of p is in step with the history of both hosts.
BlockOK(p) ==
    Exists(p) =>
        /\ born[p] >= 1 /\ conn[p].iss = Iss[p][born[p]]
        /\ \E d \in Nat : Link(p, d) /\ Stream(conn[p], Book(p, d))

\* h, of the other host's connection c, acknowledges what was sent on one connection of p: if c is
\* the current one, on the connection it answered, and no more than it has received.
Acks(p, h, c) ==
    LET q == Other(p)
    IN  \E x \in 1 .. born[p] :
           /\ Minus(h.ack, Iss[p][x]) \in 1 .. Bytes[p] + 2
           /\ c = born[q] =>
                 /\ irs[q] = Iss[p][x]
                 /\ Exists(q) => Minus(h.ack, irs[q]) <= Minus(conn[q].rcv_nxt, irs[q])

\* A segment on its way to p.
Said(p, h) ==
    LET q == Other(p)
    IN  \/ "RST" \in h.flags
        \/ \E c \in 1 .. born[q] :
              /\ Carries(h, Iss[q][c], c, Limit(q, c), Ends(q, c))
              /\ "ACK" \in h.flags => Acks(p, h, c)
SegOK(p) == \A i \in DOMAIN net[p] : Said(p, net[p][i])

\* A synchronized block that answered the other host's current connection was answered by it, and
\* is not acknowledged beyond what the other has received.
Agreed(p, u, base) ==
    LET q == Other(p)
    IN  synchronized(u) /\ base = Iss[q][born[q]] =>
           /\ irs[q] = u.iss
           /\ Exists(q) => Minus(u.una, u.iss) <= Minus(conn[q].rcv_nxt, u.iss)
AgreeOK(p) == Exists(p) => Agreed(p, conn[p], irs[p])

Histories ==
    /\ irs \in [Peers -> OptSeq] /\ got \in [Peers -> Seq(Datum)]
    /\ \A p \in Peers : wrote[p] <= Bytes[p]
StreamInv == Histories /\ \A p \in Peers : BlockOK(p) /\ SegOK(p) /\ AgreeOK(p)

\* The ledger of a block is one that fits the sequence numbers.
LEMMA BookFits ==
    ASSUME NumbersApart, NEW p \in Peers, NEW own \in Nat, NEW w \in Nat, w <= Bytes[p],
           NEW taken \in Seq(Datum), NEW base \in OptSeq, NEW d \in Nat,
           NEW limit \in Nat, limit <= Bytes[Other(p)], NEW ends, ends \subseteq 1 .. limit + 1
    PROVE  Fits([own |-> own, wrote |-> w, read |-> taken, base |-> base,
                 peer |-> d, limit |-> limit, ends |-> ends])
<1> DEFINE L == [own |-> own, wrote |-> w, read |-> taken, base |-> base,
                 peer |-> d, limit |-> limit, ends |-> ends]
<1>1. /\ Bytes[p] \in Nat /\ Bytes[Other(p)] \in Nat
      /\ Bytes[p] + RxCap + 1 < SeqSpace /\ Bytes[Other(p)] + RxCap + 1 < SeqSpace
  BY OtherIs, ProgramAssumption DEF NumbersApart
<1>2. w + RxCap + 1 < SeqSpace /\ limit + RxCap + 1 < SeqSpace
  <2> DEFINE x == Bytes[p]
             y == Bytes[Other(p)]
  <2>1. /\ x \in Nat /\ y \in Nat /\ w \in Nat /\ limit \in Nat /\ w <= x /\ limit <= y
        /\ x + RxCap + 1 < SeqSpace /\ y + RxCap + 1 < SeqSpace /\ RxCap \in Nat /\ SeqSpace \in Nat
    BY <1>1, SpaceFacts
  <2> HIDE DEF x, y
  <2> QED BY <2>1
<1>3. ends \in SUBSET Nat
  OBVIOUS
<1>4. L \in Ledger
  BY <1>3 DEF Ledger
<1>5. L.wrote = w /\ L.limit = limit /\ L.ends = ends
  OBVIOUS
<1> HIDE DEF L
<1>6. Fits(L)
  BY <1>2, <1>4, <1>5 DEF Fits
<1> QED BY <1>6 DEF L

\* The first numbers of the connections so far.
LEMMA IssFacts ==
    ASSUME Counts, NEW p \in Peers, NEW c \in 1 .. born[p]
    PROVE  c \in DOMAIN Iss[p] /\ Iss[p][c] \in Seq32 /\ Iss[p][c] # NoSeq /\ c \in Nat /\ born[p] \in Nat
<1>1. Iss[p] \in Seq(Seq32) /\ Len(Iss[p]) \in Nat /\ born[p] \in Nat /\ born[p] <= Len(Iss[p])
  BY IssAssumption, LenProperties DEF Counts
<1>2. c \in 1 .. Len(Iss[p]) /\ DOMAIN Iss[p] = 1 .. Len(Iss[p])
  BY <1>1, LenProperties
<1>3. Iss[p][c] \in Seq32
  BY <1>1, <1>2, ElementOfSeq
<1> QED BY <1>1, <1>2, <1>3, NoSeqApart

\* A number within reach of two connections of a host: they are one.
LEMMA OneConnection ==
    ASSUME NumbersApart, NEW p \in Peers, NEW c \in DOMAIN Iss[p], NEW d \in DOMAIN Iss[p],
           Iss[p][c] \in Seq32, Iss[p][d] \in Seq32, NEW x \in Seq32,
           Minus(x, Iss[p][c]) <= Bytes[p] + RxCap + 1, Minus(x, Iss[p][d]) <= Bytes[p] + RxCap + 1
    PROVE  c = d
<1>1. Minus(x, Iss[p][c]) \in Nat /\ Minus(x, Iss[p][d]) \in Nat
  BY WayOn
<1>2. Bytes[p] \in Nat /\ RxCap \in Nat
  BY ProgramAssumption, SpaceFacts
<1>3. Minus(x, Iss[p][c]) \in 0 .. Bytes[p] + RxCap + 1 /\ Minus(x, Iss[p][d]) \in 0 .. Bytes[p] + RxCap + 1
  BY <1>1, <1>2
<1>4. Plus(Iss[p][c], Minus(x, Iss[p][c])) = Plus(Iss[p][d], Minus(x, Iss[p][d]))
  BY ThereAndBack
<1> QED BY <1>3, <1>4 DEF NumbersApart

\* No two connections of a host begin alike.
LEMMA OneIss ==
    ASSUME NumbersApart, Counts, NEW p \in Peers, NEW c \in 1 .. born[p], NEW d \in 1 .. born[p], Iss[p][c] = Iss[p][d]
    PROVE  c = d
<1>1. c \in DOMAIN Iss[p] /\ d \in DOMAIN Iss[p] /\ Iss[p][c] \in Seq32
  BY IssFacts
<1>2. Minus(Iss[p][c], Iss[p][c]) = 0 /\ 0 <= Bytes[p] + RxCap + 1
  BY <1>1, WayOn, ProgramAssumption, SpaceFacts
<1> QED BY <1>1, <1>2, OneConnection

\* A segment stays true when more is written.
LEMMA CarriesOn ==
    ASSUME NEW h \in Segment, NEW base \in Seq32, NEW c, NEW limit \in Nat, NEW ends,
           Carries(h, base, c, limit, ends), NEW more \in Nat, limit <= more, NEW places, ends \subseteq places
    PROVE  Carries(h, base, c, more, places)
<1>1. h.seq \in Seq32 /\ Len(h.data) \in Nat
  BY LenProperties DEF Segment
<1>2. Minus(h.seq, base) \in Nat
  BY <1>1, WayOn
<1> QED BY <1>1, <1>2 DEF Carries

\* So does what a block knows.
LEMMA StreamOn ==
    ASSUME NEW t \in TcbRec, NEW L, Fits(L), Stream(t, L), NEW M, Fits(M), M.own = L.own, M.wrote = L.wrote,
           M.read = L.read, M.base = L.base,
           L.base # NoSeq => M.peer = L.peer /\ L.limit <= M.limit /\ L.ends \subseteq M.ends
    PROVE  Stream(t, M)
<1>1. TxOK(t, M)
  BY DEF Stream, TxOK
<1>2. M.base = NoSeq => Virgin(t) /\ M.read = <<>>
  BY DEF Stream
<1>3. ASSUME L.base # NoSeq PROVE RxOK(t, M)
  <2>1. /\ L.limit \in Nat /\ M.limit \in Nat /\ Place(t, L) \in Nat /\ Place(t, M) = Place(t, L) /\ RxOK(t, L)
        /\ M.peer = L.peer /\ L.limit <= M.limit /\ L.ends \subseteq M.ends /\ L.base \in Seq32
    BY <1>3, LedgerTypes, PlaceType DEF Place, Stream
  <2>2. \A i \in DOMAIN t.ooo : HeldOK(t.ooo[i], M)
    <3> SUFFICES ASSUME NEW i \in DOMAIN t.ooo PROVE HeldOK(t.ooo[i], M)
      OBVIOUS
    <3>1. HeldOK(t.ooo[i], L)
      BY <2>1 DEF RxOK
    <3> DEFINE o == t.ooo[i]
    <3>2. o.seq \in Seq32 /\ Len(o.data) \in Nat
      <4>1. o \in HeldSeg
        BY ElementOfSeq, LenProperties, FieldTypes DEF TcbRec
      <4> QED BY <4>1, LenProperties DEF HeldSeg
    <3> HIDE DEF o
    <3>3. Minus(o.seq, L.base) \in Nat
      BY <2>1, <3>2, WayOn
    <3> QED BY <2>1, <3>1, <3>2, <3>3 DEF HeldOK, o
  <2>3. ~t.fin_received => Place(t, M) >= 1 /\ Place(t, M) <= M.limit + 1
    <3>1. ~t.fin_received => Place(t, L) >= 1 /\ Place(t, L) <= L.limit + 1
      BY <2>1 DEF RxOK
    <3> QED BY <2>1, <3>1
  <2> QED BY <2>1, <2>2, <2>3 DEF RxOK
<1> QED BY <1>1, <1>2, <1>3 DEF Stream

\* A part of a sequence holds nothing else.
LEMMA PartParts ==
    ASSUME NEW S, NEW s \in Seq(S), NEW m \in Int, NEW n \in Int, m >= 1, n <= Len(s)
    PROVE  /\ SubSeq(s, m, n) \in Seq(S)
           /\ \A k \in DOMAIN SubSeq(s, m, n) : \E j \in DOMAIN s : SubSeq(s, m, n)[k] = s[j]
<1>1. Len(s) \in Nat /\ DOMAIN s = 1 .. Len(s)
  BY LenProperties
<1>2. /\ SubSeq(s, m, n) \in Seq(S) /\ Len(SubSeq(s, m, n)) = IF m <= n THEN n - m + 1 ELSE 0
      /\ \A k \in 1 .. n - m + 1 : SubSeq(s, m, n)[k] = s[m + k - 1]
  <2>1. \A i \in m .. n : i \in 1 .. Len(s) /\ s[i] \in S
    BY <1>1, ElementOfSeq
  <2> QED BY <2>1, SubSeqProperties
<1>3. ASSUME NEW k \in DOMAIN SubSeq(s, m, n) PROVE \E j \in DOMAIN s : SubSeq(s, m, n)[k] = s[j]
  <2>1. k \in 1 .. Len(SubSeq(s, m, n))
    BY <1>2, LenProperties
  <2>2. k \in 1 .. n - m + 1 /\ m + k - 1 \in 1 .. Len(s)
    BY <1>1, <1>2, <2>1
  <2> QED BY <1>1, <1>2, <2>2
<1> QED BY <1>2, <1>3

\* What is left of a queue was in it.
LEMMA WithoutParts ==
    ASSUME NEW s \in Seq(Segment), NEW i \in DOMAIN s, NEW j \in DOMAIN Without(s, i)
    PROVE  \E k \in DOMAIN s : Without(s, i)[j] = s[k]
<1> DEFINE R == {s[k] : k \in DOMAIN s}
           a == SubSeq(s, 1, i - 1)
           b == SubSeq(s, i + 1, Len(s))
<1>1. Len(s) \in Nat /\ i \in 1 .. Len(s) /\ DOMAIN s = 1 .. Len(s)
  BY LenProperties
<1>2. \A k \in 1 .. Len(s) : s[k] \in R
  BY <1>1
<1>3. Without(s, i) = a \o b
  BY DEF Without
<1> HIDE DEF R
<1>4. a \in Seq(R)
  <2>1. 1 \in Int /\ i - 1 \in Int /\ \A k \in 1 .. i - 1 : s[k] \in R
    BY <1>1, <1>2
  <2> QED BY <2>1, SubSeqProperties
<1>5. b \in Seq(R)
  <2>1. i + 1 \in Int /\ Len(s) \in Int /\ \A k \in i + 1 .. Len(s) : s[k] \in R
    BY <1>1, <1>2
  <2> QED BY <2>1, SubSeqProperties
<1> HIDE DEF a, b
<1>6. a \o b \in Seq(R)
  BY <1>4, <1>5, ConcatProperties
<1>7. Without(s, i)[j] \in R
  <2>1. Without(s, i) \in Seq(R)
    BY <1>3, <1>6
  <2>2. j \in 1 .. Len(Without(s, i))
    BY <2>1, LenProperties
  <2> QED BY <2>1, <2>2, ElementOfSeq
<1> QED BY <1>7 DEF R

\* What is in a transmit queue was there, or was just sent.
LEMMA QueuedParts ==
    ASSUME NEW s \in Seq(Segment), NEW out \in Seq(Segment), NEW i \in DOMAIN Queued(s, out)
    PROVE  (\E j \in DOMAIN s : Queued(s, out)[i] = s[j]) \/ (\E j \in DOMAIN out : Queued(s, out)[i] = out[j])
<1> DEFINE w == s \o out
           n == Least(Len(s) + Len(out), MaxInFlight)
<1>1. w \in Seq(Segment) /\ Len(w) = Len(s) + Len(out) /\ Len(s) \in Nat /\ Len(out) \in Nat
  BY ConcatProperties, LenProperties
<1>2. 1 \in Int /\ n \in Int /\ n <= Len(w) /\ 1 >= 1
  BY <1>1, QueueAssumption DEF Least
<1>3. Queued(s, out) = SubSeq(w, 1, n)
  BY DEF Queued
<1> HIDE DEF n
<1>4. \E k \in DOMAIN w : SubSeq(w, 1, n)[i] = w[k]
  <2> HIDE DEF w
  <2> QED BY <1>1, <1>2, <1>3, PartParts
<1>5. PICK k \in DOMAIN w : SubSeq(w, 1, n)[i] = w[k]
  BY <1>4
<1>6. (\E j \in DOMAIN s : w[k] = s[j]) \/ (\E j \in DOMAIN out : w[k] = out[j])
  BY JoinParts
<1> HIDE DEF w
<1> QED BY <1>3, <1>5, <1>6

----------------------------------------------------------------------------
(* A step of one host, as the other sees it. *)

\* What is known of a connection fits, whether it is the current one or not.
LEMMA KnownFits ==
    ASSUME NEW q \in Peers, NEW w \in Nat, w <= Bytes[q], NEW limit, NEW ends,
           \/ limit = w /\ ends \subseteq {w + 1}
           \/ limit = Bytes[q] /\ ends = 1 .. Bytes[q] + 1
    PROVE  limit \in Nat /\ limit <= Bytes[q] /\ ends \subseteq 1 .. limit + 1
BY ProgramAssumption

\* What is known of a connection fits before a step.
LEMMA LimitFits ==
    ASSUME Counts, Histories, NEW q \in Peers, NEW c
    PROVE  Limit(q, c) \in Nat /\ Limit(q, c) <= Bytes[q] /\ Ends(q, c) \subseteq 1 .. Limit(q, c) + 1
<1>1. wrote[q] \in Nat /\ wrote[q] <= Bytes[q]
  BY DEF Counts, Histories
<1>2. \/ Limit(q, c) = wrote[q] /\ Ends(q, c) \subseteq {wrote[q] + 1}
      \/ Limit(q, c) = Bytes[q] /\ Ends(q, c) = 1 .. Bytes[q] + 1
  BY DEF Limit, Ends
<1> QED BY <1>1, <1>2, KnownFits

\* And after it.
LEMMA LimitFitsNext ==
    ASSUME Counts', Histories', NEW q \in Peers, NEW c
    PROVE  Limit(q, c)' \in Nat /\ Limit(q, c)' <= Bytes[q] /\ Ends(q, c)' \subseteq 1 .. Limit(q, c)' + 1
<1>1. wrote'[q] \in Nat /\ wrote'[q] <= Bytes[q]
  BY DEF Counts, Histories
<1>2. \/ Limit(q, c)' = wrote'[q] /\ Ends(q, c)' \subseteq {wrote'[q] + 1}
      \/ Limit(q, c)' = Bytes[q] /\ Ends(q, c)' = 1 .. Bytes[q] + 1
  BY DEF Limit, Ends
<1> QED BY <1>1, <1>2, KnownFits

\* The ledgers of the blocks fit the sequence numbers, before a step.
LEMMA Books ==
    ASSUME NumbersApart, Counts, Histories, NEW p \in Peers, NEW d \in Nat
    PROVE  Fits(Book(p, d))
<1>1. Other(p) \in Peers
  BY OtherIs
<1>2. /\ Limit(Other(p), d) \in Nat /\ Limit(Other(p), d) <= Bytes[Other(p)]
      /\ Ends(Other(p), d) \subseteq 1 .. Limit(Other(p), d) + 1
  BY <1>1, LimitFits
<1>3. born[p] \in Nat /\ wrote[p] \in Nat /\ wrote[p] <= Bytes[p] /\ got[p] \in Seq(Datum) /\ irs[p] \in OptSeq
  BY DEF Counts, Histories
<1> QED BY <1>2, <1>3, BookFits DEF Book

\* And after it.
LEMMA BooksNext ==
    ASSUME NumbersApart, Counts', Histories', NEW p \in Peers, NEW d \in Nat
    PROVE  Fits(Book(p, d)')
<1>1. Other(p) \in Peers
  BY OtherIs
<1>2. /\ Limit(Other(p), d)' \in Nat /\ Limit(Other(p), d)' <= Bytes[Other(p)]
      /\ Ends(Other(p), d)' \subseteq 1 .. Limit(Other(p), d)' + 1
  BY <1>1, LimitFitsNext
<1>3. born'[p] \in Nat /\ wrote'[p] \in Nat /\ wrote'[p] <= Bytes[p] /\ got'[p] \in Seq(Datum) /\ irs'[p] \in OptSeq
  BY DEF Counts, Histories
<1> QED BY <1>2, <1>3, BookFits DEF Book

\* Nothing of host q changes.
Still(q) == conn'[q] = conn[q] /\ born'[q] = born[q] /\ wrote'[q] = wrote[q] /\ got'[q] = got[q] /\ irs'[q] = irs[q]

\* Host p begins a connection, or goes on with the one it has: it writes more while it may, answers
\* no second SYN, and takes back nothing of what it has received.
Moves(p) ==
    /\ Still(Other(p))
    /\ \/ born'[p] = born[p] + 1
       \/ /\ born'[p] = born[p] /\ wrote[p] <= wrote'[p]
          /\ wrote'[p] # wrote[p] => Writes(p)
          /\ Writes(p)' => Writes(p)
          /\ irs[p] # NoSeq =>
                /\ irs'[p] = irs[p]
                /\ conn'[p] # NoTcb =>
                      conn[p] # NoTcb /\ Minus(conn[p].rcv_nxt, irs[p]) <= Minus(conn'[p].rcv_nxt, irs[p])

\* What is known of the other host's connections stays as it is.
LEMMA StillLimit ==
    ASSUME NEW q \in Peers, Still(q), NEW c
    PROVE  Limit(q, c)' = Limit(q, c) /\ Ends(q, c)' = Ends(q, c)
BY DEF Still, Limit, Ends, Writes, Exists

\* What is known of p's connections stays true.
LEMMA LimitOn ==
    ASSUME Counts, Counts', Histories, Histories', NEW p \in Peers, Moves(p), NEW c \in 1 .. born[p]
    PROVE  Limit(p, c) <= Limit(p, c)' /\ Ends(p, c) \subseteq Ends(p, c)' /\ c \in 1 .. born'[p]
<1>1. /\ born[p] \in Nat /\ wrote[p] \in Nat /\ wrote'[p] \in Nat /\ Bytes[p] \in Nat
      /\ wrote[p] <= Bytes[p] /\ wrote'[p] <= Bytes[p]
  BY ProgramAssumption DEF Counts, Histories
<1>2. CASE born'[p] = born[p] + 1
  <2>1. c # born'[p] /\ c \in 1 .. born'[p]
    BY <1>1, <1>2
  <2>2. Limit(p, c)' = Bytes[p] /\ Ends(p, c)' = 1 .. Bytes[p] + 1
    BY <2>1 DEF Limit, Ends
  <2>3. Limit(p, c) <= Bytes[p] /\ Limit(p, c) \in Nat /\ Ends(p, c) \subseteq 1 .. Limit(p, c) + 1
    BY LimitFits
  <2> QED BY <1>1, <2>1, <2>2, <2>3
<1>3. CASE born'[p] = born[p]
  <2>1. wrote[p] <= wrote'[p] /\ (wrote'[p] # wrote[p] => Writes(p)) /\ (Writes(p)' => Writes(p))
    BY <1>1, <1>3 DEF Moves
  <2>2. CASE c = born[p]
    <3>1. Limit(p, c) = wrote[p] /\ Limit(p, c)' = wrote'[p]
      BY <1>3, <2>2 DEF Limit
    <3>2. CASE Writes(p)
      <4>1. Ends(p, c) = {}
        BY <2>2, <3>2 DEF Ends
      <4> QED BY <1>3, <2>1, <3>1, <4>1
    <3>3. CASE ~Writes(p)
      <4>1. wrote'[p] = wrote[p] /\ ~Writes(p)'
        BY <2>1, <3>3
      <4>2. Ends(p, c) = {wrote[p] + 1} /\ Ends(p, c)' = {wrote'[p] + 1}
        BY <1>3, <2>2, <3>3, <4>1 DEF Ends
      <4> QED BY <1>3, <2>1, <3>1, <4>1, <4>2
    <3> QED BY <3>2, <3>3
  <2>3. CASE c # born[p]
    <3>1. Limit(p, c) = Bytes[p] /\ Limit(p, c)' = Bytes[p] /\ Ends(p, c)' = Ends(p, c)
      BY <1>3, <2>3 DEF Limit, Ends
    <3> QED BY <1>1, <1>3, <3>1
  <2> QED BY <2>2, <2>3
<1> QED BY <1>2, <1>3 DEF Moves

\* The other host's block is still in step.
LEMMA BlockOn ==
    ASSUME NumbersApart, Slots, Counts, Counts', Histories, Histories', NEW p \in Peers, NEW q \in Peers, q = Other(p),
           Moves(p), BlockOK(q)
    PROVE  BlockOK(q)'
<1> SUFFICES ASSUME conn'[q] # NoTcb
             PROVE  /\ born'[q] >= 1 /\ conn'[q].iss = Iss[q][born'[q]]
                    /\ \E d \in Nat : Link(q, d)' /\ Stream(conn'[q], Book(q, d)')
  BY DEF BlockOK, Exists
<1>1. Still(q) /\ Other(q) = p
  BY Pair DEF Moves
<1>2. conn[q] # NoTcb /\ conn'[q] = conn[q] /\ born'[q] = born[q] /\ conn[q] \in TcbRec
  BY <1>1, SlotBlock DEF Still, Slots
<1>3. born[q] >= 1 /\ conn[q].iss = Iss[q][born[q]]
  BY <1>2 DEF BlockOK, Exists
<1>4. PICK d \in Nat : Link(q, d) /\ Stream(conn[q], Book(q, d))
  BY <1>2 DEF BlockOK, Exists
<1>5. d \in 0 .. born[p] /\ (d = 0 => irs[q] = NoSeq) /\ (d > 0 => irs[q] = Iss[p][d])
  BY <1>1, <1>4 DEF Link
<1>6. born[p] \in Nat /\ born'[p] \in Nat /\ born[p] <= born'[p]
  BY DEF Counts, Moves
<1>7. Link(q, d)'
  BY <1>1, <1>5, <1>6 DEF Link, Still
<1>8. Fits(Book(q, d)) /\ Fits(Book(q, d)')
  BY Books, BooksNext
<1> DEFINE L == Book(q, d)
           M == Book(q, d)'
<1>9. /\ M.own = L.own /\ M.wrote = L.wrote /\ M.read = L.read /\ M.base = L.base /\ M.peer = L.peer
      /\ L.base = irs[q] /\ L.limit = Limit(p, d) /\ M.limit = Limit(p, d)'
      /\ L.ends = Ends(p, d) /\ M.ends = Ends(p, d)'
  BY <1>1 DEF Book, Still
<1>10. L.base # NoSeq => L.limit <= M.limit /\ L.ends \subseteq M.ends
  <2>1. irs[q] # NoSeq => d \in 1 .. born[p]
    BY <1>5, <1>6
  <2> QED BY <1>9, <2>1, LimitOn
<1> HIDE DEF L, M
<1>11. Stream(conn[q], M)
  BY <1>2, <1>4, <1>8, <1>9, <1>10, StreamOn DEF L, M
<1> QED BY <1>2, <1>3, <1>7, <1>11 DEF M

\* What p has said stays true: its numbers go on, and its acknowledgements are covered by more.
LEMMA SaidByOn ==
    ASSUME NumbersApart, Slots, Slots', Counts, Counts', Histories, Histories', NEW p \in Peers, NEW q \in Peers,
           q = Other(p), Moves(p), NEW h \in Segment, Said(q, h)
    PROVE  Said(q, h)'
<1> SUFFICES ASSUME "RST" \notin h.flags PROVE Said(q, h)'
  BY DEF Said
<1>1. Still(q) /\ Other(q) = p
  BY Pair DEF Moves
<1>2. PICK c \in 1 .. born[p] : /\ Carries(h, Iss[p][c], c, Limit(p, c), Ends(p, c))
                                /\ "ACK" \in h.flags => Acks(q, h, c)
  BY <1>1 DEF Said
<1>3. Iss[p][c] \in Seq32 /\ c \in Nat /\ born[p] \in Nat
  BY IssFacts
<1>4. /\ Limit(p, c) \in Nat /\ Limit(p, c)' \in Nat /\ Limit(p, c) <= Limit(p, c)'
      /\ Ends(p, c) \subseteq Ends(p, c)' /\ c \in 1 .. born'[p]
  BY LimitFits, LimitFitsNext, LimitOn
<1>5. Carries(h, Iss[p][c], c, Limit(p, c)', Ends(p, c)')
  BY <1>2, <1>3, <1>4, CarriesOn
<1>6. ASSUME "ACK" \in h.flags PROVE Acks(q, h, c)'
  <2>1. PICK x \in 1 .. born[q] :
           /\ Minus(h.ack, Iss[q][x]) \in 1 .. Bytes[q] + 2
           /\ c = born[p] => /\ irs[p] = Iss[q][x]
                             /\ conn[p] # NoTcb => Minus(h.ack, irs[p]) <= Minus(conn[p].rcv_nxt, irs[p])
    BY <1>1, <1>2, <1>6 DEF Acks, Exists
  <2>2. Iss[q][x] \in Seq32 /\ Iss[q][x] # NoSeq /\ h.ack \in Seq32
    BY IssFacts DEF Segment
  <2>3. ASSUME c = born'[p]
        PROVE  irs'[p] = Iss[q][x] /\ (conn'[p] # NoTcb => Minus(h.ack, irs'[p]) <= Minus(conn'[p].rcv_nxt, irs'[p]))
    <3>1. c = born[p] /\ born'[p] = born[p]
      BY <1>3, <2>3 DEF Moves
    <3>2. irs[p] = Iss[q][x]
      BY <2>1, <3>1
    <3>3. /\ irs'[p] = irs[p]
          /\ conn'[p] # NoTcb =>
                conn[p] # NoTcb /\ Minus(conn[p].rcv_nxt, irs[p]) <= Minus(conn'[p].rcv_nxt, irs[p])
      BY <1>3, <2>2, <3>1, <3>2 DEF Moves
    <3>4. ASSUME conn'[p] # NoTcb PROVE Minus(h.ack, irs'[p]) <= Minus(conn'[p].rcv_nxt, irs'[p])
      <4>1. conn[p] # NoTcb /\ conn[p] \in TcbRec /\ conn'[p] \in TcbRec
        BY <3>3, <3>4, SlotBlock DEF Slots
      <4>2. conn[p].rcv_nxt \in Seq32 /\ conn'[p].rcv_nxt \in Seq32
        BY <4>1, FieldTypes
      <4> DEFINE a == Minus(h.ack, irs[p])
                 b == Minus(conn[p].rcv_nxt, irs[p])
                 e == Minus(conn'[p].rcv_nxt, irs[p])
      <4>3. a \in Nat /\ b \in Nat /\ e \in Nat
        BY <2>2, <3>2, <4>2, WayOn
      <4>4. a <= b /\ b <= e
        BY <2>1, <3>1, <3>3, <3>4, <4>1
      <4> HIDE DEF a, b, e
      <4>5. a <= e
        BY <4>3, <4>4
      <4> QED BY <3>3, <4>5 DEF a, e
    <3> QED BY <3>2, <3>3, <3>4
  <2>4. x \in 1 .. born'[q]
    BY <1>1 DEF Still
  <2> QED BY <1>1, <2>1, <2>3, <2>4 DEF Acks, Exists
<1> QED BY <1>1, <1>4, <1>5, <1>6 DEF Said

\* What was said to p stays true: nothing of who said it has changed.
LEMMA SaidToOn ==
    ASSUME Counts, Counts', NEW p \in Peers, Moves(p), NEW h, Said(p, h)
    PROVE  Said(p, h)'
<1> SUFFICES ASSUME "RST" \notin h.flags PROVE Said(p, h)'
  BY DEF Said
<1> DEFINE q == Other(p)
<1>1. q \in Peers /\ Still(q)
  BY OtherIs DEF Moves
<1> HIDE DEF q
<1>2. PICK c \in 1 .. born[q] : /\ Carries(h, Iss[q][c], c, Limit(q, c), Ends(q, c))
                                /\ "ACK" \in h.flags => Acks(p, h, c)
  BY DEF Said, q
<1>3. Carries(h, Iss[q][c], c, Limit(q, c)', Ends(q, c)') /\ c \in 1 .. born'[q]
  BY <1>1, <1>2, StillLimit DEF Still
<1>4. ASSUME "ACK" \in h.flags PROVE Acks(p, h, c)'
  <2>1. PICK x \in 1 .. born[p] :
           /\ Minus(h.ack, Iss[p][x]) \in 1 .. Bytes[p] + 2
           /\ c = born[q] => /\ irs[q] = Iss[p][x]
                             /\ conn[q] # NoTcb => Minus(h.ack, irs[q]) <= Minus(conn[q].rcv_nxt, irs[q])
    BY <1>2, <1>4 DEF Acks, Exists, q
  <2>2. x \in 1 .. born'[p]
    <3>1. born[p] \in Nat /\ born'[p] \in Nat /\ born[p] <= born'[p]
      BY DEF Counts, Moves
    <3> QED BY <3>1
  <2> QED BY <1>1, <2>1, <2>2 DEF Acks, Exists, Still, q
<1> QED BY <1>3, <1>4 DEF Said, q

\* The other host's view of the handshake stays true.
LEMMA AgreeOn ==
    ASSUME NumbersApart, Slots, Slots', Counts, Counts', Histories, NEW p \in Peers, NEW q \in Peers, q = Other(p),
           Moves(p), BlockOK(q), AgreeOK(q)
    PROVE  AgreeOK(q)'
<1>1. Still(q) /\ Other(q) = p
  BY Pair DEF Moves
<1> DEFINE u == conn[q]
<1>2. conn'[q] = u /\ irs'[q] = irs[q]
  BY <1>1 DEF Still
<1> SUFFICES ASSUME u # NoTcb, synchronized(u), irs[q] = Iss[p][born'[p]]
             PROVE  irs'[p] = u.iss /\ (conn'[p] # NoTcb => Minus(u.una, u.iss) <= Minus(conn'[p].rcv_nxt, u.iss))
  BY <1>1, <1>2 DEF AgreeOK, Agreed, Exists
<1>3. u \in TcbRec /\ u.state # "SynSent" /\ u.state # "Closed"
  BY SlotBlock DEF Slots, synchronized
<1>4. u.iss \in Seq32 /\ u.una \in Seq32 /\ u.iss # NoSeq
  BY <1>3, FieldTypes, NoSeqApart
<1>5. PICK d \in Nat : Link(q, d) /\ Stream(u, Book(q, d))
  BY DEF BlockOK, Exists
<1> HIDE DEF u
<1>6. irs[q] # NoSeq
  <2>1. Book(q, d).base = irs[q]
    BY DEF Book
  <2> QED BY <1>3, <1>5, <2>1 DEF Stream, Virgin
<1>7. d \in 1 .. born[p] /\ irs[q] = Iss[p][d] /\ born[p] \in Nat /\ born'[p] \in Nat
  BY <1>1, <1>5, <1>6 DEF Link, Counts
<1>8. born[p] <= born'[p]
  BY <1>7 DEF Moves
<1>9. d \in 1 .. born'[p] /\ born'[p] \in 1 .. born'[p]
  BY <1>7, <1>8
<1>10. d = born'[p]
  <2>1. /\ d \in DOMAIN Iss[p] /\ Iss[p][d] \in Seq32
    BY <1>7, IssFacts
  <2>2. born'[p] \in DOMAIN Iss[p]
    <3>1. Iss[p] \in Seq(Seq32) /\ Len(Iss[p]) \in Nat /\ born'[p] <= Len(Iss[p])
      BY IssAssumption, LenProperties DEF Counts
    <3> QED BY <1>9, <3>1, LenProperties
  <2>3. Minus(Iss[p][d], Iss[p][d]) = 0 /\ 0 <= Bytes[p] + RxCap + 1
    BY <2>1, WayOn, ProgramAssumption, SpaceFacts
  <2>4. Iss[p][born'[p]] = Iss[p][d]
    BY <1>7
  <2> QED BY <2>1, <2>2, <2>3, <2>4, OneConnection
<1>11. born'[p] = born[p]
  BY <1>7, <1>8, <1>10
<1>12. irs[p] = u.iss /\ (conn[p] # NoTcb => Minus(u.una, u.iss) <= Minus(conn[p].rcv_nxt, u.iss))
  BY <1>1, <1>11 DEF AgreeOK, Agreed, Exists, u
<1>13. /\ irs'[p] = irs[p]
       /\ conn'[p] # NoTcb =>
             conn[p] # NoTcb /\ Minus(conn[p].rcv_nxt, irs[p]) <= Minus(conn'[p].rcv_nxt, irs[p])
  BY <1>4, <1>7, <1>11, <1>12 DEF Moves
<1>14. ASSUME conn'[p] # NoTcb PROVE Minus(u.una, u.iss) <= Minus(conn'[p].rcv_nxt, u.iss)
  <2>1. conn[p] # NoTcb /\ conn[p] \in TcbRec /\ conn'[p] \in TcbRec
    BY <1>13, <1>14, SlotBlock DEF Slots
  <2>2. conn[p].rcv_nxt \in Seq32 /\ conn'[p].rcv_nxt \in Seq32
    BY <2>1, FieldTypes
  <2> DEFINE a == Minus(u.una, u.iss)
             b == Minus(conn[p].rcv_nxt, u.iss)
             e == Minus(conn'[p].rcv_nxt, u.iss)
  <2>3. a \in Nat /\ b \in Nat /\ e \in Nat
    BY <1>4, <2>2, WayOn
  <2>4. a <= b /\ b <= e
    BY <1>12, <1>13, <1>14
  <2> HIDE DEF a, b, e
  <2>5. a <= e
    BY <2>3, <2>4
  <2> QED BY <2>5 DEF a, e
<1> QED BY <1>12, <1>13, <1>14

\* One host has moved: everything holds again if its own block is in step and what it says is true.
LEMMA Progress ==
    ASSUME NumbersApart, Inv, Inv', StreamInv, Histories', NEW p \in Peers, NEW q \in Peers, q = Other(p),
           Moves(p), BlockOK(p)', AgreeOK(p)', NEW out, \A i \in DOMAIN out : Said(q, out[i])',
           \A i \in DOMAIN net'[p] : \E j \in DOMAIN net[p] : net'[p][i] = net[p][j],
           \A i \in DOMAIN net'[q] : \/ \E j \in DOMAIN net[q] : net'[q][i] = net[q][j]
                                     \/ \E j \in DOMAIN out : net'[q][i] = out[j]
    PROVE  StreamInv'
<1>1. Peers = {p, q} /\ Slots /\ Slots' /\ Counts /\ Counts' /\ Histories /\ Nets
  BY Pair DEF Inv, StreamInv
<1>2. BlockOK(q)' /\ AgreeOK(q)'
  BY <1>1, BlockOn, AgreeOn DEF StreamInv
<1>3. \A j \in DOMAIN net[q] : Said(q, net[q][j]) /\ net[q][j] \in Segment
  <2>1. net[q] \in Seq(Segment)
    BY <1>1 DEF Nets
  <2> QED BY <2>1, ElementOfSeq, LenProperties DEF StreamInv, SegOK
<1>4. \A h \in Segment : Said(q, h) => Said(q, h)'
  BY <1>1, SaidByOn
<1>5. SegOK(q)'
  <2> SUFFICES ASSUME NEW i \in DOMAIN net'[q], NEW h, h = net'[q][i] PROVE Said(q, h)'
    BY DEF SegOK, Said, Acks, Exists
  <2>1. CASE \E j \in DOMAIN net[q] : net'[q][i] = net[q][j]
    <3>1. h \in Segment /\ Said(q, h)
      BY <1>3, <2>1
    <3> QED BY <1>4, <3>1
  <2>2. CASE \E j \in DOMAIN out : net'[q][i] = out[j]
    <3>1. PICK j \in DOMAIN out : h = out[j]
      BY <2>2
    <3> QED BY <3>1
  <2> QED BY <2>1, <2>2
<1>6. SegOK(p)'
  <2> SUFFICES ASSUME NEW i \in DOMAIN net'[p], NEW h, h = net'[p][i] PROVE Said(p, h)'
    BY DEF SegOK, Said, Acks, Exists
  <2>1. \E j \in DOMAIN net[p] : h = net[p][j]
    OBVIOUS
  <2>2. Said(p, h)
    BY <2>1 DEF StreamInv, SegOK
  <2> QED BY <1>1, <2>2, SaidToOn
<1> QED BY <1>1, <1>2, <1>5, <1>6 DEF StreamInv

\* What a block in step says is true, and backed by what it has received.
LEMMA TellsSaid ==
    ASSUME NumbersApart, Counts', Histories', NEW p \in Peers, NEW q \in Peers, q = Other(p),
           NEW u \in TcbRec, u.iss = Iss[p][born'[p]], born'[p] >= 1, conn'[p] = u \/ conn'[p] = NoTcb,
           NEW d \in Nat, Link(p, d)', NEW M, M = Book(p, d)', Stream(u, M), NEW h \in Segment, Tells(u, M, h)
    PROVE  Said(q, h)'
<1> SUFFICES ASSUME "RST" \notin h.flags PROVE Said(q, h)'
  BY DEF Said
<1>1. Other(q) = p
  BY Pair
<1>2. /\ M.own = born'[p] /\ M.wrote = wrote'[p] /\ M.base = irs'[p] /\ M.limit = Limit(q, d)' /\ Fits(M)
  <2>1. Fits(M)
    BY BooksNext
  <2> QED BY <2>1 DEF Book
<1>10. PICK c \in Nat : c = born'[p]
  BY DEF Counts
<1>3. /\ Carries(h, u.iss, c, wrote'[p], Fins(u, M))
      /\ "ACK" \in h.flags => irs'[p] # NoSeq /\ Minus(h.ack, irs'[p]) \in 1 .. Place(u, M)
  BY <1>2, <1>10 DEF Tells
<1>4. c \in 1 .. born'[p] /\ wrote'[p] \in Nat
  BY <1>10 DEF Counts
<1>5. Limit(p, c)' = wrote'[p] /\ Fins(u, M) \subseteq Ends(p, c)'
  <2>1. Limit(p, c)' = wrote'[p] /\ Ends(p, c)' = IF Writes(p)' THEN {} ELSE {wrote'[p] + 1}
    BY <1>10 DEF Limit, Ends
  <2>2. Fins(u, M) = IF Writable(u) THEN {} ELSE {wrote'[p] + 1}
    BY <1>2 DEF Fins
  <2>3. Writes(p)' => Writable(u)
    BY NotFree DEF Writes, Exists, Writable
  <2> QED BY <2>1, <2>2, <2>3
<1>6. Carries(h, Iss[p][c], c, Limit(p, c)', Ends(p, c)')
  <2>1. Iss[p][c] \in Seq32 /\ Iss[p][c] = u.iss
    BY <1>10, FieldTypes
  <2>2. wrote'[p] <= wrote'[p]
    BY <1>4
  <2> QED BY <1>3, <1>4, <1>5, <2>1, <2>2, CarriesOn
<1>7. ASSUME "ACK" \in h.flags PROVE Acks(q, h, c)'
  <2>1. irs'[p] # NoSeq /\ Minus(h.ack, irs'[p]) \in 1 .. Place(u, M)
    BY <1>3, <1>7
  <2>2. d \in 1 .. born'[q] /\ irs'[p] = Iss[q][d]
    <3>1. born'[q] \in Nat
      BY DEF Counts
    <3> QED BY <2>1, <3>1 DEF Link
  <2>3. Place(u, M) \in 1 .. M.limit + 2 /\ M.limit \in Nat
    BY <1>2, <2>1, PlaceBound, LedgerTypes DEF Stream
  <2>4. Limit(q, d)' <= Bytes[q] /\ Bytes[q] \in Nat
    BY LimitFitsNext, ProgramAssumption
  <2>5. Minus(h.ack, irs'[p]) \in 1 .. Bytes[q] + 2
    <3> DEFINE a == Minus(h.ack, irs'[p])
               b == Place(u, M)
               l == M.limit
               n == Bytes[q]
    <3>1. a \in 1 .. b /\ b \in 1 .. l + 2 /\ l \in Nat /\ n \in Nat /\ l <= n
      BY <1>2, <2>1, <2>3, <2>4
    <3> HIDE DEF a, b, l, n
    <3>2. a \in 1 .. n + 2
      BY <3>1
    <3> QED BY <3>2 DEF a, n
  <2>6. conn'[p] # NoTcb => Minus(h.ack, irs'[p]) <= Minus(conn'[p].rcv_nxt, irs'[p])
    <3>1. Place(u, M) = Minus(u.rcv_nxt, irs'[p])
      BY <1>2 DEF Place
    <3>2. Minus(h.ack, irs'[p]) <= Place(u, M)
      BY <2>1, <2>3
    <3> QED BY <3>1, <3>2
  <2> QED BY <1>1, <2>2, <2>5, <2>6 DEF Acks, Exists
<1> QED BY <1>1, <1>4, <1>6, <1>7 DEF Said

----------------------------------------------------------------------------
(* The steps of a host. *)

\* Where the segments on the network come from after a step.
Flow(p, out) ==
    /\ \A i \in DOMAIN net'[p] : \E j \in DOMAIN net[p] : net'[p][i] = net[p][j]
    /\ \A i \in DOMAIN net'[Other(p)] :
          \/ \E j \in DOMAIN net[Other(p)] : net'[Other(p)][i] = net[Other(p)][j]
          \/ \E j \in DOMAIN out : net'[Other(p)][i] = out[j]

\* left is what is in p's queue after a segment was taken out, or copied.
Left(p, left) == left \in Seq(Segment) /\ \A i \in DOMAIN left : \E j \in DOMAIN net[p] : left[i] = net[p][j]

\* A host that sends, with or without taking a segment out of its queue.
LEMMA Flows ==
    ASSUME Nets, NEW p \in Peers, NEW out \in Seq(Segment), NEW left, Left(p, left),
           \/ net' = [net EXCEPT ![Other(p)] = Queued(@, out)]
           \/ net' = [net EXCEPT ![p] = left, ![Other(p)] = Queued(@, out)]
    PROVE  Flow(p, out)
<1> DEFINE q == Other(p)
           s == net[q]
<1>1. q \in Peers /\ q # p /\ net \in [Peers -> Seq(Segment)] /\ s \in Seq(Segment)
  BY OtherIs DEF Nets
<1>2. net'[q] = Queued(s, out) /\ (net'[p] = net[p] \/ net'[p] = left)
  BY <1>1
<1> HIDE DEF q, s
<1>3. \A i \in DOMAIN Queued(s, out) :
          (\E j \in DOMAIN s : Queued(s, out)[i] = s[j]) \/ (\E j \in DOMAIN out : Queued(s, out)[i] = out[j])
  BY <1>1, QueuedParts
<1>4. \A i \in DOMAIN net'[p] : \E j \in DOMAIN net[p] : net'[p][i] = net[p][j]
  BY <1>2 DEF Left
<1>5. \A i \in DOMAIN net'[q] : \/ \E j \in DOMAIN net[q] : net'[q][i] = net[q][j]
                                \/ \E j \in DOMAIN out : net'[q][i] = out[j]
  BY <1>2, <1>3 DEF s
<1> QED BY <1>4, <1>5 DEF Flow, q

\* A host whose block is in step after the step.
LEMMA BlockStep ==
    ASSUME NumbersApart, Inv, Inv', StreamInv, Histories', NEW p \in Peers, Moves(p),
           NEW r, Done(r.tcb), r.out \in Seq(Segment), conn'[p] = Reaped(r.tcb), Flow(p, r.out),
           r.tcb.iss = Iss[p][born'[p]], born'[p] >= 1,
           NEW d \in Nat, Link(p, d)', NEW M, M = Book(p, d)', Stream(r.tcb, M), Told(r.tcb, M, r.out),
           Agreed(p, r.tcb, M.base)
    PROVE  StreamInv'
<1> DEFINE q == Other(p)
<1>1. q \in Peers /\ Still(q) /\ Counts'
  BY OtherIs DEF Moves, Inv
<1>2. r.tcb \in TcbRec /\ (conn'[p] = r.tcb \/ conn'[p] = NoTcb) /\ r.tcb # NoTcb
  BY DoneTypes, NotFree DEF Reaped
<1>3. M.base = irs'[p]
  BY DEF Book
<1> HIDE DEF q
<1>4. BlockOK(p)'
  <2> SUFFICES ASSUME conn'[p] = r.tcb PROVE BlockOK(p)'
    BY <1>2 DEF BlockOK, Exists
  <2>1. Link(p, d)' /\ Stream(conn[p], Book(p, d))'
    OBVIOUS
  <2> QED BY <2>1 DEF BlockOK
<1>5. AgreeOK(p)'
  <2> SUFFICES ASSUME conn'[p] = r.tcb PROVE Agreed(p, conn[p], irs[p])'
    BY <1>2 DEF AgreeOK, Exists
  <2> QED BY <1>1, <1>3 DEF Agreed, Still, Exists, q
<1>6. \A i \in DOMAIN r.out : Said(q, r.out[i])'
  <2> SUFFICES ASSUME NEW i \in DOMAIN r.out, NEW h, h = r.out[i] PROVE Said(q, h)'
    OBVIOUS
  <2>1. h \in Segment
    BY ElementOfSeq, LenProperties
  <2>2. Tells(r.tcb, M, h)
    BY DEF Told
  <2> QED BY <1>1, <1>2, <2>1, <2>2, TellsSaid DEF q
<1> QED BY <1>1, <1>4, <1>5, <1>6, Progress DEF Flow, q

\* A host that goes on with its connection.
LEMMA GoesOn ==
    ASSUME NumbersApart, Inv, Inv', StreamInv, Histories', NEW p \in Peers, Still(Other(p)), conn[p] # NoTcb,
           born'[p] = born[p], wrote[p] <= wrote'[p], wrote'[p] # wrote[p] => Writes(p),
           irs[p] # NoSeq => irs'[p] = irs[p],
           NEW r, Done(r.tcb), r.out \in Seq(Segment), conn'[p] = Reaped(r.tcb), Flow(p, r.out),
           NEW d \in Nat, Link(p, d)', NEW M, M = Book(p, d)', Right(conn[p], M, r), Agreed(p, r.tcb, M.base)
    PROVE  StreamInv'
<1>1. Stream(r.tcb, M) /\ Told(r.tcb, M, r.out) /\ Follows(conn[p], M, r.tcb)
  BY DEF Right
<1>2. born[p] >= 1 /\ conn[p].iss = Iss[p][born[p]] /\ \E e \in Nat : Stream(conn[p], Book(p, e))
  BY DEF StreamInv, BlockOK, Exists
<1>3. r.tcb.iss = Iss[p][born'[p]] /\ born'[p] >= 1
  BY <1>1, <1>2 DEF Follows
<1>4. irs[p] # NoSeq => conn[p].state # "SynSent"
  <2>1. \A e : Book(p, e).base = irs[p]
    BY DEF Book
  <2> QED BY <1>2, <2>1 DEF Stream, RxOK
<1>5. conn'[p] = r.tcb \/ conn'[p] = NoTcb
  BY DEF Reaped
<1>6. Writes(p)' => Writes(p)
  BY <1>1, <1>5 DEF Writes, Exists, Follows
<1>7. ASSUME irs[p] # NoSeq, conn'[p] # NoTcb
      PROVE  Minus(conn[p].rcv_nxt, irs[p]) <= Minus(conn'[p].rcv_nxt, irs[p])
  <2>1. M.base = irs[p]
    BY <1>7 DEF Book
  <2>2. Place(conn[p], M) <= Place(r.tcb, M)
    BY <1>1, <1>4, <1>7, <2>1 DEF Follows
  <2> QED BY <1>5, <1>7, <2>1, <2>2 DEF Place
<1>8. Moves(p)
  BY <1>6, <1>7 DEF Moves
<1> QED BY <1>1, <1>3, <1>8, BlockStep

\* A call of the program.
LEMMA CallGoesOn ==
    ASSUME NumbersApart, Inv, Inv', StreamInv, Histories', NEW p \in Peers, conn[p] # NoTcb,
           NEW r, Good(conn[p], r), Silent(conn[p], r.tcb), Take(p, r), born' = born, irs' = irs,
           wrote'[Other(p)] = wrote[Other(p)], got'[Other(p)] = got[Other(p)],
           wrote[p] <= wrote'[p], wrote'[p] # wrote[p] => Writes(p),
           NEW d \in Nat, Link(p, d), NEW M, M = Book(p, d)', Right(conn[p], M, r)
    PROVE  StreamInv'
<1> DEFINE q == Other(p)
<1>1. q \in Peers /\ q # p
  BY OtherIs
<1>2. Done(r.tcb) /\ r.out \in Seq(Segment)
  BY DEF Good
<1>3. conn'[p] = Reaped(r.tcb) /\ conn'[q] = conn[q]
  BY <1>1 DEF Take, Inv, Slots
<1>4. Still(Other(p))
  BY <1>3 DEF Still
<1>5. Flow(p, r.out)
  <2>1. Left(p, net[p])
    BY DEF Left, Inv, Nets
  <2> QED BY <1>2, <2>1, Flows DEF Take, Inv
<1>6. Link(p, d)'
  BY DEF Link
<1>7. Agreed(p, r.tcb, M.base)
  <2>1. M.base = irs[p]
    BY DEF Book
  <2>2. r.tcb.iss = conn[p].iss
    BY DEF Right, Follows
  <2>3. Agreed(p, conn[p], irs[p])
    BY DEF StreamInv, AgreeOK, Exists
  <2> QED BY <2>1, <2>2, <2>3 DEF Agreed, Silent
<1>8. born'[p] = born[p] /\ (irs[p] # NoSeq => irs'[p] = irs[p])
  OBVIOUS
<1> QED BY <1>2, <1>3, <1>4, <1>5, <1>6, <1>7, <1>8, GoesOn

\* A call that neither writes nor reads, a timer or a failure.
LEMMA StackGoesOn ==
    ASSUME NumbersApart, Inv, Inv', StreamInv, NEW p \in Peers, conn[p] # NoTcb,
           NEW r, Good(conn[p], r), Silent(conn[p], r.tcb), Take(p, r), UNCHANGED <<born, wrote, got, irs>>,
           \A L : Fits(L) /\ Stream(conn[p], L) => Right(conn[p], L, r)
    PROVE  StreamInv'
<1>1. Histories' /\ wrote[p] <= wrote'[p]
  BY DEF StreamInv, Histories, Inv, Counts
<1>2. PICK d \in Nat : Link(p, d) /\ Stream(conn[p], Book(p, d))
  BY DEF StreamInv, BlockOK, Exists
<1>3. Other(p) \in Peers /\ Other(p) # p
  BY OtherIs
<1>4. Still(Other(p))
  BY <1>3 DEF Still, Take, Inv, Slots
<1>5. Book(p, d)' = Book(p, d)
  BY <1>3, <1>4, StillLimit DEF Book
<1>6. Right(conn[p], Book(p, d), r)
  BY <1>2, Books DEF Inv, StreamInv
<1> QED BY <1>1, <1>2, <1>5, <1>6, CallGoesOn

\* A host that begins a connection.
LEMMA BirthFacts ==
    ASSUME Inv, StreamInv, NEW p \in Peers, born[p] < Len(Iss[p]), Birth(p), conn'[Other(p)] = conn[Other(p)],
           NEW b \in OptSeq, irs' = [irs EXCEPT ![p] = b]
    PROVE  /\ Histories' /\ Moves(p) /\ born'[p] >= 1 /\ NextIss(p) = Iss[p][born'[p]] /\ NextIss(p) \in Seq32
           /\ wrote'[p] = 0 /\ got'[p] = <<>> /\ irs'[p] = b /\ born'[Other(p)] = born[Other(p)]
<1>1. Other(p) \in Peers /\ Other(p) # p
  BY OtherIs
<1>2. Counts /\ Histories
  BY DEF Inv, StreamInv
<1>3. /\ born \in [Peers -> Nat] /\ wrote \in [Peers -> Nat] /\ got \in [Peers -> Seq(Datum)]
      /\ irs \in [Peers -> OptSeq] /\ \A x \in Peers : wrote[x] <= Bytes[x] /\ Bytes[x] \in Nat
  BY <1>2, ProgramAssumption DEF Counts, Histories
<1>4. /\ born' = [born EXCEPT ![p] = born[p] + 1] /\ wrote' = [wrote EXCEPT ![p] = 0]
      /\ got' = [got EXCEPT ![p] = <<>>]
  BY DEF Birth
<1>5. /\ born'[p] = born[p] + 1 /\ wrote'[p] = 0 /\ got'[p] = <<>> /\ irs'[p] = b
  BY <1>3, <1>4
<1>6. Still(Other(p))
  BY <1>1, <1>3, <1>4 DEF Still
<1>7. Histories'
  <2>1. <<>> \in Seq(Datum)
    OBVIOUS
  <2>2. got' \in [Peers -> Seq(Datum)] /\ irs' \in [Peers -> OptSeq]
    BY <1>3, <1>4, <2>1
  <2>3. \A x \in Peers : wrote'[x] <= Bytes[x]
    BY <1>3, <1>4
  <2> QED BY <2>2, <2>3 DEF Histories
<1>8. born'[p] >= 1 /\ NextIss(p) = Iss[p][born'[p]]
  BY <1>3, <1>5 DEF NextIss
<1>9. NextIss(p) \in Seq32
  BY <1>2, BirthCounts
<1> QED BY <1>5, <1>6, <1>7, <1>8, <1>9 DEF Moves, Still

\* tcp_connect.
LEMMA ConnectStream ==
    ASSUME NumbersApart, Inv, Inv', StreamInv, NEW p \in Peers, tcp_connect(p)
    PROVE  StreamInv'
<1> DEFINE r == new_connect(NextIss(p))
<1>1. born[p] < Len(Iss[p]) /\ Take(p, r) /\ Birth(p) /\ irs' = [irs EXCEPT ![p] = NoSeq]
  BY DEF tcp_connect
<1>2. Other(p) \in Peers /\ Other(p) # p /\ conn'[p] = Reaped(r.tcb) /\ conn'[Other(p)] = conn[Other(p)]
  BY <1>1, OtherIs DEF Take, Inv, Slots
<1>3. NoSeq \in OptSeq
  BY DEF OptSeq
<1>4. /\ Histories' /\ Moves(p) /\ born'[p] >= 1 /\ NextIss(p) = Iss[p][born'[p]] /\ NextIss(p) \in Seq32
      /\ wrote'[p] = 0 /\ got'[p] = <<>> /\ irs'[p] = NoSeq
  BY <1>1, <1>2, <1>3, BirthFacts
<1>5. Done(r.tcb) /\ r.out \in Seq(Segment) /\ r.tcb.state = "SynSent"
  BY <1>4, NewConnectKeeps
<1>6. PICK M : M = Book(p, 0)'
  OBVIOUS
<1>7. Fits(M) /\ M.wrote = 0 /\ M.read = <<>> /\ M.base = NoSeq
  <2>1. Fits(M)
    BY <1>4, <1>6, BooksNext DEF Inv
  <2> QED BY <1>4, <1>6, <2>1 DEF Book
<1>8. Stream(r.tcb, M) /\ Told(r.tcb, M, r.out) /\ r.tcb.iss = NextIss(p)
  BY <1>4, <1>7, NewConnectRight
<1> HIDE DEF r
<1>9. Agreed(p, r.tcb, M.base)
  BY <1>5 DEF Agreed, synchronized
<1>10. Link(p, 0)'
  <2>1. born'[Other(p)] \in Nat
    BY <1>2 DEF Inv, Counts
  <2> QED BY <1>4, <2>1 DEF Link
<1>11. Flow(p, r.out)
  <2>1. Left(p, net[p])
    BY DEF Left, Inv, Nets
  <2> QED BY <1>1, <1>5, <2>1, Flows DEF Take, Inv
<1>12. r.tcb.iss = Iss[p][born'[p]] /\ 0 \in Nat
  BY <1>4, <1>8
<1> QED BY <1>2, <1>4, <1>5, <1>6, <1>8, <1>9, <1>10, <1>11, <1>12, BlockStep

\* tcp_accept.
LEMMA AcceptStream ==
    ASSUME NumbersApart, Inv, Inv', StreamInv, NEW p \in Peers, tcp_accept(p)
    PROVE  StreamInv'
<1> DEFINE t == conn[p]
           u == [t EXCEPT !.user_open = TRUE]
           r == Quiet(u)
<1>1. /\ t # NoTcb /\ ~t.user_open /\ ~t.discard_rx /\ net' = net /\ UNCHANGED <<born, wrote, got, irs>>
  BY DEF tcp_accept, Exists, Unaccepted
<1>2. conn' = [conn EXCEPT ![p] = u] /\ Slot(t) /\ conn'[p] = u
  BY DEF tcp_accept, Inv, Slots
<1>3. Other(p) \in Peers /\ Other(p) # p /\ conn'[Other(p)] = conn[Other(p)]
  BY <1>2, OtherIs DEF Inv, Slots
<1> HIDE DEF t
<1>4. Done(t) /\ t \in TcbRec /\ t.state # "Closed"
  BY <1>1, <1>2, SlotBlock
<1>5. Done(u) /\ u.user_open /\ u.state = t.state
  BY <1>1, <1>4, HeldKeeps
<1>6. Alike(t, u)
  BY <1>4 DEF Alike, TcbRec
<1> HIDE DEF u
<1>7. r.tcb = u /\ r.out = <<>> /\ <<>> \in Seq(Segment)
  BY DEF Quiet, Step
<1>8. PICK d \in Nat : Link(p, d) /\ Stream(t, Book(p, d))
  BY <1>1 DEF StreamInv, BlockOK, Exists, t
<1>9. Still(Other(p))
  BY <1>1, <1>3 DEF Still
<1>10. Book(p, d)' = Book(p, d) /\ Link(p, d)'
  <2>1. Link(p, d)'
    BY <1>1, <1>8 DEF Link
  <2> QED BY <1>1, <1>3, <1>9, <2>1, StillLimit DEF Book
<1>11. Fits(Book(p, d))
  BY Books DEF Inv, StreamInv
<1>12. Right(t, Book(p, d), r)
  <2>1. \A i \in DOMAIN << >> : "RST" \in << >>[i].flags
    OBVIOUS
  <2> QED BY <1>4, <1>6, <1>8, <1>11, <2>1, QuietRight
<1>13. Agreed(p, u, Book(p, d).base)
  <2>1. Agreed(p, t, irs[p]) /\ Book(p, d).base = irs[p]
    BY <1>1 DEF StreamInv, AgreeOK, Exists, t, Book
  <2>2. u.iss = t.iss /\ u.una = t.una /\ (synchronized(u) => synchronized(t))
    BY <1>6 DEF Alike, synchronized
  <2> QED BY <2>1, <2>2 DEF Agreed
<1>14. Histories' /\ wrote[p] <= wrote'[p]
  BY <1>1 DEF StreamInv, Histories, Inv, Counts
<1>15. Flow(p, <<>>)
  BY <1>1 DEF Flow
<1>16. Reaped(u) = u
  BY <1>5 DEF Reaped
<1> HIDE DEF r
<1>17. /\ conn[p] # NoTcb /\ born'[p] = born[p] /\ wrote'[p] = wrote[p] /\ irs'[p] = irs[p]
       /\ Done(r.tcb) /\ r.out \in Seq(Segment) /\ conn'[p] = Reaped(r.tcb) /\ Flow(p, r.out)
  BY <1>1, <1>2, <1>5, <1>7, <1>15, <1>16 DEF t
<1>18. Right(conn[p], Book(p, d)', r) /\ Agreed(p, r.tcb, Book(p, d)'.base)
  BY <1>7, <1>10, <1>12, <1>13 DEF t
<1> QED BY <1>9, <1>10, <1>14, <1>17, <1>18, GoesOn

\* tcp_send.
LEMMA SendStream ==
    ASSUME NumbersApart, Inv, Inv', StreamInv, NEW p \in Peers, tcp_send(p)
    PROVE  StreamInv'
<1> DEFINE t == conn[p]
<1>1. PICK n \in Chunks :
          /\ t # NoTcb /\ t.state \in {"SynSent", "SynReceived", "Established", "CloseWait"}
          /\ wrote[p] + n <= Bytes[p]
          /\ Take(p, write(t, [i \in 1 .. n |-> Byte(p, wrote[p] + i)]))
          /\ wrote' = [wrote EXCEPT ![p] = @ + Least(n, tx_space(t))] /\ UNCHANGED <<born, got, irs>>
  BY DEF tcp_send, Held, Exists
<1> DEFINE data == [i \in 1 .. n |-> Byte(p, wrote[p] + i)]
           r == write(t, data)
           k == Least(n, tx_space(t))
<1>2. /\ n \in Nat /\ wrote \in [Peers -> Nat] /\ wrote[p] \in Nat /\ born[p] \in Nat /\ Bytes[p] \in Nat
      /\ Other(p) \in Peers /\ Other(p) # p
  BY ProgramAssumption, OtherIs DEF Inv, Counts
<1>3. data \in Seq(Datum) /\ Len(data) = n
  <2>1. \A i \in 1 .. n : Byte(p, wrote[p] + i) \in Datum
    BY <1>2 DEF Byte, Datum
  <2> QED BY <1>2, <2>1
<1>4. Run(data, born[p], wrote[p] + 1)
  <2>1. ASSUME NEW j \in 1 .. Len(data) PROVE data[j] = <<born[p], (wrote[p] + 1) + j - 1>>
    <3>1. j \in 1 .. n /\ (wrote[p] + 1) + j - 1 = wrote[p] + j
      BY <1>2, <1>3, <2>1
    <3>2. data[j] = <<born[p], wrote[p] + j>>
      BY <3>1 DEF Byte
    <3> QED BY <3>1, <3>2
  <2> QED BY <2>1 DEF Run
<1>5. Slot(t)
  BY DEF Inv, Slots
<1> HIDE DEF t, data
<1>6. Done(t) /\ t \in TcbRec
  BY <1>1, <1>5, SlotBlock
<1>7. k \in Nat /\ k <= n
  <2>1. Len(t.tx) \in Nat
    BY <1>6, FieldTypes
  <2>2. tx_space(t) \in Nat
    BY <2>1, BufferAssumption DEF tx_space
  <2> QED BY <1>2, <2>2 DEF Least
<1>8. Good(t, r) /\ Silent(t, r.tcb)
  BY <1>1, <1>3, <1>6, WriteKeeps, CallsSilent
<1>9. wrote'[p] = wrote[p] + k /\ wrote'[Other(p)] = wrote[Other(p)] /\ wrote[p] + k <= Bytes[p] /\ wrote[p] <= wrote[p] + k
  BY <1>1, <1>2, <1>7
<1>10. Histories'
  <2>1. \A x \in Peers : wrote'[x] <= Bytes[x]
    BY <1>1, <1>2, <1>9 DEF StreamInv, Histories
  <2> QED BY <1>1, <2>1 DEF StreamInv, Histories
<1>11. PICK d \in Nat : Link(p, d) /\ Stream(t, Book(p, d))
  BY <1>1 DEF StreamInv, BlockOK, Exists, t
<1>12. PICK M : M = Book(p, d)'
  OBVIOUS
<1>13. Still(Other(p))
  BY <1>1, <1>2, <1>9 DEF Still, Take, Inv, Slots
<1> DEFINE L == Book(p, d)
<1>14. /\ M.wrote = L.wrote + k /\ M.own = L.own /\ M.read = L.read /\ M.base = L.base /\ M.peer = L.peer
       /\ M.limit = L.limit /\ M.ends = L.ends /\ L.own = born[p] /\ L.wrote = wrote[p]
  BY <1>1, <1>2, <1>9, <1>12, <1>13, StillLimit DEF Book
<1>15. Fits(L) /\ Fits(M)
  BY <1>10, <1>12, Books, BooksNext DEF Inv, StreamInv
<1>16. Writable(t) /\ Writes(p)
  BY <1>1 DEF Writable, Writes, Exists, t
<1> HIDE DEF L, k
<1>17. M.wrote = L.wrote + Least(Len(data), tx_space(t))
  BY <1>3, <1>14 DEF k
<1>18. Right(t, M, r)
  BY <1>3, <1>4, <1>6, <1>11, <1>14, <1>15, <1>16, <1>17, WriteRight DEF L
<1>19. Take(p, r)
  BY <1>1 DEF data
<1> HIDE DEF r
<1>20. wrote[p] <= wrote'[p] /\ got'[Other(p)] = got[Other(p)]
  BY <1>1, <1>9
<1> QED BY <1>1, <1>8, <1>9, <1>10, <1>11, <1>12, <1>16, <1>18, <1>19, <1>20, CallGoesOn DEF t

\* tcp_recv.
LEMMA RecvStream ==
    ASSUME NumbersApart, Inv, Inv', StreamInv, NEW p \in Peers, tcp_recv(p)
    PROVE  StreamInv'
<1> DEFINE t == conn[p]
<1>1. PICK size \in Chunks :
          /\ t # NoTcb /\ t.rx # <<>> /\ Take(p, read(t, Least(size, Len(t.rx))))
          /\ got' = [got EXCEPT ![p] = @ \o SubSeq(t.rx, 1, Least(size, Len(t.rx)))] /\ UNCHANGED <<born, wrote, irs>>
  BY DEF tcp_recv, Held, Exists
<1> DEFINE n == Least(size, Len(t.rx))
           r == read(t, n)
           part == SubSeq(t.rx, 1, n)
<1>2. Slot(t) /\ Other(p) \in Peers /\ Other(p) # p /\ got \in [Peers -> Seq(Datum)] /\ got[p] \in Seq(Datum)
  BY OtherIs DEF Inv, Slots, StreamInv, Histories
<1> HIDE DEF t
<1>3. Done(t) /\ t \in TcbRec /\ t.rx \in Seq(Datum) /\ Len(t.rx) \in Nat
  <2>1. Done(t) /\ t \in TcbRec
    BY <1>1, <1>2, SlotBlock
  <2> QED BY <2>1, FieldTypes
<1>4. n \in Nat /\ n <= Len(t.rx)
  <2>1. size \in Nat
    BY ProgramAssumption, PeersAssumption
  <2> QED BY <1>3, <2>1 DEF Least
<1>5. Take(p, r) /\ got' = [got EXCEPT ![p] = got[p] \o part]
  BY <1>1
<1> HIDE DEF n
<1>6. Good(t, r) /\ Silent(t, r.tcb)
  BY <1>3, <1>4, ReadKeeps, CallsSilent
<1>7. part \in Seq(Datum)
  <2>1. 1 \in Int /\ n \in Int /\ 1 >= 1
    BY <1>4
  <2> QED BY <1>3, <1>4, <2>1, SubSeqType
<1> HIDE DEF part, r
<1>8. got[p] \o part \in Seq(Datum)
  BY <1>2, <1>7, ConcatProperties
<1>9. got'[p] = got[p] \o part /\ got'[Other(p)] = got[Other(p)] /\ got' \in [Peers -> Seq(Datum)]
  BY <1>2, <1>5, <1>8
<1>10. Histories' /\ wrote[p] <= wrote'[p]
  BY <1>1, <1>9 DEF StreamInv, Histories, Inv, Counts
<1>11. PICK d \in Nat : Link(p, d) /\ Stream(t, Book(p, d))
  BY <1>1 DEF StreamInv, BlockOK, Exists, t
<1>12. PICK M : M = Book(p, d)'
  OBVIOUS
<1>13. Still(Other(p))
  BY <1>1, <1>2, <1>9 DEF Still, Take, Inv, Slots
<1> DEFINE L == Book(p, d)
<1>14. /\ M.wrote = L.wrote /\ M.own = L.own /\ M.read = L.read \o part /\ M.base = L.base /\ M.peer = L.peer
       /\ M.limit = L.limit /\ M.ends = L.ends
  BY <1>1, <1>2, <1>9, <1>12, <1>13, StillLimit DEF Book
<1>15. Fits(L) /\ Fits(M)
  BY <1>10, <1>12, Books, BooksNext DEF Inv, StreamInv
<1> HIDE DEF L
<1>16. Right(t, M, read(t, n))
  BY <1>1, <1>3, <1>4, <1>11, <1>14, <1>15, ReadRight DEF L, part
<1>17. Right(t, M, r) /\ wrote'[Other(p)] = wrote[Other(p)] /\ wrote'[p] = wrote[p]
  BY <1>1, <1>16 DEF r
<1> QED BY <1>1, <1>5, <1>6, <1>9, <1>10, <1>11, <1>12, <1>17, CallGoesOn DEF t

\* tcp_shutdown_write.
LEMMA ShutdownStream ==
    ASSUME NumbersApart, Inv, Inv', StreamInv, NEW p \in Peers, tcp_shutdown_write(p)
    PROVE  StreamInv'
<1> DEFINE t == conn[p]
           r == shutdown_write(t)
<1>1. /\ t # NoTcb /\ t.user_open /\ t.state \in {"Established", "CloseWait"} /\ Take(p, r)
      /\ UNCHANGED <<born, wrote, got, irs>> /\ Slot(t)
  BY DEF tcp_shutdown_write, Held, Exists, Inv, Slots
<1> HIDE DEF t
<1>2. Done(t) /\ t \in TcbRec /\ Sized(t)
  BY <1>1, SlotBlock
<1>3. Core(t) /\ Settled(t)
  BY <1>1, <1>2 DEF Done, Ended
<1>4. Good(t, r) /\ Silent(t, r.tcb)
  BY <1>1, <1>2, ShutdownKeeps, CallsSilent
<1>5. ASSUME NEW L, Fits(L), Stream(t, L) PROVE Right(t, L, r)
  <2>1. rcv_wnd(t) >= rcv_wnd(t)
    BY <1>2, FieldTypes, SpaceFacts DEF Window
  <2>2. Len(t.rx) <= RxCap /\ (t.discard_rx => ~t.user_open) /\ Dropped(t, t)
    BY <1>2, <1>3 DEF Sized, Core, LifeOK, Dropped
  <2> QED BY <1>1, <1>2, <1>3, <1>5, <2>1, <2>2, ShutdownRight
<1> HIDE DEF r
<1> QED BY <1>1, <1>4, <1>5, StackGoesOn DEF t

\* tcp_close.
LEMMA CloseStream ==
    ASSUME NumbersApart, Inv, Inv', StreamInv, NEW p \in Peers, tcp_close(p)
    PROVE  StreamInv'
<1> DEFINE t == conn[p]
           r == close(t)
<1>1. t # NoTcb /\ t.user_open /\ Take(p, r) /\ UNCHANGED <<born, wrote, got, irs>> /\ Slot(t)
  BY DEF tcp_close, Held, Exists, Inv, Slots
<1> HIDE DEF t
<1>2. Done(t) /\ t \in TcbRec
  BY <1>1, SlotBlock
<1>3. Good(t, r) /\ Silent(t, r.tcb) /\ \A L : Fits(L) /\ Stream(t, L) => Right(t, L, r)
  BY <1>1, <1>2, CloseKeeps, CallsSilent, CloseRight
<1> HIDE DEF r
<1> QED BY <1>1, <1>3, StackGoesOn DEF t

\* tcp_abort.
LEMMA AbortStream ==
    ASSUME NumbersApart, Inv, Inv', StreamInv, NEW p \in Peers, tcp_abort(p)
    PROVE  StreamInv'
<1> DEFINE t == conn[p]
           c == [t EXCEPT !.user_open = FALSE]
           r == abort(c)
<1>1. t # NoTcb /\ Take(p, r) /\ UNCHANGED <<born, wrote, got, irs>> /\ Slot(t)
  BY DEF tcp_abort, Held, Exists, Inv, Slots
<1> HIDE DEF t
<1>2. Done(t) /\ t \in TcbRec /\ Sized(t)
  BY <1>1, SlotBlock
<1>3. /\ c \in TcbRec /\ c.state = t.state /\ c.rcv_nxt = t.rcv_nxt /\ c.una = t.una /\ c.iss = t.iss
      /\ c.fin_received = t.fin_received /\ c.error = t.error /\ c.rx_fin_seq = t.rx_fin_seq
      /\ c.tx = t.tx /\ c.rx = t.rx /\ c.ooo = t.ooo /\ c.retries = t.retries /\ c.discard_rx = t.discard_rx
  BY <1>2 DEF TcbRec
<1>4. Silent(t, r.tcb)
  BY <1>2, CallsSilent
<1> HIDE DEF c
<1>5. Sized(c) /\ Dropped(t, c)
  BY <1>2, <1>3 DEF Sized, Dropped
<1>6. Good(c, r)
  BY <1>3, <1>5, AbortKeeps
<1>7. \A L : Fits(L) /\ Stream(t, L) => Right(t, L, r)
  BY <1>2, <1>3, <1>5, AbortRight
<1> HIDE DEF r
<1>8. Good(t, r)
  BY <1>3, <1>6, KeptVia DEF Good
<1> QED BY <1>1, <1>4, <1>7, <1>8, StackGoesOn DEF t

\* Timers, unreachable hosts and removed interfaces.
LEMMA HostStream ==
    ASSUME NumbersApart, Inv, Inv', StreamInv, NEW p \in Peers, Host(p)
    PROVE  StreamInv'
<1> DEFINE t == conn[p]
<1>1. t # NoTcb /\ UNCHANGED <<born, wrote, got, irs>> /\ Slot(t)
  BY DEF Host, RtoTimer, CloseTimer, Unreachable, remove_interface, Exists, Inv, Slots
<1>2. PICK r : Take(p, r) /\ \/ t.rto /\ r = rto_timer(t)
                             \/ r \in {Quiet(close_timer(t)), Quiet(on_unreachable(t)), Quiet(fail(t))}
  BY DEF Host, RtoTimer, CloseTimer, Unreachable, remove_interface
<1> HIDE DEF t
<1>3. Done(t) /\ t \in TcbRec
  BY <1>1, SlotBlock
<1>4. CASE t.rto /\ r = rto_timer(t)
  <2>1. Good(t, r) /\ Silent(t, r.tcb)
    BY <1>3, <1>4, RtoTimerKeeps, CallsSilent
  <2>2. \A L : Fits(L) /\ Stream(t, L) => Right(t, L, r)
    BY <1>3, <1>4, RtoRight
  <2> QED BY <1>1, <1>2, <2>1, <2>2, StackGoesOn DEF t
<1>5. CASE r \in {Quiet(close_timer(t)), Quiet(on_unreachable(t)), Quiet(fail(t))}
  <2>1. Good(t, r) /\ Silent(t, r.tcb)
    BY <1>3, <1>5, CloseTimerKeeps, UnreachableKeeps, FailKeeps, CallsSilent
  <2>2. \A L : Fits(L) /\ Stream(t, L) => Right(t, L, r)
    BY <1>3, <1>5, EndingRight
  <2> QED BY <1>1, <1>2, <2>1, <2>2, StackGoesOn DEF t
<1> QED BY <1>2, <1>4, <1>5

----------------------------------------------------------------------------
(* Segments arriving, and getting lost. *)

\* A segment that the block looks into is one of the connection that the block answered.
LEMMA WhichConnection ==
    ASSUME NumbersApart, Counts, Histories, NEW p \in Peers, NEW q \in Peers, q = Other(p), NEW t \in TcbRec,
           NEW d \in Nat, Link(p, d), irs[p] # NoSeq, RxOK(t, Book(p, d)), NEW h \in Segment, Reaches(t, h),
           NEW c \in 1 .. born[q], Carries(h, Iss[q][c], c, Limit(q, c), Ends(q, c))
    PROVE  c = d
<1> DEFINE L == Book(p, d)
<1>1. Fits(L) /\ L.base = irs[p] /\ L.limit = Limit(q, d)
  <2>1. Fits(L)
    BY Books
  <2> QED BY <2>1 DEF Book
<1>2. born[q] \in Nat
  BY DEF Counts
<1>3. d \in 1 .. born[q] /\ irs[p] = Iss[q][d]
  BY <1>2 DEF Link
<1>4. /\ c \in DOMAIN Iss[q] /\ d \in DOMAIN Iss[q] /\ Iss[q][c] \in Seq32 /\ Iss[q][d] \in Seq32
  BY <1>3, IssFacts
<1>5. /\ Limit(q, c) \in Nat /\ Limit(q, c) <= Bytes[q] /\ Ends(q, c) \subseteq 1 .. Limit(q, c) + 1
      /\ Limit(q, d) \in Nat /\ Limit(q, d) <= Bytes[q]
  BY LimitFits
<1>6. Bytes[q] \in Nat /\ Bytes[q] + RxCap + 1 < SeqSpace /\ RxCap \in Nat /\ SeqSpace \in Nat
  BY ProgramAssumption, SpaceFacts DEF NumbersApart
<1> HIDE DEF L
<1> DEFINE a == Limit(q, c)
           b == Limit(q, d)
           n == Bytes[q]
<1>7. /\ a \in Nat /\ b \in Nat /\ n \in Nat /\ a <= n /\ b <= n /\ n + RxCap + 1 < SeqSpace
      /\ RxCap \in Nat /\ SeqSpace \in Nat
  BY <1>5, <1>6
<1>8. Ends(q, c) \subseteq 1 .. a + 1 /\ Carries(h, Iss[q][c], c, a, Ends(q, c)) /\ L.limit = b
  BY <1>1, <1>5
<1> HIDE DEF a, b
<1>9. a + RxCap + 1 < SeqSpace
  <2> HIDE DEF n
  <2> QED BY <1>7
<1>10. PICK x \in Seq32 : Minus(x, L.base) <= L.limit + RxCap + 1 /\ Minus(x, Iss[q][c]) <= a + RxCap + 1
  <2>1. L.base # NoSeq /\ RxOK(t, L)
    BY <1>1 DEF L
  <2> QED BY <1>1, <1>4, <1>7, <1>8, <1>9, <2>1, ReachesShares
<1>11. Minus(x, Iss[q][c]) <= Bytes[q] + RxCap + 1 /\ Minus(x, Iss[q][d]) <= Bytes[q] + RxCap + 1
  <2> DEFINE y == Minus(x, Iss[q][c])
             z == Minus(x, Iss[q][d])
  <2>1. y \in Nat /\ z \in Nat
    BY <1>4, WayOn
  <2>2. y <= a + RxCap + 1 /\ z <= b + RxCap + 1
    BY <1>1, <1>3, <1>8, <1>10
  <2> HIDE DEF y, z, n
  <2>3. y <= n + RxCap + 1 /\ z <= n + RxCap + 1
    BY <1>7, <2>1, <2>2
  <2> QED BY <2>3 DEF y, z, n
<1> QED BY <1>4, <1>11, OneConnection

\* A block acknowledged by the other host's current connection has been answered by it.
LEMMA AckAgrees ==
    ASSUME NumbersApart, Counts, NEW p \in Peers, NEW q \in Peers, q = Other(p), NEW h \in Segment,
           Acks(p, h, born[q]), NEW u, Core(u), synchronized(u), u.una = h.ack, born[p] >= 1, u.iss = Iss[p][born[p]],
           NEW M, Fits(M), TxOK(u, M), M.wrote <= Bytes[p]
    PROVE  irs[q] = u.iss /\ (Exists(q) => Minus(u.una, u.iss) <= Minus(conn[q].rcv_nxt, u.iss))
<1>1. PICK x \in 1 .. born[p] :
          /\ Minus(h.ack, Iss[p][x]) \in 1 .. Bytes[p] + 2 /\ irs[q] = Iss[p][x]
          /\ Exists(q) => Minus(h.ack, irs[q]) <= Minus(conn[q].rcv_nxt, irs[q])
  BY DEF Acks
<1>2. born[p] \in Nat /\ Bytes[p] \in Nat /\ RxCap \in Nat /\ RxCap >= 1
  BY ProgramAssumption, SpaceFacts DEF Counts
<1>3. born[p] \in 1 .. born[p]
  BY <1>2
<1>4. /\ x \in DOMAIN Iss[p] /\ born[p] \in DOMAIN Iss[p] /\ Iss[p][x] \in Seq32 /\ Iss[p][born[p]] \in Seq32
  BY <1>3, IssFacts
<1>5. Minus(u.una, u.iss) <= M.wrote + 2 /\ M.wrote \in Nat
  BY FrontPlace, LedgerTypes
<1>6. h.ack \in Seq32
  BY DEF Segment
<1>7. Minus(h.ack, Iss[p][x]) <= Bytes[p] + RxCap + 1 /\ Minus(h.ack, Iss[p][born[p]]) <= Bytes[p] + RxCap + 1
  <2> DEFINE a == Minus(h.ack, Iss[p][x])
             b == Minus(h.ack, Iss[p][born[p]])
             w == M.wrote
             n == Bytes[p]
  <2>1. a \in Nat /\ b \in Nat
    BY <1>4, <1>6, WayOn
  <2>2. /\ a <= n + 2 /\ b <= w + 2 /\ w <= n /\ w \in Nat /\ n \in Nat
    BY <1>1, <1>2, <1>5, <2>1
  <2> HIDE DEF a, b, w, n
  <2>3. a <= n + RxCap + 1 /\ b <= n + RxCap + 1
    BY <1>2, <2>1, <2>2
  <2> QED BY <2>3 DEF a, b, n
<1>8. x = born[p]
  BY <1>4, <1>6, <1>7, OneConnection
<1> QED BY <1>1, <1>8

\* conn_input: the block, its peer's connection and what it has had acknowledged decide the step.
LEMMA InputGoesOn ==
    ASSUME NumbersApart, Inv, Inv', StreamInv, NEW p \in Peers, conn[p] # NoTcb, NEW h \in Segment,
           NEW left, Left(p, left), NEW r, r = on_segment(conn[p], h), Answered(p, h, left, r),
           irs[p] # NoSeq => irs'[p] = irs[p],
           NEW d \in Nat, Link(p, d)', NEW M, M = Book(p, d)', Right(conn[p], M, r), Agreed(p, r.tcb, M.base)
    PROVE  StreamInv'
<1>1. Other(p) \in Peers /\ Other(p) # p /\ Histories
  BY OtherIs DEF StreamInv
<1>2. Done(conn[p])
  BY SlotBlock DEF Inv, Slots
<1>3. Done(r.tcb) /\ r.out \in Seq(Segment)
  BY <1>2, OnSegmentKeeps DEF Answers, Good
<1>4. /\ conn' = [conn EXCEPT ![p] = Reaped(r.tcb)]
      /\ net' = [net EXCEPT ![p] = left, ![Other(p)] = Queued(@, r.out)]
      /\ UNCHANGED <<born, wrote, got>>
      /\ \E x \in {h.seq, irs[p]} : irs' = [irs EXCEPT ![p] = x]
  BY DEF Answered
<1>5. conn'[p] = Reaped(r.tcb) /\ Still(Other(p))
  BY <1>1, <1>4 DEF Still, Inv, Slots, Histories
<1>6. Flow(p, r.out)
  BY <1>3, <1>4, Flows DEF Inv
<1>7. Histories'
  <2>1. h.seq \in OptSeq
    BY DEF Segment, OptSeq
  <2>2. irs' \in [Peers -> OptSeq]
    BY <1>1, <1>4, <2>1 DEF Histories
  <2> QED BY <1>1, <1>4, <2>2 DEF Histories
<1>8. born'[p] = born[p] /\ wrote[p] <= wrote'[p] /\ wrote'[p] = wrote[p]
  BY <1>4 DEF Inv, Counts
<1> QED BY <1>3, <1>5, <1>6, <1>7, <1>8, GoesOn

\* The same for a segment that gives the block no connection to answer.
LEMMA InputSame ==
    ASSUME NumbersApart, Inv, Inv', StreamInv, NEW p \in Peers, conn[p] # NoTcb, NEW h \in Segment,
           NEW left, Left(p, left), NEW r, r = on_segment(conn[p], h), Answered(p, h, left, r),
           conn[p].state = "SynSent" => r.tcb.state \notin {"Established", "SynReceived"},
           NEW d \in Nat, Link(p, d), Right(conn[p], Book(p, d), r), Agreed(p, r.tcb, irs[p])
    PROVE  StreamInv'
<1>1. Other(p) \in Peers /\ Other(p) # p /\ Histories
  BY OtherIs DEF StreamInv
<1>2. irs' = irs /\ UNCHANGED <<born, wrote, got>> /\ conn'[Other(p)] = conn[Other(p)]
  BY <1>1 DEF Answered, Histories, Inv, Slots
<1>3. Still(Other(p))
  BY <1>2 DEF Still
<1>4. Book(p, d)' = Book(p, d) /\ Link(p, d)' /\ Book(p, d).base = irs[p]
  <2>1. Link(p, d)'
    BY <1>2 DEF Link
  <2> QED BY <1>1, <1>2, <1>3, <2>1, StillLimit DEF Book
<1> QED BY <1>2, <1>4, InputGoesOn

\* A SYN begins where its connection begins.
LEMMA SynFirst ==
    ASSUME NEW h \in Segment, NEW base \in Seq32, NEW c, NEW limit, NEW ends, Carries(h, base, c, limit, ends),
           "SYN" \in h.flags
    PROVE  h.seq = base
<1>1. h.seq \in Seq32 /\ Minus(h.seq, base) = 0
  BY DEF Carries, Segment
<1>2. Minus(base, base) = 0
  BY WayOn
<1>3. Plus(base, 0) = h.seq /\ Plus(base, 0) = base
  BY <1>1, <1>2, ThereAndBack
<1> QED BY <1>3

\* A segment for a block in SYN_SENT.
LEMMA SynSentStream ==
    ASSUME NumbersApart, Inv, Inv', StreamInv, NEW p \in Peers, conn[p] # NoTcb, conn[p].state = "SynSent",
           NEW h \in Segment, Said(p, h), NEW left, Left(p, left), conn_input(p, h, left)
    PROVE  StreamInv'
<1> DEFINE t == conn[p]
           q == Other(p)
           r == on_syn_sent(t, h)
<1>1. q \in Peers /\ q # p /\ Counts /\ Histories
  BY OtherIs DEF Inv, StreamInv
<1>2. Done(t) /\ t \in TcbRec /\ Core(t) /\ Settled(t)
  <2>1. Done(t) /\ t \in TcbRec
    BY SlotBlock DEF Inv, Slots
  <2> QED BY <2>1 DEF Done, Ended
<1>3. r = on_segment(t, h) /\ Answered(p, h, left, r)
  BY DEF on_segment, conn_input
<1>4. Answers(t, r)
  BY <1>2, <1>3, OnSegmentKeeps
<1>5. Done(r.tcb)
  BY <1>4 DEF Answers, Good
<1>6. /\ born[p] >= 1 /\ t.iss = Iss[p][born[p]]
      /\ \E d \in Nat : Link(p, d) /\ Stream(t, Book(p, d))
  BY DEF StreamInv, BlockOK, Exists
<1>7. PICK d \in Nat : Link(p, d) /\ Stream(t, Book(p, d))
  BY <1>6
<1> DEFINE L == Book(p, d)
<1>8. Fits(L) /\ L.base = irs[p] /\ L.own = born[p] /\ L.wrote = wrote[p] /\ L.read = got[p]
  <2>1. Fits(L)
    BY <1>1, Books
  <2> QED BY <2>1 DEF Book
<1>9. irs[p] = NoSeq
  BY <1>7, <1>8 DEF Stream, RxOK
<1>10. h.seq \in Seq32 /\ h.seq \in OptSeq
  BY DEF Segment, OptSeq
<1>11. Stream(t, L)
  BY <1>7
<1> HIDE DEF L
<1>12. CASE r.tcb.state \notin {"Established", "SynReceived"}
  <2>1. PICK K : K = [L EXCEPT !.base = h.seq]
    OBVIOUS
  <2>2. Fits(K) /\ K.own = L.own /\ K.wrote = L.wrote /\ K.read = L.read /\ K.base = h.seq
    BY <1>8, <1>10, <2>1 DEF Fits, Ledger
  <2>3. Right(t, L, r) /\ ~synchronized(r.tcb)
    BY <1>2, <1>8, <1>11, <1>12, <2>2, OnSynSentRight
  <2>4. Agreed(p, r.tcb, irs[p])
    BY <2>3 DEF Agreed
  <2> HIDE DEF r
  <2>5. Right(conn[p], Book(p, d), r)
    BY <2>3 DEF L
  <2> QED BY <1>3, <1>7, <1>12, <2>4, <2>5, InputSame
<1>13. CASE r.tcb.state \in {"Established", "SynReceived"}
  <2>1. irs' = [irs EXCEPT ![p] = h.seq] /\ UNCHANGED <<born, wrote, got>>
    BY <1>3, <1>13 DEF Answered
  <2>2. irs'[p] = h.seq /\ irs' \in [Peers -> OptSeq] /\ Histories' /\ Counts'
    BY <1>1, <1>10, <2>1 DEF Histories, Inv
  <2>3. ASSUME NEW K, Fits(K), K.own = L.own, K.wrote = L.wrote, K.read = L.read, K.base = h.seq
        PROVE  /\ Right(t, K, r) /\ "SYN" \in h.flags /\ "RST" \notin h.flags
               /\ synchronized(r.tcb) => r.tcb.una = h.ack /\ "ACK" \in h.flags
    BY <1>2, <1>8, <1>11, <1>13, <2>3, OnSynSentRight
  <2> HIDE DEF r
  <2>4. ASSUME NEW e \in Nat
        PROVE  LET K == Book(p, e)'
               IN  Fits(K) /\ K.own = L.own /\ K.wrote = L.wrote /\ K.read = L.read /\ K.base = h.seq
    <3>1. Fits(Book(p, e)')
      BY <2>2, BooksNext
    <3> QED BY <1>8, <2>1, <2>2, <3>1 DEF Book
  <2>5. "SYN" \in h.flags /\ "RST" \notin h.flags
    <3>1. 0 \in Nat
      OBVIOUS
    <3> QED BY <2>3, <2>4, <3>1
  <2>6. PICK c \in 1 .. born[q] : /\ Carries(h, Iss[q][c], c, Limit(q, c), Ends(q, c))
                                  /\ "ACK" \in h.flags => Acks(p, h, c)
    BY <2>5 DEF Said
  <2>7. c \in Nat /\ born[q] \in Nat /\ Iss[q][c] \in Seq32 /\ h.seq = Iss[q][c]
    BY <1>1, <2>5, <2>6, IssFacts, SynFirst
  <2>8. PICK M : M = Book(p, c)'
    OBVIOUS
  <2>9. /\ Fits(M) /\ M.own = L.own /\ M.wrote = L.wrote /\ M.read = L.read /\ M.base = h.seq
    BY <2>4, <2>7, <2>8
  <2>10. Right(t, M, r) /\ (synchronized(r.tcb) => r.tcb.una = h.ack /\ "ACK" \in h.flags)
    BY <2>3, <2>9
  <2>11. Link(p, c)'
    BY <2>1, <2>2, <2>7 DEF Link
  <2>12. Agreed(p, r.tcb, M.base)
    <3> SUFFICES ASSUME synchronized(r.tcb), M.base = Iss[q][born[q]]
                 PROVE  /\ irs[q] = r.tcb.iss
                        /\ Exists(q) => Minus(r.tcb.una, r.tcb.iss) <= Minus(conn[q].rcv_nxt, r.tcb.iss)
      BY DEF Agreed
    <3>1. born[q] \in 1 .. born[q] /\ Iss[q][c] = Iss[q][born[q]]
      BY <2>7, <2>9
    <3>2. c = born[q]
      BY <1>1, <3>1, OneIss
    <3>3. Acks(p, h, born[q]) /\ r.tcb.una = h.ack
      BY <2>6, <2>10, <3>2
    <3>4. Core(r.tcb) /\ r.tcb.iss = Iss[p][born[p]] /\ TxOK(r.tcb, M)
      BY <1>5, <1>6, <1>13, <2>10 DEF Done, Ended, Right, Follows, Stream
    <3>5. M.wrote <= Bytes[p]
      BY <1>1, <1>8, <2>9 DEF Histories
    <3> QED BY <1>1, <1>6, <2>9, <3>3, <3>4, <3>5, AckAgrees
  <2> QED BY <1>3, <1>9, <2>7, <2>8, <2>10, <2>11, <2>12, InputGoesOn
<1> QED BY <1>12, <1>13

\* A segment for a block beyond SYN_SENT.
LEMMA BeyondStream ==
    ASSUME NumbersApart, Inv, Inv', StreamInv, NEW p \in Peers, conn[p] # NoTcb,
           conn[p].state \notin {"SynSent", "Closed"},
           NEW h \in Segment, Said(p, h), NEW left, Left(p, left), conn_input(p, h, left)
    PROVE  StreamInv'
<1> DEFINE t == conn[p]
           q == Other(p)
           r == on_synchronized(t, h)
<1>1. q \in Peers /\ q # p /\ Counts /\ Histories
  BY OtherIs DEF Inv, StreamInv
<1>2. Done(t) /\ t \in TcbRec /\ Core(t) /\ Settled(t)
  <2>1. Done(t) /\ t \in TcbRec
    BY SlotBlock DEF Inv, Slots
  <2> QED BY <2>1 DEF Done, Ended
<1>3. r = on_segment(t, h) /\ Answered(p, h, left, r)
  <2>1. t.state # "Listen"
    BY <1>2 DEF TcbRec, States
  <2> QED BY <2>1 DEF on_segment, conn_input
<1>4. Done(r.tcb)
  BY <1>2, <1>3, OnSegmentKeeps DEF Answers, Good
<1>5. /\ born[p] >= 1 /\ t.iss = Iss[p][born[p]]
      /\ \E d \in Nat : Link(p, d) /\ Stream(t, Book(p, d))
  BY DEF StreamInv, BlockOK, Exists
<1>6. PICK d \in Nat : Link(p, d) /\ Stream(t, Book(p, d))
  BY <1>5
<1> DEFINE L == Book(p, d)
<1>7. /\ Fits(L) /\ L.base = irs[p] /\ L.wrote = wrote[p] /\ L.peer = d
      /\ L.limit = Limit(q, d) /\ L.ends = Ends(q, d)
  <2>1. Fits(L)
    BY <1>1, Books
  <2> QED BY <2>1 DEF Book
<1>8. irs[p] # NoSeq /\ RxOK(t, L) /\ Stream(t, L)
  BY <1>6, <1>7 DEF Stream, Virgin
<1>9. d \in 1 .. born[q] /\ irs[p] = Iss[q][d] /\ born[q] \in Nat
  <2>1. born[q] \in Nat
    BY <1>1 DEF Counts
  <2> QED BY <1>6, <1>8, <2>1 DEF Link
<1>10. ASSUME "RST" \notin h.flags, Reaches(t, h)
       PROVE  /\ Carries(h, Iss[q][d], d, Limit(q, d), Ends(q, d))
              /\ "ACK" \in h.flags => Acks(p, h, d)
  <2>1. PICK c \in 1 .. born[q] : /\ Carries(h, Iss[q][c], c, Limit(q, c), Ends(q, c))
                                  /\ "ACK" \in h.flags => Acks(p, h, c)
    BY <1>10 DEF Said
  <2>2. c = d
    BY <1>1, <1>2, <1>6, <1>8, <1>10, <2>1, WhichConnection
  <2> QED BY <2>1, <2>2
<1>11. "RST" \notin h.flags /\ Reaches(t, h) => Carries(h, L.base, L.peer, L.limit, L.ends)
  BY <1>7, <1>9, <1>10
<1> HIDE DEF L
<1>12. Right(t, L, r) /\ Acknowledges(t, h, r.tcb)
  BY <1>2, <1>7, <1>8, <1>11, OnSynchronizedRight
<1> HIDE DEF r
<1>13. r.tcb.iss = t.iss /\ TxOK(r.tcb, L)
  BY <1>12 DEF Right, Follows, Stream
<1>14. Agreed(p, r.tcb, irs[p])
  <2> SUFFICES ASSUME synchronized(r.tcb), irs[p] = Iss[q][born[q]]
               PROVE  /\ irs[q] = r.tcb.iss
                      /\ Exists(q) => Minus(r.tcb.una, r.tcb.iss) <= Minus(conn[q].rcv_nxt, r.tcb.iss)
    BY DEF Agreed
  <2>1. CASE synchronized(t) /\ r.tcb.una = t.una
    <3>1. Agreed(p, t, irs[p])
      BY DEF StreamInv, AgreeOK, Exists
    <3> QED BY <1>13, <2>1, <3>1 DEF Agreed
  <2>2. CASE r.tcb.una = h.ack /\ "ACK" \in h.flags /\ "RST" \notin h.flags /\ Reaches(t, h)
    <3>1. born[q] \in 1 .. born[q] /\ Iss[q][d] = Iss[q][born[q]]
      BY <1>9
    <3>2. d = born[q]
      BY <1>1, <1>9, <3>1, OneIss
    <3>3. Acks(p, h, born[q])
      BY <1>10, <2>2, <3>2
    <3>4. Core(r.tcb)
      <4>1. r.tcb.state # "Closed"
        BY DEF synchronized
      <4> QED BY <1>4, <4>1 DEF Done, Ended
    <3>5. L.wrote <= Bytes[p]
      BY <1>1, <1>7 DEF Histories
    <3> QED BY <1>1, <1>5, <1>7, <1>13, <2>2, <3>3, <3>4, <3>5, AckAgrees
  <2> QED BY <1>12, <2>1, <2>2 DEF Acknowledges
<1>15. Right(conn[p], Book(p, d), r)
  BY <1>12 DEF L
<1> QED BY <1>3, <1>6, <1>14, <1>15, InputSame

\* conn_input.
LEMMA InputStream ==
    ASSUME NumbersApart, Inv, Inv', StreamInv, NEW p \in Peers, conn[p] # NoTcb,
           NEW h \in Segment, Said(p, h), NEW left, Left(p, left), conn_input(p, h, left)
    PROVE  StreamInv'
<1>1. CASE conn[p].state = "SynSent"
  BY <1>1, SynSentStream
<1>2. CASE conn[p].state \notin {"SynSent", "Closed"}
  BY <1>2, BeyondStream
<1>3. CASE conn[p].state = "Closed"
  <2> DEFINE t == conn[p]
             r == Quiet(t)
  <2>1. t \in TcbRec /\ Counts /\ Histories
    BY SlotBlock DEF Inv, Slots, StreamInv
  <2>2. r = on_segment(t, h) /\ Answered(p, h, left, r) /\ r.tcb = t
    BY <1>3 DEF on_segment, conn_input, Quiet, Step
  <2>3. PICK d \in Nat : Link(p, d) /\ Stream(t, Book(p, d))
    BY DEF StreamInv, BlockOK, Exists
  <2>4. Fits(Book(p, d)) /\ Alike(t, t) /\ \A i \in DOMAIN << >> : "RST" \in << >>[i].flags
    BY <2>1, Books DEF Alike
  <2> HIDE DEF t
  <2>5. Right(t, Book(p, d), r)
    BY <2>1, <2>3, <2>4, QuietRight
  <2>6. Agreed(p, t, irs[p])
    BY <1>3 DEF Agreed, synchronized, t
  <2> HIDE DEF r
  <2> QED BY <1>3, <2>2, <2>3, <2>5, <2>6, InputSame DEF t
<1> QED BY <1>1, <1>2, <1>3

\* listen_input: the child answers the SYN of one of the other host's connections.
LEMMA ListenStream ==
    ASSUME NumbersApart, Inv, Inv', StreamInv, NEW p \in Peers,
           NEW h \in Segment, Said(p, h), NEW left, Left(p, left), Spawns(p, h), listen_input(p, h, left)
    PROVE  StreamInv'
<1> DEFINE q == Other(p)
           r == new_passive(NextIss(p), h)
<1>1. /\ born[p] < Len(Iss[p]) /\ "SYN" \in h.flags /\ "RST" \notin h.flags /\ Birth(p)
      /\ irs' = [irs EXCEPT ![p] = h.seq] /\ conn' = [conn EXCEPT ![p] = r.tcb]
      /\ net' = [net EXCEPT ![p] = left, ![q] = Queued(@, r.out)]
  BY DEF Spawns, listen_input
<1>2. q \in Peers /\ q # p /\ conn'[p] = r.tcb /\ conn'[q] = conn[q] /\ Counts /\ Counts' /\ Histories
  BY <1>1, OtherIs DEF Inv, Slots, StreamInv
<1>3. h.seq \in Seq32 /\ h.seq \in OptSeq
  BY DEF Segment, OptSeq
<1>4. /\ Histories' /\ Moves(p) /\ born'[p] >= 1 /\ NextIss(p) = Iss[p][born'[p]] /\ NextIss(p) \in Seq32
      /\ wrote'[p] = 0 /\ got'[p] = <<>> /\ irs'[p] = h.seq /\ born'[q] = born[q]
  BY <1>1, <1>2, <1>3, BirthFacts
<1>5. PICK c \in 1 .. born[q] : Carries(h, Iss[q][c], c, Limit(q, c), Ends(q, c))
  BY <1>1 DEF Said
<1>6. c \in Nat /\ born[q] \in Nat /\ h.seq = Iss[q][c]
  BY <1>1, <1>2, <1>5, IssFacts, SynFirst
<1>7. Done(r.tcb) /\ r.out \in Seq(Segment) /\ r.tcb.state = "SynReceived" /\ ~r.tcb.user_open
  BY <1>4, NewPassiveKeeps
<1>8. PICK M : M = Book(p, c)'
  OBVIOUS
<1>9. Fits(M) /\ M.wrote = 0 /\ M.read = <<>> /\ M.base = h.seq
  <2>1. Fits(M)
    BY <1>2, <1>4, <1>6, <1>8, BooksNext
  <2> QED BY <1>4, <1>8, <2>1 DEF Book
<1>10. Stream(r.tcb, M) /\ Told(r.tcb, M, r.out) /\ r.tcb.iss = NextIss(p)
  BY <1>4, <1>9, NewPassiveRight
<1> HIDE DEF r
<1>11. Agreed(p, r.tcb, M.base)
  BY <1>7 DEF Agreed, synchronized
<1>12. Link(p, c)'
  BY <1>4, <1>6 DEF Link
<1>13. Flow(p, r.out)
  BY <1>1, <1>7, Flows DEF Inv
<1>14. conn'[p] = Reaped(r.tcb) /\ r.tcb.iss = Iss[p][born'[p]]
  BY <1>2, <1>4, <1>7, <1>10 DEF Reaped
<1> QED BY <1>4, <1>6, <1>7, <1>8, <1>10, <1>11, <1>12, <1>13, <1>14, BlockStep

\* Nobody wants the segment.
LEMMA RefuseStream ==
    ASSUME NumbersApart, Inv, Inv', StreamInv, NEW p \in Peers,
           NEW h \in Segment, NEW left, Left(p, left), Refuse(p, h, left)
    PROVE  StreamInv'
<1> DEFINE q == Other(p)
<1>1. PICK out : /\ out \in {<<>>, << send_rst_for(h) >>} /\ conn' = [conn EXCEPT ![p] = NoTcb]
                 /\ net' = [net EXCEPT ![p] = left, ![q] = Queued(@, out)]
                 /\ UNCHANGED <<born, wrote, got, irs>>
  BY DEF Refuse
<1>2. q \in Peers /\ q # p /\ conn'[p] = NoTcb /\ conn'[q] = conn[q] /\ Counts /\ Histories
  BY <1>1, OtherIs DEF Inv, Slots, StreamInv
<1>3. Histories' /\ wrote[p] <= wrote'[p]
  BY <1>1, <1>2 DEF Histories, Counts
<1>4. Moves(p)
  BY <1>1, <1>2, <1>3 DEF Moves, Still, Writes, Exists
<1>5. BlockOK(p)' /\ AgreeOK(p)'
  BY <1>2 DEF BlockOK, AgreeOK, Exists
<1>6. send_rst_for(h) \in Segment /\ "RST" \in send_rst_for(h).flags
  BY RefusalType DEF send_rst_for, RstSeg
<1>7. out \in Seq(Segment) /\ \A i \in DOMAIN out : "RST" \in out[i].flags
  <2>1. PICK x \in Segment : x = send_rst_for(h) /\ "RST" \in x.flags
    BY <1>6
  <2>2. CASE out = <<>>
    BY <2>2
  <2>3. CASE out = << x >>
    BY <2>1, <2>3
  <2> QED BY <1>1, <2>1, <2>2, <2>3
<1>8. \A i \in DOMAIN out : Said(q, out[i])'
  BY <1>7 DEF Said
<1>9. Flow(p, out)
  BY <1>1, <1>7, Flows DEF Inv
<1> QED BY <1>2, <1>3, <1>4, <1>5, <1>8, <1>9, Progress DEF Flow

\* A segment is lost.
LEMMA LoseStream ==
    ASSUME NumbersApart, Inv, Inv', StreamInv, NEW p \in Peers, Lose(p)
    PROVE  StreamInv'
<1> DEFINE q == Other(p)
<1>1. PICK i \in DOMAIN net[p] : net' = [net EXCEPT ![p] = Without(net[p], i)] /\ UNCHANGED <<conn, born, wrote, got, irs>>
  BY DEF Lose
<1>2. q \in Peers /\ q # p /\ Counts /\ Histories /\ net[p] \in Seq(Segment)
  BY OtherIs DEF Inv, Nets, StreamInv
<1>3. net'[p] = Without(net[p], i) /\ net'[q] = net[q]
  BY <1>1, <1>2 DEF Inv, Nets
<1>4. Histories' /\ wrote[p] <= wrote'[p]
  BY <1>1, <1>2 DEF Histories, Counts
<1>5. Minus(conn[p].rcv_nxt, irs[p]) <= Minus(conn'[p].rcv_nxt, irs[p]) \/ conn[p] = NoTcb \/ irs[p] = NoSeq
  <2> SUFFICES ASSUME conn[p] # NoTcb, irs[p] # NoSeq
               PROVE  Minus(conn[p].rcv_nxt, irs[p]) <= Minus(conn'[p].rcv_nxt, irs[p])
    OBVIOUS
  <2>1. conn[p].rcv_nxt \in Seq32 /\ irs[p] \in Seq32
    <3>1. conn[p] \in TcbRec
      BY SlotBlock DEF Inv, Slots
    <3> QED BY <1>2, <3>1, FieldTypes DEF Histories, OptSeq
  <2> DEFINE n == Minus(conn[p].rcv_nxt, irs[p])
  <2>2. n \in Nat
    BY <2>1, WayOn
  <2> HIDE DEF n
  <2>3. n <= n
    BY <2>2
  <2> QED BY <1>1, <2>3 DEF n
<1>6. Moves(p)
  BY <1>1, <1>4, <1>5 DEF Moves, Still, Writes, Exists
<1>7. BlockOK(p)' /\ AgreeOK(p)'
  <2>1. BlockOK(p) /\ AgreeOK(p) /\ Still(q) /\ \A d : Link(p, d) <=> Link(p, d)'
    BY <1>1 DEF StreamInv, Still, Link
  <2>2. \A d : Book(p, d)' = Book(p, d)
    BY <1>1, <1>2, <2>1, StillLimit DEF Book
  <2>3. BlockOK(p)'
    BY <1>1, <2>1, <2>2 DEF BlockOK, Exists
  <2> QED BY <1>1, <2>1, <2>3 DEF AgreeOK, Agreed, Exists
<1>8. \A j \in DOMAIN net'[p] : \E k \in DOMAIN net[p] : net'[p][j] = net[p][k]
  BY <1>2, <1>3, WithoutParts
<1>9. \A j \in DOMAIN << >> : Said(q, << >>[j])'
  OBVIOUS
<1>10. \A j \in DOMAIN net'[q] : \E k \in DOMAIN net[q] : net'[q][j] = net[q][k]
  BY <1>3
<1> QED BY <1>2, <1>4, <1>6, <1>7, <1>8, <1>9, <1>10, Progress

\* A frame that arrives, is lost, or is duplicated.
LEMMA NetworkStream ==
    ASSUME NumbersApart, Inv, Inv', StreamInv, NEW p \in Peers, Network(p)
    PROVE  StreamInv'
<1>1. net[p] \in Seq(Segment)
  BY DEF Inv, Nets
<1>2. ASSUME NEW i \in DOMAIN net[p], NEW left, Left(p, left), rx_tcp(p, net[p][i], left) PROVE StreamInv'
  <2>1. net[p][i] \in Segment /\ Said(p, net[p][i])
    BY <1>1, ElementOfSeq, LenProperties DEF StreamInv, SegOK
  <2> QED BY <1>2, <2>1, InputStream, ListenStream, RefuseStream DEF rx_tcp, Exists
<1>3. CASE Deliver(p)
  <2>1. PICK i \in DOMAIN net[p] : rx_tcp(p, net[p][i], Without(net[p], i))
    BY <1>3 DEF Deliver
  <2>2. Without(net[p], i) \in Seq(Segment)
    BY <1>1, WithoutType
  <2>3. Left(p, Without(net[p], i))
    BY <1>1, <2>2, WithoutParts DEF Left
  <2> QED BY <1>2, <2>1, <2>3
<1>4. CASE DeliverCopy(p)
  <2>1. Left(p, net[p])
    BY <1>1 DEF Left
  <2> QED BY <1>2, <1>4, <2>1 DEF DeliverCopy
<1>5. CASE Lose(p)
  BY <1>5, LoseStream
<1> QED BY <1>3, <1>4, <1>5 DEF Network

----------------------------------------------------------------------------
(* The invariant. *)

\* Two hosts without a history are in step.
LEMMA StreamInit == Init => StreamInv
<1> SUFFICES ASSUME Init PROVE StreamInv
  OBVIOUS
<1>1. NoSeq \in OptSeq /\ <<>> \in Seq(Datum)
  BY DEF OptSeq
<1>2. \A p \in Peers : Bytes[p] \in Nat
  BY ProgramAssumption
<1>3. Histories
  BY <1>1, <1>2 DEF Init, Histories
<1>4. \A p \in Peers : BlockOK(p) /\ AgreeOK(p)
  BY DEF Init, BlockOK, AgreeOK, Exists
<1>5. \A p \in Peers : SegOK(p)
  <2>1. DOMAIN <<>> = {}
    OBVIOUS
  <2> QED BY <2>1 DEF Init, SegOK
<1> QED BY <1>3, <1>4, <1>5 DEF StreamInv

\* The invariant is inductive.
LEMMA StreamStep ==
    ASSUME NumbersApart
    PROVE  Inv /\ StreamInv /\ [Next]_vars => StreamInv'
<1> SUFFICES ASSUME Inv, StreamInv, [Next]_vars PROVE StreamInv'
  OBVIOUS
<1>1. Inv'
  BY InvStep
<1>2. CASE UNCHANGED vars
  <2>1. \A x, c : Limit(x, c)' = Limit(x, c) /\ Ends(x, c)' = Ends(x, c) /\ (Exists(x)' <=> Exists(x))
    BY <1>2 DEF vars, Limit, Ends, Writes, Exists
  <2>2. \A p, d : Book(p, d)' = Book(p, d) /\ (Link(p, d)' <=> Link(p, d))
    BY <1>2, <2>1 DEF vars, Book, Link
  <2>3. \A p : BlockOK(p)' <=> BlockOK(p)
    BY <1>2, <2>1, <2>2 DEF vars, BlockOK
  <2>4. \A p, h, c : Acks(p, h, c)' <=> Acks(p, h, c)
    BY <1>2, <2>1 DEF vars, Acks
  <2>5. \A p, h : Said(p, h)' <=> Said(p, h)
    BY <1>2, <2>1, <2>4 DEF vars, Said
  <2>6. \A p : SegOK(p)' <=> SegOK(p)
    BY <1>2, <2>5 DEF vars, SegOK
  <2>7. \A p : AgreeOK(p)' <=> AgreeOK(p)
    BY <1>2, <2>1 DEF vars, AgreeOK, Agreed
  <2>8. Histories'
    BY <1>2 DEF vars, StreamInv, Histories
  <2> QED BY <2>3, <2>6, <2>7, <2>8 DEF StreamInv
<1>3. CASE Next
  <2>1. PICK p \in Peers : Program(p) \/ Network(p) \/ Host(p)
    BY <1>3 DEF Next
  <2>2. CASE Program(p)
    BY <1>1, <2>2, ConnectStream, AcceptStream, SendStream, RecvStream, ShutdownStream, CloseStream, AbortStream
       DEF Program
  <2> QED BY <1>1, <2>1, <2>2, NetworkStream, HostStream
<1> QED BY <1>2, <1>3

\* The two hosts stay in step with their history: every block holds, has read and has in flight
\* exactly the bytes its ledger says, and every segment on the network says what a connection of
\* its sender wrote and received (output, on_synchronized, accept_data, drain_ooo, retransmissions).
THEOREM StreamInvariance ==
    ASSUME NumbersApart
    PROVE  Spec => []StreamInv
<1>1. Init => StreamInv
  BY StreamInit
<1>2. Inv /\ StreamInv /\ [Next]_vars => StreamInv'
  BY StreamStep
<1> QED BY <1>1, <1>2, Invariance, PTL DEF Spec

----------------------------------------------------------------------------
(* What follows for the programs. *)

\* A program reads what the other one wrote: the bytes it has read and those waiting for it are,
\* in order and without gaps or repetitions, the first bytes that the peer wrote on the one
\* connection whose SYN the block answered; whatever the network lost, copied or reordered, and
\* however the connections before it ended (accept_data, drain_ooo, push_rx, Reopens).
THEOREM StreamIsIntact ==
    ASSUME NumbersApart
    PROVE  Spec => []StreamIntegrity
<1>1. Inv /\ StreamInv => StreamIntegrity
  <2> SUFFICES ASSUME Inv, StreamInv, NEW p \in Peers, Exists(p), NEW i \in DOMAIN Received(p)
               PROVE  \E c \in DOMAIN Iss[Other(p)] : irs[p] = Iss[Other(p)][c] /\ Received(p)[i] = <<c, i>>
    BY DEF StreamIntegrity
  <2> DEFINE t == conn[p]
             q == Other(p)
             a == got[p]
             b == t.rx
  <2>1. Counts /\ Histories /\ q \in Peers
    BY OtherIs DEF Inv, StreamInv
  <2>2. a \in Seq(Datum) /\ b \in Seq(Datum) /\ Len(a) \in Nat
    <3>1. t \in TcbRec
      BY SlotBlock DEF Inv, Slots, Exists
    <3>2. a \in Seq(Datum)
      BY <2>1 DEF Histories
    <3> QED BY <3>1, <3>2, FieldTypes, LenProperties
  <2>3. PICK d \in Nat : Link(p, d) /\ Stream(t, Book(p, d))
    BY DEF StreamInv, BlockOK
  <2>4. Book(p, d).base = irs[p] /\ Book(p, d).read = a /\ Book(p, d).peer = d
    BY DEF Book
  <2>5. Received(p) = a \o b
    BY DEF Received
  <2> HIDE DEF a, b
  <2>6. irs[p] # NoSeq
    <3> SUFFICES ASSUME irs[p] = NoSeq PROVE FALSE
      OBVIOUS
    <3>1. a = <<>> /\ b = <<>>
      BY <2>3, <2>4 DEF Stream, Virgin, b
    <3>2. Received(p) = <<>>
      BY <2>5, <3>1
    <3> QED BY <3>2
  <2>7. Run(a, d, 1) /\ Run(b, d, 1 + Len(a))
    <3>1. Run(b, d, Len(a) + 1) /\ Run(a, d, 1)
      BY <2>3, <2>4, <2>6 DEF Stream, RxOK, b
    <3>2. Len(a) + 1 = 1 + Len(a)
      BY <2>2
    <3> QED BY <3>1, <3>2
  <2>8. a \o b \in Seq(Datum) /\ Run(a \o b, d, 1)
    BY <2>2, <2>7, RunConcat
  <2>9. i \in 1 .. Len(a \o b) /\ i \in Int
    <3>1. i \in DOMAIN (a \o b)
      BY <2>5
    <3> QED BY <2>8, <3>1, LenProperties
  <2>10. Received(p)[i] = <<d, i>>
    <3>1. Received(p)[i] = <<d, 1 + i - 1>>
      BY <2>5, <2>8, <2>9 DEF Run
    <3>2. 1 + i - 1 = i
      BY <2>9
    <3> QED BY <3>1, <3>2
  <2>11. d \in 1 .. born[q] /\ irs[p] = Iss[q][d]
    <3>1. born[q] \in Nat
      BY <2>1 DEF Counts
    <3> QED BY <2>3, <2>6, <3>1 DEF Link
  <2>12. d \in DOMAIN Iss[q]
    BY <2>1, <2>11, IssFacts
  <2> QED BY <2>10, <2>11, <2>12
<1> QED BY <1>1, Invariance, StreamInvariance, PTL

\* The handshake agrees: two synchronized blocks of which one answered the other's SYN answered
\* each other's, however many old SYNs, SYN-ACKs and ACKs were still on the way (on_syn_sent, the
\* SYN_RECEIVED branch of on_synchronized, listen_input).
THEOREM HandshakeIsMutual ==
    ASSUME NumbersApart
    PROVE  Spec => []HandshakeAgrees
<1>1. StreamInv => HandshakeAgrees
  <2> SUFFICES ASSUME StreamInv, NEW p \in Peers, NEW q, q = Other(p), Exists(p), Exists(q),
                      synchronized(conn[p]), irs[p] = conn[q].iss
               PROVE  irs[q] = conn[p].iss
    BY DEF HandshakeAgrees
  <2>1. conn[q].iss = Iss[q][born[q]]
    BY OtherIs DEF StreamInv, BlockOK
  <2> QED BY <2>1 DEF StreamInv, AgreeOK, Agreed
<1> QED BY <1>1, StreamInvariance, PTL

\* A block that answered the other host's current connection knows how far that one goes.
LEMMA CurrentBook ==
    ASSUME NumbersApart, Inv, StreamInv, NEW p \in Peers, NEW q \in Peers, q = Other(p), Exists(p),
           irs[p] # NoSeq, irs[p] = Iss[q][born[q]]
    PROVE  \E L : /\ Fits(L) /\ Stream(conn[p], L) /\ L.base = irs[p] /\ L.limit = wrote[q] /\ L.read = got[p]
                  /\ L.ends = IF Writes(q) THEN {} ELSE {wrote[q] + 1}
<1>1. Counts /\ Histories
  BY DEF Inv, StreamInv
<1>2. PICK d \in Nat : Link(p, d) /\ Stream(conn[p], Book(p, d))
  BY DEF StreamInv, BlockOK
<1>3. born[q] \in Nat
  BY <1>1 DEF Counts
<1>4. d \in 1 .. born[q] /\ irs[p] = Iss[q][d]
  BY <1>2, <1>3 DEF Link
<1>5. born[q] \in 1 .. born[q]
  BY <1>3, <1>4
<1>6. d = born[q]
  BY <1>1, <1>4, <1>5, OneIss
<1>7. Fits(Book(p, d))
  BY <1>1, Books
<1> DEFINE L == Book(p, d)
<1>8. Limit(q, d) = wrote[q] /\ Ends(q, d) = IF Writes(q) THEN {} ELSE {wrote[q] + 1}
  BY <1>6 DEF Limit, Ends
<1>9. L.base = irs[p] /\ L.limit = Limit(q, d) /\ L.read = got[p] /\ L.ends = Ends(q, d)
  BY DEF Book
<1>10. Fits(L) /\ Stream(conn[p], L)
  BY <1>2, <1>7
<1> HIDE DEF L
<1> QED BY <1>8, <1>9, <1>10

\* End of file comes after the last byte: a program that is told that the peer has shut down has
\* received, or has waiting, everything the peer wrote on the connection (FinNoted, FinArrived).
THEOREM EofIsLast ==
    ASSUME NumbersApart
    PROVE  Spec => []EofAfterAllData
<1>1. Inv /\ StreamInv => EofAfterAllData
  <2> SUFFICES ASSUME Inv, StreamInv, NEW p \in Peers, NEW q, q = Other(p), Exists(p), conn[p].fin_received,
                      ~conn[p].discard_rx, irs[p] = Iss[q][born[q]]
               PROVE  Len(Received(p)) = wrote[q]
    BY DEF EofAfterAllData
  <2> DEFINE t == conn[p]
             a == got[p]
             b == t.rx
  <2>1. q \in Peers /\ Counts /\ Histories
    BY OtherIs DEF Inv, StreamInv
  <2>2. a \in Seq(Datum) /\ b \in Seq(Datum)
    <3>1. t \in TcbRec
      BY SlotBlock DEF Inv, Slots, Exists
    <3>2. a \in Seq(Datum)
      BY <2>1 DEF Histories
    <3> QED BY <3>1, <3>2, FieldTypes
  <2>3. irs[p] # NoSeq
    <3>1. \A d : Book(p, d).base = irs[p]
      BY DEF Book
    <3> QED BY <3>1 DEF StreamInv, BlockOK, Stream, Virgin
  <2>4. PICK L : /\ Fits(L) /\ Stream(t, L) /\ L.base = irs[p] /\ L.read = a
                 /\ L.ends = IF Writes(q) THEN {} ELSE {wrote[q] + 1}
    BY <2>1, <2>3, CurrentBook
  <2>5. Place(t, L) - 1 \in L.ends /\ Place(t, L) = Len(a) + Len(b) + 2
    BY <2>3, <2>4 DEF Stream, RxOK
  <2>6. Place(t, L) - 1 = wrote[q] + 1 /\ wrote[q] \in Nat
    BY <2>1, <2>4, <2>5 DEF Counts
  <2>7. Len(a) \in Nat /\ Len(b) \in Nat /\ Len(a \o b) = Len(a) + Len(b)
    <3> HIDE DEF a, b
    <3> QED BY <2>2, LenProperties, ConcatProperties
  <2>8. Received(p) = a \o b
    BY DEF Received
  <2> HIDE DEF a, b, t
  <2>9. Len(a) + Len(b) = wrote[q]
    <3>1. \A x, y, z \in Nat : (x + y + 2) - 1 = z + 1 => x + y = z
      OBVIOUS
    <3>2. (Len(a) + Len(b) + 2) - 1 = wrote[q] + 1
      BY <2>5, <2>6, Zenon
    <3> QED BY <2>6, <2>7, <3>1, <3>2
  <2> QED BY <2>7, <2>8, <2>9
<1> QED BY <1>1, Invariance, StreamInvariance, PTL

\* Nothing is acknowledged that the peer has not received, and nothing is received that was not
\* sent: between two blocks that answered each other, the peer's rcv_nxt lies in the sender's
\* buffer, also where the numbers wrap around (output, NewAck, on_synchronized).
THEOREM AcknowledgedIsReceived ==
    ASSUME NumbersApart
    PROVE  Spec => []AckedWasReceived
<1>1. Inv /\ StreamInv => AckedWasReceived
  <2> SUFFICES ASSUME Inv, StreamInv, NEW p \in Peers, NEW q, q = Other(p), Linked(p), synchronized(conn[p]),
                      NEW fin, fin = IF conn[p].fin_pending /\ ~conn[p].fin_acked THEN 1 ELSE 0
               PROVE  Minus(conn[q].rcv_nxt, conn[p].una) <= Len(conn[p].tx) + fin
    BY DEF AckedWasReceived
  <2> DEFINE t == conn[p]
             v == conn[q]
  <2>1. /\ q \in Peers /\ Other(q) = p /\ Counts /\ Histories /\ Exists(p) /\ Exists(q)
        /\ irs[p] = v.iss /\ irs[q] = t.iss
    BY OtherIs, Pair DEF Inv, StreamInv, Linked
  <2>2. t.iss = Iss[p][born[p]] /\ v.iss = Iss[q][born[q]]
    BY <2>1 DEF StreamInv, BlockOK
  <2>3. Done(t) /\ t \in TcbRec /\ v \in TcbRec
    BY <2>1, SlotBlock DEF Inv, Slots, Exists
  <2>4. Core(t)
    <3>1. t.state # "Closed"
      BY DEF synchronized
    <3> QED BY <2>3, <3>1 DEF Done, Ended
  <2>5. t.iss \in Seq32 /\ t.una \in Seq32 /\ v.rcv_nxt \in Seq32 /\ Len(t.tx) \in Nat /\ t.iss # NoSeq
    BY <2>3, FieldTypes, NoSeqApart
  <2>6. Minus(t.una, t.iss) <= Minus(v.rcv_nxt, t.iss)
    BY <2>1, <2>2 DEF StreamInv, AgreeOK, Agreed
  <2>7. PICK L : /\ Fits(L) /\ Stream(v, L) /\ L.base = t.iss /\ L.limit = wrote[p]
                 /\ L.ends = IF Writes(p) THEN {} ELSE {wrote[p] + 1}
    <3>1. irs[q] # NoSeq /\ irs[q] = Iss[p][born[p]]
      BY <2>1, <2>2, <2>5
    <3>2. PICK L : /\ Fits(L) /\ Stream(conn[q], L) /\ L.base = irs[q] /\ L.limit = wrote[p]
                   /\ L.ends = IF Writes(p) THEN {} ELSE {wrote[p] + 1}
      BY <2>1, <3>1, CurrentBook
    <3> QED BY <2>1, <3>2
  <2>8. PICK d \in Nat : Stream(t, Book(p, d))
    BY <2>1 DEF StreamInv, BlockOK
  <2>9. Fits(Book(p, d)) /\ Book(p, d).wrote = wrote[p] /\ TxOK(t, Book(p, d))
    <3>1. Fits(Book(p, d))
      BY <2>1, Books
    <3> QED BY <2>8, <3>1 DEF Book, Stream
  <2>10. /\ Minus(t.una, t.iss) = Front(t) /\ Front(t) \in Nat
         /\ ~t.fin_acked => Front(t) + Len(t.tx) = wrote[p] + 1
         /\ t.fin_acked => Front(t) = wrote[p] + 2
    BY <2>4, <2>9, FrontPlace DEF TxOK, Core
  <2>11. /\ Minus(v.rcv_nxt, t.iss) = Place(v, L) /\ Place(v, L) \in 1 .. wrote[p] + 2
         /\ ~v.fin_received => Place(v, L) <= wrote[p] + 1
         /\ v.fin_received => ~Writes(p)
    <3>1. RxOK(v, L)
      BY <2>5, <2>7 DEF Stream
    <3>2. Place(v, L) \in 1 .. L.limit + 2
      BY <2>3, <2>5, <2>7, <3>1, PlaceBound
    <3> QED BY <2>7, <3>1, <3>2 DEF RxOK, Place
  <2>12. ~Writes(p) => t.fin_pending
    <3>1. ~Writes(p) => FinState(t)
      BY <2>1, <2>3 DEF Writes, Writable, FinState, synchronized, TcbRec, States
    <3> QED BY <2>4, <3>1 DEF Core, LifeOK
  <2>13. Minus(v.rcv_nxt, t.una) = Minus(v.rcv_nxt, t.iss) - Minus(t.una, t.iss)
    BY <2>5, <2>6, WayOn
  <2> DEFINE x == Minus(v.rcv_nxt, t.una)
             place == Place(v, L)
             front == Front(t)
             n == Len(t.tx)
             w == wrote[p]
  <2>14. /\ x = place - front /\ front <= place /\ place \in 1 .. w + 2 /\ front \in Nat /\ n \in Nat /\ w \in Nat
         /\ ~t.fin_acked => front + n = w + 1
         /\ t.fin_acked => front = w + 2
         /\ place <= w + 1 \/ t.fin_pending
    BY <2>1, <2>5, <2>6, <2>10, <2>11, <2>12, <2>13 DEF Counts
  <2>15. fin \in Nat /\ (t.fin_pending /\ ~t.fin_acked => fin = 1)
    OBVIOUS
  <2> HIDE DEF x, place, front, n, w, t
  <2>16. x <= n + fin
    <3>1. CASE t.fin_acked
      BY <2>14, <2>15, <3>1
    <3>2. CASE ~t.fin_acked /\ place <= w + 1
      BY <2>14, <2>15, <3>2
    <3>3. CASE ~t.fin_acked /\ t.fin_pending
      BY <2>14, <2>15, <3>3
    <3> QED BY <2>14, <3>1, <3>2, <3>3
  <2> QED BY <2>16 DEF x, n, t
<1> QED BY <1>1, Invariance, StreamInvariance, PTL
============================================================================
