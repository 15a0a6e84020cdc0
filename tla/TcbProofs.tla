---------------------------- MODULE TcbProofs ----------------------------
(***************************************************************************)
(* What the methods of a control block (Tcb) preserve, for any size of the *)
(* sequence number space, any buffers, window, segment size and limits.    *)
(* TcpProofs uses these lemmas for the steps of TcpConnection.             *)
(***************************************************************************)
EXTENDS TcpConnection, WellFoundedInduction, SequenceTheorems, TLAPS

----------------------------------------------------------------------------
(* Sequence numbers.  Distances are taken from a base, the lower edge of a *)
(* window; below they stand for the numbers themselves, and modular        *)
(* arithmetic is not met again.                                            *)

Half == SeqSpace \div 2

\* Half of the space is more than a whole window and a FIN.
LEMMA SpaceFacts ==
    /\ SeqSpace \in Nat /\ Half \in Nat /\ SeqSpace = 2 * Half
    /\ RxCap \in Nat /\ RxCap >= 1 /\ RxCap + 1 <= Half
BY SeqSpaceAssumption, BufferAssumption DEF Half

\* The remainder of a number no further than one space from the space, in three cases.
LEMMA ModCases ==
    ASSUME NEW a \in Int
    PROVE  /\ a % SeqSpace \in Seq32
           /\ 0 <= a /\ a < SeqSpace => a % SeqSpace = a
           /\ SeqSpace <= a /\ a < 2 * SeqSpace => a % SeqSpace = a - SeqSpace
           /\ -SeqSpace <= a /\ a < 0 => a % SeqSpace = a + SeqSpace
<1>1. SeqSpace \in Nat \ {0}
  BY SpaceFacts
<1> QED BY <1>1 DEF Seq32

\* A number below twice the size of the space, reduced.
Wrapped(n) == IF n < SeqSpace THEN n ELSE n - SeqSpace

\* One subtraction reduces a number below twice the size of the space.
LEMMA ModOnce ==
    ASSUME NEW b \in Int, 0 <= b, b < 2 * SeqSpace
    PROVE  b % SeqSpace = Wrapped(b)
<1>1. SeqSpace \in Nat \ {0}
  BY SpaceFacts
<1> QED BY <1>1 DEF Wrapped

\* wrapping_add, without the remainder.
LEMMA PlusIs ==
    ASSUME NEW a \in Seq32, NEW n \in 0 .. SeqSpace
    PROVE  Plus(a, n) = IF a + n < SeqSpace THEN a + n ELSE a + n - SeqSpace
<1>1. a + n \in Int /\ 0 <= a + n /\ a + n < 2 * SeqSpace
  BY SpaceFacts DEF Seq32
<1>2. (a + n) % SeqSpace = Wrapped(a + n)
  BY <1>1, ModOnce, Zenon
<1>3. Plus(a, n) = Wrapped(a + n)
  BY <1>2, Zenon DEF Plus
<1> QED BY <1>1, <1>3, SpaceFacts DEF Wrapped, Seq32

\* wrapping_sub, without the remainder.
LEMMA MinusIs ==
    ASSUME NEW a \in Seq32, NEW b \in Seq32
    PROVE  Minus(a, b) = IF a >= b THEN a - b ELSE a - b + SeqSpace
<1>1. /\ a - b \in Int /\ -SeqSpace <= a - b /\ a - b < SeqSpace /\ SeqSpace \in Nat \ {0}
      /\ a \in Int /\ b \in Int
  BY SpaceFacts DEF Seq32
<1>2. a >= b => (a - b) % SeqSpace = a - b
  BY <1>1
<1>3. ~(a >= b) => (a - b) % SeqSpace = a - b + SeqSpace
  BY <1>1
<1> QED BY <1>2, <1>3 DEF Minus

\* wrapping_add yields a sequence number.
LEMMA PlusType == ASSUME NEW a \in Int, NEW n \in Int PROVE Plus(a, n) \in Seq32
<1>1. a + n \in Int /\ SeqSpace \in Nat \ {0}
  BY SpaceFacts
<1> QED BY <1>1, ModCases DEF Plus, Seq32

\* wrapping_sub yields a sequence number.
LEMMA MinusType == ASSUME NEW a \in Int, NEW b \in Int PROVE Minus(a, b) \in Seq32
<1>1. a - b \in Int /\ SeqSpace \in Nat \ {0}
  BY SpaceFacts
<1> QED BY <1>1, ModCases DEF Minus, Seq32

\* The distance of two numbers, from their distances to a third.
LEMMA MinusFrom ==
    ASSUME NEW a \in Seq32, NEW b \in Seq32, NEW c \in Seq32
    PROVE  /\ Minus(a, c) \in Seq32 /\ Minus(b, c) \in Seq32 /\ Minus(c, c) = 0
           /\ Minus(a, b) = IF Minus(a, c) >= Minus(b, c) THEN Minus(a, c) - Minus(b, c)
                            ELSE Minus(a, c) - Minus(b, c) + SeqSpace
           /\ Minus(a, c) = Minus(b, c) <=> a = b
BY MinusIs, SpaceFacts DEF Seq32

\* A step forward, seen from a base.
LEMMA PlusFrom ==
    ASSUME NEW a \in Seq32, NEW n \in 0 .. SeqSpace, NEW c \in Seq32
    PROVE  /\ Plus(a, n) \in Seq32
           /\ Minus(Plus(a, n), c) = IF Minus(a, c) + n < SeqSpace THEN Minus(a, c) + n
                                     ELSE Minus(a, c) + n - SeqSpace
<1>1. Plus(a, n) \in Seq32
  BY PlusIs, SpaceFacts DEF Seq32
<1>2. Minus(Plus(a, n), c) = IF Plus(a, n) >= c THEN Plus(a, n) - c ELSE Plus(a, n) - c + SeqSpace
  BY <1>1, MinusIs
<1>3. Minus(a, c) = IF a >= c THEN a - c ELSE a - c + SeqSpace
  BY MinusIs
<1> QED BY <1>1, <1>2, <1>3, PlusIs, SpaceFacts DEF Seq32

\* A step of one back.
LEMMA MinusOne ==
    ASSUME NEW a \in Seq32, NEW c \in Seq32, Minus(a, c) >= 1
    PROVE  Minus(a, 1) \in Seq32 /\ Minus(Minus(a, 1), c) = Minus(a, c) - 1
<1> DEFINE b == Minus(a, 1)
<1>1. 1 \in Seq32 /\ a \in Int
  BY SpaceFacts DEF Seq32
<1>2. b \in Seq32
  BY <1>1, MinusType
<1>3. b = IF a >= 1 THEN a - 1 ELSE a - 1 + SeqSpace
  BY <1>1, MinusIs
<1>4. Minus(a, c) = IF a >= c THEN a - c ELSE a - c + SeqSpace
  BY MinusIs
<1> HIDE DEF b
<1>5. Minus(b, c) = IF b >= c THEN b - c ELSE b - c + SeqSpace
  BY <1>2, MinusIs
<1>6. Minus(b, c) = Minus(a, c) - 1
  BY <1>2, <1>3, <1>4, <1>5, SpaceFacts DEF Seq32
<1> QED BY <1>2, <1>6 DEF b

\* The comparison of two numbers that lie within half the space of a base.
LEMMA SeqLtFrom ==
    ASSUME NEW a \in Seq32, NEW b \in Seq32, NEW c \in Seq32
    PROVE  SeqLt(a, b) <=> \/ Minus(a, c) >= Minus(b, c) + Half
                           \/ Minus(a, c) < Minus(b, c) /\ Minus(b, c) <= Minus(a, c) + Half
<1>1. SeqLt(a, b) <=> Minus(a, b) >= Half
  BY DEF SeqLt, Half
<1>2. /\ Minus(a, c) \in Seq32 /\ Minus(b, c) \in Seq32
      /\ Minus(a, b) = IF Minus(a, c) >= Minus(b, c) THEN Minus(a, c) - Minus(b, c)
                       ELSE Minus(a, c) - Minus(b, c) + SeqSpace
  BY MinusFrom
<1> QED BY <1>1, <1>2, SpaceFacts DEF Seq32

----------------------------------------------------------------------------
(* The block, its segments, and what holds of them between two calls. *)

Datum == Nat \X Nat
OptSeq == Seq32 \cup {NoSeq}
Window == 0 .. RxCap
Dups == 0 .. 4
HeldSeg == [seq : Seq32, data : Seq(Datum)]
Segment == [seq : Seq32, ack : Seq32, flags : SUBSET {"SYN", "ACK", "FIN", "RST"},
            wnd : Window, data : Seq(Datum)]

TcbRec ==
    [state : States, iss : Seq32, una : Seq32, nxt : Seq32, max : Seq32,
     wnd : Window, wl1 : Seq32, wl2 : Seq32, tx : Seq(Datum),
     fin_pending : BOOLEAN, fin_seq : OptSeq, fin_acked : BOOLEAN,
     rcv_nxt : Seq32, rx : Seq(Datum), ooo : Seq(HeldSeg), rx_fin_seq : OptSeq,
     fin_received : BOOLEAN, last_adv_wnd : Window, discard_rx : BOOLEAN,
     rto : BOOLEAN, retries : Nat, dupacks : Dups, close_dl : BOOLEAN,
     error : Errors, user_open : BOOLEAN]

Sized(t) ==
    /\ Len(t.tx) <= TxCap /\ Len(t.rx) <= RxCap /\ Len(t.ooo) <= MaxOoo
    /\ t.retries <= MaxRetries + 1

SynState(t) == t.state \in {"SynSent", "SynReceived"}
FinState(t) == t.state \in {"FinWait1", "FinWait2", "Closing", "LastAck", "TimeWait"}
GotFin(t) == t.state \in {"CloseWait", "Closing", "LastAck", "TimeWait"}

\* How far snd_nxt and snd_max are beyond snd_una.
Flight(t) == Minus(t.nxt, t.una)
Top(t) == Minus(t.max, t.una)

\* The send side of a synchronized block: what was ever sent is in the buffer or is the FIN
\* behind it, and a window at most.
SndSync(t) ==
    /\ Flight(t) <= Top(t)
    /\ t.fin_seq = NoSeq => Top(t) <= Len(t.tx) /\ Top(t) <= RxCap /\ ~t.fin_acked
    /\ t.fin_seq # NoSeq => t.fin_pending
    /\ t.fin_seq # NoSeq /\ ~t.fin_acked =>
          Top(t) = Len(t.tx) + 1 /\ Minus(t.fin_seq, t.una) = Len(t.tx) /\ Top(t) <= RxCap + 1
    /\ t.fin_acked => Top(t) = 0 /\ t.tx = <<>>

\* The send side while the SYN is unacknowledged.
SndSyn(t) ==
    /\ t.una = t.iss /\ t.nxt = Plus(t.iss, 1) /\ t.max = Plus(t.iss, 1)
    /\ ~t.fin_pending /\ t.fin_seq = NoSeq /\ ~t.fin_acked

\* The flags of a block that is not closed go with its state.
LifeOK(t) ==
    /\ t.fin_pending <=> FinState(t)
    /\ t.fin_received <=> GotFin(t)
    /\ t.state \in {"FinWait2", "TimeWait"} => t.fin_acked
    /\ t.discard_rx => ~t.user_open /\ FinState(t)
    /\ t.retries <= MaxRetries

\* Held segments lie beyond a gap and inside the window.
RcvOK(t) ==
    /\ ~Receiving(t) => t.ooo = <<>>
    /\ \A i \in DOMAIN t.ooo :
          /\ Minus(t.ooo[i].seq, t.rcv_nxt) >= 1
          /\ Minus(t.ooo[i].seq, t.rcv_nxt) + Len(t.ooo[i].data) <= rcv_wnd(t)

\* Deadlines that do not depend on what is left to send.
DeadlineOK(t) ==
    /\ SynState(t) => t.rto /\ t.rx = <<>>
    /\ t.state = "FinWait2" /\ ~t.user_open => t.close_dl
    /\ t.state = "TimeWait" => t.close_dl

\* A block with something to send has its timer armed.
Timed(t) == can_send_data(t) /\ (t.una # t.max \/ t.tx # <<>> \/ t.fin_pending) => t.rto

\* A FIN that was acknowledged has been acted upon.
Settled(t) == t.fin_acked => t.state \in {"FinWait2", "TimeWait"}

\* What holds of a block in the middle of a call, and what holds at its end.
Core(t) ==
    /\ t \in TcbRec /\ Sized(t) /\ t.state # "Closed"
    /\ SynState(t) => SndSyn(t)
    /\ synchronized(t) => SndSync(t)
    /\ LifeOK(t) /\ RcvOK(t) /\ DeadlineOK(t)
Ended(t) ==
    /\ t \in TcbRec /\ Sized(t) /\ t.state = "Closed"
    /\ ~t.rto /\ ~t.close_dl /\ t.ooo = <<>>
Done(t) == Ended(t) \/ (Core(t) /\ Settled(t) /\ Timed(t))

----------------------------------------------------------------------------
(* Sequences, and the fields of a block. *)

\* Type and length of a part of a sequence, the empty part included.
LEMMA SubSeqType ==
    ASSUME NEW S, NEW s \in Seq(S), NEW m \in Int, NEW n \in Int, m >= 1, n <= Len(s)
    PROVE  /\ SubSeq(s, m, n) \in Seq(S)
           /\ Len(SubSeq(s, m, n)) = IF m <= n THEN n - m + 1 ELSE 0
<1>1. \A i \in m .. n : i \in 1 .. Len(s) /\ s[i] \in S
  BY ElementOfSeq, LenProperties
<1> QED BY <1>1, SubSeqProperties

\* The types of the fields that the arithmetic below is about.
LEMMA FieldTypes ==
    ASSUME NEW t \in TcbRec
    PROVE  /\ t.una \in Seq32 /\ t.nxt \in Seq32 /\ t.max \in Seq32 /\ t.iss \in Seq32
           /\ t.wnd \in Nat /\ t.wnd <= RxCap /\ t.fin_seq \in Seq32 \cup {NoSeq}
           /\ t.rcv_nxt \in Seq32 /\ Len(t.tx) \in Nat /\ Len(t.rx) \in Nat /\ Len(t.ooo) \in Nat
           /\ t.tx \in Seq(Datum) /\ t.rx \in Seq(Datum) /\ t.ooo \in Seq(HeldSeg)
           /\ t.tx = <<>> <=> Len(t.tx) = 0
           /\ rcv_wnd(t) \in Window
<1>1. t.tx \in Seq(Datum) /\ t.rx \in Seq(Datum) /\ t.ooo \in Seq(HeldSeg)
  BY DEF TcbRec
<1>2. Len(t.tx) \in Nat /\ Len(t.rx) \in Nat /\ Len(t.ooo) \in Nat
  BY <1>1, LenProperties
<1>3. t.tx = <<>> <=> Len(t.tx) = 0
  BY <1>1, EmptySeq
<1>4. rcv_wnd(t) \in Window
  BY <1>2, SpaceFacts DEF rcv_wnd, Least, Window
<1>5. /\ t.una \in Seq32 /\ t.nxt \in Seq32 /\ t.max \in Seq32 /\ t.iss \in Seq32
      /\ t.wnd \in Nat /\ t.wnd <= RxCap /\ t.fin_seq \in Seq32 \cup {NoSeq} /\ t.rcv_nxt \in Seq32
  BY SpaceFacts DEF TcbRec, Window, OptSeq
<1> QED BY <1>1, <1>2, <1>3, <1>4, <1>5

\* seg() and Sending.
LEMMA SegType ==
    ASSUME NEW t \in TcbRec, NEW seq \in Seq32, NEW flags \in SUBSET {"SYN", "ACK", "FIN", "RST"},
           NEW data \in Seq(Datum)
    PROVE  seg(t, seq, flags, data) \in Segment
BY FieldTypes DEF seg, Segment, Window

\* u differs from t only in what output writes.
Steady(t, u) ==
    /\ u.state = t.state /\ u.iss = t.iss /\ u.una = t.una /\ u.wnd = t.wnd /\ u.wl1 = t.wl1 /\ u.wl2 = t.wl2
    /\ u.tx = t.tx /\ u.fin_pending = t.fin_pending /\ u.fin_acked = t.fin_acked
    /\ u.rcv_nxt = t.rcv_nxt /\ u.rx = t.rx /\ u.ooo = t.ooo /\ u.rx_fin_seq = t.rx_fin_seq
    /\ u.fin_received = t.fin_received /\ u.discard_rx = t.discard_rx
    /\ u.retries = t.retries /\ u.dupacks = t.dupacks /\ u.close_dl = t.close_dl
    /\ u.error = t.error /\ u.user_open = t.user_open

\* Segments put out change nothing of a block but the window it last advertised.
LEMMA SendingKeeps ==
    ASSUME NEW t \in TcbRec, NEW segs
    PROVE  LET u == Sending(t, segs).tcb
           IN  /\ u \in TcbRec /\ Steady(t, u)
               /\ u.nxt = t.nxt /\ u.max = t.max /\ u.fin_seq = t.fin_seq /\ u.rto = t.rto
               /\ Sending(t, segs).out = segs
<1>1. rcv_wnd(t) \in Window
  BY FieldTypes
<1> QED BY <1>1 DEF Sending, Step, TcbRec, Steady

\* After sending up to nxt1 only snd_nxt, snd_max and the number of the FIN have moved.
LEMMA AdvancedKeeps ==
    ASSUME NEW t \in TcbRec, NEW nxt1 \in Seq32, NEW fin \in BOOLEAN
    PROVE  LET u == Advanced(t, nxt1, fin)
           IN  /\ u \in TcbRec /\ Steady(t, u) /\ u.rto = t.rto /\ u.nxt = nxt1
               /\ u.max = IF SeqGt(nxt1, t.max) THEN nxt1 ELSE t.max
               /\ u.fin_seq = IF fin THEN Minus(nxt1, 1) ELSE t.fin_seq
<1>1. Minus(nxt1, 1) \in OptSeq
  BY MinusType DEF OptSeq, Seq32
<1> QED BY <1>1 DEF Advanced, TcbRec, Steady

----------------------------------------------------------------------------
(* output. *)

\* What the window leaves room for: nothing is sent beyond it but a probe of one byte.
LEMMA UsableBound ==
    ASSUME NEW t \in TcbRec, Flight(t) <= Len(t.tx), Flight(t) <= RxCap,
           NEW probe \in BOOLEAN, probe => t.nxt = t.una
    PROVE  LET n == Least(Unsent(t), Usable(t, probe))
           IN  /\ n \in Nat /\ n <= Len(t.tx) - Flight(t) /\ Flight(t) + n <= RxCap
               /\ Unsent(t) = Len(t.tx) - Flight(t) /\ Unsent(t) \in Nat /\ Flight(t) \in Nat
               /\ n = 0 /\ Flight(t) = 0 => t.tx = <<>> \/ t.wnd = 0
<1> DEFINE end == Plus(t.una, t.wnd)
           open == IF SeqLt(t.nxt, end) THEN Minus(end, t.nxt) ELSE 0
<1>1. /\ t.una \in Seq32 /\ t.nxt \in Seq32 /\ t.wnd \in Nat /\ t.wnd <= RxCap
      /\ Len(t.tx) \in Nat /\ (t.tx = <<>> <=> Len(t.tx) = 0)
  BY FieldTypes
<1>2. t.wnd \in 0 .. SeqSpace
  BY <1>1, SpaceFacts
<1>3. end \in Seq32 /\ Minus(t.una, t.una) = 0 /\ Minus(end, t.una) = t.wnd
  <2>1. /\ end \in Seq32
        /\ Minus(end, t.una) = IF Minus(t.una, t.una) + t.wnd < SeqSpace THEN Minus(t.una, t.una) + t.wnd
                               ELSE Minus(t.una, t.una) + t.wnd - SeqSpace
    BY <1>1, <1>2, PlusFrom
  <2>2. Minus(t.una, t.una) = 0
    BY <1>1, MinusFrom
  <2> QED BY <2>1, <2>2, <1>1, SpaceFacts
<1>4. Flight(t) \in Seq32 /\ (t.nxt = t.una <=> Flight(t) = 0)
  BY <1>1, <1>3, MinusFrom DEF Flight
<1>5. SeqLt(t.nxt, end) <=> Flight(t) < t.wnd
  <2>1. SeqLt(t.nxt, end) <=> \/ Minus(t.nxt, t.una) >= Minus(end, t.una) + Half
                              \/ Minus(t.nxt, t.una) < Minus(end, t.una) /\ Minus(end, t.una) <= Minus(t.nxt, t.una) + Half
    BY <1>1, <1>3, SeqLtFrom
  <2> QED BY <2>1, <1>1, <1>3, <1>4, SpaceFacts DEF Flight, Seq32
<1>6. Flight(t) < t.wnd => Minus(end, t.nxt) = t.wnd - Flight(t)
  <2>1. Minus(end, t.nxt) = IF Minus(end, t.una) >= Minus(t.nxt, t.una) THEN Minus(end, t.una) - Minus(t.nxt, t.una)
                            ELSE Minus(end, t.una) - Minus(t.nxt, t.una) + SeqSpace
    BY <1>1, <1>3, MinusFrom
  <2> QED BY <2>1, <1>1, <1>3, <1>4 DEF Flight, Seq32
<1>7. open = IF Flight(t) < t.wnd THEN t.wnd - Flight(t) ELSE 0
  BY <1>5, <1>6
<1>8. Unsent(t) = Len(t.tx) - Flight(t)
  BY DEF Unsent, Flight
<1>9. Usable(t, probe) = IF probe /\ open = 0 /\ Unsent(t) > 0 THEN 1 ELSE open
  BY DEF Usable
<1> HIDE DEF open
<1>10. Flight(t) \in Nat /\ Unsent(t) \in Nat /\ open \in Nat
  BY <1>1, <1>4, <1>7, <1>8, SpaceFacts DEF Seq32
<1>11. /\ Usable(t, probe) \in Nat
       /\ Usable(t, probe) + Flight(t) <= RxCap
       /\ Usable(t, probe) = 0 /\ Flight(t) = 0 => t.wnd = 0
  BY <1>1, <1>4, <1>7, <1>9, <1>10, SpaceFacts
<1> DEFINE n == Least(Unsent(t), Usable(t, probe))
<1>12. /\ n \in Nat /\ n <= Unsent(t) /\ n <= Usable(t, probe)
       /\ n = 0 => Unsent(t) = 0 \/ Usable(t, probe) = 0
  BY <1>10, <1>11 DEF Least
<1> HIDE DEF n
<1>13. /\ n <= Len(t.tx) - Flight(t) /\ Flight(t) + n <= RxCap
       /\ n = 0 /\ Flight(t) = 0 => t.tx = <<>> \/ t.wnd = 0
  BY <1>1, <1>8, <1>10, <1>11, <1>12, SpaceFacts
<1> QED BY <1>8, <1>10, <1>12, <1>13 DEF n

\* The pieces that unsent data is cut into are segments.
LEMMA PiecesType ==
    ASSUME NEW t \in TcbRec, NEW n \in Nat, NEW fin \in BOOLEAN, Flight(t) \in Nat, Flight(t) + n <= Len(t.tx)
    PROVE  Pieces(t, n, fin) \in Seq(Segment)
<1> DEFINE k == IF n = 0 THEN (IF fin THEN 1 ELSE 0) ELSE (n + Mss - 1) \div Mss
           off == Minus(t.nxt, t.una)
           piece(i) == SubSeq(t.tx, off + (i - 1) * Mss + 1, off + Least(i * Mss, n))
           flags(i) == {"ACK"} \cup (IF fin /\ i = k THEN {"FIN"} ELSE {})
           sent(i) == seg(t, Plus(t.nxt, (i - 1) * Mss), flags(i), piece(i))
<1>1. Mss \in Nat /\ Mss >= 1
  BY BufferAssumption
<1>2. k \in Nat
  BY <1>1
<1>3. ASSUME NEW i \in 1 .. k
      PROVE  sent(i) \in Segment
  <2>1. (i - 1) * Mss \in Nat /\ i * Mss \in Nat
    <3>1. i \in Nat /\ i - 1 \in Nat
      BY <1>2
    <3> HIDE DEF k
    <3> QED BY <1>1, <3>1
  <2>2. off \in Nat /\ off + n <= Len(t.tx) /\ t.tx \in Seq(Datum) /\ Len(t.tx) \in Nat
    BY FieldTypes DEF Flight
  <2> DEFINE first == off + (i - 1) * Mss + 1
             last == off + Least(i * Mss, n)
  <2>3. first \in Int /\ last \in Int /\ first >= 1 /\ last <= Len(t.tx)
    BY <2>1, <2>2 DEF Least
  <2>4. piece(i) \in Seq(Datum)
    <3>1. piece(i) = SubSeq(t.tx, first, last)
      OBVIOUS
    <3> HIDE DEF first, last
    <3> QED BY <2>2, <2>3, <3>1, SubSeqType
  <2>5. Plus(t.nxt, (i - 1) * Mss) \in Seq32
    <3>1. t.nxt \in Int /\ (i - 1) * Mss \in Int
      BY <2>1, FieldTypes, SpaceFacts DEF Seq32
    <3> QED BY <3>1, PlusType, Zenon
  <2>6. flags(i) \in SUBSET {"SYN", "ACK", "FIN", "RST"}
    OBVIOUS
  <2> HIDE DEF piece, flags, first, last, off
  <2> QED BY <2>4, <2>5, <2>6, SegType
<1>4. Pieces(t, n, fin) = [i \in 1 .. k |-> sent(i)]
  BY DEF Pieces
<1> HIDE DEF k, sent
<1>5. [i \in 1 .. k |-> sent(i)] \in [1 .. k -> Segment]
  BY <1>3
<1> QED BY <1>2, <1>4, <1>5, SeqDef

\* A step of n bytes and perhaps the FIN behind them.
LEMMA SendPiecesKeeps ==
    ASSUME NEW t \in TcbRec, SndSync(t), ~t.fin_acked, NEW n \in Nat, NEW fin \in BOOLEAN,
           Flight(t) \in Nat, Flight(t) + n <= Len(t.tx), Flight(t) + n <= RxCap,
           fin => t.fin_pending /\ Flight(t) + n = Len(t.tx)
    PROVE  LET r == SendPieces(t, n, fin)
           IN  /\ r.tcb \in TcbRec /\ Steady(t, r.tcb) /\ r.tcb.rto = t.rto /\ SndSync(r.tcb)
               /\ r.out \in Seq(Segment)
               /\ Top(r.tcb) = 0 => n = 0 /\ ~fin /\ Top(t) = 0
<1> DEFINE sent == n + (IF fin THEN 1 ELSE 0)
           nxt1 == Plus(t.nxt, sent)
           a == Advanced(t, nxt1, fin)
           r == SendPieces(t, n, fin)
           u == r.tcb
<1>1. /\ t.una \in Seq32 /\ t.nxt \in Seq32 /\ t.max \in Seq32 /\ t.fin_seq \in Seq32 \cup {NoSeq}
      /\ Len(t.tx) \in Nat /\ (t.tx = <<>> <=> Len(t.tx) = 0)
  BY FieldTypes
<1>2. CASE n = 0 /\ ~fin
  <2>1. r = [tcb |-> t, out |-> <<>>]
    BY <1>2 DEF SendPieces, Quiet, Step
  <2>2. u = t /\ r.out \in Seq(Segment)
    BY <2>1
  <2>3. Steady(t, t)
    BY DEF Steady
  <2> QED BY <2>2, <2>3, <1>2
<1>3. CASE ~(n = 0 /\ ~fin)
  <2>1. sent \in 1 .. RxCap + 1 /\ sent \in 0 .. SeqSpace /\ Flight(t) + sent <= RxCap + 1
    BY <1>3, SpaceFacts
  <2>2. nxt1 \in Seq32 /\ Minus(nxt1, t.una) = Flight(t) + sent
    <3>1. /\ nxt1 \in Seq32
          /\ Minus(nxt1, t.una) = IF Minus(t.nxt, t.una) + sent < SeqSpace THEN Minus(t.nxt, t.una) + sent
                                  ELSE Minus(t.nxt, t.una) + sent - SeqSpace
      BY <1>1, <2>1, PlusFrom
    <3> HIDE DEF sent, nxt1
    <3> QED BY <2>1, <3>1, SpaceFacts DEF Flight
  <2> HIDE DEF nxt1
  <2>3. Top(t) \in Nat /\ Top(t) <= RxCap + 1
    <3>1. Top(t) \in Seq32
      BY <1>1, MinusFrom DEF Top
    <3> QED BY <3>1, <1>1, SpaceFacts DEF SndSync, Seq32
  <2>4. SeqGt(nxt1, t.max) <=> Top(t) < Flight(t) + sent
    <3>1. SeqLt(t.max, nxt1) <=> \/ Minus(t.max, t.una) >= Minus(nxt1, t.una) + Half
                                 \/ /\ Minus(t.max, t.una) < Minus(nxt1, t.una)
                                    /\ Minus(nxt1, t.una) <= Minus(t.max, t.una) + Half
      BY <1>1, <2>2, SeqLtFrom
    <3> HIDE DEF sent
    <3> QED BY <3>1, <2>1, <2>2, <2>3, SpaceFacts DEF Top, SeqGt
  <2>5. /\ a \in TcbRec /\ Steady(t, a) /\ a.rto = t.rto /\ a.nxt = nxt1
        /\ a.max = IF SeqGt(nxt1, t.max) THEN nxt1 ELSE t.max
        /\ a.fin_seq = IF fin THEN Minus(nxt1, 1) ELSE t.fin_seq
    BY <2>2, AdvancedKeeps
  <2>6. r = Sending(a, Pieces(t, n, fin))
    BY <1>3 DEF SendPieces, nxt1
  <2> HIDE DEF a
  <2>7. /\ u \in TcbRec /\ Steady(a, u) /\ u.nxt = a.nxt /\ u.max = a.max /\ u.fin_seq = a.fin_seq
        /\ u.rto = a.rto /\ r.out = Pieces(t, n, fin)
    BY <2>5, <2>6, SendingKeeps
  <2> HIDE DEF u, r
  <2>8. Steady(t, u)
    BY <2>5, <2>7 DEF Steady
  <2>9. r.out \in Seq(Segment)
    BY <2>7, PiecesType
  <2>10. u.una = t.una /\ u.tx = t.tx /\ u.fin_pending = t.fin_pending /\ u.fin_acked = t.fin_acked
    BY <2>8 DEF Steady
  <2>11. /\ Flight(u) = Flight(t) + sent
         /\ Top(u) = IF Top(t) < Flight(t) + sent THEN Flight(t) + sent ELSE Top(t)
    BY <2>2, <2>4, <2>5, <2>7, <2>10 DEF Flight, Top
  <2>12. fin => u.fin_seq # NoSeq /\ Minus(u.fin_seq, u.una) = Len(t.tx)
    <3> SUFFICES ASSUME fin PROVE u.fin_seq # NoSeq /\ Minus(u.fin_seq, u.una) = Len(t.tx)
      OBVIOUS
    <3>1. u.fin_seq = Minus(nxt1, 1)
      BY <2>5, <2>7
    <3>2. Flight(t) + sent = Len(t.tx) + 1
      OBVIOUS
    <3> HIDE DEF sent
    <3>3. Minus(nxt1, 1) \in Seq32 /\ Minus(Minus(nxt1, 1), t.una) = Minus(nxt1, t.una) - 1
      BY <1>1, <2>1, <2>2, <3>2, MinusOne
    <3>7. Minus(Minus(nxt1, 1), t.una) = Len(t.tx)
      BY <1>1, <2>2, <3>2, <3>3
    <3>8. Minus(nxt1, 1) # NoSeq
      BY <3>3, SpaceFacts DEF Seq32, NoSeq
    <3> QED BY <3>1, <3>7, <3>8, <2>10
  <2>13. ~fin => u.fin_seq = t.fin_seq
    BY <2>5, <2>7
  <2>14. SndSync(u)
    <3>1. CASE fin
      <4>1. Flight(t) + sent = Len(t.tx) + 1
        BY <3>1
      <4>2. Top(t) <= Len(t.tx) + 1
        BY <1>1, <2>3 DEF SndSync
      <4>3. Top(u) = Len(t.tx) + 1 /\ Flight(u) <= Top(u)
        BY <1>1, <2>3, <2>11, <4>1, <4>2
      <4>4. Len(t.tx) + 1 <= RxCap + 1
        BY <3>1, <1>1, SpaceFacts
      <4> QED BY <3>1, <4>3, <4>4, <2>10, <2>12 DEF SndSync
    <3>2. CASE ~fin
      <4>1. Flight(t) + sent <= Len(t.tx) /\ Flight(t) + sent <= RxCap
        BY <3>2
      <4>2. Flight(u) <= Top(u) /\ Top(u) \in {Top(t), Flight(t) + sent}
        BY <2>1, <2>3, <2>11
      <4>3. t.fin_seq # NoSeq => Top(u) = Top(t)
        BY <1>1, <2>3, <2>11, <4>1 DEF SndSync
      <4> HIDE DEF sent
      <4> QED BY <3>2, <4>1, <4>2, <4>3, <2>10, <2>13 DEF SndSync
    <3> QED BY <3>1, <3>2
  <2>15. Top(u) # 0
    BY <2>1, <2>3, <2>11
  <2> QED BY <2>5, <2>7, <2>8, <2>9, <2>14, <2>15 DEF u, r
<1> QED BY <1>2, <1>3

\* A block that has sent what it may and has nothing outstanding has no data or no window,
\* and no FIN to send.
LEMMA SendWindowKeeps ==
    ASSUME NEW t \in TcbRec, SndSync(t), ~t.fin_acked, NEW probe \in BOOLEAN, probe => t.nxt = t.una
    PROVE  LET r == SendWindow(t, probe)
           IN  /\ r.tcb \in TcbRec /\ Steady(t, r.tcb) /\ r.tcb.rto = t.rto /\ SndSync(r.tcb)
               /\ r.out \in Seq(Segment)
               /\ Top(r.tcb) = 0 => (t.tx = <<>> \/ t.wnd = 0) /\ (t.tx = <<>> => ~t.fin_pending)
<1> DEFINE n == Least(Unsent(t), Usable(t, probe))
           fin == FinNow(t, n)
           r == SendWindow(t, probe)
<1>1. /\ t.una \in Seq32 /\ t.nxt \in Seq32 /\ t.max \in Seq32
      /\ Len(t.tx) \in Nat /\ (t.tx = <<>> <=> Len(t.tx) = 0)
  BY FieldTypes
<1>2. Flight(t) \in Seq32 /\ Top(t) \in Seq32
  BY <1>1, MinusFrom DEF Flight, Top
<1>3. Flight(t) \in Nat /\ Top(t) \in Nat
  BY <1>2, SpaceFacts DEF Seq32
<1>4. CASE Flight(t) > Len(t.tx)
  <2>1. r = [tcb |-> t, out |-> <<>>]
    BY <1>4 DEF SendWindow, Flight, Quiet, Step
  <2>2. Steady(t, t)
    BY DEF Steady
  <2>3. Top(t) # 0
    BY <1>1, <1>3, <1>4 DEF SndSync
  <2> QED BY <2>1, <2>2, <2>3
<1>5. CASE ~(Flight(t) > Len(t.tx))
  <2>1. Flight(t) <= Len(t.tx) /\ Flight(t) <= RxCap
    BY <1>1, <1>3, <1>5, SpaceFacts DEF SndSync
  <2>2. /\ n \in Nat /\ n <= Len(t.tx) - Flight(t) /\ Flight(t) + n <= RxCap
        /\ Unsent(t) = Len(t.tx) - Flight(t) /\ Unsent(t) \in Nat
        /\ n = 0 /\ Flight(t) = 0 => t.tx = <<>> \/ t.wnd = 0
    BY <2>1, UsableBound
  <2>3. fin \in BOOLEAN /\ (fin => t.fin_pending /\ n = Unsent(t))
    BY DEF FinNow, TcbRec
  <2>4. r = SendPieces(t, n, fin)
    BY <1>5 DEF SendWindow, Flight, SendBytes
  <2>5. n = Unsent(t) /\ t.fin_pending /\ t.fin_seq = NoSeq => fin
    BY DEF FinNow
  <2> HIDE DEF n, fin, r
  <2>6. Flight(t) + n <= Len(t.tx) /\ (fin => t.fin_pending /\ Flight(t) + n = Len(t.tx))
    BY <1>1, <1>3, <2>2, <2>3
  <2>7. /\ r.tcb \in TcbRec /\ Steady(t, r.tcb) /\ r.tcb.rto = t.rto /\ SndSync(r.tcb)
        /\ r.out \in Seq(Segment)
        /\ Top(r.tcb) = 0 => n = 0 /\ ~fin /\ Top(t) = 0
    BY <1>3, <2>2, <2>3, <2>4, <2>6, SendPiecesKeeps
  <2>8. ASSUME Top(r.tcb) = 0
        PROVE  (t.tx = <<>> \/ t.wnd = 0) /\ (t.tx = <<>> => ~t.fin_pending)
    <3>1. n = 0 /\ ~fin /\ Top(t) = 0 /\ Flight(t) = 0
      BY <1>3, <2>7, <2>8 DEF SndSync
    <3>2. t.fin_seq = NoSeq
      BY <1>1, <3>1 DEF SndSync
    <3>3. t.tx = <<>> => Unsent(t) = 0
      BY <1>1, <2>2, <3>1
    <3> QED BY <2>2, <2>5, <3>1, <3>2, <3>3
  <2> QED BY <2>7, <2>8 DEF r
<1> QED BY <1>4, <1>5

\* The end of output: when the timer is armed, and that nothing else changes.
LEMMA ArmRtoKeeps ==
    ASSUME NEW t \in TcbRec
    PROVE  LET u == ArmRto(t)
           IN  /\ u \in TcbRec /\ Steady(t, u)
               /\ u.nxt = t.nxt /\ u.max = t.max /\ u.fin_seq = t.fin_seq
               /\ u.rto <=> (t.rto \/ t.una # t.max \/ (t.wnd = 0 /\ Len(t.tx) > data_in_flight(t)))
<1>1. \A b \in BOOLEAN : [t EXCEPT !.rto = b] \in TcbRec
  BY DEF TcbRec
<1> DEFINE armed == t.rto \/ t.una # t.max \/ (t.wnd = 0 /\ Len(t.tx) > data_in_flight(t))
<1>2. armed \in BOOLEAN /\ ArmRto(t) = [t EXCEPT !.rto = armed]
  BY DEF ArmRto
<1>3. ArmRto(t) \in TcbRec
  BY <1>1, <1>2
<1>4. ArmRto(t).rto = armed
  BY <1>2 DEF TcbRec
<1>5. Steady(t, ArmRto(t)) /\ ArmRto(t).nxt = t.nxt /\ ArmRto(t).max = t.max /\ ArmRto(t).fin_seq = t.fin_seq
  BY <1>2 DEF Steady, TcbRec
<1> QED BY <1>3, <1>4, <1>5

\* Core survives what output writes, if the send side is in order afterwards.
LEMMA CoreSteady ==
    ASSUME NEW t, Core(t), NEW u \in TcbRec, Steady(t, u),
           synchronized(t) => SndSync(u),
           SynState(t) => u.nxt = t.nxt /\ u.max = t.max /\ u.fin_seq = t.fin_seq /\ u.rto = t.rto
    PROVE  Core(u) /\ (Settled(t) => Settled(u))
<1>1. rcv_wnd(u) = rcv_wnd(t)
  BY DEF rcv_wnd, Steady
<1>2. RcvOK(u)
  BY <1>1 DEF Core, RcvOK, Receiving, Steady
<1>3. Sized(u) /\ LifeOK(u) /\ u.state # "Closed" /\ (Settled(t) => Settled(u))
  BY DEF Core, Sized, LifeOK, FinState, GotFin, Settled, Steady
<1>4. SynState(u) => SndSyn(u)
  BY DEF Core, SynState, SndSyn, Steady
<1>5. DeadlineOK(u)
  BY DEF Core, DeadlineOK, SynState, Steady
<1>6. synchronized(u) => SndSync(u)
  BY DEF synchronized, Steady
<1> QED BY <1>2, <1>3, <1>4, <1>5, <1>6 DEF Core

\* Steady is transitive.
LEMMA SteadyTrans ==
    ASSUME NEW t, NEW u, NEW v, Steady(t, u), Steady(u, v)
    PROVE  Steady(t, v)
BY DEF Steady

\* SndSync depends on the send variables alone.
LEMMA SndSyncSame ==
    ASSUME NEW t, SndSync(t), NEW u, Steady(t, u), u.nxt = t.nxt, u.max = t.max, u.fin_seq = t.fin_seq
    PROVE  SndSync(u) /\ Flight(u) = Flight(t) /\ Top(u) = Top(t)
BY DEF SndSync, Flight, Top, Steady

\* A block is closed, in its handshake or synchronized; one that may send data is synchronized.
LEMMA NotBoth ==
    ASSUME NEW t \in TcbRec
    PROVE  /\ synchronized(t) => ~SynState(t)
           /\ t.state # "Closed" /\ ~SynState(t) => synchronized(t)
           /\ can_send_data(t) => synchronized(t) /\ t.state \notin {"FinWait2", "TimeWait"}
BY DEF synchronized, SynState, can_send_data, TcbRec, States

\* A bare acknowledgement.
LEMMA SendAckKeeps ==
    ASSUME NEW t \in TcbRec
    PROVE  LET r == send_ack(t)
           IN  /\ r.tcb \in TcbRec /\ Steady(t, r.tcb) /\ r.out \in Seq(Segment)
               /\ r.tcb.nxt = t.nxt /\ r.tcb.max = t.max /\ r.tcb.fin_seq = t.fin_seq /\ r.tcb.rto = t.rto
<1> DEFINE s == seg(t, t.nxt, {"ACK"}, <<>>)
<1>1. s \in Segment
  <2>1. t.nxt \in Seq32 /\ <<>> \in Seq(Datum) /\ {"ACK"} \in SUBSET {"SYN", "ACK", "FIN", "RST"}
    BY FieldTypes
  <2> QED BY <2>1, SegType
<1>2. send_ack(t) = Sending(t, << s >>)
  BY DEF send_ack
<1> HIDE DEF s
<1>3. << s >> \in Seq(Segment)
  BY <1>1
<1> DEFINE segs == << s >>
<1>4. /\ Sending(t, segs).tcb \in TcbRec /\ Steady(t, Sending(t, segs).tcb)
      /\ Sending(t, segs).tcb.nxt = t.nxt /\ Sending(t, segs).tcb.max = t.max
      /\ Sending(t, segs).tcb.fin_seq = t.fin_seq /\ Sending(t, segs).tcb.rto = t.rto
      /\ Sending(t, segs).out = segs
  <2> HIDE DEF segs
  <2> QED BY SendingKeeps
<1> QED BY <1>2, <1>3, <1>4

\* A block in order stays so when only what it advertised changes.
LEMMA DoneSteady ==
    ASSUME NEW t, Core(t), Settled(t), Timed(t), NEW u \in TcbRec, Steady(t, u),
           u.nxt = t.nxt, u.max = t.max, u.fin_seq = t.fin_seq, u.rto = t.rto
    PROVE  Core(u) /\ Settled(u) /\ Timed(u)
<1>1. synchronized(t) => SndSync(u)
  BY SndSyncSame DEF Core
<1>2. Timed(u)
  BY DEF Timed, can_send_data, Steady
<1> QED BY <1>1, <1>2, CoreSteady

\* output: the block is in order afterwards and its timer armed if anything is left to send.
LEMMA OutputKeeps ==
    ASSUME NEW t, Core(t), Settled(t), NEW force_ack \in BOOLEAN, NEW probe \in BOOLEAN,
           probe => t.nxt = t.una
    PROVE  LET r == output(t, force_ack, probe)
           IN  /\ Core(r.tcb) /\ Settled(r.tcb) /\ Timed(r.tcb)
               /\ Steady(t, r.tcb) /\ r.out \in Seq(Segment)
<1> DEFINE q == IF can_send_data(t) THEN Armed(SendWindow(t, probe)) ELSE Quiet(t)
           r == output(t, force_ack, probe)
<1>1. t \in TcbRec
  BY DEF Core
<1>2. Core(q.tcb) /\ Settled(q.tcb) /\ Timed(q.tcb) /\ Steady(t, q.tcb) /\ q.out \in Seq(Segment)
  <2>1. CASE ~can_send_data(t)
    <3>1. q = [tcb |-> t, out |-> <<>>]
      BY <2>1 DEF Quiet, Step
    <3>2. Steady(t, t) /\ Timed(t)
      BY <2>1 DEF Steady, Timed
    <3> HIDE DEF q
    <3>3. q.tcb = t /\ q.out = <<>> /\ <<>> \in Seq(Segment)
      BY <3>1
    <3> QED BY <3>2, <3>3
  <2>2. CASE can_send_data(t)
    <3> DEFINE w == SendWindow(t, probe)
               u == ArmRto(w.tcb)
    <3>1. synchronized(t) /\ ~SynState(t) /\ SndSync(t) /\ ~t.fin_acked
      <4>1. synchronized(t) /\ ~SynState(t) /\ t.state \notin {"FinWait2", "TimeWait"}
        BY <1>1, <2>2, NotBoth
      <4>2. SndSync(t)
        BY <4>1 DEF Core
      <4>3. ~t.fin_acked
        BY <4>1, <1>1 DEF Settled, TcbRec
      <4> QED BY <4>1, <4>2, <4>3
    <3>2. /\ w.tcb \in TcbRec /\ Steady(t, w.tcb) /\ SndSync(w.tcb) /\ w.out \in Seq(Segment)
          /\ Top(w.tcb) = 0 => (t.tx = <<>> \/ t.wnd = 0) /\ (t.tx = <<>> => ~t.fin_pending)
      BY <1>1, <3>1, SendWindowKeeps
    <3>3. q.tcb = u /\ q.out = w.out
      BY <2>2 DEF Armed, Step
    <3> HIDE DEF w, q
    <3>4. /\ u \in TcbRec /\ Steady(w.tcb, u)
          /\ u.nxt = w.tcb.nxt /\ u.max = w.tcb.max /\ u.fin_seq = w.tcb.fin_seq
          /\ u.rto <=> (w.tcb.rto \/ w.tcb.una # w.tcb.max
                          \/ (w.tcb.wnd = 0 /\ Len(w.tcb.tx) > data_in_flight(w.tcb)))
      BY <3>2, ArmRtoKeeps
    <3> HIDE DEF u
    <3>5. Steady(t, u) /\ SndSync(u) /\ Top(u) = Top(w.tcb) /\ Flight(u) = Flight(w.tcb)
      BY <3>2, <3>4, SteadyTrans, SndSyncSame
    <3>6. Core(u) /\ Settled(u)
      BY <3>1, <3>4, <3>5, CoreSteady
    <3>7. Timed(u)
      <4> SUFFICES ASSUME u.una # u.max \/ u.tx # <<>> \/ u.fin_pending, ~u.rto
                   PROVE  FALSE
        BY DEF Timed
      <4>1. u.una = u.max /\ ~(u.wnd = 0 /\ Len(u.tx) > data_in_flight(w.tcb))
        BY <3>4 DEF Steady
      <4>2. /\ u.una \in Seq32 /\ u.nxt \in Seq32 /\ Len(u.tx) \in Nat /\ (u.tx = <<>> <=> Len(u.tx) = 0)
        BY <3>4, FieldTypes
      <4>3. Flight(u) \in Nat
        <5>1. Flight(u) \in Seq32
          BY <4>2, MinusFrom DEF Flight
        <5> QED BY <5>1, SpaceFacts DEF Seq32
      <4>4. Top(u) = 0 /\ Flight(u) = 0
        <5>1. Minus(u.una, u.una) = 0
          BY <4>2, MinusFrom
        <5> QED BY <4>1, <4>3, <5>1, <3>5 DEF Top, SndSync
      <4>5. data_in_flight(w.tcb) = 0
        <5>1. data_in_flight(w.tcb) = Least(Flight(u), Len(u.tx))
          BY <3>4 DEF data_in_flight, Flight, Steady
        <5>2. Least(0, Len(u.tx)) = 0
          BY <4>2 DEF Least
        <5> QED BY <5>1, <5>2, <4>4
      <4>6. (u.tx = <<>> \/ u.wnd = 0) /\ (u.tx = <<>> => ~u.fin_pending)
        BY <3>2, <3>5, <4>4 DEF Steady
      <4> QED BY <4>1, <4>2, <4>5, <4>6
    <3> QED BY <3>2, <3>3, <3>5, <3>6, <3>7
  <2> QED BY <2>1, <2>2
<1>3. r = IF q.out = <<>> /\ force_ack THEN send_ack(q.tcb) ELSE q
  BY DEF output, Acking
<1> HIDE DEF q, r
<1>4. CASE ~(q.out = <<>> /\ force_ack)
  BY <1>2, <1>3, <1>4 DEF r
<1>5. CASE q.out = <<>> /\ force_ack
  <2>1. q.tcb \in TcbRec
    BY <1>2 DEF Core
  <2>2. /\ r.tcb \in TcbRec /\ Steady(q.tcb, r.tcb) /\ r.out \in Seq(Segment) /\ r.tcb.nxt = q.tcb.nxt
        /\ r.tcb.max = q.tcb.max /\ r.tcb.fin_seq = q.tcb.fin_seq /\ r.tcb.rto = q.tcb.rto
    BY <2>1, <1>3, <1>5, SendAckKeeps
  <2> QED BY <1>2, <2>2, DoneSteady, SteadyTrans DEF r
<1> QED BY <1>4, <1>5

\* The result of output, whatever its flags.
Outputs(t, r) ==
    /\ Core(r.tcb) /\ Settled(r.tcb) /\ Timed(r.tcb)
    /\ Steady(t, r.tcb) /\ r.out \in Seq(Segment)

\* The two ways output is called: without a probe, and with one when nothing is in flight.
LEMMA OutputPlain ==
    ASSUME NEW t, Core(t), Settled(t)
    PROVE  /\ \A force_ack \in BOOLEAN : Outputs(t, output(t, force_ack, FALSE))
           /\ t.nxt = t.una => Outputs(t, output(t, FALSE, TRUE))
<1>1. \A force_ack, probe \in BOOLEAN :
          (probe => t.nxt = t.una) => Outputs(t, output(t, force_ack, probe))
  BY OutputKeeps DEF Outputs
<1>2. TRUE \in BOOLEAN /\ FALSE \in BOOLEAN
  OBVIOUS
<1> QED BY <1>1, <1>2, Zenon

----------------------------------------------------------------------------
(* What a call may do to a block it does not create (NoRetreat, per block). *)

Kept(t, u) ==
    /\ synchronized(t) => SeqLe(t.rcv_nxt, u.rcv_nxt) /\ SeqLe(t.una, u.una)
    /\ synchronized(t) => u.state \notin {"SynSent", "SynReceived"}
    /\ t.fin_received => u.fin_received /\ u.rcv_nxt = t.rcv_nxt
    /\ t.state = "Closed" => u.state = "Closed"
    /\ t.error # NoError => u.error = t.error

\* What a step of a block leaves: a good block, segments, and no retreat.
Good(t, r) == Done(r.tcb) /\ r.out \in Seq(Segment) /\ Kept(t, r.tcb)

\* Nothing is taken back when the numbers, the FIN and the error stay.
LEMMA KeptSame ==
    ASSUME NEW t, NEW u, u.rcv_nxt = t.rcv_nxt, u.una = t.una, u.fin_received = t.fin_received,
           u.error = t.error, t.state = "Closed" => u.state = "Closed",
           synchronized(t) => u.state \notin {"SynSent", "SynReceived"}
    PROVE  Kept(t, u)
BY DEF Kept, SeqLe

\* output takes nothing back.
LEMMA KeptSteady == ASSUME NEW t, NEW u, Steady(t, u) PROVE Kept(t, u)
<1>1. synchronized(t) => u.state \notin {"SynSent", "SynReceived"}
  BY DEF Steady, synchronized
<1> QED BY <1>1, KeptSame DEF Steady

\* Closing a block of any kind.
LEMMA ClosedEnded ==
    ASSUME NEW t \in TcbRec, Sized(t), NEW err \in Errors
    PROVE  LET u == set_closed(t, err)
           IN  /\ Ended(u) /\ Done(u) /\ Kept(t, u)
               /\ u.user_open = t.user_open
<1> DEFINE u == set_closed(t, err)
<1>1. "Closed" \in States /\ <<>> \in Seq(Datum) /\ <<>> \in Seq(HeldSeg)
  BY DEF States
<1>2. u \in TcbRec
  BY <1>1 DEF set_closed, TcbRec
<1>3. /\ u.state = "Closed" /\ ~u.rto /\ ~u.close_dl /\ u.ooo = <<>> /\ u.tx = <<>>
      /\ u.rx = t.rx /\ u.retries = t.retries /\ u.user_open = t.user_open
      /\ u.rcv_nxt = t.rcv_nxt /\ u.una = t.una /\ u.fin_received = t.fin_received
      /\ t.error # NoError => u.error = t.error
  BY DEF set_closed, TcbRec
<1>4. Sized(u)
  <2>1. Len(<<>>) = 0 /\ 0 <= TxCap /\ 0 <= MaxOoo
    BY BufferAssumption, LimitAssumption
  <2> QED BY <1>3, <2>1 DEF Sized
<1> HIDE DEF u
<1>5. Kept(t, u)
  BY <1>3 DEF Kept, SeqLe
<1> QED BY <1>2, <1>3, <1>4, <1>5 DEF Ended, Done, u

\* The errors a block can end with.
LEMMA ErrorNames == /\ NoError \in Errors /\ "ConnectionRefused" \in Errors /\ "ConnectionReset" \in Errors
                    /\ "ConnectionAborted" \in Errors /\ "TimedOut" \in Errors /\ "HostUnreachable" \in Errors
BY DEF Errors

\* A block in order has its type.
LEMMA DoneTypes == ASSUME NEW t, Done(t) PROVE t \in TcbRec /\ Sized(t)
BY DEF Done, Ended, Core

\* A reset is a segment.
LEMMA RstType == ASSUME NEW seq \in Seq32 PROVE RstSeg(seq) \in Segment /\ << RstSeg(seq) >> \in Seq(Segment)
<1>1. 0 \in Seq32 /\ 0 \in Window /\ <<>> \in Seq(Datum)
  BY SpaceFacts DEF Seq32, Window
<1>2. RstSeg(seq) \in Segment
  BY <1>1 DEF RstSeg, Segment
<1> QED BY <1>2

----------------------------------------------------------------------------
(* The user's calls. *)

\* A block whose program has more to send is in order.
LEMMA Written ==
    ASSUME NEW t, Done(t), t.state \in {"SynSent", "SynReceived", "Established", "CloseWait"},
           NEW data \in Seq(Datum)
    PROVE  LET m == Least(Len(data), tx_space(t))
               u == [t EXCEPT !.tx = @ \o SubSeq(data, 1, m)]
           IN  /\ Core(u) /\ Settled(u) /\ m \in Nat /\ m <= Len(data)
               /\ u.tx = t.tx \o SubSeq(data, 1, m)
               /\ u.state = t.state /\ u.iss = t.iss /\ u.una = t.una /\ u.fin_acked = t.fin_acked
               /\ u.rcv_nxt = t.rcv_nxt /\ u.rx = t.rx /\ u.ooo = t.ooo /\ u.rx_fin_seq = t.rx_fin_seq
               /\ u.fin_received = t.fin_received /\ u.discard_rx = t.discard_rx
               /\ u.error = t.error /\ u.user_open = t.user_open
<1> DEFINE m == Least(Len(data), tx_space(t))
           more == SubSeq(data, 1, m)
           u == [t EXCEPT !.tx = @ \o more]
<1>1. t \in TcbRec /\ Core(t) /\ Settled(t) /\ Sized(t)
  BY DEF Done, Ended, Core
<1>2. t.tx \in Seq(Datum) /\ Len(t.tx) \in Nat /\ Len(data) \in Nat /\ TxCap \in Nat /\ Len(t.tx) <= TxCap
  BY <1>1, FieldTypes, LenProperties, BufferAssumption DEF Sized
<1>3. m \in Nat /\ m <= Len(data) /\ m <= TxCap - Len(t.tx)
  <2>1. tx_space(t) = TxCap - Len(t.tx)
    <3>1. ~(Len(t.tx) > TxCap)
      BY <1>2
    <3> QED BY <3>1, Zenon DEF tx_space
  <2>2. tx_space(t) \in Nat
    BY <1>2, <2>1
  <2>3. m \in {Len(data), tx_space(t)} /\ m <= Len(data) /\ m <= tx_space(t)
    BY <1>2, <2>2 DEF Least
  <2> QED BY <1>2, <2>1, <2>2, <2>3
<1>4. more \in Seq(Datum) /\ Len(more) \in Nat /\ Len(more) <= m
  <2> HIDE DEF m
  <2> QED BY <1>2, <1>3, SubSeqType
<1> HIDE DEF m, more
<1>5. t.tx \o more \in Seq(Datum) /\ Len(t.tx \o more) = Len(t.tx) + Len(more)
  BY <1>2, <1>4, ConcatProperties
<1>6. u \in TcbRec /\ u.tx = t.tx \o more
  BY <1>1, <1>5 DEF TcbRec
<1>7. /\ u.state = t.state /\ u.iss = t.iss /\ u.una = t.una /\ u.nxt = t.nxt /\ u.max = t.max
      /\ u.fin_pending = t.fin_pending /\ u.fin_seq = t.fin_seq /\ u.fin_acked = t.fin_acked
      /\ u.rcv_nxt = t.rcv_nxt /\ u.rx = t.rx /\ u.ooo = t.ooo /\ u.rx_fin_seq = t.rx_fin_seq
      /\ u.fin_received = t.fin_received /\ u.discard_rx = t.discard_rx /\ u.rto = t.rto
      /\ u.retries = t.retries /\ u.close_dl = t.close_dl /\ u.error = t.error /\ u.user_open = t.user_open
  BY <1>1 DEF TcbRec
<1> HIDE DEF u
<1>8. Sized(u)
  BY <1>1, <1>2, <1>3, <1>4, <1>5, <1>6, <1>7 DEF Sized
<1>9. synchronized(t) => SndSync(u)
  <2> SUFFICES ASSUME synchronized(t) PROVE SndSync(u)
    OBVIOUS
  <2>1. SndSync(t) /\ ~t.fin_pending
    BY <1>1 DEF Core, LifeOK, FinState
  <2>2. t.fin_seq = NoSeq
    BY <2>1 DEF SndSync
  <2>3. Top(u) = Top(t) /\ Flight(u) = Flight(t) /\ Top(t) \in Int
    <3>1. t.una \in Seq32 /\ t.max \in Seq32
      BY <1>1, FieldTypes
    <3>2. Minus(t.max, t.una) \in Seq32
      BY <3>1, MinusFrom
    <3> QED BY <1>7, <3>2, SpaceFacts DEF Top, Flight, Seq32
  <2>4. Top(u) <= Len(u.tx)
    BY <1>2, <1>4, <1>5, <1>6, <2>1, <2>2, <2>3 DEF SndSync
  <2> QED BY <1>7, <2>1, <2>2, <2>3, <2>4 DEF SndSync
<1>10. Core(u) /\ Settled(u)
  <2>1. rcv_wnd(u) = rcv_wnd(t)
    BY <1>7 DEF rcv_wnd
  <2>2. RcvOK(u)
    BY <1>1, <1>7, <2>1 DEF Core, RcvOK, Receiving
  <2>3. LifeOK(u) /\ u.state # "Closed" /\ Settled(u) /\ DeadlineOK(u) /\ (SynState(u) => SndSyn(u))
    BY <1>1, <1>7 DEF Core, LifeOK, FinState, GotFin, Settled, DeadlineOK, SynState, SndSyn
  <2>4. synchronized(u) => SndSync(u)
    BY <1>7, <1>9 DEF synchronized
  <2> QED BY <1>6, <1>8, <2>2, <2>3, <2>4 DEF Core
<1> QED BY <1>3, <1>6, <1>7, <1>10 DEF u, more, m

\* write: a block with more to send is in order, with its timer armed.
LEMMA WriteKeeps ==
    ASSUME NEW t, Done(t), t.state \in {"SynSent", "SynReceived", "Established", "CloseWait"},
           NEW data \in Seq(Datum)
    PROVE  LET r == write(t, data)
           IN  Good(t, r) /\ r.tcb.state = t.state /\ r.tcb.user_open = t.user_open
<1> DEFINE m == Least(Len(data), tx_space(t))
           u == [t EXCEPT !.tx = @ \o SubSeq(data, 1, m)]
           r == write(t, data)
<1>1. /\ Core(u) /\ Settled(u)
      /\ u.state = t.state /\ u.una = t.una /\ u.rcv_nxt = t.rcv_nxt /\ u.fin_received = t.fin_received
      /\ u.error = t.error /\ u.user_open = t.user_open
  BY Written
<1>2. r = output(u, FALSE, FALSE)
  BY DEF write
<1> HIDE DEF r, u
<1>3. Core(r.tcb) /\ Settled(r.tcb) /\ Timed(r.tcb) /\ Steady(u, r.tcb) /\ r.out \in Seq(Segment)
  <2>1. FALSE \in BOOLEAN
    OBVIOUS
  <2>2. Outputs(u, output(u, FALSE, FALSE))
    BY <1>1, <2>1, OutputPlain, Zenon
  <2> QED BY <1>2, <2>2 DEF Outputs
<1>4. Kept(t, r.tcb)
  <2>1. synchronized(t) => r.tcb.state \notin {"SynSent", "SynReceived"}
    BY <1>1, <1>3 DEF Steady, synchronized
  <2>2. /\ r.tcb.rcv_nxt = t.rcv_nxt /\ r.tcb.una = t.una /\ r.tcb.fin_received = t.fin_received
        /\ r.tcb.error = t.error /\ r.tcb.state = t.state
    BY <1>1, <1>3 DEF Steady
  <2> QED BY <2>1, <2>2, KeptSame
<1> QED BY <1>1, <1>3, <1>4 DEF Good, Done, Steady, r

\* A block whose receive buffer got shorter, or that stopped buffering, offers at least as
\* much window as before: what it holds out of order still fits.
LEMMA WiderWindow ==
    ASSUME NEW t \in TcbRec, RcvOK(t), NEW u \in TcbRec, u.state = t.state, u.ooo = t.ooo,
           u.rcv_nxt = t.rcv_nxt, rcv_wnd(u) >= rcv_wnd(t)
    PROVE  RcvOK(u)
<1>1. rcv_wnd(u) \in Int /\ rcv_wnd(t) \in Int
  BY FieldTypes, SpaceFacts DEF Window
<1>2. ASSUME NEW i \in DOMAIN u.ooo
      PROVE  /\ Minus(u.ooo[i].seq, u.rcv_nxt) >= 1
             /\ Minus(u.ooo[i].seq, u.rcv_nxt) + Len(u.ooo[i].data) <= rcv_wnd(u)
  <2>1. /\ Minus(t.ooo[i].seq, t.rcv_nxt) >= 1
        /\ Minus(t.ooo[i].seq, t.rcv_nxt) + Len(t.ooo[i].data) <= rcv_wnd(t)
    BY <1>2 DEF RcvOK
  <2>2. t.ooo[i] \in HeldSeg
    BY <1>2, FieldTypes, ElementOfSeq, LenProperties
  <2>3. Len(t.ooo[i].data) \in Nat /\ t.ooo[i].seq \in Seq32 /\ t.rcv_nxt \in Seq32
    BY <2>2, FieldTypes, LenProperties DEF HeldSeg
  <2>4. Minus(t.ooo[i].seq, t.rcv_nxt) \in Int
    <3>1. Minus(t.ooo[i].seq, t.rcv_nxt) \in Seq32
      BY <2>3, MinusFrom
    <3> QED BY <3>1, SpaceFacts DEF Seq32
  <2> QED BY <1>1, <2>1, <2>3, <2>4
<1> QED BY <1>2 DEF RcvOK, Receiving

\* read: the window grows by what was read, so what is held still fits.
LEMMA ReadKeeps ==
    ASSUME NEW t, Done(t), NEW n \in Nat, n <= Len(t.rx)
    PROVE  LET r == read(t, n)
           IN  Good(t, r) /\ r.tcb.state = t.state /\ r.tcb.user_open = t.user_open
<1> DEFINE left == SubSeq(t.rx, n + 1, Len(t.rx))
           u == [t EXCEPT !.rx = left]
           r == read(t, n)
<1>1. t \in TcbRec /\ Sized(t)
  BY DoneTypes
<1>2. t.rx \in Seq(Datum) /\ Len(t.rx) \in Nat
  BY <1>1, FieldTypes
<1>3. left \in Seq(Datum) /\ Len(left) \in Nat /\ Len(left) <= Len(t.rx)
  <2>1. n + 1 \in Int /\ n + 1 >= 1 /\ Len(t.rx) \in Int /\ Len(t.rx) <= Len(t.rx)
    BY <1>2
  <2>2. left \in Seq(Datum) /\ Len(left) = IF n + 1 <= Len(t.rx) THEN Len(t.rx) - (n + 1) + 1 ELSE 0
    BY <1>2, <2>1, SubSeqType
  <2> QED BY <1>2, <2>2
<1> HIDE DEF left
<1>4. u \in TcbRec /\ u.rx = left
  BY <1>1, <1>3 DEF TcbRec
<1>5. /\ u.state = t.state /\ u.iss = t.iss /\ u.una = t.una /\ u.nxt = t.nxt /\ u.max = t.max
      /\ u.fin_pending = t.fin_pending /\ u.fin_seq = t.fin_seq /\ u.fin_acked = t.fin_acked
      /\ u.rcv_nxt = t.rcv_nxt /\ u.tx = t.tx /\ u.ooo = t.ooo
      /\ u.fin_received = t.fin_received /\ u.discard_rx = t.discard_rx /\ u.rto = t.rto
      /\ u.retries = t.retries /\ u.close_dl = t.close_dl /\ u.error = t.error /\ u.user_open = t.user_open
  BY <1>1 DEF TcbRec
<1> HIDE DEF u
<1>6. Sized(u)
  BY <1>1, <1>2, <1>3, <1>4, <1>5, SpaceFacts DEF Sized
<1>7. Done(u)
  <2>1. CASE Ended(t)
    BY <2>1, <1>4, <1>5, <1>6 DEF Ended, Done
  <2>2. CASE Core(t) /\ Settled(t) /\ Timed(t)
    <3>1. rcv_wnd(u) >= rcv_wnd(t)
      BY <1>1, <1>2, <1>3, <1>4, <1>5, SpaceFacts DEF rcv_wnd, Least
    <3>2. RcvOK(u)
      BY <2>2, <1>1, <1>4, <1>5, <3>1, WiderWindow DEF Core
    <3>3. LifeOK(u) /\ u.state # "Closed" /\ Settled(u) /\ (SynState(u) => SndSyn(u)) /\ Timed(u)
      BY <2>2, <1>5 DEF Core, LifeOK, FinState, GotFin, Settled, SynState, SndSyn, Timed, can_send_data
    <3>4. synchronized(u) => SndSync(u)
      BY <2>2, <1>5 DEF Core, synchronized, SndSync, Flight, Top
    <3>5. SynState(t) => left = <<>>
      <4>1. SynState(t) => Len(left) = 0
        BY <2>2, <1>2, <1>3 DEF Core, DeadlineOK
      <4> QED BY <4>1, <1>3, EmptySeq
    <3>6. DeadlineOK(u)
      BY <2>2, <1>4, <1>5, <3>5 DEF Core, DeadlineOK, SynState
    <3> QED BY <1>4, <1>6, <3>2, <3>3, <3>4, <3>6 DEF Core, Done
  <2> QED BY <2>1, <2>2 DEF Done
<1>8. Kept(t, u)
  <2>1. synchronized(t) => u.state \notin {"SynSent", "SynReceived"}
    BY <1>5 DEF synchronized
  <2> QED BY <1>5, <2>1, KeptSame
<1>9. r = Quiet(u) \/ (synchronized(t) /\ r = send_ack(u))
  BY DEF read, u, left
<1> HIDE DEF r
<1>10. CASE r = Quiet(u)
  <2>1. r.tcb = u /\ r.out = <<>> /\ <<>> \in Seq(Segment)
    BY <1>10 DEF Quiet, Step
  <2> QED BY <2>1, <1>5, <1>7, <1>8 DEF Good, r
<1>11. CASE synchronized(t) /\ r = send_ack(u)
  <2>1. /\ r.tcb \in TcbRec /\ Steady(u, r.tcb) /\ r.out \in Seq(Segment) /\ r.tcb.rto = u.rto
        /\ r.tcb.nxt = u.nxt /\ r.tcb.max = u.max /\ r.tcb.fin_seq = u.fin_seq
    BY <1>4, <1>11, SendAckKeeps
  <2>2. u.state # "Closed"
    BY <1>5, <1>11 DEF synchronized
  <2>3. Core(u) /\ Settled(u) /\ Timed(u)
    BY <1>7, <2>2 DEF Done, Ended
  <2>4. Done(r.tcb)
    BY <2>1, <2>3, DoneSteady DEF Done
  <2>5. Kept(t, r.tcb)
    <3>1. synchronized(t) => r.tcb.state \notin {"SynSent", "SynReceived"}
      BY <1>5, <2>1 DEF synchronized, Steady
    <3>2. /\ r.tcb.rcv_nxt = t.rcv_nxt /\ r.tcb.una = t.una /\ r.tcb.fin_received = t.fin_received
          /\ r.tcb.error = t.error /\ r.tcb.state = t.state /\ r.tcb.user_open = t.user_open
      BY <1>5, <2>1 DEF Steady
    <3> QED BY <3>1, <3>2, KeptSame
  <2> QED BY <2>1, <2>4, <2>5, <1>5 DEF Good, Steady, r
<1> QED BY <1>9, <1>10, <1>11

\* The state shutdown_write leaves, before output.
LEMMA FinQueued ==
    ASSUME NEW t, Core(t), Settled(t), t.state \in {"Established", "CloseWait"}, NEW u \in TcbRec,
           u.state = IF t.state = "Established" THEN "FinWait1" ELSE "LastAck", u.fin_pending,
           u.una = t.una, u.nxt = t.nxt, u.max = t.max, u.tx = t.tx, u.ooo = t.ooo, u.retries = t.retries,
           u.fin_seq = t.fin_seq, u.fin_acked = t.fin_acked, u.rcv_nxt = t.rcv_nxt,
           u.fin_received = t.fin_received, u.discard_rx => ~u.user_open,
           Len(u.rx) <= RxCap, rcv_wnd(u) >= rcv_wnd(t)
    PROVE  Core(u) /\ Settled(u)
<1>1. t \in TcbRec /\ RcvOK(t) /\ synchronized(t) /\ SndSync(t) /\ LifeOK(t) /\ Sized(t)
  BY DEF Core, synchronized
<1>2. ~t.fin_acked /\ ~t.fin_pending
  <2>1. t.fin_acked \in BOOLEAN
    BY <1>1 DEF TcbRec
  <2> QED BY <1>1, <2>1 DEF Settled, LifeOK, FinState
<1>3. Sized(u) /\ u.state # "Closed" /\ ~SynState(u) /\ Settled(u)
  BY <1>1, <1>2 DEF Sized, SynState, Settled
<1>4. SndSync(u)
  BY <1>1, <1>2 DEF SndSync, Flight, Top
<1>5. LifeOK(u)
  BY <1>1 DEF LifeOK, FinState, GotFin
<1>6. DeadlineOK(u)
  BY DEF DeadlineOK, SynState
<1>7. RcvOK(u)
  <2>1. rcv_wnd(u) \in Int /\ rcv_wnd(t) \in Int
    BY <1>1, FieldTypes, SpaceFacts DEF Window
  <2>2. ~Receiving(u) => u.ooo = <<>>
    BY <1>1 DEF RcvOK, Receiving
  <2>3. ASSUME NEW i \in DOMAIN u.ooo
        PROVE  /\ Minus(u.ooo[i].seq, u.rcv_nxt) >= 1
               /\ Minus(u.ooo[i].seq, u.rcv_nxt) + Len(u.ooo[i].data) <= rcv_wnd(u)
    <3>1. /\ Minus(t.ooo[i].seq, t.rcv_nxt) >= 1
          /\ Minus(t.ooo[i].seq, t.rcv_nxt) + Len(t.ooo[i].data) <= rcv_wnd(t)
      BY <1>1, <2>3 DEF RcvOK
    <3>2. t.ooo[i] \in HeldSeg
      BY <1>1, <2>3, FieldTypes, ElementOfSeq, LenProperties
    <3>3. Len(t.ooo[i].data) \in Nat /\ t.ooo[i].seq \in Seq32 /\ t.rcv_nxt \in Seq32
      BY <1>1, <3>2, FieldTypes, LenProperties DEF HeldSeg
    <3>4. Minus(t.ooo[i].seq, t.rcv_nxt) \in Int
      <4>1. Minus(t.ooo[i].seq, t.rcv_nxt) \in Seq32
        BY <3>3, MinusFrom
      <4> QED BY <4>1, SpaceFacts DEF Seq32
    <3> QED BY <2>1, <3>1, <3>3, <3>4
  <2> QED BY <2>2, <2>3 DEF RcvOK
<1> QED BY <1>3, <1>4, <1>5, <1>6, <1>7 DEF Core

\* Names of states are states.
LEMMA FinStates == {"FinWait1", "LastAck", "TimeWait", "FinWait2", "Established", "SynReceived",
                    "CloseWait", "Closing", "SynSent", "Closed"} \subseteq States
BY DEF States

\* shutdown_write, from t or from t as close leaves it (user_open, discard_rx and rx differ).
LEMMA ShutdownFrom ==
    ASSUME NEW t, Core(t), Settled(t), t.state \in {"Established", "CloseWait"},
           NEW c \in TcbRec, c.state = t.state, c.error = t.error,
           c.una = t.una, c.nxt = t.nxt, c.max = t.max, c.tx = t.tx, c.ooo = t.ooo, c.retries = t.retries,
           c.fin_seq = t.fin_seq, c.fin_acked = t.fin_acked, c.rcv_nxt = t.rcv_nxt,
           c.fin_received = t.fin_received, c.discard_rx => ~c.user_open,
           Len(c.rx) <= RxCap, rcv_wnd(c) >= rcv_wnd(t)
    PROVE  LET r == shutdown_write(c)
           IN  /\ Good(t, r) /\ r.tcb.user_open = c.user_open
               /\ r.tcb.state = IF t.state = "Established" THEN "FinWait1" ELSE "LastAck"
<1> DEFINE s == IF t.state = "Established" THEN "FinWait1" ELSE "LastAck"
           u == [c EXCEPT !.fin_pending = TRUE, !.state = s]
           r == shutdown_write(c)
<1>1. s \in States
  BY FinStates
<1>2. u \in TcbRec
  BY <1>1 DEF TcbRec
<1>3. /\ u.state = s /\ u.fin_pending
      /\ u.una = c.una /\ u.nxt = c.nxt /\ u.max = c.max /\ u.tx = c.tx /\ u.ooo = c.ooo /\ u.retries = c.retries
      /\ u.fin_seq = c.fin_seq /\ u.fin_acked = c.fin_acked /\ u.rcv_nxt = c.rcv_nxt /\ u.rx = c.rx
      /\ u.fin_received = c.fin_received /\ u.discard_rx = c.discard_rx /\ u.user_open = c.user_open
      /\ u.error = c.error
  BY DEF TcbRec
<1>4. r = output(u, FALSE, FALSE)
  BY DEF shutdown_write
<1> HIDE DEF u, r
<1>5. rcv_wnd(u) >= rcv_wnd(t)
  BY <1>3 DEF rcv_wnd
<1>6. Core(u) /\ Settled(u)
  BY <1>2, <1>3, <1>5, FinQueued
<1>7. Outputs(u, r)
  <2>1. FALSE \in BOOLEAN
    OBVIOUS
  <2>2. Outputs(u, output(u, FALSE, FALSE))
    BY <1>6, <2>1, OutputPlain, Zenon
  <2> QED BY <1>4, <2>2
<1>8. /\ r.tcb.rcv_nxt = t.rcv_nxt /\ r.tcb.una = t.una /\ r.tcb.fin_received = t.fin_received
      /\ r.tcb.error = t.error /\ r.tcb.state = s /\ r.tcb.user_open = c.user_open
  BY <1>3, <1>7 DEF Outputs, Steady
<1>9. Kept(t, r.tcb)
  <2>1. s \notin {"SynSent", "SynReceived"} /\ t.state # "Closed"
    OBVIOUS
  <2> HIDE DEF s
  <2> QED BY <1>8, <2>1, KeptSame
<1> QED BY <1>7, <1>8, <1>9 DEF Outputs, Good, Done, r

\* shutdown_write: the FIN is queued behind the data and the timer armed.
LEMMA ShutdownKeeps ==
    ASSUME NEW t, Done(t), t.user_open, t.state \in {"Established", "CloseWait"}
    PROVE  LET r == shutdown_write(t)
           IN  /\ Good(t, r) /\ r.tcb.user_open = t.user_open
               /\ r.tcb.state = IF t.state = "Established" THEN "FinWait1" ELSE "LastAck"
<1>1. Core(t) /\ Settled(t) /\ t \in TcbRec /\ Sized(t)
  BY DEF Done, Ended, Core
<1>2. rcv_wnd(t) >= rcv_wnd(t)
  BY <1>1, FieldTypes, SpaceFacts DEF Window
<1>3. t.discard_rx => ~t.user_open
  BY <1>1 DEF Core, LifeOK
<1>4. Len(t.rx) <= RxCap
  BY <1>1 DEF Sized
<1> QED BY <1>1, <1>2, <1>3, <1>4, ShutdownFrom

\* abort: the block is closed with nothing armed, and a reset is sent.
LEMMA AbortKeeps ==
    ASSUME NEW t \in TcbRec, Sized(t)
    PROVE  LET r == abort(t)
           IN  Good(t, r) /\ r.tcb.state = "Closed" /\ r.tcb.user_open = t.user_open
<1> DEFINE u == set_closed(t, "ConnectionAborted")
           r == abort(t)
<1>1. Ended(u) /\ Done(u) /\ Kept(t, u) /\ u.user_open = t.user_open
  BY ClosedEnded, ErrorNames
<1>2. << RstSeg(t.nxt) >> \in Seq(Segment)
  BY RstType, FieldTypes
<1>3. r.tcb = u /\ (r.out = << RstSeg(t.nxt) >> \/ r.out = <<>>)
  BY DEF abort, Step
<1>4. <<>> \in Seq(Segment)
  OBVIOUS
<1> HIDE DEF u, r
<1> QED BY <1>1, <1>2, <1>3, <1>4 DEF Good, Ended, r

\* Kept looks only at the state, the numbers, the FIN and the error.
LEMMA KeptVia ==
    ASSUME NEW t, NEW c, c.state = t.state, c.rcv_nxt = t.rcv_nxt, c.una = t.una,
           c.fin_received = t.fin_received, c.error = t.error, NEW u, Kept(c, u)
    PROVE  Kept(t, u)
BY DEF Kept, synchronized

\* A state that close leaves as it is.
LEMMA Abandoned ==
    ASSUME NEW t, Core(t), Settled(t), Timed(t), FinState(t), NEW u \in TcbRec,
           u.state = t.state, u.iss = t.iss, u.una = t.una, u.nxt = t.nxt, u.max = t.max, u.tx = t.tx,
           u.fin_pending = t.fin_pending, u.fin_seq = t.fin_seq, u.fin_acked = t.fin_acked,
           u.rcv_nxt = t.rcv_nxt, u.ooo = t.ooo, u.fin_received = t.fin_received, u.rto = t.rto,
           u.retries = t.retries, ~u.user_open, u.discard_rx, Len(u.rx) <= RxCap,
           u.close_dl = (t.close_dl \/ t.state = "FinWait2")
    PROVE  Core(u) /\ Settled(u) /\ Timed(u)
<1>1. t \in TcbRec /\ RcvOK(t) /\ synchronized(t) /\ SndSync(t) /\ LifeOK(t) /\ Sized(t)
  BY DEF Core, synchronized, FinState
<1>2. rcv_wnd(u) >= rcv_wnd(t)
  <2>1. rcv_wnd(u) = RxCap
    BY DEF rcv_wnd
  <2>2. rcv_wnd(t) \in Window
    BY <1>1, FieldTypes
  <2> QED BY <2>1, <2>2, SpaceFacts DEF Window
<1>3. RcvOK(u)
  BY <1>1, <1>2, WiderWindow
<1>4. Sized(u) /\ u.state # "Closed" /\ ~SynState(u) /\ Settled(u)
  BY <1>1 DEF Sized, SynState, Settled, FinState
<1>5. SndSync(u)
  BY <1>1 DEF SndSync, Flight, Top
<1>6. LifeOK(u) /\ Timed(u)
  BY <1>1 DEF LifeOK, FinState, GotFin, Timed, can_send_data
<1>7. DeadlineOK(u)
  BY <1>4 DEF Core, DeadlineOK, SynState
<1> QED BY <1>3, <1>4, <1>5, <1>6, <1>7 DEF Core

\* close, in every state: the block is left in order and moves along TcpStates.
LEMMA CloseKeeps ==
    ASSUME NEW t, Done(t), t.user_open
    PROVE  LET r == close(t)
           IN  /\ Good(t, r) /\ ~r.tcb.user_open
               /\ r.tcb.state = Lifecycle!Close(t.state)
<1> DEFINE c == [t EXCEPT !.user_open = FALSE, !.discard_rx = TRUE, !.rx = <<>>]
           r == close(t)
<1>1. t \in TcbRec /\ Sized(t)
  BY DoneTypes
<1>2. c \in TcbRec
  <2>1. <<>> \in Seq(Datum)
    OBVIOUS
  <2> QED BY <1>1, <2>1 DEF TcbRec
<1>3. /\ c.state = t.state /\ c.iss = t.iss /\ c.una = t.una /\ c.nxt = t.nxt /\ c.max = t.max /\ c.tx = t.tx
      /\ c.fin_pending = t.fin_pending /\ c.fin_seq = t.fin_seq /\ c.fin_acked = t.fin_acked
      /\ c.rcv_nxt = t.rcv_nxt /\ c.ooo = t.ooo /\ c.fin_received = t.fin_received /\ c.rto = t.rto
      /\ c.retries = t.retries /\ c.error = t.error /\ c.close_dl = t.close_dl
      /\ c.user_open = FALSE /\ c.discard_rx = TRUE /\ c.rx = <<>>
  BY <1>1 DEF TcbRec
<1>4. /\ t.state \in {"SynSent", "SynReceived", "Closed"} => r = abort(c)
      /\ t.state \in {"Established", "CloseWait"} => r = shutdown_write(c)
      /\ t.state = "FinWait2" => r = Quiet([c EXCEPT !.close_dl = TRUE])
      /\ t.state \in {"FinWait1", "Closing", "LastAck", "TimeWait"} => r = Quiet(c)
  BY DEF close
<1>5. Len(c.rx) = 0 /\ Len(c.rx) <= RxCap /\ Sized(c)
  <2>1. Len(c.rx) = 0 /\ Len(c.rx) <= RxCap
    BY <1>3, SpaceFacts
  <2> QED BY <2>1, <1>1, <1>3 DEF Sized
<1> HIDE DEF c, r
<1>6. CASE t.state \in {"SynSent", "SynReceived", "Closed"}
  <2>1. Good(c, r) /\ r.tcb.state = "Closed" /\ r.tcb.user_open = c.user_open
    BY <1>2, <1>4, <1>5, <1>6, AbortKeeps
  <2>2. Kept(t, r.tcb)
    BY <1>3, <2>1, KeptVia DEF Good
  <2>3. Lifecycle!Close(t.state) = "Closed"
    BY <1>6 DEF Lifecycle!Close
  <2> QED BY <1>3, <2>1, <2>2, <2>3 DEF Good, r
<1>7. CASE t.state \in {"Established", "CloseWait"}
  <2>1. Core(t) /\ Settled(t)
    BY <1>7 DEF Done, Ended
  <2>2. rcv_wnd(c) >= rcv_wnd(t)
    <3>1. rcv_wnd(c) = RxCap
      BY <1>3 DEF rcv_wnd
    <3>2. rcv_wnd(t) \in Window
      BY <1>1, FieldTypes
    <3> QED BY <3>1, <3>2, SpaceFacts DEF Window
  <2>3. /\ Good(t, r) /\ r.tcb.user_open = c.user_open
        /\ r.tcb.state = IF t.state = "Established" THEN "FinWait1" ELSE "LastAck"
    BY <1>2, <1>3, <1>4, <1>5, <1>7, <2>1, <2>2, ShutdownFrom
  <2>4. Lifecycle!Close(t.state) = IF t.state = "Established" THEN "FinWait1" ELSE "LastAck"
    BY <1>7 DEF Lifecycle!Close, Lifecycle!Shut
  <2> QED BY <1>3, <2>3, <2>4 DEF r
<1>8. CASE t.state \in {"FinWait1", "Closing", "LastAck", "TimeWait", "FinWait2"}
  <2> DEFINE u == IF t.state = "FinWait2" THEN [c EXCEPT !.close_dl = TRUE] ELSE c
  <2>1. Core(t) /\ Settled(t) /\ Timed(t)
    BY <1>8 DEF Done, Ended
  <2>2. u \in TcbRec /\ u.close_dl = (t.close_dl \/ t.state = "FinWait2")
    BY <1>1, <1>2, <1>3 DEF TcbRec
  <2>3. /\ u.state = t.state /\ u.iss = t.iss /\ u.una = t.una /\ u.nxt = t.nxt /\ u.max = t.max /\ u.tx = t.tx
        /\ u.fin_pending = t.fin_pending /\ u.fin_seq = t.fin_seq /\ u.fin_acked = t.fin_acked
        /\ u.rcv_nxt = t.rcv_nxt /\ u.ooo = t.ooo /\ u.fin_received = t.fin_received /\ u.rto = t.rto
        /\ u.retries = t.retries /\ u.error = t.error
        /\ u.user_open = FALSE /\ u.discard_rx = TRUE /\ u.rx = c.rx
    BY <1>2, <1>3 DEF TcbRec
  <2>4. r = Quiet(u)
    BY <1>4, <1>8
  <2> HIDE DEF u
  <2>5. Core(u) /\ Settled(u) /\ Timed(u)
    BY <1>5, <1>8, <2>1, <2>2, <2>3, Abandoned DEF FinState
  <2>6. Kept(t, u)
    <3>1. synchronized(t) => u.state \notin {"SynSent", "SynReceived"}
      BY <2>3 DEF synchronized
    <3> QED BY <2>3, <3>1, KeptSame
  <2>7. r.tcb = u /\ r.out \in Seq(Segment)
    BY <2>4 DEF Quiet, Step
  <2>8. Lifecycle!Close(t.state) = t.state
    BY <1>8 DEF Lifecycle!Close, Lifecycle!Shut
  <2> QED BY <2>3, <2>5, <2>6, <2>7, <2>8 DEF Good, Done, r
<1>9. t.state \in States
  BY <1>1 DEF TcbRec
<1> QED BY <1>6, <1>7, <1>8, <1>9 DEF States

----------------------------------------------------------------------------
(* Timers, and failures below TCP. *)

\* u differs from t only in its timers, counters and send window.
Same(t, u) ==
    /\ u.state = t.state /\ u.iss = t.iss /\ u.una = t.una /\ u.nxt = t.nxt /\ u.max = t.max
    /\ u.tx = t.tx /\ u.fin_pending = t.fin_pending /\ u.fin_seq = t.fin_seq /\ u.fin_acked = t.fin_acked
    /\ u.rcv_nxt = t.rcv_nxt /\ u.rx = t.rx /\ u.ooo = t.ooo
    /\ u.fin_received = t.fin_received /\ u.discard_rx = t.discard_rx
    /\ u.user_open = t.user_open /\ u.error = t.error

\* Core survives a change of timers and counters within their limits.
LEMMA CoreSame ==
    ASSUME NEW t, Core(t), NEW u \in TcbRec, Same(t, u), u.retries <= MaxRetries, DeadlineOK(u)
    PROVE  /\ Core(u) /\ (Settled(t) => Settled(u))
           /\ Timed(t) /\ (t.rto => u.rto) => Timed(u)
<1>1. rcv_wnd(u) = rcv_wnd(t)
  BY DEF rcv_wnd, Same
<1>2. RcvOK(u)
  BY <1>1 DEF Core, RcvOK, Receiving, Same
<1>3. Sized(u)
  <2>1. u.retries \in Nat /\ MaxRetries \in Nat
    BY LimitAssumption DEF TcbRec
  <2>2. u.retries <= MaxRetries + 1
    BY <2>1
  <2> QED BY <2>2 DEF Core, Sized, Same
<1>4. LifeOK(u) /\ u.state # "Closed" /\ (Settled(t) => Settled(u))
  BY DEF Core, LifeOK, FinState, GotFin, Settled, Same
<1>5. SynState(u) => SndSyn(u)
  BY DEF Core, SynState, SndSyn, Same
<1>6. synchronized(u) => SndSync(u)
  BY DEF Core, synchronized, SndSync, Flight, Top, Same
<1>7. Timed(t) /\ (t.rto => u.rto) => Timed(u)
  BY DEF Timed, can_send_data, Same
<1> QED BY <1>2, <1>3, <1>4, <1>5, <1>6, <1>7 DEF Core

\* A change of timers and counters takes nothing back.
LEMMA SameKept == ASSUME NEW t, NEW u, Same(t, u) PROVE Kept(t, u)
<1>1. synchronized(t) => u.state \notin {"SynSent", "SynReceived"}
  BY DEF Same, synchronized
<1> QED BY <1>1, KeptSame DEF Same

\* send_syn changes only what the block has advertised.
LEMMA SendSynKeeps ==
    ASSUME NEW t \in TcbRec
    PROVE  LET r == send_syn(t)
           IN  /\ r.tcb \in TcbRec /\ Steady(t, r.tcb) /\ r.out \in Seq(Segment)
               /\ r.tcb.nxt = t.nxt /\ r.tcb.max = t.max /\ r.tcb.fin_seq = t.fin_seq /\ r.tcb.rto = t.rto
<1> DEFINE s1 == [seg(t, t.iss, {"SYN"}, <<>>) EXCEPT !.ack = 0]
           s2 == seg(t, t.iss, {"SYN", "ACK"}, <<>>)
           s == IF t.state = "SynSent" THEN s1 ELSE s2
           segs == << s >>
<1>1. t.iss \in Seq32 /\ <<>> \in Seq(Datum) /\ 0 \in Seq32 /\ {"SYN"} \in SUBSET {"SYN", "ACK", "FIN", "RST"}
      /\ {"SYN", "ACK"} \in SUBSET {"SYN", "ACK", "FIN", "RST"}
  BY FieldTypes, SpaceFacts DEF Seq32
<1>2. seg(t, t.iss, {"SYN"}, <<>>) \in Segment /\ s2 \in Segment
  BY <1>1, SegType
<1>3. s1 \in Segment
  BY <1>1, <1>2 DEF Segment
<1>4. segs \in Seq(Segment)
  <2> HIDE DEF s1, s2
  <2> QED BY <1>2, <1>3
<1>5. send_syn(t) = Sending(t, segs)
  BY DEF send_syn
<1> HIDE DEF segs
<1> QED BY <1>4, <1>5, SendingKeeps

\* A SYN takes a number of its own.
LEMMA SynOpen == ASSUME NEW a \in Seq32 PROVE Plus(a, 1) \in Seq32 /\ Plus(a, 1) # a
<1>1. 1 \in 0 .. SeqSpace
  BY SpaceFacts
<1> QED BY <1>1, PlusIs, SpaceFacts DEF Seq32

\* The closing deadline: the block ends, or is left alone.
LEMMA CloseTimerKeeps ==
    ASSUME NEW t, Done(t)
    PROVE  LET r == Quiet(close_timer(t))
           IN  Good(t, r) /\ r.tcb.user_open = t.user_open /\ r.tcb.state \in Lifecycle!Input(t.state)
<1>1. t \in TcbRec /\ Sized(t)
  BY DoneTypes
<1>2. Quiet(close_timer(t)).tcb = close_timer(t) /\ Quiet(close_timer(t)).out \in Seq(Segment)
  BY DEF Quiet, Step
<1>3. CASE t.state \in {"TimeWait", "FinWait2"}
  <2> DEFINE u == set_closed(t, NoError)
  <2>1. Ended(u) /\ Done(u) /\ Kept(t, u) /\ u.user_open = t.user_open
    BY <1>1, ClosedEnded, ErrorNames
  <2>2. close_timer(t) = u
    BY <1>3 DEF close_timer
  <2>3. "Closed" \in Lifecycle!Input(t.state)
    BY <1>3 DEF Lifecycle!Input
  <2> HIDE DEF u
  <2> QED BY <1>2, <2>1, <2>2, <2>3 DEF Good, Ended
<1>4. CASE t.state \notin {"TimeWait", "FinWait2"}
  <2>1. close_timer(t) = t /\ Same(t, t)
    BY <1>4 DEF close_timer, Same
  <2>2. t.state \in Lifecycle!Input(t.state)
    BY DEF Lifecycle!Input
  <2> QED BY <1>2, <2>1, <2>2, SameKept DEF Good
<1> QED BY <1>3, <1>4

\* on_unreachable: a block in SYN_SENT ends, any other is left alone.
LEMMA UnreachableKeeps ==
    ASSUME NEW t, Done(t)
    PROVE  LET r == Quiet(on_unreachable(t))
           IN  Good(t, r) /\ r.tcb.user_open = t.user_open /\ r.tcb.state \in Lifecycle!Input(t.state)
<1>1. t \in TcbRec /\ Sized(t)
  BY DoneTypes
<1>2. Quiet(on_unreachable(t)).tcb = on_unreachable(t) /\ Quiet(on_unreachable(t)).out \in Seq(Segment)
  BY DEF Quiet, Step
<1>3. CASE t.state = "SynSent"
  <2> DEFINE u == set_closed(t, "HostUnreachable")
  <2>1. Ended(u) /\ Done(u) /\ Kept(t, u) /\ u.user_open = t.user_open
    BY <1>1, ClosedEnded, ErrorNames
  <2>2. on_unreachable(t) = u
    BY <1>3 DEF on_unreachable
  <2>3. "Closed" \in Lifecycle!Input(t.state)
    BY <1>3 DEF Lifecycle!Input
  <2> HIDE DEF u
  <2> QED BY <1>2, <2>1, <2>2, <2>3 DEF Good, Ended
<1>4. CASE t.state # "SynSent"
  <2>1. on_unreachable(t) = t /\ Same(t, t)
    BY <1>4 DEF on_unreachable, Same
  <2>2. t.state \in Lifecycle!Input(t.state)
    BY DEF Lifecycle!Input
  <2> QED BY <1>2, <2>1, <2>2, SameKept DEF Good
<1> QED BY <1>3, <1>4

\* fail: the block is closed with nothing armed.
LEMMA FailKeeps ==
    ASSUME NEW t, Done(t)
    PROVE  LET r == Quiet(fail(t))
           IN  Good(t, r) /\ r.tcb.user_open = t.user_open /\ r.tcb.state = "Closed"
<1> DEFINE u == set_closed(t, "ConnectionAborted")
<1>1. Ended(u) /\ Done(u) /\ Kept(t, u) /\ u.user_open = t.user_open
  BY DoneTypes, ClosedEnded, ErrorNames
<1>2. Quiet(fail(t)).tcb = u /\ Quiet(fail(t)).out \in Seq(Segment)
  BY DEF Quiet, Step, fail
<1> HIDE DEF u
<1> QED BY <1>1, <1>2 DEF Good, Ended

\* A segment may leave a state as it is.
LEMMA InputSelf == \A s : s \in Lifecycle!Input(s)
BY DEF Lifecycle!Input

\* A block that starts to send again from snd_una is in order.
LEMMA Rewound ==
    ASSUME NEW t, Core(t), Settled(t), synchronized(t), NEW v \in TcbRec, v.nxt = v.una,
           v.state = t.state, v.una = t.una, v.max = t.max, v.iss = t.iss,
           v.tx = t.tx, v.fin_pending = t.fin_pending, v.fin_seq = t.fin_seq, v.fin_acked = t.fin_acked,
           v.rcv_nxt = t.rcv_nxt, v.rx = t.rx, v.ooo = t.ooo,
           v.fin_received = t.fin_received, v.discard_rx = t.discard_rx,
           v.user_open = t.user_open, v.close_dl = t.close_dl, v.retries <= MaxRetries
    PROVE  Core(v) /\ Settled(v)
<1>1. t \in TcbRec /\ Sized(t) /\ ~SynState(t)
  BY NotBoth DEF Core
<1>2. SndSync(v)
  <2>1. Flight(v) = 0 /\ Top(v) = Top(t) /\ Top(t) \in Nat
    <3>1. t.una \in Seq32 /\ t.max \in Seq32
      BY <1>1, FieldTypes
    <3>2. Minus(t.una, t.una) = 0 /\ Minus(t.max, t.una) \in Seq32
      BY <3>1, MinusFrom
    <3> QED BY <3>2, SpaceFacts DEF Flight, Top, Seq32
  <2>2. SndSync(t)
    BY DEF Core
  <2> QED BY <2>1, <2>2 DEF SndSync
<1>3. rcv_wnd(v) = rcv_wnd(t)
  BY DEF rcv_wnd
<1>4. RcvOK(v)
  BY <1>3 DEF Core, RcvOK, Receiving
<1>5. LifeOK(v) /\ v.state # "Closed" /\ Settled(v) /\ ~SynState(v)
  BY <1>1 DEF Core, LifeOK, FinState, GotFin, Settled, SynState
<1>6. DeadlineOK(v)
  BY <1>5 DEF Core, DeadlineOK
<1>7. Sized(v)
  <2>1. v.retries \in Nat /\ MaxRetries \in Nat
    BY LimitAssumption DEF TcbRec
  <2> QED BY <1>1, <2>1 DEF Sized
<1> QED BY <1>2, <1>4, <1>5, <1>6, <1>7 DEF Core

\* The retransmission timer: a connection gives up, or has its timer armed again while
\* anything is outstanding.
LEMMA RtoTimerKeeps ==
    ASSUME NEW t, Done(t), t.rto
    PROVE  LET r == rto_timer(t)
           IN  Good(t, r) /\ r.tcb.user_open = t.user_open /\ r.tcb.state \in Lifecycle!Input(t.state)
<1> DEFINE persist == t.wnd = 0 /\ t.una = t.max /\ t.tx # <<>>
           tries == IF persist THEN t.retries ELSE t.retries + 1
           t1 == [t EXCEPT !.rto = FALSE, !.retries = tries, !.dupacks = 0]
           r == rto_timer(t)
<1>1. Core(t) /\ Settled(t) /\ Timed(t) /\ t \in TcbRec /\ Sized(t)
  BY DEF Done, Ended, Core
<1>2. /\ tries \in Nat /\ t.retries <= MaxRetries /\ tries <= MaxRetries + 1
      /\ MaxRetries \in Nat /\ t.retries \in Nat
  <2>1. t.retries \in Nat /\ t.retries <= MaxRetries /\ MaxRetries \in Nat
    BY <1>1, LimitAssumption DEF Core, LifeOK, TcbRec
  <2>2. tries \in {t.retries, t.retries + 1}
    OBVIOUS
  <2> HIDE DEF tries
  <2> QED BY <2>1, <2>2
<1>3. persist \in BOOLEAN
  OBVIOUS
<1> HIDE DEF persist, tries
<1>4. t1 \in TcbRec
  <2>1. 0 \in Dups
    BY DEF Dups
  <2> QED BY <1>1, <1>2, <2>1 DEF TcbRec
<1>5. Same(t, t1) /\ t1.rto = FALSE /\ t1.retries = tries /\ t1.close_dl = t.close_dl
  BY <1>1 DEF TcbRec, Same
<1>6. r = IF tries > MaxRetries THEN Quiet(set_closed(t1, "TimedOut")) ELSE Rearmed(Resend(t1), persist)
  BY DEF rto_timer, persist, tries
<1> HIDE DEF t1, r
<1>7. CASE tries > MaxRetries
  <2> DEFINE u == set_closed(t1, "TimedOut")
  <2>1. Sized(t1)
    BY <1>1, <1>2, <1>5 DEF Sized, Same
  <2>2. Ended(u) /\ Done(u) /\ Kept(t1, u) /\ u.user_open = t1.user_open
    BY <1>4, <2>1, ClosedEnded, ErrorNames
  <2>3. Kept(t, u)
    BY <1>5, <2>2, KeptVia DEF Same
  <2>4. r.tcb = u /\ r.out \in Seq(Segment)
    BY <1>6, <1>7 DEF Quiet, Step
  <2> HIDE DEF u
  <2>5. "Closed" \in Lifecycle!Input(t.state)
    BY <1>1 DEF Lifecycle!Input, Core, TcbRec, States
  <2> QED BY <1>5, <2>2, <2>3, <2>4, <2>5 DEF Good, Ended, Same, r
<1>8. CASE ~(tries > MaxRetries)
  <2> DEFINE q == Resend(t1)
             again == q.tcb.rto \/ q.tcb.una # q.tcb.max \/ persist
             u == [q.tcb EXCEPT !.rto = again]
  <2>1. tries <= MaxRetries
    BY <1>2, <1>8
  <2>2. r.tcb = u /\ r.out = q.out
    BY <1>6, <1>8 DEF Rearmed, Step
  <2>3. ASSUME q.tcb \in TcbRec
        PROVE  u \in TcbRec /\ u.rto = again /\ Same(q.tcb, u) /\ u.retries = q.tcb.retries
               /\ u.close_dl = q.tcb.close_dl
    <3>1. again \in BOOLEAN
      BY <1>3, <2>3 DEF TcbRec
    <3> HIDE DEF q, again
    <3> QED BY <2>3, <3>1 DEF TcbRec, Same
  <2>4. CASE SynState(t)
    <3>1. q = send_syn(t1)
      <4>1. t1.state \in {"SynSent", "SynReceived"} /\ ~can_send_data(t1)
        BY <1>5, <2>4 DEF SynState, Same, can_send_data
      <4> QED BY <4>1, Zenon DEF Resend
    <3> HIDE DEF q, u
    <3>2. /\ q.tcb \in TcbRec /\ Steady(t1, q.tcb) /\ q.out \in Seq(Segment)
          /\ q.tcb.nxt = t1.nxt /\ q.tcb.max = t1.max /\ q.tcb.fin_seq = t1.fin_seq
      BY <1>4, <3>1, SendSynKeeps
    <3>3. u \in TcbRec /\ u.rto = again /\ Same(q.tcb, u) /\ u.retries = q.tcb.retries
          /\ u.close_dl = q.tcb.close_dl
      BY <2>3, <3>2
    <3>4. Same(t, u) /\ u.retries = tries
      BY <1>5, <3>2, <3>3 DEF Same, Steady
    <3>5. u.rto
      <4>1. t.una = t.iss /\ t.max = Plus(t.iss, 1) /\ t.iss \in Seq32
        BY <1>1, <2>4, FieldTypes DEF Core, SndSyn
      <4>2. t.una # t.max
        BY <4>1, SynOpen
      <4> QED BY <3>2, <3>3, <1>5, <4>2 DEF Same, Steady
    <3>6. DeadlineOK(u)
      BY <1>1, <2>4, <3>4, <3>5 DEF Core, DeadlineOK, SynState, Same
    <3>7. Core(u) /\ Settled(u) /\ Timed(u)
      BY <1>1, <2>1, <3>3, <3>4, <3>5, <3>6, CoreSame
    <3> QED BY <2>2, <3>2, <3>4, <3>7, SameKept, InputSelf DEF Good, Done, Same, r
  <2>5. CASE can_send_data(t)
    <3> DEFINE v == [t1 EXCEPT !.nxt = t1.una]
    <3>1. synchronized(t) /\ ~SynState(t) /\ t.state \notin {"FinWait2", "TimeWait"}
      BY <1>1, <2>5, NotBoth
    <3>2. t1.una \in Seq32
      BY <1>4, FieldTypes
    <3>3. v \in TcbRec
      BY <1>4, <3>2 DEF TcbRec
    <3>4. /\ v.nxt = v.una /\ v.state = t.state /\ v.una = t.una /\ v.max = t.max /\ v.iss = t.iss
          /\ v.tx = t.tx /\ v.fin_pending = t.fin_pending /\ v.fin_seq = t.fin_seq /\ v.fin_acked = t.fin_acked
          /\ v.rcv_nxt = t.rcv_nxt /\ v.rx = t.rx /\ v.ooo = t.ooo
          /\ v.fin_received = t.fin_received /\ v.discard_rx = t.discard_rx
          /\ v.user_open = t.user_open /\ v.error = t.error /\ v.retries = tries /\ v.close_dl = t.close_dl
      BY <1>4, <1>5 DEF TcbRec, Same
    <3>5. q = output(v, FALSE, TRUE)
      BY <1>5, <2>5, <3>1 DEF Resend, SynState, Same, can_send_data
    <3> HIDE DEF v
    <3>7. Core(v) /\ Settled(v)
      BY <1>1, <2>1, <3>1, <3>3, <3>4, Rewound
    <3>8. Outputs(v, q)
      BY <3>4, <3>5, <3>7, OutputPlain, Zenon
    <3> HIDE DEF q, u
    <3>9. q.tcb \in TcbRec /\ Core(q.tcb) /\ Settled(q.tcb) /\ Timed(q.tcb) /\ Steady(v, q.tcb)
          /\ q.out \in Seq(Segment)
      BY <3>8 DEF Outputs, Core
    <3>10. u \in TcbRec /\ u.rto = again /\ Same(q.tcb, u) /\ u.retries = q.tcb.retries
           /\ u.close_dl = q.tcb.close_dl
      BY <2>3, <3>9
    <3>11. u.retries <= MaxRetries /\ u.state = t.state
      BY <2>1, <3>4, <3>9, <3>10 DEF Same, Steady
    <3>12. DeadlineOK(u)
      BY <3>1, <3>9, <3>10, <3>11 DEF Core, DeadlineOK, SynState, Same
    <3>13. Core(u) /\ Settled(u) /\ Timed(u)
      BY <3>9, <3>10, <3>11, <3>12, CoreSame
    <3>14. /\ u.rcv_nxt = t.rcv_nxt /\ u.una = t.una /\ u.fin_received = t.fin_received
           /\ u.error = t.error /\ u.user_open = t.user_open
      BY <3>4, <3>9, <3>10 DEF Same, Steady
    <3>15. Kept(t, u)
      <4>1. synchronized(t) => u.state \notin {"SynSent", "SynReceived"}
        BY <3>11 DEF synchronized
      <4> QED BY <3>11, <3>14, <4>1, KeptSame
    <3> QED BY <2>2, <3>9, <3>11, <3>13, <3>14, <3>15, InputSelf DEF Good, Done, r
  <2>6. CASE ~SynState(t) /\ ~can_send_data(t)
    <3>1. q = Quiet(t1)
      BY <1>5, <2>6 DEF Resend, SynState, Same, can_send_data
    <3>2. q.tcb = t1 /\ q.out \in Seq(Segment)
      BY <3>1 DEF Quiet, Step
    <3> HIDE DEF q, u
    <3>3. u \in TcbRec /\ Same(t1, u) /\ u.retries = t1.retries /\ u.close_dl = t1.close_dl
      BY <1>4, <2>3, <3>2
    <3>4. Same(t, u) /\ u.retries <= MaxRetries
      BY <1>5, <2>1, <3>3 DEF Same
    <3>5. DeadlineOK(u)
      BY <1>1, <1>5, <2>6, <3>3, <3>4 DEF Core, DeadlineOK, SynState, Same
    <3>6. Core(u) /\ Settled(u)
      BY <1>1, <3>3, <3>4, <3>5, CoreSame
    <3>7. Timed(u)
      BY <2>6, <3>4 DEF Timed, can_send_data, Same
    <3> QED BY <2>2, <3>2, <3>4, <3>6, <3>7, SameKept, InputSelf DEF Good, Done, Same, r
  <2> QED BY <2>4, <2>5, <2>6
<1> QED BY <1>7, <1>8

----------------------------------------------------------------------------
(* Reassembly. *)

\* A set of natural numbers that is not empty has a least element.
LEMMA LeastExists ==
    ASSUME NEW T \in SUBSET Nat, T # {}
    PROVE  \E x \in T : \A y \in T : x <= y
<1> DEFINE R == OpToRel(<, Nat)
<1>1. PICK x \in T : \A y \in T : ~(<<y, x>> \in R)
  <2>1. IsWellFoundedOn(R, Nat)
    BY NatLessThanWellFounded
  <2> HIDE DEF R
  <2> QED BY <2>1, WFMin
<1>2. \A y \in T : y \in Nat /\ x \in Nat /\ ~(y < x)
  BY <1>1 DEF OpToRel
<1> QED BY <1>2

\* A set that has 0 and the successor of each of its members below L has all up to L.
LEMMA UpTo ==
    ASSUME NEW L \in Nat, NEW T, 0 \in T, \A n \in 0 .. L - 1 : n \in T => n + 1 \in T
    PROVE  \A n \in 0 .. L : n \in T
<1> DEFINE M == (0 .. L) \ T
<1> SUFFICES ASSUME M # {} PROVE FALSE
  OBVIOUS
<1>1. PICK x \in M : \A y \in M : x <= y
  <2>1. M \in SUBSET Nat
    OBVIOUS
  <2> HIDE DEF M
  <2> QED BY <2>1, LeastExists
<1>2. x # 0 /\ x \in 1 .. L
  BY <1>1
<1>3. x - 1 \in 0 .. L - 1 /\ x - 1 \notin M
  BY <1>1, <1>2
<1>4. x - 1 \in T
  BY <1>3
<1>5. (x - 1) + 1 \in T /\ (x - 1) + 1 = x
  BY <1>2, <1>3, <1>4
<1> QED BY <1>1, <1>5

\* u is t with some of what t held, and perhaps more, taken into the receive buffer: in the
\* frame of t's rcv_nxt, nothing lies beyond t's window.
Beside(t, u) ==
    /\ u.state = t.state /\ u.iss = t.iss /\ u.una = t.una /\ u.nxt = t.nxt /\ u.max = t.max
    /\ u.wnd = t.wnd /\ u.tx = t.tx /\ u.fin_pending = t.fin_pending /\ u.fin_seq = t.fin_seq
    /\ u.fin_acked = t.fin_acked /\ u.rx_fin_seq = t.rx_fin_seq
    /\ u.fin_received = t.fin_received /\ u.discard_rx = t.discard_rx
    /\ u.rto = t.rto /\ u.retries = t.retries /\ u.close_dl = t.close_dl
    /\ u.user_open = t.user_open /\ u.error = t.error
Ahead(t, u) == Minus(u.rcv_nxt, t.rcv_nxt)
Filling(t, u) ==
    /\ u \in TcbRec /\ Beside(t, u)
    /\ Ahead(t, u) <= rcv_wnd(t)
    /\ \A i \in DOMAIN u.ooo :
          Minus(u.ooo[i].seq, t.rcv_nxt) + Len(u.ooo[i].data) <= rcv_wnd(t)
    /\ t.discard_rx => u.rx = t.rx
    /\ ~t.discard_rx => Len(u.rx) = Len(t.rx) + Ahead(t, u)
Ready(u) == {i \in DOMAIN u.ooo : SeqLe(u.ooo[i].seq, u.rcv_nxt)}

\* push_rx: data that fits goes into the buffer and moves rcv_nxt by its length.
LEMMA PushFills ==
    ASSUME NEW t \in TcbRec, NEW u, Filling(t, u), NEW data \in Seq(Datum),
           Ahead(t, u) + Len(data) <= rcv_wnd(t)
    PROVE  /\ Filling(t, push_rx(u, data)) /\ push_rx(u, data).ooo = u.ooo
           /\ Ahead(t, push_rx(u, data)) = Ahead(t, u) + Len(data)
<1> DEFINE rx1 == IF u.discard_rx THEN u.rx ELSE u.rx \o data
           nxt1 == Plus(u.rcv_nxt, Len(data))
           v == [u EXCEPT !.rx = rx1, !.rcv_nxt = nxt1]
<1>1. u \in TcbRec
  BY DEF Filling
<1>2. /\ u.rx \in Seq(Datum) /\ Len(u.rx) \in Nat /\ Len(data) \in Nat /\ u.rcv_nxt \in Seq32
      /\ t.rcv_nxt \in Seq32 /\ rcv_wnd(t) \in Nat /\ rcv_wnd(t) <= RxCap /\ Len(t.rx) \in Nat
  <2>1. rcv_wnd(t) \in Window /\ Len(data) \in Nat
    BY FieldTypes, LenProperties
  <2>2. rcv_wnd(t) \in Nat /\ rcv_wnd(t) <= RxCap
    BY <2>1, SpaceFacts DEF Window
  <2> QED BY <1>1, <2>1, <2>2, FieldTypes
<1>3. Ahead(t, u) \in Nat
  <2>1. Minus(u.rcv_nxt, t.rcv_nxt) \in Seq32
    BY <1>2, MinusFrom
  <2> QED BY <2>1, SpaceFacts DEF Seq32, Ahead
<1>4. Len(data) \in 0 .. SeqSpace
  <2>1. Len(data) <= rcv_wnd(t)
    BY <1>2, <1>3
  <2> QED BY <1>2, <2>1, SpaceFacts
<1>5. nxt1 \in Seq32 /\ Minus(nxt1, t.rcv_nxt) = Ahead(t, u) + Len(data)
  <2>1. /\ nxt1 \in Seq32
        /\ Minus(nxt1, t.rcv_nxt) = IF Minus(u.rcv_nxt, t.rcv_nxt) + Len(data) < SeqSpace
                                    THEN Minus(u.rcv_nxt, t.rcv_nxt) + Len(data)
                                    ELSE Minus(u.rcv_nxt, t.rcv_nxt) + Len(data) - SeqSpace
    BY <1>2, <1>4, PlusFrom
  <2> HIDE DEF nxt1
  <2> QED BY <1>2, <1>3, <2>1, SpaceFacts DEF Ahead
<1>6. rx1 \in Seq(Datum) /\ (u.discard_rx => rx1 = u.rx) /\ (~u.discard_rx => Len(rx1) = Len(u.rx) + Len(data))
  BY <1>2, ConcatProperties
<1>7. push_rx(u, data) = v
  BY DEF push_rx
<1> HIDE DEF rx1, nxt1
<1>8. v \in TcbRec /\ v.rx = rx1 /\ v.rcv_nxt = nxt1 /\ v.ooo = u.ooo /\ Beside(u, v)
  BY <1>1, <1>5, <1>6 DEF TcbRec, Beside
<1> HIDE DEF v
<1>9. Beside(t, v)
  BY <1>8 DEF Filling, Beside
<1>10. Ahead(t, v) = Ahead(t, u) + Len(data)
  BY <1>5, <1>8 DEF Ahead
<1>11. ~t.discard_rx => Len(v.rx) = Len(t.rx) + Ahead(t, v)
  <2> SUFFICES ASSUME ~t.discard_rx PROVE Len(v.rx) = Len(t.rx) + Ahead(t, v)
    OBVIOUS
  <2>1. ~u.discard_rx /\ Len(u.rx) = Len(t.rx) + Ahead(t, u)
    BY DEF Filling, Beside
  <2> QED BY <1>2, <1>3, <1>6, <1>8, <1>10, <2>1
<1>12. t.discard_rx => v.rx = t.rx
  BY <1>6, <1>8 DEF Filling, Beside
<1> QED BY <1>7, <1>8, <1>9, <1>10, <1>11, <1>12 DEF Filling

\* What swap_remove leaves was there before.
LEMMA SwapRemoveKeeps ==
    ASSUME NEW S, NEW s \in Seq(S), NEW i \in DOMAIN s
    PROVE  /\ SwapRemove(s, i) \in Seq(S) /\ Len(SwapRemove(s, i)) = Len(s) - 1
           /\ \A j \in DOMAIN SwapRemove(s, i) : \E k \in DOMAIN s : SwapRemove(s, i)[j] = s[k]
<1> DEFINE w == [s EXCEPT ![i] = s[Len(s)]]
           n == Len(s) - 1
<1>1. Len(s) \in Nat /\ DOMAIN s = 1 .. Len(s) /\ i \in 1 .. Len(s)
  BY LenProperties
<1>2. Len(s) \in 1 .. Len(s) /\ n \in Nat
  BY <1>1
<1>3. \A k \in 1 .. Len(s) : w[k] = (IF k = i THEN s[Len(s)] ELSE s[k])
  BY <1>1
<1>4. \A k \in 1 .. n : w[k] \in S
  BY <1>1, <1>2, <1>3, ElementOfSeq
<1>5. SwapRemove(s, i) = SubSeq(w, 1, n)
  BY DEF SwapRemove
<1> HIDE DEF w
<1>6. /\ SubSeq(w, 1, n) \in Seq(S)
      /\ Len(SubSeq(w, 1, n)) = IF 1 <= n THEN n - 1 + 1 ELSE 0
      /\ \A k \in 1 .. n - 1 + 1 : SubSeq(w, 1, n)[k] = w[1 + k - 1]
  <2>1. 1 \in Int /\ n \in Int
    BY <1>2
  <2> HIDE DEF n
  <2> QED BY <1>4, <2>1, SubSeqProperties
<1>7. Len(SwapRemove(s, i)) = n
  <2>1. n \in Nat
    BY <1>2
  <2> HIDE DEF n
  <2>2. (IF 1 <= n THEN n - 1 + 1 ELSE 0) = n
    BY <2>1
  <2> QED BY <1>5, <1>6, <2>2
<1>8. DOMAIN SwapRemove(s, i) = 1 .. n
  <2> HIDE DEF n
  <2> QED BY <1>5, <1>6, <1>7, LenProperties
<1>9. ASSUME NEW j \in 1 .. n PROVE \E k \in DOMAIN s : SwapRemove(s, i)[j] = s[k]
  <2>1. j \in 1 .. n - 1 + 1 /\ 1 + j - 1 = j /\ j \in 1 .. Len(s)
    BY <1>1, <1>2
  <2>2. SwapRemove(s, i)[j] = w[j]
    BY <1>5, <1>6, <2>1
  <2> QED BY <1>1, <1>2, <1>3, <2>1, <2>2
<1> QED BY <1>5, <1>6, <1>7, <1>8, <1>9

\* A held segment taken out of the list leaves the others as they are.
LEMMA RemoveFills ==
    ASSUME NEW t \in TcbRec, NEW u, Filling(t, u), NEW i \in DOMAIN u.ooo
    PROVE  LET v == [u EXCEPT !.ooo = SwapRemove(@, i)]
           IN  /\ Filling(t, v) /\ Len(v.ooo) = Len(u.ooo) - 1
               /\ v.rcv_nxt = u.rcv_nxt /\ v.discard_rx = u.discard_rx
<1> DEFINE held == SwapRemove(u.ooo, i)
           v == [u EXCEPT !.ooo = held]
<1>1. u \in TcbRec /\ u.ooo \in Seq(HeldSeg)
  BY FieldTypes DEF Filling
<1>2. /\ held \in Seq(HeldSeg) /\ Len(held) = Len(u.ooo) - 1
      /\ \A j \in DOMAIN held : \E k \in DOMAIN u.ooo : held[j] = u.ooo[k]
  BY <1>1, SwapRemoveKeeps
<1> HIDE DEF held
<1>3. v \in TcbRec /\ v.ooo = held /\ Beside(u, v) /\ v.rcv_nxt = u.rcv_nxt /\ v.rx = u.rx
  BY <1>1, <1>2 DEF TcbRec, Beside
<1> HIDE DEF v
<1>4. Beside(t, v) /\ Ahead(t, v) = Ahead(t, u) /\ v.discard_rx = u.discard_rx
  BY <1>3 DEF Filling, Beside, Ahead
<1>5. \A j \in DOMAIN v.ooo : Minus(v.ooo[j].seq, t.rcv_nxt) + Len(v.ooo[j].data) <= rcv_wnd(t)
  BY <1>2, <1>3 DEF Filling
<1>6. Filling(t, v)
  BY <1>3, <1>4, <1>5 DEF Filling
<1> QED BY <1>2, <1>3, <1>4, <1>6 DEF v, held

\* Where a held segment and rcv_nxt are, seen from t.
LEMMA FillingPlaces ==
    ASSUME NEW t \in TcbRec, NEW u, Filling(t, u), NEW i \in DOMAIN u.ooo
    PROVE  LET s == Minus(u.ooo[i].seq, t.rcv_nxt)
           IN  /\ u.ooo[i].data \in Seq(Datum) /\ Len(u.ooo[i].data) \in Nat /\ s \in Nat
               /\ Ahead(t, u) \in Nat /\ s + Len(u.ooo[i].data) <= rcv_wnd(t)
               /\ rcv_wnd(t) \in Nat /\ rcv_wnd(t) <= RxCap
               /\ SeqLe(u.ooo[i].seq, u.rcv_nxt) <=> s <= Ahead(t, u)
               /\ s <= Ahead(t, u) => Minus(u.rcv_nxt, u.ooo[i].seq) = Ahead(t, u) - s
               /\ s > Ahead(t, u) => Minus(u.ooo[i].seq, u.rcv_nxt) = s - Ahead(t, u)
<1> DEFINE q == u.ooo[i].seq
           s == Minus(q, t.rcv_nxt)
<1>1. u \in TcbRec /\ u.ooo \in Seq(HeldSeg) /\ u.rcv_nxt \in Seq32 /\ t.rcv_nxt \in Seq32
  BY FieldTypes DEF Filling
<1>2. u.ooo[i] \in HeldSeg
  BY <1>1, ElementOfSeq, LenProperties
<1>3. u.ooo[i].data \in Seq(Datum) /\ Len(u.ooo[i].data) \in Nat /\ q \in Seq32
  BY <1>2, LenProperties DEF HeldSeg
<1>4. s + Len(u.ooo[i].data) <= rcv_wnd(t) /\ Ahead(t, u) <= rcv_wnd(t)
  BY DEF Filling
<1> HIDE DEF q
<1>5. s \in Nat /\ Ahead(t, u) \in Nat
  <2>1. s \in Seq32 /\ Ahead(t, u) \in Seq32
    BY <1>1, <1>3, MinusFrom DEF Ahead
  <2> QED BY <2>1, SpaceFacts DEF Seq32
<1>6. rcv_wnd(t) \in Nat /\ rcv_wnd(t) <= RxCap
  <2>1. rcv_wnd(t) \in Window
    BY FieldTypes
  <2> QED BY <2>1, SpaceFacts DEF Window
<1>7. q = u.rcv_nxt <=> s = Ahead(t, u)
  BY <1>1, <1>3, MinusFrom DEF Ahead
<1>8. SeqLt(q, u.rcv_nxt) <=> \/ s >= Ahead(t, u) + Half
                              \/ s < Ahead(t, u) /\ Ahead(t, u) <= s + Half
  BY <1>1, <1>3, SeqLtFrom DEF Ahead
<1>9. /\ Minus(u.rcv_nxt, q) = IF Ahead(t, u) >= s THEN Ahead(t, u) - s ELSE Ahead(t, u) - s + SeqSpace
      /\ Minus(q, u.rcv_nxt) = IF s >= Ahead(t, u) THEN s - Ahead(t, u) ELSE s - Ahead(t, u) + SeqSpace
  BY <1>1, <1>3, MinusFrom DEF Ahead
<1> HIDE DEF s
<1>10. s <= RxCap /\ Ahead(t, u) <= RxCap
  BY <1>3, <1>4, <1>5, <1>6, SpaceFacts
<1>11. SeqLe(q, u.rcv_nxt) <=> s <= Ahead(t, u)
  BY <1>5, <1>7, <1>8, <1>10, SpaceFacts DEF SeqLe
<1>12. /\ s <= Ahead(t, u) => Minus(u.rcv_nxt, q) = Ahead(t, u) - s
       /\ s > Ahead(t, u) => Minus(q, u.rcv_nxt) = s - Ahead(t, u)
  BY <1>5, <1>9
<1> QED BY <1>3, <1>4, <1>5, <1>6, <1>11, <1>12 DEF s, q

\* A round of drain_ooo keeps to the window and takes one segment off the list.
LEMMA DrainOneFills ==
    ASSUME NEW t \in TcbRec, NEW u, Filling(t, u)
    PROVE  /\ Filling(t, DrainOne(u))
           /\ Ready(u) = {} => DrainOne(u) = u
           /\ Ready(u) # {} => Len(DrainOne(u).ooo) = Len(u.ooo) - 1
<1>1. CASE Ready(u) = {}
  BY <1>1 DEF DrainOne, Ready
<1>2. CASE Ready(u) # {}
  <2> DEFINE i == CHOOSE j \in Ready(u) : \A k \in Ready(u) : j <= k
             skip == Minus(u.rcv_nxt, u.ooo[i].seq)
             v == [u EXCEPT !.ooo = SwapRemove(@, i)]
             rest == SubSeq(u.ooo[i].data, skip + 1, Len(u.ooo[i].data))
  <2>1. u.ooo \in Seq(HeldSeg)
    BY FieldTypes DEF Filling
  <2>2. i \in Ready(u)
    <3>1. Ready(u) \in SUBSET Nat
      BY <2>1, LenProperties DEF Ready
    <3>2. \E j \in Ready(u) : \A k \in Ready(u) : j <= k
      BY <1>2, <3>1, LeastExists
    <3> QED BY <3>2
  <2>3. DrainOne(u) = IF skip < Len(u.ooo[i].data) THEN push_rx(v, rest) ELSE v
    BY <1>2 DEF DrainOne, Ready
  <2> HIDE DEF i
  <2>4. i \in DOMAIN u.ooo /\ SeqLe(u.ooo[i].seq, u.rcv_nxt)
    BY <2>2 DEF Ready
  <2> DEFINE d == u.ooo[i].data
             s == Minus(u.ooo[i].seq, t.rcv_nxt)
  <2>5. /\ d \in Seq(Datum) /\ Len(d) \in Nat /\ s \in Nat /\ Ahead(t, u) \in Nat
        /\ s + Len(d) <= rcv_wnd(t) /\ rcv_wnd(t) \in Nat
        /\ s <= Ahead(t, u) /\ skip = Ahead(t, u) - s
    BY <2>4, FillingPlaces
  <2>6. Filling(t, v) /\ Len(v.ooo) = Len(u.ooo) - 1 /\ v.rcv_nxt = u.rcv_nxt
    BY <2>4, RemoveFills
  <2>7. CASE ~(skip < Len(d))
    BY <1>2, <2>3, <2>6, <2>7
  <2>8. CASE skip < Len(d)
    <3> HIDE DEF v, s, d, skip
    <3>1. rest \in Seq(Datum) /\ Len(rest) = Len(d) - skip
      <4>1. skip \in Nat /\ skip + 1 \in Int /\ Len(d) \in Int /\ skip + 1 >= 1 /\ Len(d) <= Len(d)
            /\ skip + 1 <= Len(d)
        BY <2>5, <2>8
      <4>2. rest = SubSeq(d, skip + 1, Len(d))
        BY DEF d
      <4> HIDE DEF rest
      <4>3. rest \in Seq(Datum) /\ Len(rest) = Len(d) - (skip + 1) + 1
        BY <2>5, <4>1, <4>2, SubSeqType
      <4> QED BY <2>5, <4>1, <4>3
    <3> HIDE DEF rest
    <3>2. Ahead(t, v) = Ahead(t, u)
      BY <2>6 DEF Ahead
    <3>3. Ahead(t, v) + Len(rest) <= rcv_wnd(t)
      BY <2>5, <3>1, <3>2
    <3>4. Filling(t, push_rx(v, rest)) /\ push_rx(v, rest).ooo = v.ooo
      BY <2>6, <3>1, <3>3, PushFills
    <3>5. DrainOne(u) = push_rx(v, rest)
      BY <2>3, <2>8 DEF d
    <3> QED BY <1>2, <2>6, <3>4, <3>5
  <2> QED BY <2>7, <2>8
<1> QED BY <1>1, <1>2

\* The rounds of the loop, as a function of their number.
Rounds(u, f, n) == f = [k \in 0 .. n |-> IF k = 0 THEN u ELSE DrainOne(f[k - 1])]

\* There is a function that counts the rounds of the loop.
LEMMA RoundsExist == ASSUME NEW u, NEW L \in Nat PROVE \E f : Rounds(u, f, L)
<1> DEFINE T == {n \in Nat : \E f : Rounds(u, f, n)}
<1>1. 0 \in T
  <2> DEFINE f == [k \in 0 .. 0 |-> u]
  <2>1. Rounds(u, f, 0)
    BY DEF Rounds
  <2> QED BY <2>1
<1>2. ASSUME NEW n \in 0 .. L - 1, n \in T PROVE n + 1 \in T
  <2>1. PICK f : Rounds(u, f, n)
    BY <1>2
  <2> DEFINE g == [k \in 0 .. n + 1 |-> IF k = n + 1 THEN DrainOne(f[n]) ELSE f[k]]
             h == [k \in 0 .. n + 1 |-> IF k = 0 THEN u ELSE DrainOne(g[k - 1])]
  <2>2. n \in Nat
    OBVIOUS
  <2>3. ASSUME NEW k \in 0 .. n + 1 PROVE g[k] = h[k]
    <3>1. CASE k = n + 1
      <4>1. k - 1 = n /\ k # 0 /\ n \in 0 .. n + 1 /\ n # n + 1
        BY <2>2, <3>1
      <4>2. g[n] = f[n]
        BY <4>1
      <4> QED BY <3>1, <4>1, <4>2
    <3>2. CASE k # n + 1 /\ k # 0
      <4>1. k \in 0 .. n /\ k - 1 \in 0 .. n + 1 /\ k - 1 # n + 1
        BY <2>2, <3>2
      <4>2. g[k] = f[k] /\ g[k - 1] = f[k - 1]
        BY <3>2, <4>1
      <4>3. f[k] = DrainOne(f[k - 1])
        BY <2>1, <3>2, <4>1 DEF Rounds
      <4> QED BY <3>2, <4>2, <4>3
    <3>3. CASE k # n + 1 /\ k = 0
      <4>1. f[0] = u /\ 0 \in 0 .. n + 1 /\ 0 # n + 1
        BY <2>1, <2>2 DEF Rounds
      <4> QED BY <3>3, <4>1
    <3> QED BY <3>1, <3>2, <3>3
  <2>4. g = h
    <3> HIDE DEF DrainOne
    <3> QED BY <2>3
  <2>5. Rounds(u, g, n + 1)
    BY <2>4 DEF Rounds
  <2> HIDE DEF g
  <2> QED BY <2>2, <2>5
<1> HIDE DEF T
<1>3. \A n \in 0 .. L : n \in T
  BY <1>1, <1>2, UpTo
<1>4. L \in T
  BY <1>3
<1> QED BY <1>4 DEF T

\* The loop ends with nothing left to take: one round per held segment is enough.
LEMMA DrainFills ==
    ASSUME NEW t \in TcbRec, NEW u, Filling(t, u)
    PROVE  Filling(t, drain_ooo(u)) /\ Ready(drain_ooo(u)) = {} /\ Len(drain_ooo(u).ooo) <= Len(u.ooo)
<1> DEFINE L == Len(u.ooo)
           f == CHOOSE g : Rounds(u, g, L)
<1>1. L \in Nat
  BY FieldTypes DEF Filling
<1>2. drain_ooo(u) = f[L]
  BY DEF drain_ooo, Rounds
<1>3. Rounds(u, f, L)
  BY <1>1, RoundsExist
<1> HIDE DEF f
<1> DEFINE At(n) == /\ Filling(t, f[n]) /\ Len(f[n].ooo) <= L
                    /\ Ready(f[n]) = {} \/ Len(f[n].ooo) = L - n
           T == {n \in 0 .. L : At(n)}
<1>4. 0 \in T
  <2>1. f[0] = u /\ 0 \in 0 .. L /\ L <= L /\ L - 0 = L
    BY <1>1, <1>3 DEF Rounds
  <2>2. At(0)
    BY <2>1
  <2> QED BY <2>1, <2>2
<1>5. ASSUME NEW n \in 0 .. L - 1, n \in T PROVE n + 1 \in T
  <2>1. n + 1 \in 0 .. L /\ n + 1 # 0 /\ (n + 1) - 1 = n
    BY <1>1
  <2>2. f[n + 1] = DrainOne(f[n])
    BY <1>3, <2>1 DEF Rounds
  <2> DEFINE a == f[n]
             b == f[n + 1]
  <2>3. Filling(t, a) /\ Len(a.ooo) <= L /\ (Ready(a) = {} \/ Len(a.ooo) = L - n)
    BY <1>5
  <2>4. b = DrainOne(a)
    BY <2>2
  <2>5. Len(a.ooo) \in Nat
    BY <2>3, FieldTypes DEF Filling
  <2> HIDE DEF a, b
  <2>6. Filling(t, b) /\ (Ready(a) = {} => b = a) /\ (Ready(a) # {} => Len(b.ooo) = Len(a.ooo) - 1)
    BY <2>3, <2>4, DrainOneFills
  <2>7. Len(b.ooo) <= L /\ (Ready(b) = {} \/ Len(b.ooo) = L - (n + 1))
    BY <1>1, <2>3, <2>5, <2>6
  <2>8. At(n + 1)
    BY <2>6, <2>7 DEF b
  <2> HIDE DEF At
  <2> QED BY <2>1, <2>8
<1>6. At(L)
  <2>1. \A n \in 0 .. L : n \in T
    <3> HIDE DEF T, L
    <3> QED BY <1>1, <1>4, <1>5, UpTo
  <2>2. L \in 0 .. L
    BY <1>1
  <2> QED BY <2>1, <2>2
<1>7. Ready(f[L]) = {}
  <2>1. CASE Len(f[L].ooo) = L - L
    <3>1. f[L].ooo \in Seq(HeldSeg)
      BY <1>6, FieldTypes DEF Filling
    <3>2. DOMAIN f[L].ooo = 1 .. Len(f[L].ooo) /\ Len(f[L].ooo) = 0
      BY <1>1, <2>1, <3>1, LenProperties
    <3> QED BY <3>2 DEF Ready
  <2> QED BY <1>6, <2>1
<1> QED BY <1>2, <1>6, <1>7

\* The window is the free part of the buffer, or all of it when data is discarded.
LEMMA WindowIs ==
    ASSUME NEW t \in TcbRec, Len(t.rx) <= RxCap
    PROVE  /\ t.discard_rx => rcv_wnd(t) = RxCap
           /\ ~t.discard_rx => rcv_wnd(t) = RxCap - Len(t.rx)
           /\ rcv_wnd(t) \in Nat /\ rcv_wnd(t) <= RxCap /\ Len(t.rx) \in Nat
<1>1. Len(t.rx) \in Nat
  BY FieldTypes
<1>2. Least(Len(t.rx), RxCap) = Len(t.rx)
  BY <1>1, SpaceFacts DEF Least
<1>3. /\ t.discard_rx => rcv_wnd(t) = RxCap
      /\ ~t.discard_rx => rcv_wnd(t) = RxCap - Len(t.rx)
  BY <1>2 DEF rcv_wnd
<1>4. rcv_wnd(t) \in Window
  BY FieldTypes
<1> QED BY <1>1, <1>3, <1>4, SpaceFacts DEF Window

\* When no held segment is ready, the receive side is in order again.
LEMMA FilledOK ==
    ASSUME NEW t \in TcbRec, Len(t.rx) <= RxCap, Receiving(t), NEW u, Filling(t, u), Ready(u) = {}
    PROVE  RcvOK(u) /\ Len(u.rx) <= RxCap
<1>1. u \in TcbRec /\ u.discard_rx = t.discard_rx /\ u.state = t.state
  BY DEF Filling, Beside
<1>2. Ahead(t, u) \in Nat /\ Ahead(t, u) <= rcv_wnd(t)
  <2>1. u.rcv_nxt \in Seq32 /\ t.rcv_nxt \in Seq32
    BY <1>1, FieldTypes
  <2>2. Ahead(t, u) \in Seq32
    BY <2>1, MinusFrom DEF Ahead
  <2> QED BY <2>2, SpaceFacts DEF Filling, Seq32
<1>3. /\ t.discard_rx => rcv_wnd(t) = RxCap
      /\ ~t.discard_rx => rcv_wnd(t) = RxCap - Len(t.rx)
      /\ rcv_wnd(t) \in Nat /\ Len(t.rx) \in Nat
  BY WindowIs
<1>4. Len(u.rx) <= RxCap /\ (~t.discard_rx => Len(u.rx) = Len(t.rx) + Ahead(t, u))
  BY <1>2, <1>3, SpaceFacts DEF Filling
<1>5. /\ u.discard_rx => rcv_wnd(u) = RxCap
      /\ ~u.discard_rx => rcv_wnd(u) = RxCap - Len(u.rx)
      /\ rcv_wnd(u) \in Nat
  BY <1>1, <1>4, WindowIs
<1>6. rcv_wnd(u) >= rcv_wnd(t) - Ahead(t, u)
  BY <1>1, <1>2, <1>3, <1>4, <1>5, SpaceFacts
<1>7. ASSUME NEW i \in DOMAIN u.ooo
      PROVE  /\ Minus(u.ooo[i].seq, u.rcv_nxt) >= 1
             /\ Minus(u.ooo[i].seq, u.rcv_nxt) + Len(u.ooo[i].data) <= rcv_wnd(u)
  <2> DEFINE s == Minus(u.ooo[i].seq, t.rcv_nxt)
  <2>1. /\ Len(u.ooo[i].data) \in Nat /\ s \in Nat /\ s + Len(u.ooo[i].data) <= rcv_wnd(t)
        /\ SeqLe(u.ooo[i].seq, u.rcv_nxt) <=> s <= Ahead(t, u)
        /\ s > Ahead(t, u) => Minus(u.ooo[i].seq, u.rcv_nxt) = s - Ahead(t, u)
    BY <1>7, FillingPlaces
  <2>2. ~SeqLe(u.ooo[i].seq, u.rcv_nxt)
    BY <1>7 DEF Ready
  <2> HIDE DEF s
  <2> QED BY <1>2, <1>3, <1>5, <1>6, <2>1, <2>2
<1> QED BY <1>1, <1>4, <1>7 DEF RcvOK, Receiving

\* What accept_data leaves of the receive side.
Accepted(t, u) ==
    /\ u \in TcbRec /\ Beside(t, u) /\ RcvOK(u) /\ Len(u.rx) <= RxCap /\ Len(u.ooo) <= MaxOoo
    /\ Ahead(t, u) \in Nat /\ Ahead(t, u) <= rcv_wnd(t)

\* A segment without new text leaves the receive side in order.
LEMMA AcceptedSelf ==
    ASSUME NEW t \in TcbRec, Sized(t), RcvOK(t)
    PROVE  Accepted(t, t) /\ Ahead(t, t) = 0
<1>1. t.rcv_nxt \in Seq32 /\ rcv_wnd(t) \in Window
  BY FieldTypes
<1>2. Minus(t.rcv_nxt, t.rcv_nxt) = 0
  BY <1>1, MinusFrom
<1>3. 0 <= rcv_wnd(t)
  BY <1>1, SpaceFacts DEF Window
<1>4. Ahead(t, t) = 0
  BY <1>2 DEF Ahead
<1> QED BY <1>3, <1>4 DEF Accepted, Beside, Sized

\* Reassembly begins from a receive side in order.
LEMMA FillingSelf ==
    ASSUME NEW t \in TcbRec, Sized(t), RcvOK(t)
    PROVE  Filling(t, t)
<1>1. Ahead(t, t) = 0 /\ Len(t.rx) \in Nat /\ rcv_wnd(t) \in Window
  BY AcceptedSelf, FieldTypes
<1>2. 0 <= rcv_wnd(t) /\ Len(t.rx) = Len(t.rx) + 0
  BY <1>1, SpaceFacts DEF Window
<1> QED BY <1>1, <1>2 DEF Filling, Beside, RcvOK

\* accept_data: in, before or beyond the window, the receive side stays in order and advances by at most a window.
LEMMA AcceptDataKeeps ==
    ASSUME NEW t \in TcbRec, Sized(t), RcvOK(t), Receiving(t), NEW seq \in Seq32, NEW data \in Seq(Datum)
    PROVE  Accepted(t, accept_data(t, seq, data))
<1> DEFINE skip == IF SeqLt(seq, t.rcv_nxt) THEN Minus(t.rcv_nxt, seq) ELSE 0
           start == IF skip > 0 THEN t.rcv_nxt ELSE seq
           off == Minus(start, t.rcv_nxt)
           room == rcv_wnd(t) - off
           end == Least(Len(data), skip + room)
           part == SubSeq(data, skip + 1, end)
           u == accept_data(t, seq, data)
           held == [t EXCEPT !.ooo = Append(@, [seq |-> start, data |-> part])]
<1>1. /\ t.rcv_nxt \in Seq32 /\ Len(data) \in Nat /\ Len(t.rx) <= RxCap
      /\ rcv_wnd(t) \in Nat /\ rcv_wnd(t) <= RxCap /\ t.ooo \in Seq(HeldSeg) /\ Len(t.ooo) <= MaxOoo
  BY FieldTypes, LenProperties, WindowIs DEF Sized
<1>2. skip \in Nat
  <2>1. Minus(t.rcv_nxt, seq) \in Seq32
    BY <1>1, MinusFrom
  <2> QED BY <2>1, SpaceFacts DEF Seq32
<1>3. start \in Seq32
  BY <1>1
<1>4. off \in Nat /\ (start = t.rcv_nxt <=> off = 0)
  <2> HIDE DEF start
  <2>1. off \in Seq32 /\ Minus(t.rcv_nxt, t.rcv_nxt) = 0
    BY <1>1, <1>3, MinusFrom
  <2>2. off = Minus(t.rcv_nxt, t.rcv_nxt) <=> start = t.rcv_nxt
    BY <1>1, <1>3, MinusFrom
  <2> QED BY <2>1, <2>2, SpaceFacts DEF Seq32
<1>5. start # t.rcv_nxt => skip = 0
  BY <1>2
<1> HIDE DEF skip, start, off
<1>6. CASE skip >= Len(data) \/ room <= 0
  <2>1. u = t
    BY <1>6 DEF accept_data, skip, start, off
  <2> QED BY <2>1, AcceptedSelf
<1>7. CASE ~(skip >= Len(data) \/ room <= 0)
  <2>1. /\ room \in Nat /\ end \in Nat /\ end <= Len(data) /\ end <= skip + room /\ skip + 1 <= end
    <3>1. room \in Nat /\ room >= 1 /\ skip < Len(data)
      BY <1>1, <1>2, <1>4, <1>7
    <3> HIDE DEF room
    <3> QED BY <1>1, <1>2, <3>1 DEF Least
  <2>2. part \in Seq(Datum) /\ Len(part) \in Nat /\ Len(part) <= room
    <3> HIDE DEF end, room
    <3>1. skip + 1 \in Int /\ end \in Int /\ skip + 1 >= 1
      BY <1>2, <2>1
    <3>2. part \in Seq(Datum) /\ Len(part) = end - (skip + 1) + 1
      BY <2>1, <3>1, SubSeqType
    <3> HIDE DEF part
    <3> QED BY <1>2, <2>1, <3>2
  <2>3. \/ start = t.rcv_nxt /\ u = drain_ooo(push_rx(t, part))
        \/ start # t.rcv_nxt /\ (u = t \/ (Len(t.ooo) < MaxOoo /\ u = held))
    BY <1>7 DEF accept_data, skip, start, off
  <2> HIDE DEF part, u, end
  <2>4. CASE start = t.rcv_nxt /\ u = drain_ooo(push_rx(t, part))
    <3> DEFINE v == push_rx(t, part)
    <3>1. Ahead(t, t) = 0 /\ Filling(t, t)
      BY AcceptedSelf, FillingSelf
    <3>2. Ahead(t, t) + Len(part) <= rcv_wnd(t)
      BY <1>1, <1>4, <2>2, <2>4, <3>1
    <3>3. Filling(t, v) /\ v.ooo = t.ooo
      BY <2>2, <3>1, <3>2, PushFills
    <3> HIDE DEF v
    <3>4. Filling(t, u) /\ Ready(u) = {} /\ Len(u.ooo) <= Len(v.ooo)
      BY <2>4, <3>3, DrainFills DEF v
    <3>5. RcvOK(u) /\ Len(u.rx) <= RxCap
      BY <1>1, <3>4, FilledOK
    <3>6. u \in TcbRec /\ Beside(t, u) /\ Ahead(t, u) <= rcv_wnd(t)
      BY <3>4 DEF Filling
    <3>7. Ahead(t, u) \in Nat
      <4>1. u.rcv_nxt \in Seq32
        BY <3>6, FieldTypes
      <4>2. Ahead(t, u) \in Seq32
        BY <1>1, <4>1, MinusFrom DEF Ahead
      <4> QED BY <4>2, SpaceFacts DEF Seq32
    <3>8. Len(u.ooo) <= MaxOoo
      <4>1. Len(u.ooo) \in Nat /\ Len(t.ooo) \in Nat /\ MaxOoo \in Nat
        BY <3>6, FieldTypes, LimitAssumption
      <4> QED BY <1>1, <3>3, <3>4, <4>1
    <3> QED BY <3>5, <3>6, <3>7, <3>8 DEF Accepted, u
  <2>5. CASE u = t
    BY <2>5, AcceptedSelf DEF u
  <2>6. CASE start # t.rcv_nxt /\ Len(t.ooo) < MaxOoo /\ u = held
    <3> DEFINE e == [seq |-> start, data |-> part]
               more == Append(t.ooo, e)
    <3>1. e \in HeldSeg
      BY <1>3, <2>2 DEF HeldSeg
    <3>2. e.seq = start /\ e.data = part
      OBVIOUS
    <3> HIDE DEF e
    <3>3. /\ more \in Seq(HeldSeg) /\ Len(more) = Len(t.ooo) + 1
          /\ \A i \in 1 .. Len(t.ooo) : more[i] = t.ooo[i]
          /\ more[Len(t.ooo) + 1] = e
      BY <1>1, <3>1, AppendProperties
    <3> HIDE DEF more
    <3>4. u \in TcbRec /\ u.ooo = more /\ Beside(t, u) /\ u.rcv_nxt = t.rcv_nxt /\ u.rx = t.rx
      BY <2>6, <3>3 DEF TcbRec, Beside, more, e
    <3>5. rcv_wnd(u) = rcv_wnd(t) /\ Receiving(u)
      BY <3>4 DEF rcv_wnd, Beside, Receiving
    <3>6. ASSUME NEW i \in DOMAIN u.ooo
          PROVE  /\ Minus(u.ooo[i].seq, u.rcv_nxt) >= 1
                 /\ Minus(u.ooo[i].seq, u.rcv_nxt) + Len(u.ooo[i].data) <= rcv_wnd(u)
      <4>1. Len(t.ooo) \in Nat /\ DOMAIN t.ooo = 1 .. Len(t.ooo) /\ DOMAIN u.ooo = 1 .. Len(t.ooo) + 1
        BY <1>1, <3>3, <3>4, LenProperties
      <4>2. CASE i \in 1 .. Len(t.ooo)
        BY <3>3, <3>4, <3>5, <4>1, <4>2 DEF RcvOK
      <4>3. CASE i = Len(t.ooo) + 1
        <5>1. Minus(u.ooo[i].seq, u.rcv_nxt) = off /\ u.ooo[i].data = part
          BY <3>2, <3>3, <3>4, <4>3 DEF off
        <5>2. off >= 1 /\ off + Len(part) <= rcv_wnd(t)
          BY <1>1, <1>4, <2>2, <2>6
        <5> QED BY <3>5, <5>1, <5>2
      <4> QED BY <3>6, <4>1, <4>2, <4>3
    <3>7. RcvOK(u)
      BY <3>5, <3>6 DEF RcvOK
    <3>8. Ahead(t, u) = 0 /\ 0 <= rcv_wnd(t)
      BY <1>1, <3>4, AcceptedSelf DEF Ahead
    <3>9. Len(u.ooo) <= MaxOoo
      <4>1. Len(t.ooo) \in Nat /\ MaxOoo \in Nat
        BY FieldTypes, LimitAssumption
      <4> QED BY <2>6, <3>3, <3>4, <4>1
    <3> QED BY <1>1, <3>4, <3>7, <3>8, <3>9 DEF Accepted, u
  <2> QED BY <2>3, <2>4, <2>5, <2>6
<1> QED BY <1>6, <1>7

----------------------------------------------------------------------------
(* Acknowledgements. *)

\* u differs from t only on its send side.
SendOnly(t, u) ==
    /\ u.state = t.state /\ u.iss = t.iss /\ u.fin_pending = t.fin_pending
    /\ u.rcv_nxt = t.rcv_nxt /\ u.rx = t.rx /\ u.ooo = t.ooo /\ u.rx_fin_seq = t.rx_fin_seq
    /\ u.fin_received = t.fin_received /\ u.discard_rx = t.discard_rx /\ u.close_dl = t.close_dl
    /\ u.user_open = t.user_open /\ u.error = t.error

\* Core survives a change of the send side that leaves it in order.
LEMMA CoreSendOnly ==
    ASSUME NEW t, Core(t), synchronized(t), NEW u \in TcbRec, SendOnly(t, u), SndSync(u),
           Len(u.tx) <= TxCap, u.retries <= MaxRetries, t.fin_acked => u.fin_acked
    PROVE  Core(u) /\ synchronized(u)
<1>1. rcv_wnd(u) = rcv_wnd(t)
  BY DEF rcv_wnd, SendOnly
<1>2. RcvOK(u)
  BY <1>1 DEF Core, RcvOK, Receiving, SendOnly
<1>3. Sized(u)
  <2>1. u.retries \in Nat /\ MaxRetries \in Nat
    BY LimitAssumption DEF TcbRec
  <2>2. u.retries <= MaxRetries + 1
    BY <2>1
  <2> QED BY <2>2 DEF Core, Sized, SendOnly
<1>4. LifeOK(u) /\ u.state # "Closed"
  BY DEF Core, LifeOK, FinState, GotFin, SendOnly
<1>5. synchronized(u) /\ ~SynState(u)
  BY DEF synchronized, SynState, SendOnly
<1>6. DeadlineOK(u)
  BY <1>5 DEF Core, DeadlineOK, SendOnly
<1> QED BY <1>2, <1>3, <1>4, <1>5, <1>6 DEF Core

\* How far snd_nxt and snd_max can be from snd_una.
LEMMA DistancesFrom ==
    ASSUME NEW t, Core(t), synchronized(t)
    PROVE  /\ t \in TcbRec /\ SndSync(t) /\ Top(t) \in Nat /\ Flight(t) \in Nat
           /\ Top(t) <= RxCap + 1 /\ Flight(t) <= Top(t) /\ Top(t) <= Len(t.tx) + 1
<1>1. t \in TcbRec /\ SndSync(t)
  BY DEF Core
<1>2. t.una \in Seq32 /\ t.nxt \in Seq32 /\ t.max \in Seq32 /\ Len(t.tx) \in Nat
  BY <1>1, FieldTypes
<1>3. Top(t) \in Seq32 /\ Flight(t) \in Seq32
  BY <1>2, MinusFrom DEF Top, Flight
<1>4. Top(t) \in Nat /\ Flight(t) \in Nat
  BY <1>3, SpaceFacts DEF Seq32
<1> QED BY <1>1, <1>2, <1>4, SpaceFacts DEF SndSync

\* An acceptable new acknowledgement lies between snd_una and snd_max, also across the wrap.
LEMMA AckPlace ==
    ASSUME NEW t, Core(t), synchronized(t), NEW ack \in Seq32, SeqGt(ack, t.una), ~SeqGt(ack, t.max)
    PROVE  Minus(ack, t.una) \in Nat /\ Minus(ack, t.una) >= 1 /\ Minus(ack, t.una) <= Top(t)
<1>1. t \in TcbRec /\ Top(t) \in Nat /\ Top(t) <= RxCap + 1
  BY DistancesFrom
<1>2. t.una \in Seq32 /\ t.max \in Seq32
  BY <1>1, FieldTypes
<1>3. Minus(ack, t.una) \in Seq32 /\ Minus(t.una, t.una) = 0
  BY <1>2, MinusFrom
<1>4. SeqLt(t.una, ack) <=> \/ Minus(t.una, t.una) >= Minus(ack, t.una) + Half
                            \/ /\ Minus(t.una, t.una) < Minus(ack, t.una)
                               /\ Minus(ack, t.una) <= Minus(t.una, t.una) + Half
  BY <1>2, SeqLtFrom
<1>5. SeqLt(t.max, ack) <=> \/ Minus(t.max, t.una) >= Minus(ack, t.una) + Half
                            \/ /\ Minus(t.max, t.una) < Minus(ack, t.una)
                               /\ Minus(ack, t.una) <= Minus(t.max, t.una) + Half
  BY <1>2, SeqLtFrom
<1>6. Minus(ack, t.una) \in Nat
  BY <1>3, SpaceFacts DEF Seq32
<1> DEFINE d == Minus(ack, t.una)
<1>7. d >= 1 /\ d <= Half
  BY <1>3, <1>4, <1>6, SpaceFacts DEF SeqGt
<1>8. ~(Top(t) < d /\ d <= Top(t) + Half)
  BY <1>5 DEF SeqGt, Top
<1> QED BY <1>1, <1>6, <1>7, <1>8, SpaceFacts

\* A new acknowledgement: what it covers leaves the buffer and the send side stays in order, the FIN included.
LEMMA NewAckKeeps ==
    ASSUME NEW t, Core(t), synchronized(t), NEW ack \in Seq32, SeqGt(ack, t.una), ~SeqGt(ack, t.max)
    PROVE  LET u == NewAck(t, ack)
           IN  Core(u) /\ synchronized(u) /\ SendOnly(t, u) /\ u.una = ack
<1> DEFINE d == Minus(ack, t.una)
           acked == t.fin_acked \/ (t.fin_seq # NoSeq /\ ack = Plus(t.fin_seq, 1))
           cut == Least(d, Len(t.tx))
           tx1 == SubSeq(t.tx, cut + 1, Len(t.tx))
           nxt1 == IF SeqLt(t.nxt, ack) THEN ack ELSE t.nxt
           rto1 == ack # t.max
           u == [t EXCEPT !.fin_acked = acked, !.tx = tx1, !.una = ack, !.nxt = nxt1,
                          !.retries = 0, !.dupacks = 0, !.rto = rto1]
<1>1. /\ t \in TcbRec /\ SndSync(t) /\ Top(t) \in Nat /\ Flight(t) \in Nat
      /\ Top(t) <= RxCap + 1 /\ Flight(t) <= Top(t) /\ Top(t) <= Len(t.tx) + 1
  BY DistancesFrom
<1>2. /\ t.una \in Seq32 /\ t.max \in Seq32 /\ t.nxt \in Seq32 /\ t.fin_seq \in Seq32 \cup {NoSeq}
      /\ t.tx \in Seq(Datum) /\ Len(t.tx) \in Nat
  BY <1>1, FieldTypes
<1>3. d \in Nat /\ d >= 1 /\ d <= Top(t)
  BY AckPlace
<1>4. NewAck(t, ack) = u
  BY DEF NewAck
<1> HIDE DEF d
<1>5. cut \in Nat /\ cut <= Len(t.tx) /\ cut <= d /\ (cut = d \/ (cut = Len(t.tx) /\ d = Len(t.tx) + 1))
  BY <1>1, <1>2, <1>3 DEF Least
<1> HIDE DEF cut
<1>6. tx1 \in Seq(Datum) /\ Len(tx1) = Len(t.tx) - cut
  <2>1. cut + 1 \in Int /\ cut + 1 >= 1 /\ Len(t.tx) \in Int /\ Len(t.tx) <= Len(t.tx)
    BY <1>2, <1>5
  <2>2. tx1 \in Seq(Datum) /\ Len(tx1) = IF cut + 1 <= Len(t.tx) THEN Len(t.tx) - (cut + 1) + 1 ELSE 0
    BY <1>2, <2>1, SubSeqType
  <2> HIDE DEF tx1
  <2> QED BY <1>2, <1>5, <2>2
<1>7. acked \in BOOLEAN /\ nxt1 \in Seq32 /\ rto1 \in BOOLEAN /\ 0 \in Dups
  BY <1>1, <1>2 DEF TcbRec, Dups
<1> HIDE DEF acked, tx1, nxt1, rto1
<1>8. u \in TcbRec
  BY <1>1, <1>6, <1>7 DEF TcbRec
<1>9. /\ SendOnly(t, u) /\ u.una = ack /\ u.fin_acked = acked /\ u.tx = tx1 /\ u.nxt = nxt1
      /\ u.retries = 0 /\ u.max = t.max /\ u.fin_seq = t.fin_seq
  BY <1>1 DEF TcbRec, SendOnly
<1> HIDE DEF u
<1>10. Top(u) = Top(t) - d
  <2>1. Minus(t.max, ack) = IF Minus(t.max, t.una) >= Minus(ack, t.una) THEN Minus(t.max, t.una) - Minus(ack, t.una)
                            ELSE Minus(t.max, t.una) - Minus(ack, t.una) + SeqSpace
    BY <1>2, MinusFrom
  <2> QED BY <1>1, <1>3, <1>9, <2>1 DEF Top, d
<1>11. Flight(u) = IF Flight(t) < d THEN 0 ELSE Flight(t) - d
  <2>1. SeqLt(t.nxt, ack) <=> \/ Minus(t.nxt, t.una) >= Minus(ack, t.una) + Half
                              \/ /\ Minus(t.nxt, t.una) < Minus(ack, t.una)
                                 /\ Minus(ack, t.una) <= Minus(t.nxt, t.una) + Half
    BY <1>2, SeqLtFrom
  <2>2. SeqLt(t.nxt, ack) <=> Flight(t) < d
    BY <1>1, <1>3, <2>1, SpaceFacts DEF Flight, d
  <2>3. Minus(ack, ack) = 0
    BY MinusFrom
  <2>4. Minus(t.nxt, ack) = IF Minus(t.nxt, t.una) >= Minus(ack, t.una) THEN Minus(t.nxt, t.una) - Minus(ack, t.una)
                            ELSE Minus(t.nxt, t.una) - Minus(ack, t.una) + SeqSpace
    BY <1>2, MinusFrom
  <2>5. CASE Flight(t) < d
    BY <1>9, <2>2, <2>3, <2>5 DEF Flight, nxt1
  <2>6. CASE ~(Flight(t) < d)
    <3>1. u.nxt = t.nxt
      BY <1>9, <2>2, <2>6 DEF nxt1
    <3> QED BY <1>1, <1>3, <1>9, <2>4, <2>6, <3>1 DEF Flight, d
  <2> QED BY <2>5, <2>6
<1>12. Flight(u) <= Top(u)
  BY <1>1, <1>3, <1>10, <1>11
<1>13. ~t.fin_acked
  BY <1>1, <1>3 DEF SndSync
<1>14. t.fin_seq # NoSeq => (acked <=> d = Len(t.tx) + 1)
  <2> SUFFICES ASSUME t.fin_seq # NoSeq PROVE acked <=> d = Len(t.tx) + 1
    OBVIOUS
  <2>1. t.fin_seq \in Seq32 /\ Minus(t.fin_seq, t.una) = Len(t.tx) /\ Len(t.tx) + 1 <= RxCap + 1
    <3>1. t.fin_seq \in Seq32
      BY <1>2
    <3>2. Minus(t.fin_seq, t.una) = Len(t.tx) /\ Top(t) = Len(t.tx) + 1 /\ Top(t) <= RxCap + 1
      BY <1>1, <1>13 DEF SndSync
    <3> QED BY <3>1, <3>2
  <2>2. 1 \in 0 .. SeqSpace
    BY SpaceFacts
  <2>3. /\ Plus(t.fin_seq, 1) \in Seq32
        /\ Minus(Plus(t.fin_seq, 1), t.una) = IF Minus(t.fin_seq, t.una) + 1 < SeqSpace THEN Minus(t.fin_seq, t.una) + 1
                                              ELSE Minus(t.fin_seq, t.una) + 1 - SeqSpace
    BY <1>2, <2>1, <2>2, PlusFrom
  <2>4. Minus(Plus(t.fin_seq, 1), t.una) = Len(t.tx) + 1
    <3>1. Len(t.tx) + 1 < SeqSpace
      BY <1>2, <2>1, SpaceFacts
    <3>2. Minus(t.fin_seq, t.una) + 1 < SeqSpace
      BY <2>1, <3>1
    <3>3. Minus(Plus(t.fin_seq, 1), t.una) = Minus(t.fin_seq, t.una) + 1
      BY <2>3, <3>2, Zenon
    <3> QED BY <2>1, <3>3
  <2>5. ack = Plus(t.fin_seq, 1) <=> Minus(ack, t.una) = Minus(Plus(t.fin_seq, 1), t.una)
    BY <1>2, <2>3, MinusFrom
  <2> QED BY <1>13, <2>4, <2>5 DEF acked, d
<1>15. SndSync(u)
  <2>1. CASE t.fin_seq = NoSeq
    <3>1. ~acked /\ Top(t) <= Len(t.tx) /\ Top(t) <= RxCap
      BY <1>1, <1>13, <2>1 DEF acked, SndSync
    <3>2. Top(u) <= Len(tx1) /\ Top(u) <= RxCap
      BY <1>1, <1>2, <1>3, <1>5, <1>6, <1>10, <3>1, SpaceFacts
    <3> QED BY <1>9, <1>12, <2>1, <3>1, <3>2 DEF SndSync
  <2>2. CASE t.fin_seq # NoSeq
    <3>1. t.fin_pending /\ Top(t) = Len(t.tx) + 1 /\ Minus(t.fin_seq, t.una) = Len(t.tx) /\ t.fin_seq \in Seq32
      BY <1>1, <1>2, <1>13, <2>2 DEF SndSync
    <3>2. u.fin_pending
      BY <1>9, <3>1 DEF SendOnly
    <3>3. CASE d = Len(t.tx) + 1
      <4>1. acked /\ Top(u) = 0 /\ Len(tx1) = 0
        BY <1>2, <1>5, <1>6, <1>10, <1>14, <2>2, <3>1, <3>3
      <4>2. tx1 = <<>>
        BY <1>6, <4>1, EmptySeq
      <4> QED BY <1>9, <1>12, <2>2, <3>2, <4>1, <4>2 DEF SndSync
    <3>4. CASE d # Len(t.tx) + 1
      <4>1. ~acked /\ d <= Len(t.tx) /\ cut = d
        BY <1>1, <1>2, <1>3, <1>5, <1>14, <2>2, <3>1, <3>4
      <4>2. Top(u) = Len(tx1) + 1 /\ Top(u) <= RxCap + 1
        BY <1>1, <1>2, <1>3, <1>6, <1>10, <3>1, <4>1, SpaceFacts
      <4>3. Minus(t.fin_seq, ack) = Len(tx1)
        <5>1. Minus(t.fin_seq, ack) = IF Minus(t.fin_seq, t.una) >= Minus(ack, t.una)
                                      THEN Minus(t.fin_seq, t.una) - Minus(ack, t.una)
                                      ELSE Minus(t.fin_seq, t.una) - Minus(ack, t.una) + SeqSpace
          BY <1>2, <3>1, MinusFrom
        <5> QED BY <1>2, <1>3, <1>6, <3>1, <4>1, <5>1 DEF d
      <4> QED BY <1>9, <1>12, <2>2, <3>2, <4>1, <4>2, <4>3 DEF SndSync
    <3> QED BY <3>3, <3>4
  <2> QED BY <2>1, <2>2
<1>16. Len(u.tx) <= TxCap /\ u.retries <= MaxRetries
  <2>1. Len(t.tx) <= TxCap /\ TxCap \in Nat /\ MaxRetries \in Nat
    BY BufferAssumption, LimitAssumption DEF Core, Sized
  <2> QED BY <1>2, <1>5, <1>6, <1>9, <2>1
<1>17. Core(u) /\ synchronized(u)
  BY <1>8, <1>9, <1>13, <1>15, <1>16, CoreSendOnly
<1> QED BY <1>4, <1>9, <1>17

\* retransmit_first moves no send variable.
LEMMA RetransmitKeeps ==
    ASSUME NEW t \in TcbRec
    PROVE  LET r == retransmit_first(t)
           IN  /\ r.tcb \in TcbRec /\ Steady(t, r.tcb) /\ r.out \in Seq(Segment)
               /\ r.tcb.nxt = t.nxt /\ r.tcb.max = t.max /\ r.tcb.fin_seq = t.fin_seq /\ r.tcb.rto = t.rto
<1> DEFINE len == Least(Len(t.tx), Mss)
           fin == t.fin_seq # NoSeq /\ t.fin_seq = Plus(t.una, len)
           flags == {"ACK"} \cup (IF fin THEN {"FIN"} ELSE {})
           data == SubSeq(t.tx, 1, len)
           s == seg(t, t.una, flags, data)
           segs == << s >>
           r == retransmit_first(t)
<1>1. t.una \in Seq32 /\ t.tx \in Seq(Datum) /\ Len(t.tx) \in Nat /\ Mss \in Nat
  BY FieldTypes, BufferAssumption
<1>2. len \in Int /\ len <= Len(t.tx)
  BY <1>1 DEF Least
<1>3. flags \in SUBSET {"SYN", "ACK", "FIN", "RST"}
  OBVIOUS
<1>4. r = Quiet(t) \/ r = Sending(t, segs)
  BY DEF retransmit_first
<1> HIDE DEF len, fin, flags, r
<1>5. data \in Seq(Datum)
  BY <1>1, <1>2, SubSeqType
<1> HIDE DEF data
<1>6. s \in Segment
  BY <1>1, <1>3, <1>5, SegType
<1> HIDE DEF s
<1>7. segs \in Seq(Segment)
  BY <1>6
<1> HIDE DEF segs
<1>8. CASE r = Quiet(t)
  <2>1. r.tcb = t /\ r.out \in Seq(Segment) /\ Steady(t, t)
    BY <1>8 DEF Quiet, Step, Steady
  <2> QED BY <2>1 DEF r
<1>9. CASE r = Sending(t, segs)
  BY <1>7, <1>9, SendingKeeps DEF r
<1> QED BY <1>4, <1>8, <1>9

\* A duplicate acknowledgement moves no send variable, also when it makes the block resend.
LEMMA DupAckKeeps ==
    ASSUME NEW t, Core(t), synchronized(t), NEW h \in Segment
    PROVE  LET r == DupAck(t, h)
           IN  /\ Core(r.tcb) /\ synchronized(r.tcb) /\ SendOnly(t, r.tcb) /\ r.tcb.una = t.una
               /\ r.out \in Seq(Segment)
<1> DEFINE dup == h.data = <<>> /\ "FIN" \notin h.flags /\ h.wnd = t.wnd /\ t.una # t.max
           k == IF dup THEN Least(t.dupacks + 1, 4) ELSE t.dupacks
           t1 == [t EXCEPT !.dupacks = k]
           q == IF dup /\ t1.dupacks = 3 THEN retransmit_first(t1) ELSE Quiet(t1)
           n == IF h.wnd = 0 THEN 0 ELSE q.tcb.retries
           u == [q.tcb EXCEPT !.retries = n]
           r == DupAck(t, h)
<1>1. t \in TcbRec /\ SndSync(t) /\ Len(t.tx) <= TxCap /\ t.retries <= MaxRetries
  BY DEF Core, LifeOK, Sized
<1>2. k \in Dups
  <2>1. t.dupacks \in 0 .. 4
    BY <1>1 DEF TcbRec, Dups
  <2>2. Least(t.dupacks + 1, 4) \in 0 .. 4
    BY <2>1 DEF Least
  <2> QED BY <2>1, <2>2 DEF Dups
<1>3. r.tcb = u /\ r.out = q.out
  BY DEF DupAck, Step
<1> HIDE DEF dup, k, r
<1>4. t1 \in TcbRec
  BY <1>1, <1>2 DEF TcbRec
<1>5. SendOnly(t, t1) /\ Same(t, t1) /\ t1.retries = t.retries
  BY <1>1 DEF TcbRec, SendOnly, Same
<1> HIDE DEF t1
<1>6. /\ q.tcb \in TcbRec /\ Steady(t1, q.tcb) /\ q.out \in Seq(Segment)
      /\ q.tcb.nxt = t1.nxt /\ q.tcb.max = t1.max /\ q.tcb.fin_seq = t1.fin_seq
  <2>1. CASE dup /\ t1.dupacks = 3
    BY <1>4, <2>1, RetransmitKeeps
  <2>2. CASE ~(dup /\ t1.dupacks = 3)
    <3>1. q = Quiet(t1)
      BY <2>2
    <3> HIDE DEF q
    <3>2. q.tcb = t1 /\ q.out \in Seq(Segment) /\ Steady(t1, t1)
      BY <3>1 DEF Quiet, Step, Steady
    <3> QED BY <1>4, <3>2
  <2> QED BY <2>1, <2>2
<1> HIDE DEF q
<1>7. n \in Nat /\ n <= MaxRetries
  <2>1. q.tcb.retries = t.retries /\ t.retries \in Nat /\ MaxRetries \in Nat
    BY <1>1, <1>5, <1>6, LimitAssumption DEF TcbRec, Steady
  <2> QED BY <1>1, <2>1
<1> HIDE DEF n
<1>8. u \in TcbRec /\ Same(q.tcb, u) /\ SendOnly(q.tcb, u) /\ u.retries = n
  BY <1>6, <1>7 DEF TcbRec, Same, SendOnly
<1> HIDE DEF u
<1>9. Same(t, u) /\ SendOnly(t, u)
  BY <1>5, <1>6, <1>8 DEF Same, SendOnly, Steady
<1>10. SndSync(u) /\ Len(u.tx) <= TxCap /\ (t.fin_acked => u.fin_acked)
  BY <1>1, <1>9 DEF SndSync, Flight, Top, Same
<1>11. Core(u) /\ synchronized(u)
  BY <1>7, <1>8, <1>9, <1>10, CoreSendOnly
<1> QED BY <1>3, <1>6, <1>9, <1>11 DEF Same, r

\* A window update moves no send variable.
LEMMA WindowUpdateKeeps ==
    ASSUME NEW t, Core(t), synchronized(t), NEW h \in Segment
    PROVE  LET u == WindowUpdate(t, h)
           IN  Core(u) /\ synchronized(u) /\ SendOnly(t, u) /\ u.una = t.una
<1> DEFINE v == [t EXCEPT !.wnd = h.wnd, !.wl1 = h.seq, !.wl2 = h.ack]
<1>1. t \in TcbRec /\ SndSync(t) /\ Len(t.tx) <= TxCap /\ t.retries <= MaxRetries
  BY DEF Core, LifeOK, Sized
<1>2. h.wnd \in Window /\ h.seq \in Seq32 /\ h.ack \in Seq32
  BY DEF Segment
<1>3. v \in TcbRec
  BY <1>1, <1>2 DEF TcbRec
<1>4. Same(t, v) /\ SendOnly(t, v) /\ v.retries = t.retries
  BY <1>1 DEF TcbRec, Same, SendOnly
<1>5. WindowUpdate(t, h) = v \/ WindowUpdate(t, h) = t
  BY DEF WindowUpdate
<1> HIDE DEF v
<1>6. SndSync(v) /\ Len(v.tx) <= TxCap /\ (t.fin_acked => v.fin_acked)
  BY <1>1, <1>4 DEF SndSync, Flight, Top, Same
<1>7. Core(v) /\ synchronized(v)
  BY <1>1, <1>3, <1>4, <1>6, CoreSendOnly
<1>8. SendOnly(t, t)
  BY DEF SendOnly
<1> QED BY <1>4, <1>5, <1>7, <1>8 DEF Same

\* The acknowledgement field of a segment: snd_una never moves back.
LEMMA AckArrivedKeeps ==
    ASSUME NEW t, Core(t), synchronized(t), NEW h \in Segment, ~SeqGt(h.ack, t.max)
    PROVE  LET r == AckArrived(t, h)
           IN  /\ Core(r.tcb) /\ synchronized(r.tcb) /\ SendOnly(t, r.tcb) /\ SeqLe(t.una, r.tcb.una)
               /\ r.out \in Seq(Segment)
<1> DEFINE q == CASE SeqGt(h.ack, t.una) -> Quiet(NewAck(t, h.ack))
                  [] h.ack = t.una -> DupAck(t, h)
                  [] OTHER -> Quiet(t)
           r == AckArrived(t, h)
<1>1. h.ack \in Seq32
  BY DEF Segment
<1>2. t \in TcbRec /\ t.una \in Seq32
  BY FieldTypes DEF Core
<1>3. ~SeqGt(t.una, t.una)
  <2>1. Minus(t.una, t.una) = 0
    BY <1>2, MinusFrom
  <2>2. Half >= 1
    BY SpaceFacts
  <2> QED BY <2>1, <2>2, SpaceFacts DEF SeqGt, SeqLt, Half
<1>4. r = Step(WindowUpdate(q.tcb, h), q.out)
  BY DEF AckArrived
<1>5. /\ Core(q.tcb) /\ synchronized(q.tcb) /\ SendOnly(t, q.tcb) /\ SeqLe(t.una, q.tcb.una)
      /\ q.out \in Seq(Segment)
  <2>1. CASE SeqGt(h.ack, t.una)
    <3>1. h.ack # t.una
      BY <1>3, <2>1
    <3>2. q = Quiet(NewAck(t, h.ack))
      BY <2>1, <3>1
    <3> HIDE DEF q
    <3>3. q.tcb = NewAck(t, h.ack) /\ q.out \in Seq(Segment)
      BY <3>2 DEF Quiet, Step
    <3>4. Core(q.tcb) /\ synchronized(q.tcb) /\ SendOnly(t, q.tcb) /\ q.tcb.una = h.ack
      BY <1>1, <2>1, <3>3, NewAckKeeps
    <3> QED BY <2>1, <3>3, <3>4 DEF SeqLe, SeqGt
  <2>2. CASE h.ack = t.una
    <3>1. q = DupAck(t, h)
      BY <1>3, <2>2
    <3> HIDE DEF q
    <3>2. /\ Core(q.tcb) /\ synchronized(q.tcb) /\ SendOnly(t, q.tcb) /\ q.tcb.una = t.una
          /\ q.out \in Seq(Segment)
      BY <3>1, DupAckKeeps
    <3> QED BY <3>2 DEF SeqLe
  <2>3. CASE ~SeqGt(h.ack, t.una) /\ h.ack # t.una
    <3>1. q = Quiet(t)
      BY <2>3
    <3> HIDE DEF q
    <3>2. q.tcb = t /\ q.out \in Seq(Segment) /\ SendOnly(t, t)
      BY <3>1 DEF Quiet, Step, SendOnly
    <3> QED BY <3>2 DEF SeqLe
  <2> QED BY <2>1, <2>2, <2>3
<1> HIDE DEF q, r
<1> DEFINE u == WindowUpdate(q.tcb, h)
<1>6. Core(u) /\ synchronized(u) /\ SendOnly(q.tcb, u) /\ u.una = q.tcb.una
  BY <1>5, WindowUpdateKeeps
<1>7. r.tcb = u /\ r.out = q.out
  BY <1>4 DEF Step
<1> HIDE DEF u
<1>8. SendOnly(t, u)
  BY <1>5, <1>6 DEF SendOnly
<1> QED BY <1>5, <1>6, <1>7, <1>8 DEF r

----------------------------------------------------------------------------
(* The text of a segment. *)

\* What the receive side of a block and its user know: not disturbed by an acknowledged FIN.
SameRcv(t, u) ==
    /\ u.rcv_nxt = t.rcv_nxt /\ u.rx = t.rx /\ u.ooo = t.ooo /\ u.fin_received = t.fin_received
    /\ u.discard_rx = t.discard_rx /\ u.una = t.una /\ u.user_open = t.user_open /\ u.error = t.error

\* Our FIN was acknowledged: the block moves on, with its deadline armed where nobody holds it.
LEMMA FinAckedKeeps ==
    ASSUME NEW t, Core(t), synchronized(t), ~(t.fin_acked /\ t.state = "LastAck")
    PROVE  LET u == FinAcked(t)
           IN  /\ Core(u) /\ Settled(u) /\ synchronized(u) /\ SameRcv(t, u)
               /\ \/ u.state = t.state
                  \/ t.state = "FinWait1" /\ u.state = "FinWait2"
                  \/ t.state = "Closing" /\ u.state = "TimeWait"
<1> DEFINE u == FinAcked(t)
<1>1. /\ t \in TcbRec /\ SndSync(t) /\ Sized(t) /\ LifeOK(t) /\ RcvOK(t) /\ DeadlineOK(t)
      /\ t.user_open \in BOOLEAN /\ t.close_dl \in BOOLEAN
  BY DEF Core, TcbRec
<1>2. t.fin_acked => FinState(t)
  BY <1>1 DEF SndSync, LifeOK
<1>3. CASE t.fin_acked /\ t.state = "FinWait1"
  <2> DEFINE dl == t.close_dl \/ ~t.user_open
             v == [t EXCEPT !.state = "FinWait2", !.rto = FALSE, !.close_dl = dl]
  <2>1. u = v
    BY <1>3 DEF FinAcked, enter_fin_wait2
  <2>2. dl \in BOOLEAN /\ "FinWait2" \in States
    BY <1>1, FinStates
  <2> HIDE DEF dl, u
  <2>3. v \in TcbRec
    BY <1>1, <2>2 DEF TcbRec
  <2>4. /\ v.state = "FinWait2" /\ v.close_dl = dl /\ v.nxt = t.nxt /\ v.max = t.max /\ v.una = t.una
        /\ v.tx = t.tx /\ v.fin_pending = t.fin_pending /\ v.fin_seq = t.fin_seq /\ v.fin_acked = t.fin_acked
        /\ v.retries = t.retries /\ SameRcv(t, v)
    BY <1>1 DEF TcbRec, SameRcv
  <2> HIDE DEF v
  <2>5. SndSync(v) /\ Sized(v)
    BY <1>1, <2>4 DEF SndSync, Flight, Top, Sized, SameRcv
  <2>6. rcv_wnd(v) = rcv_wnd(t)
    BY <2>4 DEF rcv_wnd, SameRcv
  <2>7. RcvOK(v)
    BY <1>1, <1>3, <2>4, <2>6 DEF RcvOK, Receiving, SameRcv
  <2>8. LifeOK(v) /\ Settled(v) /\ ~SynState(v) /\ synchronized(v)
    BY <1>1, <1>3, <2>4 DEF LifeOK, FinState, GotFin, Settled, SynState, synchronized, SameRcv
  <2>9. DeadlineOK(v)
    BY <2>4, <2>8 DEF DeadlineOK, SameRcv, dl
  <2> QED BY <1>3, <2>1, <2>3, <2>4, <2>5, <2>7, <2>8, <2>9 DEF Core, u
<1>4. CASE t.fin_acked /\ t.state = "Closing"
  <2> DEFINE v == enter_time_wait(t)
  <2>1. u = v
    BY <1>4 DEF FinAcked
  <2>2. <<>> \in Seq(Datum) /\ "TimeWait" \in States
    BY FinStates
  <2> HIDE DEF u
  <2>3. v \in TcbRec
    BY <1>1, <2>2 DEF TcbRec, enter_time_wait
  <2>4. /\ v.state = "TimeWait" /\ v.close_dl = TRUE /\ v.nxt = t.nxt /\ v.max = t.max /\ v.una = t.una
        /\ v.tx = <<>> /\ v.fin_pending = t.fin_pending /\ v.fin_seq = t.fin_seq /\ v.fin_acked = t.fin_acked
        /\ v.retries = t.retries /\ SameRcv(t, v)
    BY <1>1 DEF TcbRec, SameRcv, enter_time_wait
  <2> HIDE DEF v
  <2>5. SndSync(v)
    BY <1>1, <1>4, <2>4 DEF SndSync, Flight, Top
  <2>6. Sized(v)
    <3>1. Len(<<>>) = 0 /\ 0 <= TxCap
      BY BufferAssumption
    <3> QED BY <1>1, <2>4, <3>1 DEF Sized, SameRcv
  <2>7. RcvOK(v)
    <3>1. t.ooo = <<>>
      BY <1>1, <1>4 DEF RcvOK, Receiving
    <3> QED BY <2>4, <3>1 DEF RcvOK, SameRcv
  <2>8. LifeOK(v) /\ Settled(v) /\ ~SynState(v) /\ synchronized(v)
    BY <1>1, <1>4, <2>4 DEF LifeOK, FinState, GotFin, Settled, SynState, synchronized, SameRcv
  <2>9. DeadlineOK(v)
    BY <2>4, <2>8 DEF DeadlineOK
  <2> QED BY <1>4, <2>1, <2>3, <2>4, <2>5, <2>6, <2>7, <2>8, <2>9 DEF Core, u
<1>5. CASE ~(t.fin_acked /\ t.state = "FinWait1") /\ ~(t.fin_acked /\ t.state = "Closing")
  <2>1. u = t
    BY <1>5 DEF FinAcked
  <2>2. Settled(t) /\ SameRcv(t, t)
    BY <1>2, <1>5 DEF Settled, FinState, SameRcv
  <2> QED BY <2>1, <2>2
<1> QED BY <1>3, <1>4, <1>5

\* u differs from t only in what has arrived.
LEMMA CoreAccepted ==
    ASSUME NEW t, Core(t), Settled(t), synchronized(t), NEW u \in TcbRec,
           u.state = t.state, u.una = t.una, u.nxt = t.nxt, u.max = t.max, u.tx = t.tx,
           u.fin_pending = t.fin_pending, u.fin_seq = t.fin_seq, u.fin_acked = t.fin_acked,
           u.fin_received = t.fin_received, u.discard_rx = t.discard_rx, u.retries = t.retries,
           u.close_dl = t.close_dl, u.user_open = t.user_open,
           RcvOK(u), Len(u.rx) <= RxCap, Len(u.ooo) <= MaxOoo
    PROVE  Core(u) /\ Settled(u) /\ synchronized(u)
<1>1. SndSync(u) /\ Sized(u)
  BY DEF Core, SndSync, Flight, Top, Sized
<1>2. LifeOK(u) /\ Settled(u) /\ ~SynState(u) /\ synchronized(u) /\ u.state # "Closed"
  BY DEF Core, LifeOK, FinState, GotFin, Settled, SynState, synchronized
<1>3. DeadlineOK(u)
  BY <1>2 DEF Core, DeadlineOK
<1> QED BY <1>1, <1>2, <1>3 DEF Core

\* Arrived(t, u): the receive side went forward by a window at most.
Arrived(t, u) ==
    /\ u.una = t.una /\ u.user_open = t.user_open /\ u.error = t.error /\ u.state = t.state
    /\ u.fin_received = t.fin_received
    /\ Ahead(t, u) \in Nat /\ Ahead(t, u) <= RxCap
    /\ ~Receiving(t) => u.rcv_nxt = t.rcv_nxt

\* The text of a segment: the block is in order and what was received stays.
LEMMA DataArrivedKeeps ==
    ASSUME NEW t, Core(t), Settled(t), synchronized(t), NEW h \in Segment
    PROVE  LET u == DataArrived(t, h)
           IN  Core(u) /\ Settled(u) /\ synchronized(u) /\ Arrived(t, u)
<1>1. t \in TcbRec /\ Sized(t) /\ RcvOK(t)
  BY DEF Core
<1>2. Accepted(t, t) /\ Ahead(t, t) = 0
  BY <1>1, AcceptedSelf
<1>3. CASE ~Receiving(t)
  <2>1. DataArrived(t, h) = t
    BY <1>3 DEF DataArrived
  <2>2. Arrived(t, t)
    BY <1>2, SpaceFacts DEF Arrived
  <2> QED BY <2>1, <2>2
<1>4. CASE Receiving(t)
  <2> DEFINE a == IF h.data # <<>> THEN accept_data(t, h.seq, h.data) ELSE t
             f == Plus(h.seq, Len(h.data))
             v == [a EXCEPT !.rx_fin_seq = f]
             u == DataArrived(t, h)
  <2>1. h.seq \in Seq32 /\ h.data \in Seq(Datum)
    BY DEF Segment
  <2>2. Accepted(t, a)
    BY <1>1, <1>2, <1>4, <2>1, AcceptDataKeeps
  <2>3. f \in OptSeq
    <3>1. h.seq \in Int /\ Len(h.data) \in Int
      BY <2>1, LenProperties, SpaceFacts DEF Seq32
    <3>2. f \in Seq32
      BY <3>1, PlusType
    <3> QED BY <3>2 DEF OptSeq
  <2>4. u = v \/ u = a
    BY <1>4 DEF DataArrived, FinNoted
  <2> HIDE DEF a, f
  <2>5. a \in TcbRec /\ Beside(t, a) /\ RcvOK(a) /\ Len(a.rx) <= RxCap /\ Len(a.ooo) <= MaxOoo
    BY <2>2 DEF Accepted
  <2>6. v \in TcbRec
    BY <2>3, <2>5 DEF TcbRec
  <2>7. Same(a, v) /\ v.retries = a.retries /\ v.close_dl = a.close_dl
    BY <2>5 DEF TcbRec, Same
  <2> HIDE DEF v, u
  <2>8. RcvOK(v)
    <3>1. rcv_wnd(v) = rcv_wnd(a)
      BY <2>7 DEF rcv_wnd, Same
    <3> QED BY <2>5, <2>7, <3>1 DEF RcvOK, Receiving, Same
  <2>9. Core(a) /\ Settled(a) /\ synchronized(a)
    BY <2>5, CoreAccepted DEF Beside
  <2>10. Core(v) /\ Settled(v) /\ synchronized(v)
    BY <2>5, <2>6, <2>7, <2>8, CoreAccepted DEF Beside, Same
  <2>11. Ahead(t, a) \in Nat /\ Ahead(t, a) <= RxCap
    <3>1. rcv_wnd(t) \in Window
      BY <1>1, FieldTypes
    <3> QED BY <2>2, <3>1, SpaceFacts DEF Accepted, Window
  <2>12. Arrived(t, a)
    BY <1>4, <2>5, <2>11 DEF Arrived, Beside
  <2>13. Arrived(t, v)
    BY <2>7, <2>12 DEF Arrived, Same, Ahead
  <2> QED BY <2>4, <2>9, <2>10, <2>12, <2>13 DEF u
<1> QED BY <1>3, <1>4

\* u is t once the peer's FIN has taken effect.
FinTaken(t, u) ==
    /\ u.fin_received /\ u.rcv_nxt = Plus(t.rcv_nxt, 1) /\ u.ooo = <<>>
    /\ u.una = t.una /\ u.nxt = t.nxt /\ u.max = t.max /\ u.tx = t.tx /\ u.rx = t.rx
    /\ u.fin_pending = t.fin_pending /\ u.fin_seq = t.fin_seq /\ u.fin_acked = t.fin_acked
    /\ u.discard_rx = t.discard_rx /\ u.retries = t.retries
    /\ u.user_open = t.user_open /\ u.error = t.error
    /\ \/ t.state = "Established" /\ u.state = "CloseWait"
       \/ t.state = "FinWait1" /\ u.state = "Closing"
       \/ t.state = "FinWait2" /\ u.state = "TimeWait" /\ u.close_dl

\* The block is in order after a FIN has taken effect.
LEMMA FinTakenKeeps ==
    ASSUME NEW t, Core(t), Settled(t), NEW u \in TcbRec, FinTaken(t, u)
    PROVE  Core(u) /\ Settled(u) /\ synchronized(u)
<1>1. /\ t \in TcbRec /\ Sized(t) /\ LifeOK(t) /\ synchronized(t) /\ SndSync(t)
  BY DEF Core, synchronized, FinTaken
<1>2. SndSync(u)
  BY <1>1 DEF SndSync, Flight, Top, FinTaken
<1>3. Sized(u)
  <2>1. Len(<<>>) = 0 /\ 0 <= MaxOoo
    BY LimitAssumption
  <2> QED BY <1>1, <2>1 DEF Sized, FinTaken
<1>4. LifeOK(u) /\ Settled(u)
  BY <1>1 DEF LifeOK, Settled, FinState, GotFin, FinTaken
<1>5. ~SynState(u) /\ synchronized(u) /\ u.state # "Closed"
  BY DEF SynState, synchronized, FinTaken
<1>6. RcvOK(u)
  BY DEF RcvOK, FinTaken
<1>7. DeadlineOK(u)
  BY <1>5 DEF DeadlineOK, FinTaken
<1> QED BY <1>2, <1>3, <1>4, <1>5, <1>6, <1>7 DEF Core

\* The peer's FIN: a receiving block takes it once, and only in order.
LEMMA FinArrivedKeeps ==
    ASSUME NEW t, Core(t), Settled(t), synchronized(t)
    PROVE  LET u == FinArrived(t)
           IN  /\ Core(u) /\ Settled(u) /\ synchronized(u)
               /\ u = t \/ (~t.fin_received /\ FinTaken(t, u))
<1> DEFINE u == FinArrived(t)
           t1 == [t EXCEPT !.fin_received = TRUE, !.rcv_nxt = Plus(@, 1), !.ooo = <<>>]
<1>1. t \in TcbRec /\ LifeOK(t) /\ SndSync(t)
  BY DEF Core
<1>2. Plus(t.rcv_nxt, 1) \in Seq32 /\ <<>> \in Seq(HeldSeg) /\ <<>> \in Seq(Datum)
  BY <1>1, FieldTypes, SynOpen
<1>21. t1 \in TcbRec
  BY <1>1, <1>2 DEF TcbRec
<1>22. /\ t1.fin_received /\ t1.rcv_nxt = Plus(t.rcv_nxt, 1) /\ t1.ooo = <<>>
      /\ t1.una = t.una /\ t1.nxt = t.nxt /\ t1.max = t.max /\ t1.tx = t.tx /\ t1.rx = t.rx
      /\ t1.fin_pending = t.fin_pending /\ t1.fin_seq = t.fin_seq /\ t1.fin_acked = t.fin_acked
      /\ t1.discard_rx = t.discard_rx /\ t1.retries = t.retries
      /\ t1.user_open = t.user_open /\ t1.error = t.error
  BY <1>1 DEF TcbRec
<1>3. CASE t.fin_received \/ t.rx_fin_seq # t.rcv_nxt
  <2>1. u = t
    BY <1>3 DEF FinArrived
  <2> QED BY <2>1
<1>4. CASE ~t.fin_received /\ t.rx_fin_seq = t.rcv_nxt
  <2>1. t.state \in {"Established", "FinWait1", "FinWait2"}
    BY <1>1, <1>4 DEF LifeOK, GotFin, synchronized, TcbRec, States
  <2>2. CASE t.state = "Established"
    <3>1. u = [t1 EXCEPT !.state = "CloseWait"]
      BY <1>4, <2>2 DEF FinArrived
    <3>2. "CloseWait" \in States
      BY FinStates
    <3> HIDE DEF t1, u
    <3>3. u \in TcbRec /\ FinTaken(t, u)
      BY <1>21, <1>22, <1>2, <2>2, <3>1, <3>2 DEF TcbRec, FinTaken
    <3> QED BY <1>4, <3>3, FinTakenKeeps DEF u
  <2>3. CASE t.state = "FinWait1"
    <3>1. u = [t1 EXCEPT !.state = "Closing"]
      BY <1>4, <2>3 DEF FinArrived, Settled
    <3>2. "Closing" \in States
      BY FinStates
    <3> HIDE DEF t1, u
    <3>3. u \in TcbRec /\ FinTaken(t, u)
      BY <1>21, <1>22, <1>2, <2>3, <3>1, <3>2 DEF TcbRec, FinTaken
    <3> QED BY <1>4, <3>3, FinTakenKeeps DEF u
  <2>4. CASE t.state = "FinWait2"
    <3>1. u = enter_time_wait(t1)
      BY <1>4, <2>4 DEF FinArrived
    <3>2. "TimeWait" \in States
      BY FinStates
    <3> HIDE DEF t1, u
    <3>3. t.tx = <<>>
      BY <1>1, <2>4 DEF LifeOK, SndSync
    <3>4. u \in TcbRec /\ FinTaken(t, u)
      BY <1>21, <1>22, <1>2, <2>4, <3>1, <3>2, <3>3 DEF TcbRec, FinTaken, enter_time_wait
    <3> QED BY <1>4, <3>4, FinTakenKeeps DEF u
  <2> QED BY <2>1, <2>2, <2>3, <2>4
<1> QED BY <1>3, <1>4

\* A FIN seen again in TIME_WAIT changes nothing but the deadline.
LEMMA LingeringKeeps ==
    ASSUME NEW t, Core(t), Settled(t), synchronized(t), NEW h
    PROVE  LET u == Lingering(t, h)
           IN  Core(u) /\ Settled(u) /\ synchronized(u) /\ Same(t, u)
<1> DEFINE u == Lingering(t, h)
           v == [t EXCEPT !.close_dl = TRUE]
<1>1. t \in TcbRec /\ DeadlineOK(t) /\ t.retries <= MaxRetries
  BY DEF Core, LifeOK
<1>2. u = t \/ u = v
  BY DEF Lingering
<1>3. v \in TcbRec /\ Same(t, v) /\ v.retries = t.retries /\ v.rto = t.rto /\ v.close_dl
  BY <1>1 DEF TcbRec, Same
<1> HIDE DEF v, u
<1>4. DeadlineOK(v)
  BY <1>1, <1>3 DEF DeadlineOK, SynState, Same
<1>5. Core(v) /\ Settled(v) /\ synchronized(v)
  <2>1. Core(v) /\ Settled(v)
    BY <1>1, <1>3, <1>4, CoreSame
  <2> QED BY <1>3, <2>1 DEF synchronized, Same
<1>6. Same(t, t)
  BY DEF Same
<1> QED BY <1>2, <1>3, <1>5, <1>6 DEF u

\* A step forward of at most half the space is one forward in the order of sequence numbers.
LEMMA ForwardLe ==
    ASSUME NEW a \in Seq32, NEW b \in Seq32, Minus(b, a) <= Half
    PROVE  SeqLe(a, b)
<1>1. Minus(a, a) = 0 /\ Minus(b, a) \in Seq32 /\ (Minus(b, a) = Minus(a, a) <=> a = b)
  BY MinusFrom
<1>2. SeqLt(a, b) <=> \/ Minus(a, a) >= Minus(b, a) + Half
                      \/ Minus(a, a) < Minus(b, a) /\ Minus(b, a) <= Minus(a, a) + Half
  BY SeqLtFrom
<1> QED BY <1>1, <1>2, SpaceFacts DEF SeqLe, Seq32

\* What the text of a segment may do to a synchronized block.
Texted(t, r) ==
    /\ Good(t, r) /\ r.tcb.una = t.una /\ r.tcb.user_open = t.user_open
    /\ r.tcb.state \in Lifecycle!Input(t.state)

\* Where acknowledging our FIN and receiving the peer's can take a block.
LEMMA TextStates ==
    ASSUME NEW s0, NEW s1, NEW s2,
           s1 = s0 \/ (s0 = "FinWait1" /\ s1 = "FinWait2") \/ (s0 = "Closing" /\ s1 = "TimeWait"),
           \/ s2 = s1 \/ (s1 = "Established" /\ s2 = "CloseWait")
           \/ (s1 = "FinWait1" /\ s2 = "Closing") \/ (s1 = "FinWait2" /\ s2 = "TimeWait"),
           s0 \notin {"SynSent", "SynReceived"}
    PROVE  s2 \in Lifecycle!Input(s0) /\ s2 \notin {"SynSent", "SynReceived"}
BY DEF Lifecycle!Input

\* Everything after the acknowledgement field: what was received is not taken back, a FIN is
\* taken once, and the block is left in order.
LEMMA TextArrivedKeeps ==
    ASSUME NEW t, Core(t), synchronized(t), NEW h \in Segment
    PROVE  Texted(t, TextArrived(t, h))
<1> DEFINE r == TextArrived(t, h)
<1>1. t \in TcbRec /\ Sized(t)
  BY DEF Core
<1>2. CASE t.fin_acked /\ t.state = "LastAck"
  <2> DEFINE u == set_closed(t, NoError)
  <2>1. Ended(u) /\ Done(u) /\ Kept(t, u) /\ u.user_open = t.user_open
    BY <1>1, ClosedEnded, ErrorNames
  <2>2. u.una = t.una
    BY <1>1 DEF set_closed, TcbRec
  <2>3. r.tcb = u /\ r.out \in Seq(Segment)
    BY <1>2 DEF TextArrived, Quiet, Step
  <2>4. "Closed" \in Lifecycle!Input(t.state)
    BY <1>2 DEF Lifecycle!Input
  <2> HIDE DEF u, r
  <2>5. u.state = "Closed"
    BY <2>1 DEF Ended
  <2> QED BY <2>1, <2>2, <2>3, <2>4, <2>5 DEF Texted, Good, r
<1>3. CASE ~(t.fin_acked /\ t.state = "LastAck")
  <2> DEFINE a == FinAcked(t)
             b == DataArrived(a, h)
             c == FinArrived(b)
             d == Lingering(c, h)
             force == (h.data # <<>> \/ "FIN" \in h.flags)
  <2>1. r = output(d, force, FALSE)
    BY <1>3 DEF TextArrived
  <2>2. /\ Core(a) /\ Settled(a) /\ synchronized(a) /\ SameRcv(t, a)
        /\ \/ a.state = t.state
           \/ t.state = "FinWait1" /\ a.state = "FinWait2"
           \/ t.state = "Closing" /\ a.state = "TimeWait"
    BY <1>3, FinAckedKeeps
  <2> HIDE DEF a
  <2>3. Core(b) /\ Settled(b) /\ synchronized(b) /\ Arrived(a, b)
    BY <2>2, DataArrivedKeeps
  <2> HIDE DEF b
  <2>4. Core(c) /\ Settled(c) /\ synchronized(c) /\ (c = b \/ (~b.fin_received /\ FinTaken(b, c)))
    BY <2>3, FinArrivedKeeps
  <2> HIDE DEF c
  <2>5. Core(d) /\ Settled(d) /\ synchronized(d) /\ Same(c, d)
    BY <2>4, LingeringKeeps
  <2> HIDE DEF d
  <2>6. force \in BOOLEAN
    OBVIOUS
  <2> HIDE DEF force, r
  <2>7. Outputs(d, r)
    BY <2>1, <2>5, <2>6, OutputPlain, Zenon
  <2> DEFINE u == r.tcb
  <2>8. Core(u) /\ Settled(u) /\ Timed(u) /\ Steady(d, u) /\ r.out \in Seq(Segment)
    BY <2>7 DEF Outputs
  <2> HIDE DEF u
  <2>9. u.state = c.state /\ u.una = c.una /\ u.user_open = c.user_open /\ u.error = c.error
        /\ u.rcv_nxt = c.rcv_nxt /\ u.fin_received = c.fin_received
    BY <2>5, <2>8 DEF Steady, Same
  <2>10. /\ b.una = t.una /\ b.user_open = t.user_open /\ b.error = t.error /\ b.state = a.state
         /\ b.fin_received = t.fin_received /\ a.rcv_nxt = t.rcv_nxt
         /\ Ahead(t, b) \in Nat /\ Ahead(t, b) <= RxCap
         /\ ~Receiving(a) => b.rcv_nxt = t.rcv_nxt
    BY <2>2, <2>3 DEF SameRcv, Arrived, Ahead
  <2>11. c.una = t.una /\ c.user_open = t.user_open /\ c.error = t.error
    BY <2>4, <2>10 DEF FinTaken
  <2>12. t.state \notin {"SynSent", "SynReceived"} /\ t.state # "Closed"
    BY DEF synchronized
  <2>13. c.state \in Lifecycle!Input(t.state) /\ c.state \notin {"SynSent", "SynReceived"}
    <3>1. \/ c.state = a.state \/ (a.state = "Established" /\ c.state = "CloseWait")
          \/ (a.state = "FinWait1" /\ c.state = "Closing") \/ (a.state = "FinWait2" /\ c.state = "TimeWait")
      BY <2>4, <2>10 DEF FinTaken
    <3> QED BY <2>2, <2>12, <3>1, TextStates
  <2>14. t.fin_received => c.fin_received /\ c.rcv_nxt = t.rcv_nxt
    <3> SUFFICES ASSUME t.fin_received PROVE c.fin_received /\ c.rcv_nxt = t.rcv_nxt
      OBVIOUS
    <3>1. c = b
      BY <2>4, <2>10
    <3>2. a.fin_received /\ LifeOK(a)
      BY <2>2 DEF SameRcv, Core
    <3>3. ~Receiving(a)
      BY <3>2 DEF LifeOK, GotFin, Receiving
    <3> QED BY <2>10, <3>1, <3>3
  <2>15. SeqLe(t.rcv_nxt, c.rcv_nxt)
    <3>1. t.rcv_nxt \in Seq32 /\ b.rcv_nxt \in Seq32 /\ c.rcv_nxt \in Seq32
      BY <1>1, <2>3, <2>4, FieldTypes DEF Core
    <3>2. Ahead(t, c) <= RxCap + 1
      <4>1. CASE c = b
        BY <2>10, <4>1, SpaceFacts
      <4>2. CASE FinTaken(b, c)
        <5>1. 1 \in 0 .. SeqSpace /\ Ahead(t, b) + 1 < SeqSpace
          BY <2>10, SpaceFacts
        <5>2. Minus(Plus(b.rcv_nxt, 1), t.rcv_nxt) =
                 IF Minus(b.rcv_nxt, t.rcv_nxt) + 1 < SeqSpace THEN Minus(b.rcv_nxt, t.rcv_nxt) + 1
                 ELSE Minus(b.rcv_nxt, t.rcv_nxt) + 1 - SeqSpace
          BY <3>1, <5>1, PlusFrom
        <5>3. c.rcv_nxt = Plus(b.rcv_nxt, 1)
          BY <4>2 DEF FinTaken
        <5>4. Ahead(t, c) = Ahead(t, b) + 1
          BY <5>1, <5>2, <5>3 DEF Ahead
        <5> QED BY <2>10, <5>4, SpaceFacts
      <4> QED BY <2>4, <4>1, <4>2
    <3>3. Minus(c.rcv_nxt, t.rcv_nxt) \in Seq32
      BY <3>1, MinusFrom
    <3>4. Minus(c.rcv_nxt, t.rcv_nxt) <= Half
      BY <3>2, <3>3, SpaceFacts DEF Ahead, Seq32
    <3> QED BY <3>1, <3>4, ForwardLe
  <2>16. Kept(t, u)
    BY <2>9, <2>11, <2>12, <2>13, <2>14, <2>15 DEF Kept, SeqLe
  <2>17. Good(t, r)
    BY <2>8, <2>16 DEF Good, Done, u
  <2> QED BY <2>9, <2>11, <2>13, <2>17 DEF Texted, r, u
<1> QED BY <1>2, <1>3

----------------------------------------------------------------------------
(* Segments. *)

\* What a segment or a timer may do to a block.
Answers(t, r) ==
    Good(t, r) /\ r.tcb.user_open = t.user_open /\ r.tcb.state \in Lifecycle!Input(t.state)

\* A block left as it is, with an answer.
LEMMA AnswersSame ==
    ASSUME NEW t, Done(t), NEW out \in Seq(Segment)
    PROVE  Answers(t, Step(t, out))
<1>1. Step(t, out).tcb = t /\ Step(t, out).out = out
  BY DEF Step
<1>2. Kept(t, t)
  BY SameKept DEF Same
<1> QED BY <1>1, <1>2, InputSelf DEF Answers, Good

\* A block that only sent something.
LEMMA AnswersSteady ==
    ASSUME NEW t, NEW c, Done(c), c.state # "Closed", Same(t, c), NEW r, r.tcb \in TcbRec, Steady(c, r.tcb), r.out \in Seq(Segment),
           r.tcb.nxt = c.nxt, r.tcb.max = c.max, r.tcb.fin_seq = c.fin_seq, r.tcb.rto = c.rto
    PROVE  Answers(t, r)
<1>1. Core(c) /\ Settled(c) /\ Timed(c)
  BY DEF Done, Ended
<1>2. Done(r.tcb)
  BY <1>1, DoneSteady DEF Done
<1>3. Kept(c, r.tcb)
  BY KeptSteady
<1>4. Kept(t, r.tcb)
  BY <1>3, KeptVia DEF Same
<1>5. r.tcb.state = t.state /\ r.tcb.user_open = t.user_open
  BY DEF Same, Steady
<1> QED BY <1>2, <1>4, <1>5, InputSelf DEF Answers, Good

\* A bare acknowledgement, or a SYN sent again.
LEMMA AnswersAck ==
    ASSUME NEW t, NEW c, Done(c), c.state # "Closed", Same(t, c)
    PROVE  Answers(t, send_ack(c)) /\ Answers(t, send_syn(c))
<1>1. c \in TcbRec
  BY DoneTypes
<1> DEFINE r == send_ack(c)
           q == send_syn(c)
<1>2. /\ r.tcb \in TcbRec /\ Steady(c, r.tcb) /\ r.out \in Seq(Segment)
      /\ r.tcb.nxt = c.nxt /\ r.tcb.max = c.max /\ r.tcb.fin_seq = c.fin_seq /\ r.tcb.rto = c.rto
  BY <1>1, SendAckKeeps
<1>3. /\ q.tcb \in TcbRec /\ Steady(c, q.tcb) /\ q.out \in Seq(Segment)
      /\ q.tcb.nxt = c.nxt /\ q.tcb.max = c.max /\ q.tcb.fin_seq = c.fin_seq /\ q.tcb.rto = c.rto
  BY <1>1, SendSynKeeps
<1> HIDE DEF r, q
<1>4. Answers(t, r)
  BY <1>2, AnswersSteady
<1>5. Answers(t, q)
  BY <1>3, AnswersSteady
<1> QED BY <1>4, <1>5 DEF r, q

\* A block that closes.
LEMMA AnswersClosed ==
    ASSUME NEW t, Done(t), t.state # "Closed", NEW err \in Errors
    PROVE  Answers(t, Quiet(set_closed(t, err)))
<1> DEFINE u == set_closed(t, err)
<1>1. t \in TcbRec /\ Sized(t)
  BY DoneTypes
<1>2. Ended(u) /\ Done(u) /\ Kept(t, u) /\ u.user_open = t.user_open
  BY <1>1, ClosedEnded
<1>3. u.state = "Closed"
  BY <1>2 DEF Ended
<1>4. Quiet(u).tcb = u /\ Quiet(u).out \in Seq(Segment)
  BY DEF Quiet, Step
<1>5. "Closed" \in Lifecycle!Input(t.state)
  BY <1>1 DEF Lifecycle!Input, TcbRec, States
<1> HIDE DEF u
<1> QED BY <1>2, <1>3, <1>4, <1>5 DEF Answers, Good, u

\* Only the SYN is in flight, so only one number acknowledges it.
LEMMA SynAcked ==
    ASSUME NEW t, Core(t), SynState(t), NEW ack \in Seq32, SeqGt(ack, t.una), SeqLe(ack, t.max)
    PROVE  ack = t.max
<1>1. t \in TcbRec /\ SndSyn(t)
  BY DEF Core
<1>2. t.una \in Seq32 /\ t.max \in Seq32 /\ t.max = Plus(t.una, 1)
  BY <1>1, FieldTypes DEF SndSyn
<1> DEFINE d == Minus(ack, t.una)
<1>3. d \in Seq32 /\ Minus(t.una, t.una) = 0
  BY <1>2, MinusFrom
<1>4. Minus(t.max, t.una) = 1
  <2>1. 1 \in 0 .. SeqSpace
    BY SpaceFacts
  <2>2. Minus(Plus(t.una, 1), t.una) = IF Minus(t.una, t.una) + 1 < SeqSpace THEN Minus(t.una, t.una) + 1
                                       ELSE Minus(t.una, t.una) + 1 - SeqSpace
    BY <1>2, <2>1, PlusFrom
  <2> QED BY <1>2, <1>3, <2>2, SpaceFacts
<1>5. SeqLt(t.una, ack) <=> \/ Minus(t.una, t.una) >= d + Half
                            \/ Minus(t.una, t.una) < d /\ d <= Minus(t.una, t.una) + Half
  BY <1>2, SeqLtFrom
<1>6. SeqLt(ack, t.max) <=> \/ d >= Minus(t.max, t.una) + Half
                            \/ d < Minus(t.max, t.una) /\ Minus(t.max, t.una) <= d + Half
  BY <1>2, SeqLtFrom
<1> HIDE DEF d
<1>7. 1 <= d /\ d <= Half
  BY <1>3, <1>5, SpaceFacts DEF Seq32, SeqGt
<1>8. ~SeqLt(ack, t.max)
  BY <1>3, <1>4, <1>6, <1>7, SpaceFacts DEF Seq32
<1> QED BY <1>8 DEF SeqLe

\* The handshake completes: u is t with its SYN acknowledged.
LEMMA OpenedCore ==
    ASSUME NEW t, Core(t), SynState(t), NEW u \in TcbRec, u.state = "Established",
           u.una = t.max, u.nxt = t.nxt, u.max = t.max, u.tx = t.tx, u.fin_pending = t.fin_pending,
           u.fin_seq = t.fin_seq, u.fin_acked = t.fin_acked, u.rx = t.rx, u.ooo = t.ooo,
           u.fin_received = t.fin_received, u.discard_rx = t.discard_rx, u.retries = 0
    PROVE  Core(u) /\ Settled(u) /\ synchronized(u)
<1>1. t \in TcbRec /\ SndSyn(t) /\ LifeOK(t) /\ RcvOK(t) /\ Sized(t)
  BY DEF Core
<1>2. u.una \in Seq32 /\ Len(u.tx) \in Nat
  BY FieldTypes
<1>3. u.nxt = u.una /\ u.max = u.una
  BY <1>1 DEF SndSyn
<1>4. Minus(u.una, u.una) = 0
  BY <1>2, MinusFrom
<1>5. Flight(u) = 0 /\ Top(u) = 0
  BY <1>3, <1>4 DEF Flight, Top
<1>6. SndSync(u)
  BY <1>1, <1>2, <1>5, SpaceFacts DEF SndSync, SndSyn
<1>7. LifeOK(u) /\ Settled(u) /\ synchronized(u) /\ ~SynState(u)
  <2>1. 0 <= MaxRetries
    BY LimitAssumption
  <2> QED BY <1>1, <2>1 DEF LifeOK, FinState, GotFin, Settled, synchronized, SynState, SndSyn
<1>8. t.ooo = <<>>
  BY <1>1 DEF RcvOK, Receiving, SynState
<1>9. RcvOK(u) /\ DeadlineOK(u)
  BY <1>7, <1>8 DEF RcvOK, DeadlineOK
<1>10. Sized(u)
  <2>1. 0 <= MaxRetries + 1
    BY LimitAssumption
  <2> QED BY <1>1, <2>1 DEF Sized
<1> QED BY <1>6, <1>7, <1>9, <1>10 DEF Core

\* A block that is still opening has told its peer nothing it could take back.
LEMMA KeptSyn ==
    ASSUME NEW t, Core(t), SynState(t), NEW u, u.error = t.error \/ t.error = NoError
    PROVE  Kept(t, u)
<1>1. ~synchronized(t) /\ t.state # "Closed"
  BY DEF synchronized, SynState
<1>2. ~t.fin_received
  BY DEF Core, LifeOK, GotFin, SynState
<1> QED BY <1>1, <1>2 DEF Kept

\* A segment that finds a block in SYN_SENT.
LEMMA OnSynSentKeeps ==
    ASSUME NEW t, Core(t), Settled(t), Timed(t), t.state = "SynSent", NEW h \in Segment
    PROVE  Answers(t, on_syn_sent(t, h))
<1> DEFINE ack_ok == "ACK" \in h.flags /\ SeqGt(h.ack, t.iss) /\ SeqLe(h.ack, t.max)
           t1 == [t EXCEPT !.rcv_nxt = Plus(h.seq, 1), !.wnd = h.wnd, !.wl1 = h.seq]
           r == on_syn_sent(t, h)
<1>1. /\ t \in TcbRec /\ SynState(t) /\ SndSyn(t) /\ Done(t) /\ t.state # "Closed" /\ LifeOK(t)
      /\ RcvOK(t) /\ Sized(t) /\ DeadlineOK(t)
  BY DEF Core, SynState, Done
<1>2. h.seq \in Seq32 /\ h.ack \in Seq32 /\ h.wnd \in Window
  BY DEF Segment
<1>3. Plus(h.seq, 1) \in Seq32
  BY <1>2, SynOpen
<1>4. CASE "ACK" \in h.flags /\ ~ack_ok
  <2> DEFINE out == IF "RST" \in h.flags THEN <<>> ELSE << RstSeg(h.ack) >>
  <2>1. out \in Seq(Segment)
    BY <1>2, RstType
  <2>2. r = Step(t, out)
    BY <1>4 DEF on_syn_sent
  <2> HIDE DEF out, r
  <2> QED BY <1>1, <2>1, <2>2, AnswersSame DEF r
<1>5. CASE ~("ACK" \in h.flags /\ ~ack_ok) /\ "RST" \in h.flags
  <2>1. r = Quiet(set_closed(t, "ConnectionRefused")) \/ r = Step(t, <<>>)
    BY <1>5 DEF on_syn_sent, Quiet
  <2>2. <<>> \in Seq(Segment)
    OBVIOUS
  <2> HIDE DEF r
  <2> QED BY <1>1, <2>1, <2>2, AnswersSame, AnswersClosed, ErrorNames DEF r
<1>6. CASE "RST" \notin h.flags /\ ~("ACK" \in h.flags /\ ~ack_ok) /\ "SYN" \notin h.flags
  <2>1. r = Step(t, <<>>)
    BY <1>6 DEF on_syn_sent, Quiet
  <2>2. <<>> \in Seq(Segment)
    OBVIOUS
  <2> HIDE DEF r
  <2> QED BY <1>1, <2>1, <2>2, AnswersSame DEF r
<1>7. CASE "RST" \notin h.flags /\ ack_ok /\ "SYN" \in h.flags
  <2> DEFINE v == [t1 EXCEPT !.una = h.ack, !.wl2 = h.ack, !.state = "Established",
                             !.rto = FALSE, !.retries = 0]
  <2>1. r = output(v, TRUE, FALSE)
    BY <1>7 DEF on_syn_sent
  <2>2. h.ack = t.max
    BY <1>1, <1>2, <1>7, SynAcked DEF SndSyn
  <2>3. t1 \in TcbRec
    BY <1>1, <1>2, <1>3 DEF TcbRec
  <2>4. /\ t1.nxt = t.nxt /\ t1.max = t.max /\ t1.tx = t.tx /\ t1.fin_pending = t.fin_pending
        /\ t1.fin_seq = t.fin_seq /\ t1.fin_acked = t.fin_acked /\ t1.rx = t.rx /\ t1.ooo = t.ooo
        /\ t1.fin_received = t.fin_received /\ t1.discard_rx = t.discard_rx
        /\ t1.user_open = t.user_open /\ t1.error = t.error
    BY <1>1 DEF TcbRec
  <2> HIDE DEF t1, r
  <2>5. "Established" \in States
    BY FinStates
  <2>6. v \in TcbRec
    BY <1>2, <2>3, <2>5 DEF TcbRec
  <2>7. /\ v.state = "Established" /\ v.una = h.ack /\ v.retries = 0
        /\ v.nxt = t1.nxt /\ v.max = t1.max /\ v.tx = t1.tx /\ v.fin_pending = t1.fin_pending
        /\ v.fin_seq = t1.fin_seq /\ v.fin_acked = t1.fin_acked /\ v.rx = t1.rx /\ v.ooo = t1.ooo
        /\ v.fin_received = t1.fin_received /\ v.discard_rx = t1.discard_rx
        /\ v.user_open = t1.user_open /\ v.error = t1.error
    BY <2>3 DEF TcbRec
  <2> HIDE DEF v
  <2>8. Core(v) /\ Settled(v)
    BY <1>1, <2>2, <2>4, <2>6, <2>7, OpenedCore
  <2>9. TRUE \in BOOLEAN
    OBVIOUS
  <2>10. Outputs(v, r)
    BY <2>1, <2>8, <2>9, OutputPlain, Zenon
  <2>11. /\ Done(r.tcb) /\ r.out \in Seq(Segment) /\ r.tcb.error = t.error
         /\ r.tcb.user_open = t.user_open /\ r.tcb.state = "Established"
    BY <2>4, <2>7, <2>10 DEF Outputs, Steady, Done
  <2>12. Kept(t, r.tcb)
    BY <1>1, <2>11, KeptSyn
  <2>13. "Established" \in Lifecycle!Input(t.state)
    BY DEF Lifecycle!Input
  <2> QED BY <2>11, <2>12, <2>13 DEF Answers, Good, r
<1>8. CASE "RST" \notin h.flags /\ "ACK" \notin h.flags /\ "SYN" \in h.flags
  <2> DEFINE v == [t1 EXCEPT !.state = "SynReceived", !.rto = TRUE]
  <2>1. r = send_syn(v)
    BY <1>8 DEF on_syn_sent
  <2>2. t1 \in TcbRec
    BY <1>1, <1>2, <1>3 DEF TcbRec
  <2>3. /\ t1.iss = t.iss /\ t1.una = t.una /\ t1.nxt = t.nxt /\ t1.max = t.max /\ t1.tx = t.tx
        /\ t1.fin_pending = t.fin_pending /\ t1.retries = t.retries
        /\ t1.fin_seq = t.fin_seq /\ t1.fin_acked = t.fin_acked /\ t1.rx = t.rx /\ t1.ooo = t.ooo
        /\ t1.fin_received = t.fin_received /\ t1.discard_rx = t.discard_rx
        /\ t1.user_open = t.user_open /\ t1.error = t.error
    BY <1>1 DEF TcbRec
  <2> HIDE DEF t1, r
  <2>4. "SynReceived" \in States
    BY FinStates
  <2>5. v \in TcbRec
    BY <2>2, <2>4 DEF TcbRec
  <2>6. /\ v.state = "SynReceived" /\ v.rto
        /\ v.iss = t1.iss /\ v.una = t1.una /\ v.nxt = t1.nxt /\ v.max = t1.max /\ v.tx = t1.tx
        /\ v.fin_pending = t1.fin_pending /\ v.retries = t1.retries
        /\ v.fin_seq = t1.fin_seq /\ v.fin_acked = t1.fin_acked /\ v.rx = t1.rx /\ v.ooo = t1.ooo
        /\ v.fin_received = t1.fin_received /\ v.discard_rx = t1.discard_rx
        /\ v.user_open = t1.user_open /\ v.error = t1.error
    BY <2>2 DEF TcbRec
  <2> HIDE DEF v
  <2>7. SndSyn(v) /\ SynState(v) /\ ~synchronized(v) /\ v.state # "Closed"
    BY <1>1, <2>3, <2>6 DEF SndSyn, SynState, synchronized
  <2>8. LifeOK(v) /\ Settled(v)
    BY <1>1, <2>3, <2>6 DEF LifeOK, Settled, FinState, GotFin, SndSyn
  <2>9. Sized(v) /\ DeadlineOK(v) /\ Timed(v)
    BY <1>1, <2>3, <2>6 DEF Sized, DeadlineOK, SynState, Timed, can_send_data
  <2>10. RcvOK(v)
    <3>1. t.ooo = <<>>
      BY <1>1 DEF RcvOK, Receiving
    <3> QED BY <2>3, <2>6, <3>1 DEF RcvOK
  <2>11. Core(v) /\ Settled(v) /\ Timed(v)
    BY <2>5, <2>7, <2>8, <2>9, <2>10 DEF Core
  <2>12. /\ r.tcb \in TcbRec /\ Steady(v, r.tcb) /\ r.out \in Seq(Segment)
         /\ r.tcb.nxt = v.nxt /\ r.tcb.max = v.max /\ r.tcb.fin_seq = v.fin_seq /\ r.tcb.rto = v.rto
    BY <2>1, <2>5, SendSynKeeps
  <2>13. Done(r.tcb)
    BY <2>11, <2>12, DoneSteady DEF Done
  <2>14. r.tcb.error = t.error /\ r.tcb.user_open = t.user_open /\ r.tcb.state = "SynReceived"
    BY <2>3, <2>6, <2>12 DEF Steady
  <2>15. Kept(t, r.tcb)
    BY <1>1, <2>14, KeptSyn
  <2>16. "SynReceived" \in Lifecycle!Input(t.state)
    BY DEF Lifecycle!Input
  <2> QED BY <2>12, <2>13, <2>14, <2>15, <2>16 DEF Answers, Good, r
<1> QED BY <1>4, <1>5, <1>6, <1>7, <1>8

\* The ACK that completes a handshake, with whatever text came with it.
LEMMA HandshakeKeeps ==
    ASSUME NEW t, Core(t), t.state = "SynReceived", NEW h \in Segment,
           SeqGt(h.ack, t.una), SeqLe(h.ack, t.max)
    PROVE  Answers(t, TextArrived([t EXCEPT !.state = "Established", !.una = h.ack, !.wnd = h.wnd,
                                            !.wl1 = h.seq, !.wl2 = h.ack, !.rto = FALSE, !.retries = 0], h))
<1> DEFINE v == [t EXCEPT !.state = "Established", !.una = h.ack, !.wnd = h.wnd,
                          !.wl1 = h.seq, !.wl2 = h.ack, !.rto = FALSE, !.retries = 0]
           r == TextArrived(v, h)
<1>1. t \in TcbRec /\ SynState(t)
  BY DEF Core, SynState
<1>2. h.seq \in Seq32 /\ h.ack \in Seq32 /\ h.wnd \in Window /\ "Established" \in States
  BY FinStates DEF Segment
<1>3. h.ack = t.max
  BY <1>1, <1>2, SynAcked
<1>4. v \in TcbRec
  BY <1>1, <1>2 DEF TcbRec
<1>5. /\ v.state = "Established" /\ v.una = h.ack /\ v.retries = 0
      /\ v.nxt = t.nxt /\ v.max = t.max /\ v.tx = t.tx /\ v.fin_pending = t.fin_pending
      /\ v.fin_seq = t.fin_seq /\ v.fin_acked = t.fin_acked /\ v.rx = t.rx /\ v.ooo = t.ooo
      /\ v.fin_received = t.fin_received /\ v.discard_rx = t.discard_rx
      /\ v.user_open = t.user_open /\ v.error = t.error
  BY <1>1 DEF TcbRec
<1> HIDE DEF v
<1>6. Core(v) /\ synchronized(v)
  BY <1>1, <1>3, <1>4, <1>5, OpenedCore
<1>7. Texted(v, r)
  BY <1>6, TextArrivedKeeps
<1> HIDE DEF r
<1>8. /\ Done(r.tcb) /\ r.out \in Seq(Segment) /\ Kept(v, r.tcb) /\ r.tcb.user_open = v.user_open
      /\ r.tcb.state \in Lifecycle!Input("Established")
  BY <1>5, <1>7 DEF Texted, Good
<1>9. r.tcb.error = t.error \/ t.error = NoError
  BY <1>5, <1>8 DEF Kept
<1>10. Kept(t, r.tcb)
  BY <1>1, <1>9, KeptSyn
<1>11. r.tcb.state \in Lifecycle!Input(t.state)
  BY <1>8 DEF Lifecycle!Input
<1> QED BY <1>5, <1>8, <1>10, <1>11 DEF Answers, Good, r, v

\* An acknowledgement and the text behind it.
LEMMA ContinueKeeps ==
    ASSUME NEW t, Core(t), synchronized(t), NEW h \in Segment, ~SeqGt(h.ack, t.max)
    PROVE  Answers(t, Continue(AckArrived(t, h), h))
<1> DEFINE a == AckArrived(t, h)
           b == TextArrived(a.tcb, h)
           r == Continue(a, h)
<1>1. /\ Core(a.tcb) /\ synchronized(a.tcb) /\ SendOnly(t, a.tcb) /\ SeqLe(t.una, a.tcb.una)
      /\ a.out \in Seq(Segment)
  BY AckArrivedKeeps
<1> HIDE DEF a
<1>2. Texted(a.tcb, b)
  BY <1>1, TextArrivedKeeps
<1>3. r.tcb = b.tcb /\ r.out = a.out \o b.out
  BY DEF Continue, After, Step
<1> HIDE DEF b, r
<1>4. /\ Done(b.tcb) /\ b.out \in Seq(Segment) /\ Kept(a.tcb, b.tcb) /\ b.tcb.una = a.tcb.una
      /\ b.tcb.user_open = a.tcb.user_open /\ b.tcb.state \in Lifecycle!Input(a.tcb.state)
  BY <1>2 DEF Texted, Good
<1>5. r.out \in Seq(Segment)
  BY <1>1, <1>3, <1>4, ConcatProperties
<1>6. Kept(t, b.tcb)
  BY <1>1, <1>4 DEF Kept, SendOnly
<1> QED BY <1>1, <1>3, <1>4, <1>5, <1>6 DEF Answers, Good, SendOnly, r, a

\* A segment that finds a block beyond SYN_SENT.
LEMMA OnSynchronizedKeeps ==
    ASSUME NEW t, Core(t), Settled(t), Timed(t), t.state # "SynSent", NEW h \in Segment
    PROVE  Answers(t, on_synchronized(t, h))
<1> DEFINE fin_only == h.data = <<>> /\ "FIN" \in h.flags /\ "SYN" \notin h.flags /\ h.seq = t.rcv_nxt
           again == t.state = "SynReceived" /\ "SYN" \in h.flags /\ "ACK" \notin h.flags
                                            /\ Plus(h.seq, 1) = t.rcv_nxt
           ok == acceptable(t, h.seq, SegLen(h)) \/ fin_only
           r == on_synchronized(t, h)
<1>1. t \in TcbRec /\ Done(t) /\ t.state # "Closed" /\ Same(t, t) /\ h.ack \in Seq32
  BY DEF Core, Done, Same, Segment
<1>2. Answers(t, send_ack(t)) /\ Answers(t, send_syn(t)) /\ Answers(t, Quiet(t))
  <2>1. <<>> \in Seq(Segment)
    OBVIOUS
  <2>2. Answers(t, Quiet(t))
    BY <1>1, <2>1, AnswersSame DEF Quiet
  <2> QED BY <1>1, <2>2, AnswersAck
<1>3. CASE again
  <2>1. r = send_syn(t)
    BY <1>3 DEF on_synchronized
  <2> QED BY <1>2, <2>1
<1>4. CASE ~again /\ ~ok
  <2>1. CASE "RST" \in h.flags
    <3>1. r = Quiet(t)
      BY <1>4, <2>1 DEF on_synchronized
    <3> QED BY <1>2, <3>1
  <2>2. CASE "RST" \notin h.flags
    <3> DEFINE dl == t.close_dl \/ (t.state = "TimeWait" /\ "FIN" \in h.flags)
               c == [t EXCEPT !.close_dl = dl]
    <3>1. r = send_ack(c)
      BY <1>4, <2>2 DEF on_synchronized
    <3>2. dl \in BOOLEAN /\ (t.close_dl => dl)
      BY <1>1 DEF TcbRec
    <3> HIDE DEF dl, r
    <3>3. c \in TcbRec /\ Same(t, c) /\ c.close_dl = dl /\ c.rto = t.rto /\ c.retries = t.retries
      BY <1>1, <3>2 DEF TcbRec, Same
    <3> HIDE DEF c
    <3>4. DeadlineOK(c) /\ c.retries <= MaxRetries
      BY <3>2, <3>3 DEF Core, LifeOK, DeadlineOK, SynState, Same
    <3>5. Core(c) /\ Settled(c) /\ Timed(c)
      BY <3>3, <3>4, CoreSame
    <3>6. Done(c) /\ c.state # "Closed"
      BY <3>5 DEF Done, Core
    <3> QED BY <3>1, <3>3, <3>6, AnswersAck DEF r
  <2> QED BY <2>1, <2>2
<1>5. CASE ~again /\ ok /\ "RST" \in h.flags
  <2> DEFINE err == CASE t.state = "SynReceived" /\ t.user_open -> "ConnectionRefused"
                      [] t.state = "SynReceived" /\ ~t.user_open -> NoError
                      [] t.state \in {"Closing", "LastAck", "TimeWait"} -> NoError
                      [] OTHER -> "ConnectionReset"
  <2>1. err \in Errors
    <3>1. err \in {"ConnectionRefused", NoError, "ConnectionReset"}
      OBVIOUS
    <3> HIDE DEF err
    <3> QED BY <3>1, ErrorNames
  <2>2. r = Quiet(set_closed(t, err)) \/ r = send_ack(t)
    BY <1>5 DEF on_synchronized, ResetArrived
  <2> HIDE DEF err, r
  <2> QED BY <1>1, <1>2, <2>1, <2>2, AnswersClosed DEF r
<1>6. CASE ~again /\ ok /\ "RST" \notin h.flags /\ ("SYN" \in h.flags \/ "ACK" \notin h.flags)
  <2>1. r = send_ack(t) \/ r = Quiet(t)
    BY <1>6 DEF on_synchronized
  <2> QED BY <1>2, <2>1
<1>7. CASE ~again /\ ok /\ "RST" \notin h.flags /\ "SYN" \notin h.flags /\ "ACK" \in h.flags
  <2>1. CASE t.state = "SynReceived" /\ SeqGt(h.ack, t.una) /\ SeqLe(h.ack, t.max)
    <3> DEFINE v == [t EXCEPT !.state = "Established", !.una = h.ack, !.wnd = h.wnd,
                              !.wl1 = h.seq, !.wl2 = h.ack, !.rto = FALSE, !.retries = 0]
    <3>1. r = TextArrived(v, h)
      BY <1>7, <2>1 DEF on_synchronized
    <3>2. Answers(t, TextArrived(v, h))
      BY <2>1, HandshakeKeeps
    <3> QED BY <3>1, <3>2
  <2>2. CASE t.state = "SynReceived" /\ ~(SeqGt(h.ack, t.una) /\ SeqLe(h.ack, t.max))
    <3>1. r = Step(t, << RstSeg(h.ack) >>)
      BY <1>7, <2>2 DEF on_synchronized
    <3>2. << RstSeg(h.ack) >> \in Seq(Segment)
      BY <1>1, RstType
    <3> QED BY <1>1, <3>1, <3>2, AnswersSame
  <2>3. CASE t.state # "SynReceived" /\ SeqGt(h.ack, t.max)
    <3>1. r = send_ack(t)
      BY <1>7, <2>3 DEF on_synchronized
    <3> QED BY <1>2, <3>1
  <2>4. CASE t.state # "SynReceived" /\ ~SeqGt(h.ack, t.max)
    <3>1. r = Continue(AckArrived(t, h), h)
      BY <1>7, <2>4 DEF on_synchronized
    <3>2. synchronized(t)
      BY <1>1, <2>4, NotBoth DEF SynState
    <3> QED BY <2>4, <3>1, <3>2, ContinueKeeps
  <2> QED BY <2>1, <2>2, <2>3, <2>4
<1> QED BY <1>3, <1>4, <1>5, <1>6, <1>7

\* A segment leaves every block in order, takes nothing back, and moves it along TcpStates.
LEMMA OnSegmentKeeps ==
    ASSUME NEW t, Done(t), NEW h \in Segment
    PROVE  Answers(t, on_segment(t, h))
<1>1. t \in TcbRec
  BY DoneTypes
<1>2. t.state # "Listen"
  BY <1>1 DEF TcbRec, States
<1>3. CASE t.state = "Closed"
  <2>1. on_segment(t, h) = Step(t, <<>>)
    BY <1>3 DEF on_segment, Quiet
  <2>2. <<>> \in Seq(Segment)
    OBVIOUS
  <2> QED BY <2>1, <2>2, AnswersSame
<1>4. CASE t.state # "Closed"
  <2>1. Core(t) /\ Settled(t) /\ Timed(t)
    BY <1>4 DEF Done, Ended
  <2>2. CASE t.state = "SynSent"
    <3>1. on_segment(t, h) = on_syn_sent(t, h)
      BY <2>2 DEF on_segment
    <3> QED BY <2>1, <2>2, <3>1, OnSynSentKeeps
  <2>3. CASE t.state # "SynSent"
    <3>1. on_segment(t, h) = on_synchronized(t, h)
      BY <1>2, <1>4, <2>3 DEF on_segment
    <3> QED BY <2>1, <2>3, <3>1, OnSynchronizedKeeps
  <2> QED BY <2>2, <2>3
<1> QED BY <1>3, <1>4

----------------------------------------------------------------------------
(* New blocks. *)

\* A block that has done nothing but choose its SYN.
Fresh(v) ==
    /\ v.una = v.iss /\ v.nxt = Plus(v.iss, 1) /\ v.max = Plus(v.iss, 1)
    /\ v.tx = <<>> /\ v.rx = <<>> /\ v.ooo = <<>> /\ v.rto /\ v.retries = 0
    /\ ~v.fin_pending /\ v.fin_seq = NoSeq /\ ~v.fin_acked /\ ~v.fin_received /\ ~v.discard_rx

\* A fresh block is in order, and still is when its SYN has been sent.
LEMMA FreshKeeps ==
    ASSUME NEW v \in TcbRec, SynState(v), Fresh(v)
    PROVE  LET r == send_syn(v)
           IN  /\ Done(r.tcb) /\ r.out \in Seq(Segment)
               /\ r.tcb.state = v.state /\ r.tcb.user_open = v.user_open
<1>1. SndSyn(v) /\ ~synchronized(v) /\ v.state # "Closed"
  BY DEF SndSyn, SynState, synchronized, Fresh
<1>2. LifeOK(v) /\ Settled(v) /\ Timed(v)
  <2>1. 0 <= MaxRetries
    BY LimitAssumption
  <2> QED BY <2>1 DEF LifeOK, Settled, Timed, can_send_data, FinState, GotFin, SynState, Fresh
<1>3. Sized(v)
  <2>1. Len(<<>>) = 0 /\ 0 <= TxCap /\ 0 <= MaxOoo /\ 0 <= RxCap /\ 0 <= MaxRetries + 1
    BY BufferAssumption, LimitAssumption
  <2> QED BY <2>1 DEF Sized, Fresh
<1>4. RcvOK(v) /\ DeadlineOK(v)
  BY DEF RcvOK, DeadlineOK, SynState, Fresh
<1>5. Core(v)
  BY <1>1, <1>2, <1>3, <1>4 DEF Core
<1> DEFINE r == send_syn(v)
<1>6. /\ r.tcb \in TcbRec /\ Steady(v, r.tcb) /\ r.out \in Seq(Segment)
      /\ r.tcb.nxt = v.nxt /\ r.tcb.max = v.max /\ r.tcb.fin_seq = v.fin_seq /\ r.tcb.rto = v.rto
  BY SendSynKeeps
<1> HIDE DEF r
<1>7. Done(r.tcb)
  BY <1>2, <1>5, <1>6, DoneSteady DEF Done
<1> QED BY <1>6, <1>7 DEF Steady, r

\* What a block is made of.
LEMMA BlankType ==
    ASSUME NEW iss \in Seq32, NEW s \in {"SynSent", "SynReceived"}
    PROVE  LET b == blank(iss, s)
           IN  /\ b \in TcbRec /\ b.state = s /\ b.iss = iss /\ b.una = iss
               /\ b.tx = <<>> /\ b.rx = <<>> /\ b.ooo = <<>> /\ b.retries = 0
               /\ ~b.fin_pending /\ b.fin_seq = NoSeq /\ ~b.fin_acked /\ ~b.fin_received /\ ~b.discard_rx
               /\ b.user_open
<1>1. /\ 0 \in Seq32 /\ 0 \in Window /\ 0 \in Dups /\ 0 \in Nat /\ NoSeq \in OptSeq /\ NoError \in Errors
      /\ s \in States /\ <<>> \in Seq(Datum) /\ <<>> \in Seq(HeldSeg)
  BY SpaceFacts, ErrorNames DEF Seq32, Window, Dups, OptSeq, States
<1>2. blank(iss, s) \in TcbRec
  BY <1>1 DEF blank, TcbRec
<1> QED BY <1>2 DEF blank

\* connect.
LEMMA NewConnectKeeps ==
    ASSUME NEW iss \in Seq32
    PROVE  LET r == new_connect(iss)
           IN  /\ Done(r.tcb) /\ r.out \in Seq(Segment)
               /\ r.tcb.state = "SynSent" /\ r.tcb.user_open
<1> DEFINE b == blank(iss, "SynSent")
           v == [b EXCEPT !.nxt = Plus(iss, 1), !.max = Plus(iss, 1), !.rto = TRUE]
           r == new_connect(iss)
<1>1. r = send_syn(v)
  BY DEF new_connect
<1>2. /\ b \in TcbRec /\ b.state = "SynSent" /\ b.iss = iss /\ b.una = iss
      /\ b.tx = <<>> /\ b.rx = <<>> /\ b.ooo = <<>> /\ b.retries = 0
      /\ ~b.fin_pending /\ b.fin_seq = NoSeq /\ ~b.fin_acked /\ ~b.fin_received /\ ~b.discard_rx
      /\ b.user_open
  BY BlankType
<1>3. Plus(iss, 1) \in Seq32
  BY SynOpen
<1> HIDE DEF b, r
<1>4. v \in TcbRec
  BY <1>2, <1>3 DEF TcbRec
<1>5. Fresh(v) /\ v.state = "SynSent" /\ v.user_open
  BY <1>2 DEF TcbRec, Fresh
<1> HIDE DEF v
<1> QED BY <1>1, <1>4, <1>5, FreshKeeps DEF SynState, r

\* A SYN that a listener takes.
LEMMA NewPassiveKeeps ==
    ASSUME NEW iss \in Seq32, NEW h \in Segment
    PROVE  LET r == new_passive(iss, h)
           IN  /\ Done(r.tcb) /\ r.out \in Seq(Segment)
               /\ r.tcb.state = "SynReceived" /\ ~r.tcb.user_open
<1> DEFINE b == blank(iss, "SynReceived")
           v == [b EXCEPT !.user_open = FALSE, !.rcv_nxt = Plus(h.seq, 1),
                          !.nxt = Plus(iss, 1), !.max = Plus(iss, 1),
                          !.wnd = h.wnd, !.wl1 = h.seq, !.rto = TRUE]
           r == new_passive(iss, h)
<1>1. r = send_syn(v)
  BY DEF new_passive
<1>2. /\ b \in TcbRec /\ b.state = "SynReceived" /\ b.iss = iss /\ b.una = iss
      /\ b.tx = <<>> /\ b.rx = <<>> /\ b.ooo = <<>> /\ b.retries = 0
      /\ ~b.fin_pending /\ b.fin_seq = NoSeq /\ ~b.fin_acked /\ ~b.fin_received /\ ~b.discard_rx
  BY BlankType
<1>3. h.seq \in Seq32 /\ h.wnd \in Window
  BY DEF Segment
<1>4. Plus(iss, 1) \in Seq32 /\ Plus(h.seq, 1) \in Seq32
  BY <1>3, SynOpen
<1> HIDE DEF b, r
<1>5. v \in TcbRec
  BY <1>2, <1>3, <1>4 DEF TcbRec
<1>6. Fresh(v) /\ v.state = "SynReceived" /\ ~v.user_open
  BY <1>2 DEF TcbRec, Fresh
<1> HIDE DEF v
<1> QED BY <1>1, <1>5, <1>6, FreshKeeps DEF SynState, r
============================================================================
