------------------------------- MODULE Tcb -------------------------------
(***************************************************************************)
(* One TCP control block of the guest network stack (ecm-net, tcb.rs).     *)
(* The Rust type is sans-IO: a method mutates the block and appends the    *)
(* segments it wants sent to an output vector.  Here a method is an        *)
(* operator on the block that returns a step, [tcb, out]: the block after  *)
(* the call and the sequence of segments it emitted.                       *)
(*                                                                         *)
(* Abstracted: the value of the retransmission timeout and its RTT         *)
(* estimator (a deadline is a BOOLEAN, armed or not, and an armed timer    *)
(* may fire at any time), the PSH flag, MSS negotiation (both ends use     *)
(* Mss), the retransmit statistics.  Sequence numbers keep their modular   *)
(* arithmetic in a space of SeqSpace values instead of 2^32.               *)
(***************************************************************************)
EXTENDS Integers, Sequences

CONSTANTS
    SeqSpace,     \* size of the sequence number space (2^32 in the code)
    RxCap,        \* RX_CAP: receive buffer, the largest window
    TxCap,        \* TX_CAP: send buffer
    Mss,          \* TCP_MSS
    MaxRetries,   \* MAX_RETRIES
    MaxOoo        \* MAX_OOO

ASSUME SeqSpaceAssumption == SeqSpace \in Nat /\ SeqSpace % 2 = 0 /\ SeqSpace > 2 * RxCap
ASSUME BufferAssumption == RxCap \in Nat \ {0} /\ TxCap \in Nat \ {0} /\ Mss \in Nat \ {0}
ASSUME LimitAssumption == MaxRetries \in Nat /\ MaxOoo \in Nat

----------------------------------------------------------------------------
(* Sequence numbers: comparison of a - b as a signed word (tcp.rs). *)

Seq32 == 0 .. SeqSpace - 1
Plus(a, n) == (a + n) % SeqSpace
Minus(a, b) == (a - b) % SeqSpace
SeqLt(a, b) == Minus(a, b) >= SeqSpace \div 2
SeqLe(a, b) == a = b \/ SeqLt(a, b)
SeqGt(a, b) == SeqLt(b, a)
SeqGe(a, b) == SeqLe(b, a)

Least(a, b) == IF a < b THEN a ELSE b
NoSeq == -1          \* None of an Option<u32>
NoError == "none"    \* None of an Option<NetError>

----------------------------------------------------------------------------
(* The block and its segments. *)

blank(iss, state) ==
    [state |-> state, iss |-> iss, una |-> iss, nxt |-> iss, max |-> iss,
     wnd |-> 0, wl1 |-> 0, wl2 |-> 0, tx |-> <<>>,
     fin_pending |-> FALSE, fin_seq |-> NoSeq, fin_acked |-> FALSE,
     rcv_nxt |-> 0, rx |-> <<>>, ooo |-> <<>>, rx_fin_seq |-> NoSeq,
     fin_received |-> FALSE, last_adv_wnd |-> 0, discard_rx |-> FALSE,
     rto |-> FALSE, retries |-> 0, dupacks |-> 0, close_dl |-> FALSE,
     error |-> NoError, user_open |-> TRUE]

synchronized(t) == t.state \notin {"Closed", "Listen", "SynSent", "SynReceived"}
can_send_data(t) == t.state \in {"Established", "CloseWait", "FinWait1", "Closing", "LastAck"}

\* Mutant of rcv_wnd: the window forgets what waits in the buffer.
rcv_wnd_always_open(t) == RxCap
rcv_wnd(t) == IF t.discard_rx THEN RxCap ELSE RxCap - Least(Len(t.rx), RxCap)
data_in_flight(t) == Least(Minus(t.nxt, t.una), Len(t.tx))
tx_space(t) == IF Len(t.tx) > TxCap THEN 0 ELSE TxCap - Len(t.tx)

Step(t, out) == [tcb |-> t, out |-> out]
Quiet(t) == Step(t, <<>>)

seg(t, seq, flags, data) ==
    [seq |-> seq, ack |-> t.rcv_nxt, flags |-> flags, wnd |-> rcv_wnd(t), data |-> data]
RstSeg(seq) == [seq |-> seq, ack |-> 0, flags |-> {"RST"}, wnd |-> 0, data |-> <<>>]

\* Every segment built by seg() advertises the window and remembers it.
Sending(t, segs) == Step([t EXCEPT !.last_adv_wnd = rcv_wnd(t)], segs)

send_ack(t) == Sending(t, << seg(t, t.nxt, {"ACK"}, <<>>) >>)
send_syn(t) ==
    IF t.state = "SynSent"
    THEN Sending(t, << [seg(t, t.iss, {"SYN"}, <<>>) EXCEPT !.ack = 0] >>)
    ELSE Sending(t, << seg(t, t.iss, {"SYN", "ACK"}, <<>>) >>)

set_closed(t, err) ==
    [t EXCEPT !.state = "Closed", !.error = IF @ = NoError THEN err ELSE @,
              !.rto = FALSE, !.close_dl = FALSE, !.tx = <<>>, !.ooo = <<>>]
\* Mutant of enter_time_wait: the deadline is not set.
enter_time_wait_for_ever(t) == [t EXCEPT !.state = "TimeWait", !.rto = FALSE, !.tx = <<>>]
enter_time_wait(t) ==
    [t EXCEPT !.state = "TimeWait", !.rto = FALSE, !.close_dl = TRUE, !.tx = <<>>]
enter_fin_wait2(t) ==
    [t EXCEPT !.state = "FinWait2", !.rto = FALSE, !.close_dl = @ \/ ~t.user_open]

new_connect(iss) ==
    send_syn([blank(iss, "SynSent") EXCEPT
                !.nxt = Plus(iss, 1), !.max = Plus(iss, 1), !.rto = TRUE])
new_passive(iss, syn) ==
    send_syn([blank(iss, "SynReceived") EXCEPT
                !.user_open = FALSE, !.rcv_nxt = Plus(syn.seq, 1),
                !.nxt = Plus(iss, 1), !.max = Plus(iss, 1),
                !.wnd = syn.wnd, !.wl1 = syn.seq, !.rto = TRUE])

----------------------------------------------------------------------------
(* output: everything the peer's window allows, data first, then the FIN.  *)
(* The loop sends MSS-sized pieces of tx starting at snd_nxt; what it does *)
(* in total is stated here in closed form.                                 *)

Unsent(t) == Len(t.tx) - Minus(t.nxt, t.una)

Usable(t, probe) ==
    LET end == Plus(t.una, t.wnd)
        open == IF SeqLt(t.nxt, end) THEN Minus(end, t.nxt) ELSE 0
    IN  IF probe /\ open = 0 /\ Unsent(t) > 0 THEN 1 ELSE open

\* The segments that carry n bytes from snd_nxt, with a FIN on the last one if fin.
Pieces(t, n, fin) ==
    LET k == IF n = 0 THEN (IF fin THEN 1 ELSE 0) ELSE (n + Mss - 1) \div Mss
        off == Minus(t.nxt, t.una)
        piece(i) == SubSeq(t.tx, off + (i - 1) * Mss + 1, off + Least(i * Mss, n))
    IN  [i \in 1 .. k |-> seg(t, Plus(t.nxt, (i - 1) * Mss),
                              {"ACK"} \cup (IF fin /\ i = k THEN {"FIN"} ELSE {}), piece(i))]

\* A FIN goes with the last byte, and again only if what is sent reaches it.
FinNow(t, n) ==
    LET last == Plus(t.nxt, IF n = 0 THEN 0 ELSE ((n - 1) \div Mss) * Mss)
    IN  /\ t.fin_pending /\ n = Unsent(t)
        /\ t.fin_seq = NoSeq \/ SeqGe(t.fin_seq, last)

Advanced(t, nxt1, fin) ==
    [t EXCEPT !.nxt = nxt1, !.max = IF SeqGt(nxt1, @) THEN nxt1 ELSE @,
              !.fin_seq = IF fin THEN Minus(nxt1, 1) ELSE @]

SendPieces(t, n, fin) ==
    IF n = 0 /\ ~fin THEN Quiet(t)
    ELSE Sending(Advanced(t, Plus(t.nxt, n + (IF fin THEN 1 ELSE 0)), fin), Pieces(t, n, fin))

SendBytes(t, n) == SendPieces(t, n, FinNow(t, n))
SendWindow(t, probe) ==
    IF Minus(t.nxt, t.una) > Len(t.tx) THEN Quiet(t)        \* FIN in flight
    ELSE SendBytes(t, Least(Unsent(t), Usable(t, probe)))

\* Mutant of ArmRto: no persist timer.
ArmRto_no_persist(t) == [t EXCEPT !.rto = @ \/ t.una # t.max]
\* The timer runs while anything is unacknowledged, or as a persist timer.
ArmRto(t) ==
    LET persist == t.wnd = 0 /\ Len(t.tx) > data_in_flight(t)
    IN  [t EXCEPT !.rto = @ \/ t.una # t.max \/ persist]

Armed(r) == Step(ArmRto(r.tcb), r.out)
Acking(r, force_ack) == IF r.out = <<>> /\ force_ack THEN send_ack(r.tcb) ELSE r

output(t, force_ack, probe) ==
    Acking(IF can_send_data(t) THEN Armed(SendWindow(t, probe)) ELSE Quiet(t), force_ack)

retransmit_first(t) ==
    LET len == Least(Len(t.tx), Mss)
        fin == t.fin_seq # NoSeq /\ t.fin_seq = Plus(t.una, len)
    IN  IF len = 0 /\ ~fin THEN Quiet(t)
        ELSE Sending(t, << seg(t, t.una, {"ACK"} \cup (IF fin THEN {"FIN"} ELSE {}),
                               SubSeq(t.tx, 1, len)) >>)

----------------------------------------------------------------------------
(* The user's calls. *)

write(t, data) ==
    output([t EXCEPT !.tx = @ \o SubSeq(data, 1, Least(Len(data), tx_space(t)))], FALSE, FALSE)

read(t, n) ==
    LET t1 == [t EXCEPT !.rx = SubSeq(@, n + 1, Len(@))]
        w  == rcv_wnd(t1)
        update == \/ w >= t.last_adv_wnd + Least(2 * Mss, RxCap \div 2)
                  \/ t.last_adv_wnd = 0 /\ w > 0
    IN  IF n > 0 /\ synchronized(t) /\ ~t.fin_received /\ update THEN send_ack(t1) ELSE Quiet(t1)

shutdown_write(t) ==
    CASE t.state = "Established" ->
            output([t EXCEPT !.fin_pending = TRUE, !.state = "FinWait1"], FALSE, FALSE)
      [] t.state = "CloseWait" ->
            output([t EXCEPT !.fin_pending = TRUE, !.state = "LastAck"], FALSE, FALSE)
      [] OTHER -> Quiet(t)

abort(t) ==
    Step(set_closed(t, "ConnectionAborted"),
         IF synchronized(t) \/ t.state = "SynReceived" THEN << RstSeg(t.nxt) >> ELSE <<>>)

\* Mutant of close: closing in FIN_WAIT_2 does not limit the wait for the peer's FIN.
close_no_deadline(t) ==
    LET c == [t EXCEPT !.user_open = FALSE, !.discard_rx = TRUE, !.rx = <<>>]
    IN  CASE t.state \in {"SynSent", "SynReceived", "Closed"} -> abort(c)
          [] t.state \in {"Established", "CloseWait"} -> shutdown_write(c)
          [] OTHER -> Quiet(c)
\* tcp_close of the stack: close(), and abort() when there is no connection to finish.
close(t) ==
    LET c == [t EXCEPT !.user_open = FALSE, !.discard_rx = TRUE, !.rx = <<>>]
    IN  CASE t.state \in {"SynSent", "SynReceived", "Closed"} -> abort(c)
          [] t.state \in {"Established", "CloseWait"} -> shutdown_write(c)
          [] t.state = "FinWait2" -> Quiet([c EXCEPT !.close_dl = TRUE])
          [] OTHER -> Quiet(c)

on_unreachable(t) == IF t.state = "SynSent" THEN set_closed(t, "HostUnreachable") ELSE t
fail(t) == set_closed(t, "ConnectionAborted")

----------------------------------------------------------------------------
(* Timers: the two branches of on_timer. *)

close_timer(t) ==
    IF t.state \in {"TimeWait", "FinWait2"} THEN set_closed(t, NoError) ELSE t

\* A connection that has sent its SYN again, or rewound to snd_una and sent what fits.
Resend(t) ==
    CASE t.state \in {"SynSent", "SynReceived"} -> send_syn(t)
      [] can_send_data(t) -> output([t EXCEPT !.nxt = t.una], FALSE, TRUE)
      [] OTHER -> Quiet(t)

Rearmed(r, persist) == Step([r.tcb EXCEPT !.rto = @ \/ r.tcb.una # r.tcb.max \/ persist], r.out)

rto_timer(t) ==
    LET persist == t.wnd = 0 /\ t.una = t.max /\ t.tx # <<>>
        tries   == IF persist THEN t.retries ELSE t.retries + 1
        t1      == [t EXCEPT !.rto = FALSE, !.retries = tries, !.dupacks = 0]
    IN  IF tries > MaxRetries
        THEN Quiet(set_closed(t1, "TimedOut"))
        ELSE Rearmed(Resend(t1), persist)

----------------------------------------------------------------------------
(* Input: reassembly. *)

push_rx(t, data) ==
    [t EXCEPT !.rx = IF t.discard_rx THEN @ ELSE @ \o data,
              !.rcv_nxt = Plus(@, Len(data))]

\* Vec::swap_remove.
SwapRemove(s, i) == SubSeq([s EXCEPT ![i] = s[Len(s)]], 1, Len(s) - 1)

\* One round of the loop: the first held segment that starts at or before rcv_nxt.
DrainOne(t) ==
    LET ready == {i \in DOMAIN t.ooo : SeqLe(t.ooo[i].seq, t.rcv_nxt)}
    IN  IF ready = {} THEN t
        ELSE LET i    == CHOOSE j \in ready : \A k \in ready : j <= k
                 skip == Minus(t.rcv_nxt, t.ooo[i].seq)
                 t1   == [t EXCEPT !.ooo = SwapRemove(@, i)]
             IN  IF skip < Len(t.ooo[i].data)
                 THEN push_rx(t1, SubSeq(t.ooo[i].data, skip + 1, Len(t.ooo[i].data)))
                 ELSE t1

drain_ooo(t) ==
    LET after[n \in 0 .. Len(t.ooo)] == IF n = 0 THEN t ELSE DrainOne(after[n - 1])
    IN  after[Len(t.ooo)]

\* Mutant of accept_data: what arrived before is not cut off.
accept_data_no_trim(t, seq, data) ==
    IF SeqLe(seq, t.rcv_nxt) THEN drain_ooo(push_rx(t, SubSeq(data, 1, Least(Len(data), rcv_wnd(t)))))
    ELSE t
accept_data(t, seq, data) ==
    LET skip  == IF SeqLt(seq, t.rcv_nxt) THEN Minus(t.rcv_nxt, seq) ELSE 0
        start == IF skip > 0 THEN t.rcv_nxt ELSE seq
        off   == Minus(start, t.rcv_nxt)
        room  == rcv_wnd(t) - off
        part  == SubSeq(data, skip + 1, Least(Len(data), skip + room))
        held  == \E i \in DOMAIN t.ooo : t.ooo[i].seq = start /\ Len(t.ooo[i].data) >= Len(part)
    IN  IF skip >= Len(data) \/ room <= 0 THEN t
        ELSE IF start = t.rcv_nxt THEN drain_ooo(push_rx(t, part))
        ELSE IF Len(t.ooo) < MaxOoo /\ ~held
        THEN [t EXCEPT !.ooo = Append(@, [seq |-> start, data |-> part])] ELSE t

----------------------------------------------------------------------------
(* Input: segments. *)

acceptable(t, seq, len) ==
    LET w == rcv_wnd(t)
        in_wnd(s) == SeqGe(s, t.rcv_nxt) /\ SeqLt(s, Plus(t.rcv_nxt, w))
    IN  CASE len = 0 /\ w = 0 -> seq = t.rcv_nxt
          [] len = 0 /\ w > 0 -> in_wnd(seq)
          [] len > 0 /\ w = 0 -> FALSE
          [] OTHER -> in_wnd(seq) \/ in_wnd(Plus(seq, len - 1))

SegLen(h) == Len(h.data) + (IF "SYN" \in h.flags THEN 1 ELSE 0) + (IF "FIN" \in h.flags THEN 1 ELSE 0)

\* Mutant of on_syn_sent: the SYN-ACK is taken without a look at what it acknowledges.
on_syn_sent_any_ack(t, h) ==
    LET t1 == [t EXCEPT !.rcv_nxt = Plus(h.seq, 1), !.wnd = h.wnd, !.wl1 = h.seq]
    IN  IF "RST" \in h.flags THEN Quiet(set_closed(t, "ConnectionRefused"))
        ELSE IF "SYN" \notin h.flags THEN Quiet(t)
        ELSE IF "ACK" \in h.flags
        THEN output([t1 EXCEPT !.una = t.max, !.wl2 = h.ack, !.state = "Established",
                               !.rto = FALSE, !.retries = 0], TRUE, FALSE)
        ELSE send_syn([t1 EXCEPT !.state = "SynReceived", !.rto = TRUE])

\* The peer's SYN answers ours: both opened, or the listener accepted.
on_syn_sent(t, h) ==
    LET ack_ok == "ACK" \in h.flags /\ SeqGt(h.ack, t.iss) /\ SeqLe(h.ack, t.max)
        t1 == [t EXCEPT !.rcv_nxt = Plus(h.seq, 1), !.wnd = h.wnd, !.wl1 = h.seq]
    IN  IF "ACK" \in h.flags /\ ~ack_ok
        THEN Step(t, IF "RST" \in h.flags THEN <<>> ELSE << RstSeg(h.ack) >>)
        ELSE IF "RST" \in h.flags
        THEN Quiet(IF ack_ok THEN set_closed(t, "ConnectionRefused") ELSE t)
        ELSE IF "SYN" \notin h.flags THEN Quiet(t)
        ELSE IF ack_ok
        THEN output([t1 EXCEPT !.una = h.ack, !.wl2 = h.ack, !.state = "Established",
                               !.rto = FALSE, !.retries = 0], TRUE, FALSE)
        ELSE send_syn([t1 EXCEPT !.state = "SynReceived", !.rto = TRUE])

\* Mutant of NewAck: one byte more leaves the send buffer than was acknowledged.
NewAck_drains_one_more(t, ack) ==
    [t EXCEPT !.fin_acked = @ \/ (t.fin_seq # NoSeq /\ ack = Plus(t.fin_seq, 1)),
              !.tx = SubSeq(@, Least(Minus(ack, t.una) + 1, Len(@)) + 1, Len(@)),
              !.una = ack, !.nxt = IF SeqLt(@, ack) THEN ack ELSE @,
              !.retries = 0, !.dupacks = 0, !.rto = ack # t.max]
\* An ACK of new data: trim tx, and restart or stop the timer.
NewAck(t, ack) ==
    [t EXCEPT !.fin_acked = @ \/ (t.fin_seq # NoSeq /\ ack = Plus(t.fin_seq, 1)),
              !.tx = SubSeq(@, Least(Minus(ack, t.una), Len(@)) + 1, Len(@)),
              !.una = ack, !.nxt = IF SeqLt(@, ack) THEN ack ELSE @,
              !.retries = 0, !.dupacks = 0, !.rto = ack # t.max]

\* An ACK of nothing new: three in a row resend the first segment.
DupAck(t, h) ==
    LET dup == h.data = <<>> /\ "FIN" \notin h.flags /\ h.wnd = t.wnd /\ t.una # t.max
        t1  == [t EXCEPT !.dupacks = IF dup THEN Least(@ + 1, 4) ELSE @]
        r   == IF dup /\ t1.dupacks = 3 THEN retransmit_first(t1) ELSE Quiet(t1)
    IN  Step([r.tcb EXCEPT !.retries = IF h.wnd = 0 THEN 0 ELSE @], r.out)

WindowUpdate(t, h) ==
    IF SeqLt(t.wl1, h.seq) \/ (t.wl1 = h.seq /\ SeqLe(t.wl2, h.ack))
    THEN [t EXCEPT !.wnd = h.wnd, !.wl1 = h.seq, !.wl2 = h.ack] ELSE t

\* Mutant of AckArrived: an old acknowledgement counts as a new one.
AckArrived_takes_old(t, h) ==
    LET r == IF h.ack = t.una THEN DupAck(t, h) ELSE Quiet(NewAck(t, h.ack))
    IN  Step(WindowUpdate(r.tcb, h), r.out)
AckArrived(t, h) ==
    LET r == CASE SeqGt(h.ack, t.una) -> Quiet(NewAck(t, h.ack))
               [] h.ack = t.una -> DupAck(t, h)
               [] OTHER -> Quiet(t)
    IN  Step(WindowUpdate(r.tcb, h), r.out)

\* Mutant of FinAcked: a simultaneous close is not told from an ordinary one.
FinAcked_one_way(t) ==
    IF t.fin_acked /\ t.state \in {"FinWait1", "Closing"} THEN enter_fin_wait2(t) ELSE t
\* Our FIN is acknowledged (LastAck is handled by its caller: it returns at once).
FinAcked(t) ==
    CASE t.fin_acked /\ t.state = "FinWait1" -> enter_fin_wait2(t)
      [] t.fin_acked /\ t.state = "Closing" -> enter_time_wait(t)
      [] OTHER -> t

Receiving(t) == t.state \in {"Established", "FinWait1", "FinWait2"}

FinNoted(t, h) ==
    LET f == Plus(h.seq, Len(h.data))
    IN  IF "FIN" \in h.flags /\ SeqGe(f, t.rcv_nxt) /\ t.rx_fin_seq = NoSeq
        THEN [t EXCEPT !.rx_fin_seq = f] ELSE t
DataArrived(t, h) ==
    IF ~Receiving(t) THEN t
    ELSE FinNoted(IF h.data # <<>> THEN accept_data(t, h.seq, h.data) ELSE t, h)

\* Mutant of FinArrived: the FIN takes effect before the data it follows.
FinArrived_early(t) ==
    IF t.fin_received \/ t.rx_fin_seq = NoSeq \/ t.state # "Established" THEN t
    ELSE [t EXCEPT !.fin_received = TRUE, !.rcv_nxt = Plus(t.rx_fin_seq, 1), !.ooo = <<>>, !.state = "CloseWait"]
\* The peer's FIN takes effect once all data before it has arrived.
FinArrived(t) ==
    LET t1 == [t EXCEPT !.fin_received = TRUE, !.rcv_nxt = Plus(@, 1), !.ooo = <<>>]
    IN  CASE t.fin_received \/ t.rx_fin_seq # t.rcv_nxt -> t
          [] ~t.fin_received /\ t.rx_fin_seq = t.rcv_nxt ->
                CASE t.state = "Established" -> [t1 EXCEPT !.state = "CloseWait"]
                  [] t.state = "FinWait1" /\ ~t.fin_acked -> [t1 EXCEPT !.state = "Closing"]
                  [] t.state = "FinWait1" /\ t.fin_acked -> enter_time_wait(t1)
                  [] t.state = "FinWait2" -> enter_time_wait(t1)
                  [] OTHER -> t1

\* A FIN restarts TIME_WAIT.
Lingering(t, h) ==
    IF t.state = "TimeWait" /\ "FIN" \in h.flags THEN [t EXCEPT !.close_dl = TRUE] ELSE t

\* Everything after the acknowledgement field has been processed.
TextArrived(t, h) ==
    IF t.fin_acked /\ t.state = "LastAck" THEN Quiet(set_closed(t, NoError))
    ELSE output(Lingering(FinArrived(DataArrived(FinAcked(t), h)), h),
                h.data # <<>> \/ "FIN" \in h.flags, FALSE)

ResetArrived(t) ==
    set_closed(t, CASE t.state = "SynReceived" /\ t.user_open -> "ConnectionRefused"
                    [] t.state = "SynReceived" /\ ~t.user_open -> NoError
                    [] t.state \in {"Closing", "LastAck", "TimeWait"} -> NoError
                    [] OTHER -> "ConnectionReset")

After(out, r) == Step(r.tcb, out \o r.out)
Continue(r, h) == After(r.out, TextArrived(r.tcb, h))

on_synchronized(t, h) ==
    LET fin_only_in_order == h.data = <<>> /\ "FIN" \in h.flags /\ "SYN" \notin h.flags /\ h.seq = t.rcv_nxt
    IN  IF t.state = "SynReceived" /\ "SYN" \in h.flags /\ "ACK" \notin h.flags /\ Plus(h.seq, 1) = t.rcv_nxt
        THEN send_syn(t)
        ELSE IF ~acceptable(t, h.seq, SegLen(h)) /\ ~fin_only_in_order
        THEN IF "RST" \in h.flags THEN Quiet(t)
             ELSE send_ack([t EXCEPT !.close_dl = @ \/ (t.state = "TimeWait" /\ "FIN" \in h.flags)])
        ELSE IF "RST" \in h.flags
        THEN IF h.seq = t.rcv_nxt THEN Quiet(ResetArrived(t)) ELSE send_ack(t)
        ELSE IF "SYN" \in h.flags THEN send_ack(t)
        ELSE IF "ACK" \notin h.flags THEN Quiet(t)
        ELSE IF t.state = "SynReceived"
        THEN IF SeqGt(h.ack, t.una) /\ SeqLe(h.ack, t.max)
             THEN TextArrived([t EXCEPT !.state = "Established", !.una = h.ack, !.wnd = h.wnd,
                                        !.wl1 = h.seq, !.wl2 = h.ack, !.rto = FALSE, !.retries = 0], h)
             ELSE Step(t, << RstSeg(h.ack) >>)
        ELSE IF SeqGt(h.ack, t.max) THEN send_ack(t)
        ELSE Continue(AckArrived(t, h), h)

on_segment(t, h) ==
    CASE t.state \in {"Closed", "Listen"} -> Quiet(t)
      [] t.state = "SynSent" -> on_syn_sent(t, h)
      [] OTHER -> on_synchronized(t, h)
============================================================================
