--------------------------------- MODULE Dhcp ---------------------------------
(***************************************************************************)
(* DHCP on one Ethernet segment: the clients of the guest stack            *)
(* (ecm-net/src/dhcp.rs, driven by stack.rs), the servers (LeaseDb) with   *)
(* the file they save their leases in, and the frames between them.        *)
(*                                                                         *)
(* Time is relative: every timer counts the seconds that are left, and     *)
(* Tick lets one pass.  A transaction id is only ever compared with the    *)
(* client's current one, so a message says whether it still carries that   *)
(* one (cur).  A client has one deadline and one lease, and its T2 is      *)
(* LeaseSecs - T2 seconds before the end of the lease.  Frames between two *)
(* computers stay in order, may be lost, and are on the way for MaxDelay   *)
(* at most.                                                                *)
(***************************************************************************)
EXTENDS LeaseDb, SequencesExt

CONSTANTS
    Clients,     \* the MACs whose computers run the client of ecm-net
    RetryMin,    \* 4000 ms, the first retransmission
    RetryMax,    \* 64000 ms, the longest
    MaxDelay,    \* the longest time a frame is on the way
    QueueCap,    \* bound: frames on the way between two computers
    MaxFaults    \* bound: frames lost, servers and clients stopped, interfaces down

ASSUME DhcpAssumption ==
    /\ Clients \subseteq Macs
    /\ {RetryMin, RetryMax} \subseteq Nat \ {0} /\ RetryMin <= RetryMax
    /\ {MaxDelay, QueueCap, MaxFaults} \subseteq Nat

VARIABLES
    client,   \* client[c]: dhcp::Client, and whether one runs on the interface
    ip,       \* ip[c]: the address of the interface
    ifup,     \* ifup[c]: Interface::is_up
    table,    \* table[s]: LeaseDb::leases
    dirty,    \* dirty[s]: leases changed since the file was written
    file,     \* file[s]: router.leases or dhcpd.leases
    alive,    \* alive[s]: the service runs
    lost,     \* lost[s], a history: s was stopped before a save, or a write failed
    up,       \* up[c][s]: frames from client c to server s
    down,     \* down[c]: frames from the servers to client c
    faults    \* frames lost, servers and clients stopped, interfaces down so far

servers == <<table, dirty, file, alive, lost>>
vars == <<client, ip, ifup, servers, up, down, faults>>

T1 == t1_secs(LeaseSecs)
T2 == t2_secs(LeaseSecs)
Before(a, b) == IF a < b THEN a ELSE b

Off == [state |-> "Off", addr |-> 0, expires |-> 0, deadline |-> 0, retry |-> RetryMin,
        server |-> 0, offered |-> 0]
\* Client::new
NewClient == [Off EXCEPT !.state = "Init"]

Init ==
    /\ client = [c \in Clients |-> Off]
    /\ ip = [c \in Clients |-> 0] /\ ifup = [c \in Clients |-> TRUE]
    /\ table = [s \in Servers |-> {}] /\ file = [s \in Servers |-> {}]
    /\ dirty = [s \in Servers |-> FALSE] /\ alive = [s \in Servers |-> TRUE]
    /\ lost = [s \in Servers |-> FALSE]
    /\ up = [c \in Clients |-> [s \in Servers |-> <<>>]]
    /\ down = [c \in Clients |-> <<>>]
    /\ faults = 0

Fault == faults < MaxFaults /\ faults' = faults + 1

-----------------------------------------------------------------------------
(* Frames.  A full queue loses the frame. *)

Put(queue, m) == IF Len(queue) < QueueCap THEN Append(queue, m) ELSE queue
\* A new transaction id makes every frame on the way an old one.
Aged(queue, renewed) ==
    IF renewed THEN [i \in DOMAIN queue |-> [queue[i] EXCEPT !.cur = FALSE]] ELSE queue

\* Client c sends m to the servers in dests and, if renewed, under a new transaction id.
Send(c, m, dests, renewed) ==
    /\ up' = [up EXCEPT ![c] = [s \in Servers |->
                 IF s \in dests THEN Put(Aged(@[s], renewed), m) ELSE Aged(@[s], renewed)]]
    /\ down' = [down EXCEPT ![c] = Aged(@, renewed)]
NewTransaction(c) ==
    /\ up' = [up EXCEPT ![c] = [s \in Servers |-> Aged(@[s], TRUE)]]
    /\ down' = [down EXCEPT ![c] = Aged(@, TRUE)]

Msg(c, kind, server, req, ciaddr) ==
    [kind |-> kind, mac |-> c, server |-> server, requested |-> req, ciaddr |-> ciaddr,
     cur |-> TRUE, age |-> 0]

-----------------------------------------------------------------------------
(* The client: what dhclient, the configuration and the timers make it do. *)

start_dhcp(c) ==
    /\ client[c].state = "Off"
    /\ client' = [client EXCEPT ![c] = NewClient]
    /\ ip' = [ip EXCEPT ![c] = 0]
    /\ NewTransaction(c)
    /\ UNCHANGED <<ifup, servers, faults>>

\* The address stays on the interface.
stop_dhcp(c) ==
    /\ client[c].state # "Off"
    /\ client' = [client EXCEPT ![c] = Off]
    /\ NewTransaction(c)
    /\ Fault
    /\ UNCHANGED <<ip, ifup, servers>>

\* An interface that is down sends nothing.
release_dhcp(c) ==
    /\ client[c].state # "Off"
    /\ client' = [client EXCEPT ![c] = Off]
    /\ IF client[c].addr # 0
       THEN /\ Send(c, Msg(c, "RELEASE", client[c].server, 0, client[c].addr),
                    IF ifup[c] THEN Servers ELSE {}, TRUE)
            /\ ip' = [ip EXCEPT ![c] = IF @ = client[c].addr THEN 0 ELSE @]
       ELSE NewTransaction(c) /\ UNCHANGED ip
    /\ Fault
    /\ UNCHANGED <<ifup, servers>>

\* set_link and set_admin_up: the client and its lease stay as they are.
change_updown(c) ==
    /\ ifup' = [ifup EXCEPT ![c] = ~@]
    /\ IF ifup[c] THEN Fault ELSE UNCHANGED faults
    /\ UNCHANGED <<client, ip, servers, up, down>>

Expired(k) == k.addr # 0 /\ k.expires = 0
\* The state in which poll sends its message.
PollState(k) ==
    CASE Expired(k) \/ k.state = "Init" -> "Selecting"
      [] ~Expired(k) /\ k.state \in {"Bound", "Renewing"} ->
            IF k.expires <= LeaseSecs - T2 THEN "Rebinding" ELSE "Renewing"
      [] OTHER -> k.state
\* Mutant of PollDeadline: the retry is not cut short by T2 or the end of the lease.
PollDeadline_retry(k, state) == k.retry
PollDeadline(k, state) ==
    CASE k.addr = 0 -> k.retry
      [] k.addr # 0 /\ state = "Renewing" -> Before(k.retry, k.expires - (LeaseSecs - T2))
      [] OTHER -> Before(k.retry, k.expires)
\* Mutant of Polled: the backoff has no limit.
Polled_unbounded(k, state) ==
    [k EXCEPT !.state = state, !.deadline = PollDeadline(k, state), !.retry = 2 * k.retry]
\* Client::poll on k, whose lease is gone if it had expired, in its new state.
Polled(k, state) ==
    [k EXCEPT !.state = state, !.deadline = PollDeadline(k, state),
              !.retry = Before(2 * k.retry, RetryMax)]
PollMsg(c, k, state) ==
    IF k.addr # 0 THEN Msg(c, "REQUEST", 0, 0, k.addr)
    ELSE Msg(c, IF state = "Selecting" THEN "DISCOVER" ELSE "REQUEST", k.server, k.offered, 0)
PollDests(k, state) == IF k.addr # 0 /\ state = "Renewing" THEN {k.server} ELSE Servers

\* dhcp_timers, when the client is due and its interface is up; an expired lease takes its
\* address along.
dhcp_timers(c) ==
    LET k     == IF Expired(client[c]) THEN NewClient ELSE client[c]
        state == PollState(client[c])
    IN  /\ client[c].state # "Off" /\ client[c].deadline = 0 /\ ifup[c]
        /\ client' = [client EXCEPT ![c] = Polled(k, state)]
        /\ ip' = [ip EXCEPT ![c] = IF Expired(client[c]) THEN 0 ELSE @]
        /\ Send(c, PollMsg(c, k, state), PollDests(k, state),
                Expired(client[c]) \/ client[c].state = "Bound")
        /\ UNCHANGED <<ifup, servers, faults>>

-----------------------------------------------------------------------------
(* The client: handle_frame, rx_udp and Client::receive, by what the frame is. *)

Arrived(c) == down[c] # <<>> /\ down' = [down EXCEPT ![c] = Tail(@)]
Confirming == {"Requesting", "Renewing", "Rebinding"}
FromServer(k, m) == k.state = "Rebinding" \/ m.server = k.server

AcceptsOffer(k, m) == m.cur /\ k.state = "Selecting" /\ m.kind = "OFFER"
AcceptsAck(k, m) ==
    /\ m.cur /\ k.state \in Confirming /\ m.kind = "ACK" /\ FromServer(k, m)
    /\ 0 < T1 /\ T1 < T2 /\ T2 < LeaseSecs
AcceptsNak(k, m) == m.cur /\ k.state \in Confirming /\ m.kind = "NAK" /\ FromServer(k, m)

ReceiveOffer(c) ==
    /\ Arrived(c) /\ ifup[c] /\ AcceptsOffer(client[c], Head(down[c]))
    /\ client' = [client EXCEPT ![c].server = Head(down[c]).server,
                                ![c].offered = Head(down[c]).yiaddr,
                                ![c].state = "Requesting",
                                ![c].retry = RetryMin, ![c].deadline = 0]
    /\ UNCHANGED <<ip, ifup, servers, up, faults>>

Bind(k, m) ==
    [k EXCEPT !.state = "Bound", !.addr = m.yiaddr, !.expires = LeaseSecs, !.server = m.server,
              !.deadline = T1, !.retry = RetryMin]
ReceiveAck(c) ==
    /\ Arrived(c) /\ ifup[c] /\ AcceptsAck(client[c], Head(down[c]))
    /\ client' = [client EXCEPT ![c] = Bind(@, Head(down[c]))]
    /\ ip' = [ip EXCEPT ![c] = Head(down[c]).yiaddr]
    /\ UNCHANGED <<ifup, servers, up, faults>>

ReceiveNak(c) ==
    /\ down[c] # <<>> /\ ifup[c] /\ AcceptsNak(client[c], Head(down[c]))
    /\ client' = [client EXCEPT ![c] = NewClient]
    /\ ip' = [ip EXCEPT ![c] = 0]
    /\ up' = [up EXCEPT ![c] = [s \in Servers |-> Aged(@[s], TRUE)]]
    /\ down' = [down EXCEPT ![c] = Aged(Tail(@), TRUE)]
    /\ UNCHANGED <<ifup, servers, faults>>

\* Everything else is dropped, and everything while the interface is down.
ReceiveOther(c) ==
    /\ Arrived(c)
    /\ ifup[c] => /\ ~AcceptsOffer(client[c], Head(down[c]))
                  /\ ~AcceptsAck(client[c], Head(down[c]))
                  /\ ~AcceptsNak(client[c], Head(down[c]))
    /\ UNCHANGED <<client, ip, ifup, servers, up, faults>>

-----------------------------------------------------------------------------
(* A server. *)

Reply(r, s, m) == [kind |-> r.kind, yiaddr |-> r.yiaddr, server |-> s, cur |-> m.cur, age |-> 0]
Handled(c, s, m, r) ==
    /\ table' = [table EXCEPT ![s] = r.db]
    /\ dirty' = [dirty EXCEPT ![s] = @ \/ r.dirty]
    /\ down' = [down EXCEPT ![c] = IF r.reply = NoReply THEN @ ELSE Put(@, Reply(r.reply, s, m))]

\* The reply leaves at once: the table is saved by a later poll.
ServerReceive(c, s) ==
    /\ alive[s] /\ up[c][s] # <<>>
    /\ Handled(c, s, Head(up[c][s]), handle(table[s], s, Head(up[c][s])))
    /\ up' = [up EXCEPT ![c][s] = Tail(@)]
    /\ UNCHANGED <<client, ip, ifup, file, alive, lost, faults>>

\* A message of another implementation's client, whose replies are not followed.
ForeignMessages(f) ==
    {[kind |-> kind, mac |-> f, server |-> server, requested |-> a, ciaddr |-> 0] :
        kind \in {"DISCOVER", "REQUEST", "DECLINE"}, server \in Servers \cup {0}, a \in Hosts \cup {0}}
    \cup {[kind |-> kind, mac |-> f, server |-> server, requested |-> 0, ciaddr |-> a] :
            kind \in {"REQUEST", "RELEASE", "INFORM"}, server \in Servers \cup {0}, a \in Hosts}
HandledForeign(s, r) ==
    /\ table' = [table EXCEPT ![s] = r.db]
    /\ dirty' = [dirty EXCEPT ![s] = @ \/ r.dirty]
ServerReceiveForeign(f, s) ==
    /\ alive[s]
    /\ \E m \in ForeignMessages(f) : HandledForeign(s, handle(table[s], s, m))
    /\ UNCHANGED <<client, ip, ifup, file, alive, lost, up, down, faults>>

\* The poll that follows, with its write of the file.
Save(s) ==
    /\ alive[s] /\ dirty[s]
    /\ file' = [file EXCEPT ![s] = render(table[s])]
    /\ dirty' = [dirty EXCEPT ![s] = FALSE]
    /\ UNCHANGED <<client, ip, ifup, table, alive, lost, up, down, faults>>

\* dhcpd clears the flag before it writes, and a failed write is only reported.
SaveFails(s) ==
    /\ alive[s] /\ dirty[s]
    /\ dirty' = [dirty EXCEPT ![s] = FALSE]
    /\ lost' = [lost EXCEPT ![s] = TRUE]
    /\ UNCHANGED <<client, ip, ifup, table, file, alive, up, down, faults>>

\* router off, a killed dhcpd, a computer that is switched off or unloaded: at any moment,
\* and nothing is saved first.
Stop(s) ==
    /\ alive[s]
    /\ alive' = [alive EXCEPT ![s] = FALSE] /\ Fault
    /\ table' = [table EXCEPT ![s] = {}] /\ dirty' = [dirty EXCEPT ![s] = FALSE]
    /\ lost' = [lost EXCEPT ![s] = @ \/ dirty[s]]
    /\ UNCHANGED <<client, ip, ifup, file, up, down>>

Restart(s) ==
    /\ ~alive[s]
    /\ alive' = [alive EXCEPT ![s] = TRUE]
    /\ table' = [table EXCEPT ![s] = restore(file[s])]
    /\ UNCHANGED <<client, ip, ifup, dirty, file, lost, up, down, faults>>

-----------------------------------------------------------------------------
(* The segment and the clock. *)

LoseUp(c, s) ==
    /\ up[c][s] # <<>>
    /\ IF alive[s] THEN Fault ELSE UNCHANGED faults
    /\ up' = [up EXCEPT ![c][s] = Tail(@)]
    /\ UNCHANGED <<client, ip, ifup, servers, down>>
LoseDown(c) ==
    /\ down[c] # <<>> /\ Fault
    /\ down' = [down EXCEPT ![c] = Tail(@)]
    /\ UNCHANGED <<client, ip, ifup, servers, up>>

Older(queue) == [i \in DOMAIN queue |-> [queue[i] EXCEPT !.age = @ + 1]]
Young(queue) == \A i \in DOMAIN queue : queue[i].age < MaxDelay
Less(n) == IF n = 0 THEN 0 ELSE n - 1
Later(db) == {[e EXCEPT !.expires = Less(@)] : e \in db}

\* One second; a client that is due is polled first, unless its interface is down
\* (next_deadline).
Tick ==
    /\ \A c \in Clients : client[c].state # "Off" /\ ifup[c] => client[c].deadline > 0
    /\ \A c \in Clients : Young(down[c]) /\ \A s \in Servers : Young(up[c][s])
    /\ client' = [c \in Clients |->
                    [client[c] EXCEPT !.expires = Less(@), !.deadline = Less(@)]]
    /\ table' = [s \in Servers |-> Later(table[s])]
    /\ file' = [s \in Servers |-> Later(file[s])]
    /\ up' = [c \in Clients |-> [s \in Servers |-> Older(up[c][s])]]
    /\ down' = [c \in Clients |-> Older(down[c])]
    /\ UNCHANGED <<ip, ifup, dirty, alive, lost, faults>>

Next ==
    \/ \E c \in Clients :
          \/ start_dhcp(c) \/ stop_dhcp(c) \/ release_dhcp(c) \/ change_updown(c) \/ dhcp_timers(c)
          \/ ReceiveOffer(c) \/ ReceiveAck(c) \/ ReceiveNak(c) \/ ReceiveOther(c)
          \/ LoseDown(c)
          \/ \E s \in Servers : ServerReceive(c, s) \/ LoseUp(c, s)
    \/ \E s \in Servers :
          \/ Save(s) \/ SaveFails(s) \/ Stop(s) \/ Restart(s)
          \/ \E f \in Macs \ Clients : ServerReceiveForeign(f, s)
    \/ Tick

Spec == Init /\ [][Next]_vars

-----------------------------------------------------------------------------
(* Properties. *)

States == {"Off", "Init", "Selecting", "Requesting", "Bound", "Renewing", "Rebinding"}
ClientRec ==
    [state : States, addr : Nat, expires : 0..LeaseSecs, deadline : Nat,
     retry : RetryMin..RetryMax, server : Servers \cup {0}, offered : Nat]
UpFrame(c) ==
    [kind : {"DISCOVER", "REQUEST", "RELEASE"}, mac : {c}, server : Servers \cup {0},
     requested : Nat, ciaddr : Nat, cur : BOOLEAN, age : 0..MaxDelay]
DownFrame ==
    [kind : {"OFFER", "ACK", "NAK"}, yiaddr : Nat, server : Servers, cur : BOOLEAN,
     age : 0..MaxDelay]

\* The type invariant: timers within their constants, queues within QueueCap.
TypeOK ==
    /\ client \in [Clients -> ClientRec]
    /\ ip \in [Clients -> Nat] /\ ifup \in [Clients -> BOOLEAN]
    /\ table \in [Servers -> SUBSET Lease] /\ file \in [Servers -> SUBSET Lease]
    /\ dirty \in [Servers -> BOOLEAN] /\ alive \in [Servers -> BOOLEAN]
    /\ lost \in [Servers -> BOOLEAN]
    /\ DOMAIN up = Clients /\ DOMAIN down = Clients
    /\ \A c \in Clients :
          /\ down[c] \in Seq(DownFrame) /\ Len(down[c]) <= QueueCap
          /\ up[c] \in [Servers -> Seq(UpFrame(c))]
          /\ \A s \in Servers : Len(up[c][s]) <= QueueCap
    /\ faults \in 0..MaxFaults

Held(c) == client[c].addr
Unique(db) ==
    \A e, f \in db : e.address = f.address \/ (e.mac = f.mac /\ e.mac # ZeroMac) => e = f
\* No address and no client is twice in a server's table, or in the file it restarts from.
TableUnique == \A s \in Servers : Unique(table[s]) /\ Unique(file[s])

\* A client that runs is due before its lease is over, so that the poll that next_deadline
\* asks for takes the address off the interface in time: whatever happened to its retries.
\* While the interface is down next_deadline asks for no poll and the address stays, but the
\* client is then due as soon as the interface is up again.
AddressInTime ==
    \A c \in Clients :
        /\ client[c].state # "Off" => ip[c] = Held(c)
        /\ Held(c) # 0 => client[c].deadline <= client[c].expires

\* Nobody but its owner ends a lease before its time: while the server runs, the entry of
\* another client's lease survives every message that the server handles.
OnlyOwnerEnds ==
    [][\A s \in Servers : \A e \in table[s] :
          ~e.offered /\ e.expires > 0 /\ e \notin table'[s] /\ alive'[s]
              => \/ e.mac \in Macs \ Clients
                 \/ [e EXCEPT !.expires = @ - 1] \in table'[s]
                 \/ \E c \in Clients : e.mac = c /\ up[c][s] # up'[c][s]]_vars

\* Client c relies on a lease of server s.  The server counts a lease from the moment it
\* answers, the client from the moment the ACK reaches it, MaxDelay later at most.
Relies(c, s) ==
    /\ Held(c) # 0 /\ client[c].server = s /\ client[c].expires > MaxDelay
Known(c, s) == \E e \in table[s] : e.mac = c /\ e.address = Held(c) /\ ~e.offered

\* A server that runs knows of every lease that a client relies on, after a restart too, as
\* long as each of its stops found the table saved and no write failed (~lost): every
\* change that matters marks the table as changed, and the file brings it back.  Together
\* with TableUnique it means that no address is in use twice.
LeaseBacked ==
    \A c \in Clients : \A s \in Servers :
        Relies(c, s) /\ alive[s] /\ ~lost[s] => Known(c, s)

\* The same without the condition, which is what ROUTER.md says: "unexpired leases survive a
\* server restart".
LeasesSurvive ==
    \A c \in Clients : \A s \in Servers : Relies(c, s) /\ alive[s] => Known(c, s)

\* The kernels run their timers and handle what arrives, time passes, and a server that was
\* stopped is started again.
Fairness ==
    /\ WF_vars(Tick)
    /\ \A c \in Clients :
          /\ WF_vars(dhcp_timers(c))
          /\ WF_vars(ReceiveOffer(c) \/ ReceiveAck(c) \/ ReceiveNak(c) \/ ReceiveOther(c))
          /\ \A s \in Servers : WF_vars(ServerReceive(c, s) \/ (~alive[s] /\ LoseUp(c, s)))
    /\ \A s \in Servers : WF_vars(Restart(s))
FairSpec == Spec /\ Fairness

\* A client that goes on running on an interface that stays up gets a lease, and gets one
\* again after every NAK and every expiry, when the pool has an address for it: no loss, no
\* restart and no time with the interface down leaves it waiting for an answer that will not
\* come.
EventuallyBound ==
    \A c \in Clients :
        client[c].state # "Off" /\ ifup[c] ~> client[c].state \in {"Off", "Bound"} \/ ~ifup[c]
=============================================================================
