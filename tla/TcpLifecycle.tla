-------------------------- MODULE TcpLifecycle --------------------------
(***************************************************************************)
(* Abstract specification of the blocks of a set of hosts, one pair of     *)
(* addresses each: created by connect or by a SYN, moved along TcpStates,  *)
(* and gone as soon as they are closed and no program holds them.          *)
(***************************************************************************)
EXTENDS TcpStates

CONSTANT Hosts
VARIABLE block     \* block[p] = [state, held]; state "Free" when there is none

Free == [state |-> "Free", held |-> FALSE]
Reap(c) == IF c.state = "Closed" /\ ~c.held THEN Free ELSE c
Becomes(p, c) == block' = [block EXCEPT ![p] = c]

Init == block = [p \in Hosts |-> Free]

Connect(p) == block[p] = Free /\ Becomes(p, [state |-> "SynSent", held |-> TRUE])

\* A SYN makes a child where there is no block, or a TIME_WAIT one nobody holds.
Spawn(p) ==
    /\ block[p] = Free \/ block[p] = [state |-> "TimeWait", held |-> FALSE]
    /\ Becomes(p, [state |-> "SynReceived", held |-> FALSE])

Accept(p) ==
    /\ block[p].state \in TcpState \ {"SynReceived", "Closed"} /\ ~block[p].held
    /\ Becomes(p, [block[p] EXCEPT !.held = TRUE])

Proceed(p) ==
    /\ block[p] # Free
    /\ \E s \in Input(block[p].state) : Becomes(p, Reap([block[p] EXCEPT !.state = s]))

Shutdown(p) ==
    /\ block[p].held
    /\ Becomes(p, [block[p] EXCEPT !.state = Shut(block[p].state)])

CloseIt(p) ==
    /\ block[p].held
    /\ Becomes(p, Reap([state |-> Close(block[p].state), held |-> FALSE]))

\* Aborted by its program, or failed with its interface.
Kill(p) ==
    /\ block[p] # Free
    /\ \E held \in BOOLEAN : (held => block[p].held) /\ Becomes(p, Reap([state |-> "Closed", held |-> held]))

\* A SYN finds a TIME_WAIT block to reopen, but no room for a child.
Drop(p) == block[p] = [state |-> "TimeWait", held |-> FALSE] /\ Becomes(p, Free)

Next == \E p \in Hosts : \/ Connect(p) \/ Spawn(p) \/ Accept(p) \/ Proceed(p)
                         \/ Shutdown(p) \/ CloseIt(p) \/ Kill(p) \/ Drop(p)
Spec == Init /\ [][Next]_block
============================================================================
