------------------------------- MODULE MCDhcp -------------------------------
(* Instances of Dhcp for TLC: one server, which has one address to give.   *)
EXTENDS Dhcp, TLC

OneAddress == 1 :> {2}
NoneReserved == [m \in Macs |-> 0]
==============================================================================
