------------------------------- MODULE MCNat -------------------------------
(* Instances of Nat for TLC: two hosts, which take turns as the server     *)
(* behind a forwarded port.                                                *)
EXTENDS Nat
CONSTANTS h1, h2

NoForwards == <<>>
ServedBy(h) == [protocol |-> "udp", inside |-> h, inside_port |-> 1, outside_port |-> 2]
EitherServer == {ServedBy(h1), ServedBy(h2)}
WebServer == {[protocol |-> "tcp", inside |-> h1, inside_port |-> 1, outside_port |-> 2]}
=============================================================================
