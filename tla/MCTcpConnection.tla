------------------------- MODULE MCTcpConnection -------------------------
(* Instances of TcpConnection for TLC: host a connects, host b listens.    *)
EXTENDS TcpConnection, TLC

CONSTANTS a, b

\* Both streams cross the wrap-around of the sequence number space.
IssOnce == (a :> <<SeqSpace - 2>>) @@ (b :> <<SeqSpace - 3>>)
IssAgain == (a :> <<SeqSpace - 2, 6>>) @@ (b :> <<SeqSpace - 6, 2>>)

\* The numbers chosen here keep the connections of a host apart.
ASSUME NumbersAssumption == NumbersApart

\* Bound of tcp_open: segments on their way in both directions together.
FewInFlight == Len(net[a]) + Len(net[b]) <= 3

Written(m, n) == (a :> m) @@ (b :> n)
Bytes0 == Written(0, 0)
Bytes1 == Written(1, 0)
Bytes3 == Written(3, 0)
Bytes31 == Written(3, 1)

Calls(A, B) == (a :> A) @@ (b :> B)
OpenOps == Calls({"connect", "close", "abort"}, {"accept", "connect", "close"})
TransferOps == Calls({"connect", "send"}, {"accept", "recv"})
CloseOps == Calls({"connect", "send", "shutdown", "close"}, {"accept", "recv", "close"})
BothWriteOps == Calls({"connect", "send", "recv"}, {"accept", "send"})
============================================================================
