-------------------------- MODULE MCSocketTable --------------------------
(* Instances of SocketTable for TLC. *)
EXTENDS SocketTable, TLC

\* Remote addresses are interchangeable.
RemoteSymmetry == Permutations(Remotes)
============================================================================
