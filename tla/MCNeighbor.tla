----------------------------- MODULE MCNeighbor -----------------------------
(* Instance of Neighbor for TLC. *)
EXTENDS Neighbor, TLC

IpSymmetry == Permutations(Ips)
============================================================================
