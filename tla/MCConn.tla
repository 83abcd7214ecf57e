------------------------------- MODULE MCConn -------------------------------
(* FrommelConn with two nodes, for TLC. *)
EXTENDS FrommelConn, TLC

CONSTANTS n1, n2, u1

Nodes == {n1, n2}
OneNode == {n1}
NodeSymmetry == Permutations(Node)
=============================================================================
