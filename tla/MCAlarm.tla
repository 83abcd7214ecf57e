------------------------------- MODULE MCAlarm -------------------------------
(* FrommelAlarm with two nodes, for TLC. *)
EXTENDS FrommelAlarm, TLC

CONSTANTS n1, n2, u1

Nodes == {n1, n2}
NodeSymmetry == Permutations(Node)
=============================================================================
