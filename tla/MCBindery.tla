------------------------------ MODULE MCBindery -------------------------------
(* FrommelBindery with two objects, for TLC. *)
EXTENDS FrommelBindery

\* The specification treats all names, and all property names, alike.
Symmetry == Permutations(Name) \cup Permutations(PropName)
=============================================================================
