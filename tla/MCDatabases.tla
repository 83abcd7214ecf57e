------------------------------- MODULE MCDatabases ------------------------------
(* FrommelDatabases with two objects, for TLC. *)
EXTENDS FrommelDatabases, TLC

Most == [table \in Counter |-> IF table \in {"prop", "value"} THEN 3 ELSE 2]
Oids == 0..2

\* The specification treats all names of properties alike.
Symmetry == Permutations(PropName)
=============================================================================
