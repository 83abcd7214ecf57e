------------------------------ MODULE MCHandles ------------------------------
(* FrommelHandles with one client, for TLC. *)
EXTENDS FrommelHandles, TLC

CONSTANTS c1, login, empty

OneClient == {c1}
\* "login", "", "VOLUME1:" and "VOLUME1:login"
Root1  == <<[vol |-> 1, name |-> empty]>>
Below1 == <<[vol |-> 1, name |-> login]>>
Some   == {<<login>>, <<empty>>, Root1}
\* A handle of no volume, and one of a volume that may be gone
Memory == [flags : {"temp"}, volno : {9, 1}, path : {<<login>>}]
Many   == {<<login>>, <<empty>>, Root1, Below1, <<login, empty>>}
=============================================================================
