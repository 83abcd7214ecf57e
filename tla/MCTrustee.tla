------------------------------- MODULE MCTrustee ------------------------------
(* FrommelTrustee with a user and one or two groups, for TLC. *)
EXTENDS FrommelTrustee, TLC

CONSTANTS user, group, second

NoEquals   == [o \in Object |-> <<>>]
OneEqual   == [o \in Object |-> IF o = user THEN <<group>> ELSE <<>>]
TwoEquals  == [o \in Object |-> IF o = user THEN <<group, second>> ELSE <<>>]
Symmetric  == Permutations(Object)
=============================================================================
