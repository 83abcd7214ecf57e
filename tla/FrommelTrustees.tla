--------------------------- MODULE FrommelTrustees ---------------------------
(***************************************************************************)
(* What the trustee files promise: each directory has a map from objects   *)
(* to rights; granting sets one entry, removing deletes one, and nothing   *)
(* else changes.  FrommelTrustee implements this specification.            *)
(***************************************************************************)
CONSTANTS Directory, Object, Rights, None

VARIABLE trustees

Init == trustees = [d \in Directory |-> [o \in Object |-> None]]

Set(d, o, r) == trustees' = [trustees EXCEPT ![d][o] = r]

Next == \E d \in Directory, o \in Object : \E r \in Rights \cup {None} : Set(d, o, r)

Spec == Init /\ [][Next]_trustees
=============================================================================
