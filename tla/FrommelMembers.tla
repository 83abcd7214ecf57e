---------------------------- MODULE FrommelMembers ----------------------------
(***************************************************************************)
(* What a set property of a bindery object promises: it is a set of object *)
(* numbers, to which one is added and from which one is deleted at a time. *)
(* FrommelSets implements it for numbers that its loops can tell apart.     *)
(***************************************************************************)
CONSTANT Id

VARIABLE members

Init == members = {}

Add(id)    == members' = members \cup {id}
Delete(id) == id \in members /\ members' = members \ {id}

Next == \E id \in Id : Add(id) \/ Delete(id)

Spec == Init /\ [][Next]_members
=============================================================================
