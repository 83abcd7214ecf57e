---------------------------- MODULE FrommelObjects ----------------------------
(***************************************************************************)
(* What the bindery promises: objects by name, each with properties by     *)
(* name, each with a value.  FrommelBindery implements this specification. *)
(***************************************************************************)
CONSTANTS Name, PropName, Data, Zero, None

VARIABLE bindery

Properties == [PropName -> Data \cup {None}]

Absent(n)  == bindery[n] = None
Put(n, o)  == bindery' = [bindery EXCEPT ![n] = o]

Init == bindery = [n \in Name |-> None]

AddObject(n) == Absent(n) /\ Put(n, [p \in PropName |-> None])

AddProperty(n, p) ==
  /\ ~Absent(n) /\ bindery[n][p] = None
  /\ Put(n, [bindery[n] EXCEPT ![p] = Zero])

WriteProperty(n, p, d) ==
  /\ ~Absent(n) /\ bindery[n][p] # None
  /\ Put(n, [bindery[n] EXCEPT ![p] = d])

DeleteObject(n) == ~Absent(n) /\ Put(n, None)

Next == \E n \in Name :
  \/ AddObject(n) \/ DeleteObject(n)
  \/ \E p \in PropName : AddProperty(n, p) \/ \E d \in Data : WriteProperty(n, p, d)

Spec == Init /\ [][Next]_bindery
=============================================================================
