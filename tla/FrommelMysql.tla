------------------------------ MODULE FrommelMysql ------------------------------
(***************************************************************************)
(* The bindery in MySQL (binderyio_mysql.c): the value of a property is in *)
(* its row, and every statement is a transaction of its own.               *)
(***************************************************************************)
EXTENDS FrommelSql

CONSTANT Zero  \* the value, in Content, of a property that was never written

vars == <<tables, call>>

TypeOK == TablesOK /\ (call = None \/ call \in Adding \cup Deleting)

Init == TablesInit /\ call = None

\* bindio_add_prop begins with the value, of zeroes.
AddProp(n, p) == MayAddProp(n, p) /\ InsertValue(The(Named(n)).id, p, Zero)

\* bindio_write_prop: UPDATE value SET data.
WriteProp(n, p, d) ==
  /\ call = None
  /\ One(Named(n)) /\ Readable(The(Named(n)).id, p)
  /\ LET id == ValueRowOf(The(Named(n)).id, p).id
     IN  value' = {IF v.id = id THEN [v EXCEPT !.data = d] ELSE v : v \in value}
  /\ UNCHANGED <<object, prop, last, blind, call>>

\* A call that only reads, or a delete or a write whose first statement fails.
Read ==
  /\ call = None
  /\ UNCHANGED vars

\* The server is killed, and started again.
Kill ==
  /\ call # None /\ call' = None
  /\ UNCHANGED tables

Next ==
  \/ Statement \/ Failure \/ Kill \/ Read
  \/ \E n \in Name, p \in PropName : AddProp(n, p) \/ \E d \in Content : WriteProp(n, p, d)

Spec == Init /\ [][Next]_vars

-----------------------------------------------------------------------------
(* Properties *)

\* An object whose deletion has begun is gone; one whose deletion then fails
\* is back without its properties.
Present(n) == {o \in Named(n) : call = None \/ call.objectid # o.id
                                \/ call.at \notin {"values", "object"}}

Lookup(id, p) == IF Readable(id, p) THEN ValueRowOf(id, p).data ELSE None

Directory == [n \in Name |-> IF ~One(Present(n)) THEN None
                             ELSE [p \in PropName |-> Lookup(The(Present(n)).id, p)]]

Objects == INSTANCE FrommelObjects WITH bindery <- Directory, Data <- Content

\* A step of the abstract bindery, or of taking a property back whose last
\* statement failed, or one that changes no entry but that of an object with
\* a row that was added again.
ObjectStep ==
  \/ UNCHANGED Directory
  \/ Objects!Next
  \/ \E n \in Name, p \in PropName :
       /\ TakeBackValue \/ TakeBackProp
       /\ Directory[n] # None
       /\ Objects!Put(n, [Directory[n] EXCEPT ![p] = None])
  \/ \E n \in blind' : \A m \in Name \ {n} : Directory[m]' = Directory[m]

\* A write changes what a read by name finds, and nothing else.
WriteReadsBack ==
  \A n \in Name, p \in PropName, d \in Content :
    WriteProp(n, p, d) => Directory' = [Directory EXCEPT ![n][p] = d]
=============================================================================
