---------------------------- MODULE FrommelDatabases ----------------------------
(***************************************************************************)
(* The bindery in a database: the server is built with the one file or     *)
(* with the other, and what its clients see is the same.                   *)
(***************************************************************************)
EXTENDS FrommelPgsql

VARIABLE backend  \* the file: "mysql" or "pgsql"

dbvars == <<vars, backend>>

ASSUME DatabasesAssumption ==
  /\ Zero \in Content
  /\ None \notin Content \cup Adding \cup Deleting \cup Creating \cup Overwriting
  /\ \A values \in {Content, Data} : None \notin [PropName -> values \cup {None}]

Mysql == INSTANCE FrommelMysql

DbTypeOK ==
  \/ backend = "mysql" /\ Mysql!TypeOK
  \/ backend = "pgsql" /\ TypeOK

DbInit ==
  /\ Init
  /\ backend \in {"mysql", "pgsql"}

DbNext ==
  \/ backend = "mysql" /\ Mysql!Next /\ UNCHANGED <<pg, backend>>
  \/ backend = "pgsql" /\ Next /\ UNCHANGED backend

DbSpec == DbInit /\ [][DbNext]_dbvars

\* Where the bindery may be created again.
DbRecreateSpec ==
  DbInit /\ [][DbNext \/ (backend = "pgsql" /\ Recreate /\ UNCHANGED backend)]_dbvars

-----------------------------------------------------------------------------
(* Properties *)

\* What clients find by name, with PostgreSQL after a restart, is a map from
\* objects to properties to values: a call changes the entry it names and no
\* other, whatever fails on the way and whenever the server is killed.  Only a
\* property whose last statement failed is taken back, and only the entry of an
\* object with a row that a failing SELECT doubled may change otherwise.
ImplementsObjects ==
  /\ Mysql!Objects!Init /\ Objects!Init
  /\ [][IF backend = "mysql" THEN Mysql!ObjectStep ELSE ObjectStep]_dbvars

\* What a client writes to a property is what a read by name finds.
WritesReadBack ==
  [][IF backend = "mysql" THEN Mysql!WriteReadsBack ELSE WriteReadsBack]_dbvars

\* No two values share a large object, and one that is in use was written.
LargeObjectsUnshared ==
  backend = "pgsql" =>
    /\ \A v, w \in value : v.data = w.data => v = w
    /\ \A l, m \in kept : l.oid = m.oid => l = m
    /\ \A v \in value, l \in kept : v.data = l.oid => l.data # Blank

\* A write to one property never shows in another, and deleting an object takes
\* no value of another one: nothing is shared, in rows or in large objects.
NothingShared == ValuesUnshared /\ LargeObjectsUnshared
=============================================================================
