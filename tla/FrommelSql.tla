------------------------------- MODULE FrommelSql -------------------------------
(***************************************************************************)
(* The bindery in an SQL database: the tables `object`, `prop` and `value` *)
(* of examples/netware_mysql.sql and the calls that change them, statement *)
(* by statement.  A statement may fail, and the server may be killed       *)
(* between two of them.  This module has what binderyio_mysql.c and        *)
(* binderyio_pgsql.c do alike, FrommelMysql and FrommelPgsql the rest.     *)
(***************************************************************************)
EXTENDS Integers, FiniteSets

CONSTANTS
  Name,      \* names (and types) of objects
  PropName,  \* names of properties
  Content,   \* what the column `data` holds
  None,      \* no object, no value, no call
  Counter,   \* what numbers are given to: the tables, and large objects
  Limit      \* bound on the numbers of each

ASSUME SqlAssumption ==
  Limit \in [Counter -> Nat] /\ {"object", "prop", "value"} \subseteq Counter

Id == Nat \ {0}

VARIABLES
  object, prop, value,  \* the tables, as sets of rows
  last,                 \* the numbers given last
  blind,                \* history: objects with a row that was not found and added again
  call                  \* the call that is going on, or None

tables == <<object, prop, value, last, blind>>

ObjectRow == [id : Id, name : Name]
PropRow   == [id : Id, name : PropName, objectid : Id, valueid : Id]
ValueRow  == [id : Id, propid : Id \cup {-1}, objectid : Id, data : Content]

\* bindio_add_prop, its clean-up and bindio_delete_obj: the statement that is
\* next, and the rows it is about.
Adding   == [at : {"prop", "update", "takeback", "takeback both", "takeback prop"},
             objectid : Id, name : PropName, valueid : Id, propid : Id \cup {-1}]
Deleting == [at : {"values", "object"}, objectid : Id]

TablesOK ==
  /\ object \subseteq ObjectRow /\ prop \subseteq PropRow /\ value \subseteq ValueRow
  /\ blind \subseteq Name
  /\ DOMAIN last = Counter /\ \A table \in Counter : last[table] \in 0..Limit[table]

-----------------------------------------------------------------------------
(* Queries *)

\* bindio_handle_object_query and its like: an answer is exactly one row.
One(S) == \E r \in S : S = {r}
The(S) == CHOOSE r \in S : TRUE

\* bindio_scan_object
Named(n) == {o \in object : o.name = n}

\* bindio_scan_object_by_id
Numbered(id) == {o \in object : o.id = id}

\* bindio_scan_prop
PropsOf(id, p) == {r \in prop : r.objectid = id /\ r.name = p}

\* bindio_scan_val
ValuesOf(r) == {v \in value : v.id = r.valueid}

\* What bindio_write_prop needs: the property of that name and its value.
Readable(id, p) == One(PropsOf(id, p)) /\ One(ValuesOf(The(PropsOf(id, p))))

ValueRowOf(id, p) == The(ValuesOf(The(PropsOf(id, p))))

\* The number of the next row: AUTO_INCREMENT, or a sequence.
Takes(table) == last[table] < Limit[table] /\ last' = [last EXCEPT ![table] = @ + 1]

-----------------------------------------------------------------------------
(* Statements *)

TablesInit ==
  /\ object = {} /\ prop = {} /\ value = {} /\ blind = {}
  /\ last = [table \in Counter |-> 0]

\* Mutant: the name is not looked up first.
FoundNeverOnce(rows, n) == UNCHANGED blind

\* The SELECT with which an add begins: two rows are the same to it as none, and
\* so is a failure, after which the row that is there is added again.
NotFound(rows, n) ==
  \/ ~One(rows) /\ UNCHANGED blind
  \/ One(rows) /\ blind' = blind \cup {n}

\* bindio_add_object
InsertObject(n) ==
  /\ call = None /\ NotFound(Named(n), n)
  /\ Takes("object")
  /\ object' = object \cup {[id |-> last'["object"], name |-> n]}
  /\ UNCHANGED <<prop, value, call>>

\* Mutant: the property is not looked up first.
MayAddPropAgain(n, p) == call = None /\ One(Named(n)) /\ UNCHANGED blind

\* bindio_add_prop up to its first statement: the object exists, and no
\* property of that name was found.
MayAddProp(n, p) ==
  /\ call = None
  /\ One(Named(n)) /\ NotFound(PropsOf(The(Named(n)).id, p), n)

\* INSERT INTO value.  It knows its object, but not yet its property.
ValueInserted(id, content) ==
  /\ Takes("value")
  /\ value' = value \cup {[id |-> last'["value"], propid |-> -1, objectid |-> id,
                           data |-> content]}
  /\ UNCHANGED <<object, prop>>

InsertValue(id, p, content) ==
  /\ ValueInserted(id, content)
  /\ call' = [at |-> "prop", objectid |-> id, name |-> p,
              valueid |-> last'["value"], propid |-> -1]

\* Mutant: the number of the value is read from the wrong sequence.
PropInsertedMisread ==
  /\ call # None /\ call.at = "prop"
  /\ Takes("prop")
  /\ prop' = prop \cup {[id |-> last'["prop"], name |-> call.name,
                         objectid |-> call.objectid, valueid |-> last'["prop"]]}
  /\ UNCHANGED <<object, value, blind>>

\* INSERT INTO prop
PropInserted ==
  /\ call # None /\ call.at = "prop"
  /\ Takes("prop")
  /\ prop' = prop \cup {[id |-> last'["prop"], name |-> call.name,
                         objectid |-> call.objectid, valueid |-> call.valueid]}
  /\ UNCHANGED <<object, value, blind>>

InsertProp ==
  /\ PropInserted
  /\ call' = [call EXCEPT !.at = "update", !.propid = last'["prop"]]

\* UPDATE value SET propid
UpdateValue ==
  /\ call # None /\ call.at = "update"
  /\ value' = {IF v.id = call.valueid THEN [v EXCEPT !.propid = call.propid] ELSE v :
                 v \in value}
  /\ call' = None
  /\ UNCHANGED <<object, prop, last, blind>>

\* One of the two fails: what was inserted is deleted again.
InsertPropFails ==
  /\ call # None /\ call.at = "prop"
  /\ call' = [call EXCEPT !.at = "takeback"]
  /\ UNCHANGED tables

UpdateValueFails ==
  /\ call # None /\ call.at = "update"
  /\ call' = [call EXCEPT !.at = "takeback both"]
  /\ UNCHANGED tables

\* DELETE FROM value, and DELETE FROM prop, whose results nobody asks for.
TakeBackValue ==
  /\ call # None /\ call.at \in {"takeback", "takeback both"}
  /\ value' \in {value, {v \in value : v.id # call.valueid}}
  /\ call' = IF call.at = "takeback" THEN None ELSE [call EXCEPT !.at = "takeback prop"]
  /\ UNCHANGED <<object, prop, last, blind>>

TakeBackProp ==
  /\ call # None /\ call.at = "takeback prop"
  /\ prop' \in {prop, {r \in prop : r.id # call.propid}}
  /\ call' = None
  /\ UNCHANGED <<object, value, last, blind>>

\* bindio_delete_obj: DELETE FROM prop, FROM value, FROM object.
DeleteProps(n) ==
  /\ call = None /\ One(Named(n))
  /\ LET id == The(Named(n)).id
     IN  /\ prop' = {r \in prop : r.objectid # id}
         /\ call' = [at |-> "values", objectid |-> id]
  /\ UNCHANGED <<object, value, last, blind>>

\* Mutant: only the values that know their property are deleted.
DeleteValuesInUse ==
  /\ call # None /\ call.at = "values"
  /\ value' = {v \in value : v.objectid # call.objectid \/ v.propid = -1}
  /\ call' = [call EXCEPT !.at = "object"]
  /\ UNCHANGED <<object, prop, last, blind>>

DeleteValues ==
  /\ call # None /\ call.at = "values"
  /\ value' = {v \in value : v.objectid # call.objectid}
  /\ call' = [call EXCEPT !.at = "object"]
  /\ UNCHANGED <<object, prop, last, blind>>

DeleteRow ==
  /\ call # None /\ call.at = "object"
  /\ object' = {o \in object : o.id # call.objectid}
  /\ call' = None
  /\ UNCHANGED <<prop, value, last, blind>>

\* A statement fails and the call with it.
DeleteFails ==
  /\ call # None /\ call.at \in {"values", "object"}
  /\ call' = None
  /\ UNCHANGED tables

\* The statements both files have.
Statement ==
  \/ InsertProp \/ UpdateValue \/ TakeBackValue \/ TakeBackProp
  \/ DeleteValues \/ DeleteRow
  \/ \E n \in Name : InsertObject(n) \/ DeleteProps(n)

Failure == InsertPropFails \/ UpdateValueFails \/ DeleteFails

-----------------------------------------------------------------------------
(* Properties *)

Once(rows) == \A r, s \in rows : r = s

\* No object has two properties of one name, and no two objects share a name,
\* unless the SELECT of an add failed although there was a row; then only that
\* object is there twice, or has properties twice.  A scan that finds two rows
\* says that there is none.
RowsOnce ==
  /\ \A o \in object : Once(Numbered(o.id))
  /\ \A n \in Name \ blind :
       /\ Once(Named(n))
       /\ \A o \in Named(n), p \in PropName : Once(PropsOf(o.id, p))

\* "do we already have this object?": no row is there twice.  It fails: an add
\* whose SELECT fails goes on to its INSERT, and no table has a UNIQUE column.
EveryRowOnce ==
  /\ \A n \in Name : Once(Named(n))
  /\ \A o \in object, p \in PropName : Once(PropsOf(o.id, p))

\* Nothing outlives its object: a number is never given again, so rows of a
\* deleted object could not be found, changed or deleted by any call.
RowsHaveOwners ==
  \A r \in prop \cup value : Numbered(r.objectid) # {}

\* A value belongs to one property, and to the object of that property, so
\* writing one, or deleting its object, leaves the others alone.
ValuesUnshared ==
  /\ \A r, s \in prop : r.valueid = s.valueid => r = s
  /\ \A r \in prop : \A v \in ValuesOf(r) : v.objectid = r.objectid

\* A property that a scan finds can be read and written.  It fails when the
\* statement that takes a property back fails: the property cannot be added
\* again either.
FoundIsReadable == call = None => \A r \in prop : One(ValuesOf(r))
=============================================================================
