------------------------------ MODULE FrommelPgsql ------------------------------
(***************************************************************************)
(* The bindery in PostgreSQL (binderyio_pgsql.c): the value of a property  *)
(* is a large object, whose number is in its row.  Large objects are used  *)
(* between BEGIN and COMMIT, every other statement by itself.              *)
(*                                                                         *)
(* A statement that fails in a transaction aborts it, and every statement  *)
(* fails then until COMMIT, which no call reaches any more: the bindery    *)
(* answers nothing until the server is started again.                      *)
(***************************************************************************)
EXTENDS FrommelSql

CONSTANTS
  Data,       \* values
  Zero,       \* the value of a property that was never written
  Blank,      \* a large object that was created and not yet written
  Supervisor  \* the object bind_init creates first

ASSUME PgsqlAssumption ==
  /\ Zero \in Data /\ {None, Blank} \cap Data = {} /\ Supervisor \in Name
  /\ "large" \in Counter /\ Content = 0..Limit["large"]

VARIABLES
  large,  \* the large objects as this session sees them
  kept,   \* the large objects that are committed
  tx      \* the transaction: "none", "open" or "aborted"

pg   == <<large, kept, tx>>
vars == <<tables, call, pg>>

LargeObject == [oid : Id, data : Data \cup {Blank}]

\* bindio_add_prop before it inserts a row, and bindio_write_prop.
Creating    == [at : {"create", "write", "commit", "insert"}, objectid : Id, name : PropName]
Overwriting == [at : {"overwrite", "finish"}, objectid : Id, name : PropName,
                oid : Content, data : Data]

TypeOK ==
  /\ TablesOK
  /\ call = None \/ call \in Adding \cup Deleting \cup Creating \cup Overwriting
  /\ large \subseteq LargeObject /\ kept \subseteq LargeObject
  /\ tx \in {"none", "open", "aborted"}

Init ==
  /\ TablesInit /\ call = None
  /\ large = {} /\ kept = {} /\ tx = "none"

-----------------------------------------------------------------------------
\* bindio_do_query: a call begins outside of a transaction, or gets no answer.
Idle == call = None /\ tx = "none"

At(step) == call # None /\ call.at = step

\* bindio_scan_val opens and reads the large object.
Contents(oid) == {l \in kept : l.oid = oid /\ l.data # Blank}

Loadable(id, p) == Readable(id, p) /\ One(Contents(ValueRowOf(id, p).data))

\* The large objects after writing one.
WithData(oid, d) == {IF l.oid = oid THEN [l EXCEPT !.data = d] ELSE l : l \in large}

\* bindio_begin_trans and bindio_end_trans: a failure is reported and no more.
Begin == tx' \in {"open", "none"} /\ UNCHANGED <<large, kept>>

Commit ==
  /\ tx' = "none"
  /\ \E l \in {large, kept} : large' = l /\ kept' = l

\* lo_creat, lo_open or lo_write fails, and the call with it.
LargeObjectFails ==
  /\ At("create") \/ At("write") \/ At("overwrite")
  /\ tx' = IF tx = "open" THEN "aborted" ELSE "none"
  /\ large' = kept
  /\ call' = None
  /\ UNCHANGED <<tables, kept>>

-----------------------------------------------------------------------------
(* The calls *)

\* bindio_add_object
AddObject(n) == Idle /\ InsertObject(n) /\ UNCHANGED pg

\* bindio_add_prop up to BEGIN
AddProp(n, p) ==
  /\ Idle /\ MayAddProp(n, p)
  /\ Begin
  /\ call' = [at |-> "create", objectid |-> The(Named(n)).id, name |-> p]
  /\ UNCHANGED <<object, prop, value, last>>

\* lo_creat
CreateLarge ==
  /\ At("create")
  /\ Takes("large")
  /\ large' = large \cup {[oid |-> last'["large"], data |-> Blank]}
  /\ kept' = IF tx = "open" THEN kept ELSE large'
  /\ call' = [call EXCEPT !.at = "write"]
  /\ UNCHANGED <<object, prop, value, blind, tx>>

\* lo_open and lo_write, which need the transaction.
WriteLarge ==
  /\ At("write") /\ tx = "open"
  /\ large' = WithData(last["large"], Zero)
  /\ call' = [call EXCEPT !.at = "commit"]
  /\ UNCHANGED <<tables, kept, tx>>

CommitLarge ==
  /\ At("commit")
  /\ Commit
  /\ call' = [call EXCEPT !.at = "insert"]
  /\ UNCHANGED tables

\* INSERT INTO value, which fails, or works, or works with a CURRVAL that fails.
AddValue ==
  /\ At("insert")
  /\ \/ InsertValue(call.objectid, call.name, last["large"]) /\ UNCHANGED blind
     \/ ValueInserted(call.objectid, last["large"]) /\ call' = None /\ UNCHANGED blind
     \/ call' = None /\ UNCHANGED tables
  /\ UNCHANGED pg

\* INSERT INTO prop and UPDATE value; the same.
AddRow ==
  /\ \/ InsertProp \/ UpdateValue \/ InsertPropFails \/ UpdateValueFails
     \/ TakeBackValue \/ TakeBackProp
     \/ PropInserted /\ call' = None
  /\ UNCHANGED pg

\* Mutant: the large object of the property created last is overwritten.
OverwriteLast ==
  /\ At("overwrite") /\ tx = "open"
  /\ large' = WithData(last["large"], call.data)
  /\ call' = [call EXCEPT !.at = "finish"]
  /\ UNCHANGED <<tables, kept, tx>>

\* bindio_write_prop
WriteProp(n, p, d) ==
  /\ Idle /\ One(Named(n)) /\ Loadable(The(Named(n)).id, p)
  /\ Begin
  /\ LET id == The(Named(n)).id
     IN  call' = [at |-> "overwrite", objectid |-> id, name |-> p,
                  oid |-> ValueRowOf(id, p).data, data |-> d]
  /\ UNCHANGED tables

Overwrite ==
  /\ At("overwrite") /\ tx = "open"
  /\ large' = WithData(call.oid, call.data)
  /\ call' = [call EXCEPT !.at = "finish"]
  /\ UNCHANGED <<tables, kept, tx>>

FinishWrite ==
  /\ At("finish")
  /\ Commit
  /\ call' = None
  /\ UNCHANGED tables

\* bindio_delete_obj: the large objects stay.
DeleteObj ==
  /\ tx = "none"
  /\ (\E n \in Name : DeleteProps(n)) \/ DeleteValues \/ DeleteRow \/ DeleteFails
  /\ UNCHANGED pg

\* A call that only reads, or that gets no answer.
Read ==
  /\ call = None
  /\ UNCHANGED vars

\* The server is killed and started again: the session ends and its
\* transaction with it.
Restart ==
  /\ call' = None /\ tx' = "none" /\ large' = kept
  /\ UNCHANGED <<tables, kept>>

\* bind_init with the option -r: the tables are emptied, but their counters
\* go on, and giving SUPERVISOR the number 1 does nothing.
Recreate ==
  /\ Idle
  /\ Takes("object")
  /\ object' = {[id |-> last'["object"], name |-> Supervisor]}
  /\ prop' = {} /\ value' = {} /\ blind' = {}
  /\ UNCHANGED <<call, pg>>

Next ==
  \/ \E n \in Name :
       \/ AddObject(n)
       \/ \E p \in PropName : AddProp(n, p) \/ \E d \in Data : WriteProp(n, p, d)
  \/ CreateLarge \/ WriteLarge \/ CommitLarge \/ AddValue \/ AddRow
  \/ Overwrite \/ FinishWrite \/ LargeObjectFails
  \/ DeleteObj \/ Read \/ Restart

Spec == Init /\ [][Next]_vars

-----------------------------------------------------------------------------
(* Properties *)

\* An object whose deletion has begun is gone; one whose deletion then fails
\* is back without its properties.
Present(n) == {o \in Named(n) : ~(call \in Deleting /\ call.objectid = o.id)}

Lookup(id, p) == IF Loadable(id, p) THEN The(Contents(ValueRowOf(id, p).data)).data ELSE None

Directory == [n \in Name |-> IF ~One(Present(n)) THEN None
                             ELSE [p \in PropName |-> Lookup(The(Present(n)).id, p)]]

Objects == INSTANCE FrommelObjects WITH bindery <- Directory

\* A step of the abstract bindery, or of taking a property back whose last
\* statement failed, or one that changes no entry but that of an object with
\* a row that was added again.
ObjectStep ==
  \/ UNCHANGED Directory
  \/ Objects!Next
  \/ \E n \in Name, p \in PropName :
       /\ TakeBackValue \/ TakeBackProp
       /\ Directory[n] # None
       /\ Objects!Put(n, [Directory[n] EXCEPT ![p] = None])
  \/ \E n \in blind' : \A m \in Name \ {n} : Directory[m]' = Directory[m]

\* A write changes what a restarted server finds by name if the transaction is
\* committed, and otherwise nothing.
WriteReadsBack ==
  FinishWrite /\ kept' # kept =>
    \E n \in Name :
      /\ Named(n) = Numbered(call.objectid)
      /\ Directory' = [Directory EXCEPT ![n][call.name] = call.data]

\* A call leaves no transaction behind.  It fails when creating or writing a
\* large object fails: bindio_add_prop and bindio_write_prop return then
\* without COMMIT.
TransactionsEnd == call = None => tx = "none"

\* "fix up the supervisor, to have that legendary ID of 1": it fails when the
\* bindery is created again, and bind_init exits when it adds the password to
\* an object 1 that does not exist.
SupervisorIsOne == [][Recreate => [id |-> 1, name |-> Supervisor] \in object']_vars
=============================================================================
