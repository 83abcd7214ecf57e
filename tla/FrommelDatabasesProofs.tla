------------------------- MODULE FrommelDatabasesProofs -------------------------
(***************************************************************************)
(* What holds of the bindery in a database for every set of names, every   *)
(* number of rows and large objects, and wherever a statement fails or the *)
(* server is killed.                                                       *)
(***************************************************************************)
EXTENDS FrommelDatabases, TLAPS

\* The numbers in use were given before, so that the next one is new.
NumbersGiven ==
  /\ last \in [Counter -> Nat]
  /\ \A o \in object : o.id <= last["object"]
  /\ \A r \in prop : r.valueid <= last["value"]
  /\ \A v \in value : v.id <= last["value"]

AddingAt == {"create", "write", "commit", "insert", "prop"}

\* RowsOnce, row by row.
RowsFlat ==
  /\ \A o, q \in object : o.id = q.id => o = q
  /\ \A o, q \in object : o.name = q.name /\ o.name \notin blind => o = q
  /\ \A o \in object : o.name \notin blind =>
       \A r, s \in prop : r.objectid = o.id /\ s.objectid = o.id /\ r.name = s.name => r = s

\* A property that its object has not, unless the SELECT failed for one of b.
FreshIn(id, p, b) ==
  /\ Numbered(id) # {}
  /\ (\A o \in Numbered(id) : o.name \notin b) => PropsOf(id, p) = {}

Fresh(id, p) == FreshIn(id, p, blind)

\* The object with this number is the only one of its name.
Alone(id) == \A o, q \in object : o.id = id /\ q.name = o.name => q = o

\* What the statements before it leave for the one that is next: adding a
\* property knows that it is new and that its value is its own, deleting an
\* object that nothing refers to it any more.
CallReady ==
  call # None =>
    /\ call.at \in AddingAt => Fresh(call.objectid, call.name)
    /\ call.at \in {"values", "object", "overwrite", "finish"} => Alone(call.objectid)
    /\ call.at = "prop" =>
         /\ call.valueid <= last["value"]
         /\ \A r \in prop : r.valueid # call.valueid
         /\ \A v \in value : v.id = call.valueid => v.objectid = call.objectid
    /\ call.at \in {"values", "object"} => \A r \in prop : r.objectid # call.objectid
    /\ call.at = "object" => \A v \in value : v.objectid # call.objectid

CallOK == call = None \/ call \in Adding \cup Deleting \cup Creating \cup Overwriting

TablesInv ==
  /\ TablesOK /\ CallOK /\ NumbersGiven
  /\ RowsFlat /\ RowsHaveOwners /\ ValuesUnshared
  /\ CallReady

-----------------------------------------------------------------------------
(* Rows and numbers *)

LEMMA OneRow ==
  ASSUME NEW S, One(S)
  PROVE  S = {The(S)}
BY DEF One, The

LEMMA FlatIsOnce ==
  ASSUME RowsFlat
  PROVE  RowsOnce
<1>1. \A o \in object : Once(Numbered(o.id))
  BY DEF RowsFlat, Once, Numbered
<1>2. \A n \in Name \ blind : Once(Named(n))
  BY DEF RowsFlat, Once, Named
<1>3. \A n \in Name \ blind : \A o \in Named(n), p \in PropName : Once(PropsOf(o.id, p))
  BY DEF RowsFlat, Once, Named, PropsOf
<1>4. QED
  BY <1>1, <1>2, <1>3 DEF RowsOnce

\* An object that a scan did not find, and a property.
LEMMA NotTwo ==
  ASSUME RowsFlat
  PROVE  /\ \A n : n \notin blind /\ ~One(Named(n)) => \A o \in object : o.name # n
         /\ \A o \in object : o.name \notin blind =>
              \A p : ~One(PropsOf(o.id, p)) => PropsOf(o.id, p) = {}
<1>1. ASSUME NEW n, n \notin blind, NEW o \in object, o.name = n PROVE One(Named(n))
  <2>1. Named(n) = {o}
    BY <1>1 DEF Named, RowsFlat
  <2>2. QED
    BY <2>1 DEF One
<1>2. ASSUME NEW o \in object, o.name \notin blind, NEW p, PropsOf(o.id, p) # {}
      PROVE  One(PropsOf(o.id, p))
  <2>1. PICK r \in prop : r.objectid = o.id /\ r.name = p
    BY <1>2 DEF PropsOf
  <2>2. PropsOf(o.id, p) = {r}
    BY <1>2, <2>1 DEF PropsOf, RowsFlat
  <2>3. QED
    BY <2>2 DEF One
<1>3. QED
  BY <1>1, <1>2

\* The number of the object that a scan found is that of no other.
LEMMA FoundAlone ==
  ASSUME RowsFlat, NEW n, One(Named(n))
  PROVE  /\ The(Named(n)) \in object /\ The(Named(n)).name = n
         /\ Alone(The(Named(n)).id)
<1> DEFINE o == The(Named(n))
<1>1. Named(n) = {o}
  BY OneRow
<1> HIDE DEF o
<1>2. o \in object /\ o.name = n /\ \A q \in object : q.name = n => q = o
  BY <1>1 DEF Named
<1>3. Alone(o.id)
  BY <1>2 DEF Alone, RowsFlat
<1>4. QED
  BY <1>2, <1>3 DEF o

LEMMA NextNumber ==
  ASSUME TablesOK, NumbersGiven, NEW table \in Counter, Takes(table)
  PROVE  /\ last' \in [Counter -> Nat]
         /\ DOMAIN last' = Counter /\ \A t \in Counter : last'[t] \in 0..Limit[t]
         /\ last'[table] = last[table] + 1 /\ last'[table] \in Id
         /\ \A t \in Counter : t # table => last'[t] = last[t]
<1>1. last \in [Counter -> Nat] /\ \A t \in Counter : last[t] \in 0..Limit[t]
  BY DEF TablesOK, NumbersGiven
<1>2. last[table] < Limit[table] /\ last' = [last EXCEPT ![table] = last[table] + 1]
  BY DEF Takes
<1>3. last[table] \in Nat /\ Limit[table] \in Nat
  BY <1>1, SqlAssumption
<1>4. last[table] + 1 \in 0..Limit[table] /\ last[table] + 1 \in Id
  BY <1>2, <1>3 DEF Id
<1>5. /\ last' \in [Counter -> Nat] /\ last'[table] = last[table] + 1
      /\ \A t \in Counter : t # table => last'[t] = last[t]
  BY <1>1, <1>2, <1>4 DEF Id
<1>6. QED
  BY <1>1, <1>4, <1>5

LEMMA Counters == {"object", "prop", "value", "large"} \subseteq Counter
BY SqlAssumption, PgsqlAssumption

-----------------------------------------------------------------------------
(* The statements both files have *)

LEMMA KeepInsertObject ==
  ASSUME TablesInv, NEW n \in Name, InsertObject(n)
  PROVE  TablesInv'
<1>1. /\ call = None /\ call' = None
      /\ prop' = prop /\ value' = value
      /\ object' = object \cup {[id |-> last'["object"], name |-> n]}
  BY DEF InsertObject
<1>2. /\ blind \subseteq blind' /\ blind' \in SUBSET Name
      /\ n \notin blind' => \A o \in object : o.name # n
  BY NotTwo DEF TablesInv, TablesOK, InsertObject, NotFound
<1>3. /\ last' \in [Counter -> Nat]
      /\ DOMAIN last' = Counter /\ \A t \in Counter : last'[t] \in 0..Limit[t]
      /\ last'["object"] = last["object"] + 1 /\ last'["object"] \in Id
      /\ \A t \in Counter : t # "object" => last'[t] = last[t]
  BY NextNumber, Counters DEF TablesInv, InsertObject
<1>4. TablesOK' /\ CallOK' /\ CallReady'
  BY <1>1, <1>2, <1>3 DEF TablesInv, TablesOK, CallOK, CallReady, ObjectRow
<1>5. NumbersGiven'
  BY <1>1, <1>3, Counters DEF TablesInv, TablesOK, NumbersGiven, ObjectRow, Id
<1>6. /\ \A o \in object : o.id # last'["object"]
      /\ \A r \in prop : r.objectid # last'["object"]
  <2>1. \A o \in object : o.id # last'["object"]
    BY <1>3, Counters DEF TablesInv, TablesOK, NumbersGiven, ObjectRow, Id
  <2>2. QED
    BY <2>1 DEF TablesInv, RowsHaveOwners, Numbered
<1> DEFINE new == [id |-> last'["object"], name |-> n]
<1>10. object' = object \cup {new} /\ new.id = last'["object"] /\ new.name = n
  BY <1>1
<1> HIDE DEF new
<1>7. RowsFlat'
  BY <1>1, <1>2, <1>6, <1>10 DEF TablesInv, RowsFlat
<1>8. RowsHaveOwners' /\ ValuesUnshared'
  BY <1>1 DEF TablesInv, RowsHaveOwners, ValuesUnshared, Numbered, ValuesOf
<1>9. QED
  BY <1>4, <1>5, <1>7, <1>8 DEF TablesInv

\* Rows that are left, and calls that need nothing more, keep the invariant.
LEMMA KeepFewer ==
  ASSUME TablesInv, NEW P \in SUBSET prop, NEW V \in SUBSET value,
         prop' = P, value' = V, object' = object, last' = last, blind' = blind,
         CallOK', CallReady'
  PROVE  TablesInv'
<1>1. TablesOK' /\ NumbersGiven'
  BY DEF TablesInv, TablesOK, NumbersGiven
<1>2. RowsFlat' /\ RowsHaveOwners' /\ ValuesUnshared'
  BY DEF TablesInv, RowsFlat, RowsHaveOwners, ValuesUnshared, Numbered, ValuesOf
<1>3. QED
  BY <1>1, <1>2 DEF TablesInv

\* Values of the same number and object, whatever else they hold.
LEMMA KeepChanged ==
  ASSUME TablesInv, value' \subseteq ValueRow,
         \A w \in value' : \E v \in value : w.id = v.id /\ w.objectid = v.objectid,
         object' = object, prop' = prop, last' = last, blind' = blind,
         call' = None
  PROVE  TablesInv'
<1>1. TablesOK' /\ NumbersGiven'
  BY DEF TablesInv, TablesOK, NumbersGiven
<1>2. RowsFlat' /\ RowsHaveOwners' /\ ValuesUnshared'
  BY DEF TablesInv, RowsFlat, RowsHaveOwners, ValuesUnshared, Numbered, ValuesOf
<1>3. CallOK' /\ CallReady'
  BY DEF CallOK, CallReady
<1>4. QED
  BY <1>1, <1>2, <1>3 DEF TablesInv

LEMMA KeepInsertValue ==
  ASSUME TablesInv, NEW id \in Id, NEW p \in PropName, NEW content \in Content,
         FreshIn(id, p, blind'), blind \subseteq blind', blind' \subseteq Name,
         ValueInserted(id, content),
         \/ call' = None
         \/ call' = [at |-> "prop", objectid |-> id, name |-> p,
                     valueid |-> last'["value"], propid |-> -1]
  PROVE  TablesInv'
<1> DEFINE row == [id |-> last'["value"], propid |-> -1, objectid |-> id, data |-> content]
<1>1. object' = object /\ prop' = prop /\ value' = value \cup {row}
  BY DEF ValueInserted
<1>2. /\ last' \in [Counter -> Nat]
      /\ DOMAIN last' = Counter /\ \A t \in Counter : last'[t] \in 0..Limit[t]
      /\ last'["value"] = last["value"] + 1 /\ last'["value"] \in Id
      /\ \A t \in Counter : t # "value" => last'[t] = last[t]
  BY NextNumber, Counters DEF TablesInv, ValueInserted
<1>3. row \in ValueRow /\ row.id = last'["value"] /\ row.objectid = id
  BY <1>2 DEF ValueRow
<1>4. /\ \A r \in prop : r.valueid # last'["value"]
      /\ \A v \in value : v.id # last'["value"]
  BY <1>2, Counters DEF TablesInv, TablesOK, NumbersGiven, PropRow, ValueRow, Id
<1> HIDE DEF row
<1>5. TablesOK'
  BY <1>1, <1>2, <1>3 DEF TablesInv, TablesOK
<1>6. NumbersGiven'
  BY <1>1, <1>2, <1>3, Counters
  DEF TablesInv, TablesOK, NumbersGiven, ObjectRow, PropRow, ValueRow, Id
<1>7. RowsFlat' /\ RowsHaveOwners'
  <2>1. RowsFlat'
    BY <1>1 DEF TablesInv, RowsFlat
  <2>2. id \in {o.id : o \in object}
    BY DEF FreshIn, Numbered
  <2>3. QED
    BY <1>1, <1>3, <2>1, <2>2 DEF TablesInv, RowsHaveOwners, Numbered
<1>8. ValuesUnshared'
  BY <1>1, <1>3, <1>4 DEF TablesInv, ValuesUnshared, ValuesOf
<1>9. CallOK'
  <2>1. [at |-> "prop", objectid |-> id, name |-> p,
         valueid |-> last'["value"], propid |-> -1] \in Adding
    BY <1>2 DEF Adding
  <2>2. QED
    BY <2>1 DEF CallOK
<1>10. CallReady'
  <2>2. /\ last'["value"] <= last'["value"]
        /\ \A r \in prop' : r.valueid # last'["value"]
        /\ \A v \in value' : v.id = last'["value"] => v.objectid = id
    BY <1>1, <1>2, <1>3, <1>4 DEF Id
  <2>3. CASE call' = [at |-> "prop", objectid |-> id, name |-> p,
                     valueid |-> last'["value"], propid |-> -1]
    <3>1. /\ call'.at = "prop" /\ call'.objectid = id /\ call'.name = p
          /\ call'.valueid = last'["value"]
      BY <2>3
    <3>2. QED
      BY <1>1, <2>2, <3>1 DEF CallReady, Fresh, FreshIn, Numbered, PropsOf
  <2>4. CASE call' = None
    BY <2>4 DEF CallReady
  <2>5. QED
    BY <2>3, <2>4
<1>11. QED
  BY <1>5, <1>6, <1>7, <1>8, <1>9, <1>10 DEF TablesInv

LEMMA KeepInsertProp ==
  ASSUME TablesInv, PropInserted,
         call' = None \/ call' = [call EXCEPT !.at = "update", !.propid = last'["prop"]]
  PROVE  TablesInv'
<1> DEFINE row == [id |-> last'["prop"], name |-> call.name,
                   objectid |-> call.objectid, valueid |-> call.valueid]
<1>1. /\ object' = object /\ value' = value /\ prop' = prop \cup {row}
      /\ call # None /\ call.at = "prop"
  BY DEF PropInserted
<1>2. /\ last' \in [Counter -> Nat]
      /\ DOMAIN last' = Counter /\ \A t \in Counter : last'[t] \in 0..Limit[t]
      /\ last'["prop"] = last["prop"] + 1 /\ last'["prop"] \in Id
      /\ \A t \in Counter : t # "prop" => last'[t] = last[t]
  BY NextNumber, Counters DEF TablesInv, PropInserted
<1>3. call \in Adding
  BY <1>1 DEF TablesInv, CallOK, Deleting, Creating, Overwriting
<1>4. /\ row \in PropRow /\ row.valueid = call.valueid
      /\ row.objectid = call.objectid /\ row.name = call.name
  BY <1>2, <1>3 DEF PropRow, Adding
<1> HIDE DEF row
<1>5. /\ Fresh(call.objectid, call.name) /\ blind' = blind
      /\ call.valueid <= last["value"]
      /\ \A r \in prop : r.valueid # call.valueid
      /\ \A v \in value : v.id = call.valueid => v.objectid = call.objectid
  BY <1>1 DEF TablesInv, CallReady, AddingAt, PropInserted
<1>6. TablesOK'
  BY <1>1, <1>2, <1>4, <1>5 DEF TablesInv, TablesOK
<1>7. NumbersGiven'
  <2>1. last'["object"] = last["object"] /\ last'["value"] = last["value"]
    BY <1>2, Counters
  <2>2. row.valueid <= last["value"]
    BY <1>4, <1>5
  <2>3. QED
    BY <1>1, <1>2, <2>1, <2>2 DEF TablesInv, NumbersGiven
<1>8. RowsFlat'
  <2>1. ASSUME NEW o \in object, o.id = call.objectid, o.name \notin blind, NEW s \in prop
        PROVE  ~(s.objectid = o.id /\ s.name = call.name)
    <3>1. \A q \in Numbered(call.objectid) : q = o
      BY <2>1 DEF Numbered, TablesInv, RowsFlat
    <3>2. PropsOf(call.objectid, call.name) = {}
      BY <1>5, <2>1, <3>1 DEF Fresh, FreshIn
    <3>3. QED
      BY <2>1, <3>2 DEF PropsOf
  <2>2. QED
    BY <1>1, <1>4, <1>5, <2>1 DEF TablesInv, RowsFlat
<1>9. RowsHaveOwners'
  BY <1>1, <1>4, <1>5 DEF TablesInv, RowsHaveOwners, Numbered, Fresh, FreshIn
<1>10. ValuesUnshared'
  BY <1>1, <1>4, <1>5 DEF TablesInv, ValuesUnshared, ValuesOf
<1>11. call' = None \/ (call' \in Adding /\ call'.at = "update")
  BY <1>2, <1>3 DEF Adding
<1>12. CallOK' /\ CallReady'
  BY <1>11 DEF CallOK, CallReady, AddingAt
<1>13. QED
  BY <1>6, <1>7, <1>8, <1>9, <1>10, <1>12 DEF TablesInv

\* A statement that changes call and no more, where the step that is next
\* needs nothing that was not there.
LEMMA KeepTables ==
  ASSUME TablesInv, UNCHANGED tables, CallOK', CallReady'
  PROVE  TablesInv'
BY DEF TablesInv, tables, TablesOK, NumbersGiven, RowsFlat, RowsHaveOwners,
       ValuesUnshared, Numbered, ValuesOf

LEMMA KeepEnd ==
  ASSUME TablesInv, UNCHANGED tables, call' = None
  PROVE  TablesInv'
BY KeepTables DEF CallOK, CallReady

LEMMA KeepUpdateValue ==
  ASSUME TablesInv, UpdateValue
  PROVE  TablesInv'
<1> DEFINE New(v) == IF v.id = call.valueid THEN [v EXCEPT !.propid = call.propid] ELSE v
<1>1. call # None /\ call.at = "update" /\ value' = {New(v) : v \in value}
  BY DEF UpdateValue
<1>2. call \in Adding
  BY <1>1 DEF TablesInv, CallOK, Deleting, Creating, Overwriting
<1>3. ASSUME NEW v \in value
      PROVE  New(v) \in ValueRow /\ New(v).id = v.id /\ New(v).objectid = v.objectid
  BY <1>2 DEF TablesInv, TablesOK, ValueRow, Adding
<1> HIDE DEF New
<1>4. QED
  BY <1>1, <1>3, KeepChanged DEF UpdateValue

LEMMA KeepAddingFails ==
  ASSUME TablesInv, InsertPropFails \/ UpdateValueFails
  PROVE  TablesInv'
<1>1. /\ call # None /\ call.at \in {"prop", "update"} /\ UNCHANGED tables
      /\ \E at \in {"takeback", "takeback both"} : call' = [call EXCEPT !.at = at]
  BY DEF InsertPropFails, UpdateValueFails
<1>2. call \in Adding
  BY <1>1 DEF TablesInv, CallOK, Deleting, Creating, Overwriting
<1>3. call' \in Adding /\ call'.at \in {"takeback", "takeback both"}
  BY <1>1, <1>2 DEF Adding
<1>4. QED
  BY <1>1, <1>3, KeepTables DEF CallOK, CallReady, AddingAt

LEMMA KeepTakeBack ==
  ASSUME TablesInv, TakeBackValue \/ TakeBackProp
  PROVE  TablesInv'
<1>1. CASE TakeBackValue
  <2>1. call # None /\ call.at \in {"takeback", "takeback both"}
    BY <1>1 DEF TakeBackValue
  <2>2. call \in Adding
    BY <2>1 DEF TablesInv, CallOK, Deleting, Creating, Overwriting
  <2>3. call' = None \/ (call' \in Adding /\ call'.at = "takeback prop")
    BY <1>1, <2>2 DEF TakeBackValue, Adding
  <2>4. value' \subseteq value /\ prop' = prop
    BY <1>1 DEF TakeBackValue
  <2>5. CallOK' /\ CallReady'
    BY <2>3 DEF CallOK, CallReady, AddingAt
  <2>6. QED
    BY <1>1, <2>4, <2>5, KeepFewer DEF TakeBackValue
<1>2. CASE TakeBackProp
  <2>1. prop' \subseteq prop /\ value' = value /\ CallOK' /\ CallReady'
    BY <1>2 DEF TakeBackProp, CallOK, CallReady
  <2>2. QED
    BY <1>2, <2>1, KeepFewer DEF TakeBackProp
<1>3. QED
  BY <1>1, <1>2

LEMMA KeepDeleteProps ==
  ASSUME TablesInv, NEW n \in Name, DeleteProps(n)
  PROVE  TablesInv'
<1> DEFINE id == The(Named(n)).id
<1>1. /\ prop' = {r \in prop : r.objectid # id}
      /\ call' = [at |-> "values", objectid |-> id]
  BY DEF DeleteProps
<1>2. id \in Id /\ Alone(id)
  <2>1. The(Named(n)) \in object /\ Alone(id)
    BY FoundAlone DEF DeleteProps, TablesInv
  <2>2. QED
    BY <2>1 DEF TablesInv, TablesOK, ObjectRow
<1> HIDE DEF id
<1>3. call' \in Deleting /\ call'.at = "values" /\ call'.objectid = id
  BY <1>1, <1>2 DEF Deleting
<1>4. CallOK' /\ CallReady'
  BY <1>1, <1>2, <1>3 DEF CallOK, CallReady, AddingAt, Alone, DeleteProps
<1>5. prop' \subseteq prop
  BY <1>1
<1>6. QED
  BY <1>4, <1>5, KeepFewer DEF DeleteProps

LEMMA KeepDeleteValues ==
  ASSUME TablesInv, DeleteValues
  PROVE  TablesInv'
<1>1. /\ call # None /\ call.at = "values" /\ prop' = prop
      /\ value' = {v \in value : v.objectid # call.objectid}
      /\ call' = [call EXCEPT !.at = "object"]
  BY DEF DeleteValues
<1>2. call \in Deleting
  BY <1>1 DEF TablesInv, CallOK, Adding, Creating, Overwriting
<1>3. call' \in Deleting /\ call'.at = "object" /\ call'.objectid = call.objectid
  BY <1>1, <1>2 DEF Deleting
<1>4. Alone(call.objectid) /\ \A r \in prop : r.objectid # call.objectid
  BY <1>1 DEF TablesInv, CallReady
<1>5. CallOK' /\ CallReady'
  BY <1>1, <1>3, <1>4 DEF CallOK, CallReady, AddingAt, Alone, DeleteValues
<1>6. value' \subseteq value
  BY <1>1
<1>7. QED
  BY <1>1, <1>5, <1>6, KeepFewer DEF DeleteValues

LEMMA KeepDeleteRow ==
  ASSUME TablesInv, DeleteRow
  PROVE  TablesInv'
<1>1. /\ call # None /\ call.at = "object" /\ call' = None
      /\ object' = {o \in object : o.id # call.objectid}
      /\ prop' = prop /\ value' = value /\ last' = last /\ blind' = blind
  BY DEF DeleteRow
<1>2. /\ \A r \in prop : r.objectid # call.objectid
      /\ \A v \in value : v.objectid # call.objectid
  BY <1>1 DEF TablesInv, CallReady
<1>3. TablesOK' /\ NumbersGiven' /\ RowsFlat' /\ ValuesUnshared'
  BY <1>1 DEF TablesInv, TablesOK, NumbersGiven, RowsFlat, ValuesUnshared, ValuesOf
<1>4. RowsHaveOwners'
  BY <1>1, <1>2 DEF TablesInv, RowsHaveOwners, Numbered
<1>5. CallOK' /\ CallReady'
  BY <1>1 DEF CallOK, CallReady
<1>6. QED
  BY <1>3, <1>4, <1>5 DEF TablesInv

LEMMA KeepDeleteFails ==
  ASSUME TablesInv, DeleteFails
  PROVE  TablesInv'
BY KeepEnd DEF DeleteFails

\* An object that exists, and a property that it has not, or that was not found.
LEMMA NewProperty ==
  ASSUME TablesInv, NEW n \in Name, NEW p \in PropName, MayAddProp(n, p)
  PROVE  /\ The(Named(n)).id \in Id
         /\ FreshIn(The(Named(n)).id, p, blind')
         /\ blind \subseteq blind' /\ blind' \subseteq Name
<1> DEFINE o == The(Named(n))
<1>1. o \in object /\ o.name = n
  BY FoundAlone DEF MayAddProp, TablesInv
<1>2. /\ \/ ~One(PropsOf(o.id, p)) /\ blind' = blind
         \/ blind' = blind \cup {n}
  BY DEF MayAddProp, NotFound
<1> HIDE DEF o
<1>3. o.id \in Id /\ o \in Numbered(o.id)
  BY <1>1 DEF TablesInv, TablesOK, ObjectRow, Numbered
<1>4. blind \subseteq blind' /\ blind' \subseteq Name
  BY <1>2 DEF TablesInv, TablesOK
<1>5. n \in blind' \/ PropsOf(o.id, p) = {}
  BY <1>1, <1>2, NotTwo DEF TablesInv
<1>6. (\A q \in Numbered(o.id) : q.name \notin blind') => PropsOf(o.id, p) = {}
  BY <1>1, <1>3, <1>5
<1>7. QED
  BY <1>3, <1>4, <1>6 DEF o, FreshIn

LEMMA KeepInsertProps ==
  ASSUME TablesInv, InsertProp
  PROVE  TablesInv'
BY KeepInsertProp DEF InsertProp

-----------------------------------------------------------------------------
(* binderyio_mysql.c *)

\* The statements are those of this module.
LEMMA SameStatements ==
  /\ Mysql!Statement => Statement
  /\ Mysql!Failure => Failure
<1>1. Mysql!InsertProp => InsertProp
  BY DEF Mysql!InsertProp, Mysql!PropInserted, Mysql!Takes, InsertProp, PropInserted, Takes
<1>2. Mysql!UpdateValue => UpdateValue
  BY DEF Mysql!UpdateValue, UpdateValue
<1>3. Mysql!TakeBackValue => TakeBackValue
  BY DEF Mysql!TakeBackValue, TakeBackValue
<1>4. Mysql!TakeBackProp => TakeBackProp
  BY DEF Mysql!TakeBackProp, TakeBackProp
<1>5. Mysql!DeleteValues => DeleteValues
  BY DEF Mysql!DeleteValues, DeleteValues
<1>6. Mysql!DeleteRow => DeleteRow
  BY DEF Mysql!DeleteRow, DeleteRow
<1>7. ASSUME NEW n \in Name, Mysql!InsertObject(n) PROVE InsertObject(n)
  BY <1>7 DEF Mysql!InsertObject, Mysql!NotFound, Mysql!One, Mysql!Named, Mysql!Takes,
              InsertObject, NotFound, One, Named, Takes
<1>8. ASSUME NEW n \in Name, Mysql!DeleteProps(n) PROVE DeleteProps(n)
  BY <1>8 DEF Mysql!DeleteProps, Mysql!One, Mysql!The, Mysql!Named,
              DeleteProps, One, The, Named
<1>9. Mysql!Failure => Failure
  BY DEF Mysql!Failure, Mysql!InsertPropFails, Mysql!UpdateValueFails, Mysql!DeleteFails,
         Mysql!tables, Failure, InsertPropFails, UpdateValueFails, DeleteFails, tables
<1>10. QED
  BY <1>1, <1>2, <1>3, <1>4, <1>5, <1>6, <1>7, <1>8, <1>9 DEF Mysql!Statement, Statement

LEMMA KeepStatement ==
  ASSUME TablesInv, Statement \/ Failure
  PROVE  TablesInv'
<1>1. ASSUME NEW n \in Name, InsertObject(n) \/ DeleteProps(n) PROVE TablesInv'
  BY <1>1, KeepInsertObject, KeepDeleteProps
<1>2. ASSUME Failure PROVE TablesInv'
  BY <1>2, KeepAddingFails, KeepDeleteFails DEF Failure
<1>3. QED
  BY <1>1, <1>2, KeepInsertProps, KeepUpdateValue, KeepTakeBack, KeepDeleteValues,
     KeepDeleteRow DEF Statement

LEMMA MysqlKeepsTables ==
  ASSUME TablesInv, Mysql!Next
  PROVE  TablesInv'
<1>1. CASE Mysql!Statement \/ Mysql!Failure
  BY <1>1, SameStatements, KeepStatement
<1>2. CASE Mysql!Kill
  BY <1>2, KeepEnd DEF Mysql!Kill, Mysql!tables, tables
<1>3. CASE Mysql!Read
  <2>1. UNCHANGED tables /\ call' = None
    BY <1>3 DEF Mysql!Read, Mysql!vars, Mysql!tables, tables
  <2>2. QED
    BY <2>1, KeepEnd
<1>4. ASSUME NEW n \in Name, NEW p \in PropName, Mysql!AddProp(n, p)
      PROVE  TablesInv'
  <2>1. MayAddProp(n, p)
    BY <1>4 DEF Mysql!AddProp, Mysql!MayAddProp, Mysql!NotFound, Mysql!One, Mysql!The, Mysql!Named,
                Mysql!PropsOf, MayAddProp, NotFound, One, The, Named, PropsOf
  <2>2. InsertValue(The(Named(n)).id, p, Zero)
    BY <1>4 DEF Mysql!AddProp, Mysql!InsertValue, Mysql!ValueInserted, Mysql!Takes,
                Mysql!The, Mysql!Named, InsertValue, ValueInserted, Takes, The, Named
  <2>3. /\ The(Named(n)).id \in Id
        /\ FreshIn(The(Named(n)).id, p, blind')
        /\ blind \subseteq blind' /\ blind' \subseteq Name
    BY <2>1, NewProperty
  <2>4. QED
    BY <2>2, <2>3, KeepInsertValue, DatabasesAssumption DEF InsertValue
<1>5. ASSUME NEW n \in Name, NEW p \in PropName, NEW d \in Content, Mysql!WriteProp(n, p, d)
      PROVE  TablesInv'
  <2> DEFINE New(v, id) == IF v.id = id THEN [v EXCEPT !.data = d] ELSE v
  <2>1. PICK id : value' = {New(v, id) : v \in value}
    BY <1>5 DEF Mysql!WriteProp
  <2>2. ASSUME NEW v \in value
        PROVE  /\ New(v, id) \in ValueRow
               /\ New(v, id).id = v.id /\ New(v, id).objectid = v.objectid
    BY DEF TablesInv, TablesOK, ValueRow
  <2> HIDE DEF New
  <2>3. call' = None /\ object' = object /\ prop' = prop /\ last' = last /\ blind' = blind
    BY <1>5 DEF Mysql!WriteProp
  <2>4. QED
    BY <2>1, <2>2, <2>3, KeepChanged
<1>6. QED
  BY <1>1, <1>2, <1>3, <1>4, <1>5 DEF Mysql!Next

-----------------------------------------------------------------------------
(* binderyio_pgsql.c: the tables *)

\* A large object more, or a step of a transaction: the next step of adding a
\* property knows what the one before it did.
LEMMA KeepCreating ==
  ASSUME TablesInv, call # None, call.at \in AddingAt,
         call' \in Creating, call'.objectid = call.objectid, call'.name = call.name,
         object' = object, prop' = prop, value' = value, blind' = blind,
         last' = last \/ Takes("large")
  PROVE  TablesInv'
<1>1. TablesOK' /\ NumbersGiven'
  <2>1. CASE last' = last
    BY <2>1 DEF TablesInv, TablesOK, NumbersGiven
  <2>2. CASE Takes("large")
    <3>1. /\ last' \in [Counter -> Nat]
          /\ DOMAIN last' = Counter /\ \A t \in Counter : last'[t] \in 0..Limit[t]
          /\ \A t \in Counter : t # "large" => last'[t] = last[t]
      BY <2>2, NextNumber, Counters DEF TablesInv
    <3>2. QED
      BY <3>1, Counters DEF TablesInv, TablesOK, NumbersGiven
  <2>3. QED
    BY <2>1, <2>2
<1>2. RowsFlat' /\ RowsHaveOwners' /\ ValuesUnshared'
  BY DEF TablesInv, RowsFlat, RowsHaveOwners, ValuesUnshared, Numbered, ValuesOf
<1>3. CallOK'
  BY DEF CallOK
<1>4. call'.at \in {"create", "write", "commit", "insert"}
  BY DEF Creating
<1>5. CallReady'
  <2>1. Fresh(call.objectid, call.name)
    BY DEF TablesInv, CallReady
  <2>2. QED
    BY <1>4, <2>1 DEF CallReady, Fresh, FreshIn, Numbered, PropsOf
<1>6. QED
  BY <1>1, <1>2, <1>3, <1>5 DEF TablesInv

LEMMA CreatingCall ==
  ASSUME TablesInv, call # None, call.at \in {"create", "write", "commit", "insert"}
  PROVE  call \in Creating
BY DEF TablesInv, CallOK, Adding, Deleting, Overwriting

LEMMA PgsqlKeepsTables ==
  ASSUME TablesInv, Next
  PROVE  TablesInv'
<1>1. ASSUME NEW n \in Name, AddObject(n) PROVE TablesInv'
  BY <1>1, KeepInsertObject DEF AddObject
<1>2. ASSUME NEW n \in Name, NEW p \in PropName, AddProp(n, p) PROVE TablesInv'
  <2>1. /\ object' = object /\ prop' = prop /\ value' = value /\ last' = last
        /\ call' = [at |-> "create", objectid |-> The(Named(n)).id, name |-> p]
    BY <1>2 DEF AddProp
  <2>2. /\ The(Named(n)).id \in Id
        /\ FreshIn(The(Named(n)).id, p, blind')
        /\ blind \subseteq blind' /\ blind' \subseteq Name
    BY <1>2, NewProperty DEF AddProp
  <2>3. /\ call' \in Creating /\ call'.at = "create"
        /\ call'.objectid = The(Named(n)).id /\ call'.name = p
    BY <2>1, <2>2 DEF Creating
  <2>4. CallOK' /\ CallReady'
    BY <2>1, <2>2, <2>3 DEF CallOK, CallReady, Fresh, FreshIn, Numbered, PropsOf
  <2>5. TablesOK' /\ NumbersGiven'
    BY <2>1, <2>2 DEF TablesInv, TablesOK, NumbersGiven
  <2>6. RowsFlat' /\ RowsHaveOwners' /\ ValuesUnshared'
    BY <2>1, <2>2 DEF TablesInv, RowsFlat, RowsHaveOwners, ValuesUnshared, Numbered, ValuesOf
  <2>7. QED
    BY <2>4, <2>5, <2>6 DEF TablesInv
<1>3. ASSUME NEW n \in Name, NEW p \in PropName, NEW d \in Data, WriteProp(n, p, d)
      PROVE  TablesInv'
  <2>1. The(Named(n)) \in object /\ Alone(The(Named(n)).id)
    BY <1>3, FoundAlone DEF WriteProp, TablesInv
  <2>2. The(Named(n)).id \in Id
    BY <2>1 DEF TablesInv, TablesOK, ObjectRow
  <2>3. ValueRowOf(The(Named(n)).id, p) \in value
    BY <1>3, OneRow DEF WriteProp, Loadable, Readable, ValueRowOf, ValuesOf
  <2>4. ValueRowOf(The(Named(n)).id, p).data \in Content
    BY <2>3 DEF TablesInv, TablesOK, ValueRow
  <2>5. /\ call' \in Overwriting /\ call'.at = "overwrite"
        /\ call'.objectid = The(Named(n)).id
    BY <1>3, <2>2, <2>4 DEF WriteProp, Overwriting
  <2>8. object' = object
    BY <1>3 DEF WriteProp, tables
  <2>6. CallOK' /\ CallReady'
    BY <2>1, <2>5, <2>8 DEF CallOK, CallReady, AddingAt, Alone
  <2>7. QED
    BY <1>3, <2>6, KeepTables DEF WriteProp
<1>4. CASE CreateLarge
  <2>1. call # None /\ call.at = "create" /\ call' = [call EXCEPT !.at = "write"]
    BY <1>4 DEF CreateLarge, At
  <2>2. call' \in Creating /\ call'.objectid = call.objectid /\ call'.name = call.name
    BY <2>1, CreatingCall DEF Creating
  <2>3. QED
    BY <1>4, <2>1, <2>2, KeepCreating DEF CreateLarge, AddingAt
<1>5. CASE WriteLarge \/ CommitLarge
  <2>1. /\ call # None /\ call.at \in {"write", "commit"} /\ UNCHANGED tables
        /\ \E at \in {"commit", "insert"} : call' = [call EXCEPT !.at = at]
    BY <1>5 DEF WriteLarge, CommitLarge, At
  <2>2. call' \in Creating /\ call'.objectid = call.objectid /\ call'.name = call.name
    BY <2>1, CreatingCall DEF Creating
  <2>3. QED
    BY <2>1, <2>2, KeepCreating DEF tables, AddingAt
<1>6. CASE AddValue
  <2>1. call # None /\ call.at = "insert"
    BY <1>6 DEF AddValue, At
  <2>2. call.objectid \in Id /\ call.name \in PropName
    BY <2>1, CreatingCall DEF Creating
  <2>3. Fresh(call.objectid, call.name)
    BY <2>1 DEF TablesInv, CallReady, AddingAt
  <2>4. last["large"] \in Content
    BY PgsqlAssumption DEF TablesInv, TablesOK
  <2>5. CASE call' = None /\ UNCHANGED tables
    BY <2>5, KeepEnd
  <2>6. CASE /\ blind' = blind
             /\ \/ InsertValue(call.objectid, call.name, last["large"])
                \/ ValueInserted(call.objectid, last["large"]) /\ call' = None
    <3>1. FreshIn(call.objectid, call.name, blind')
      BY <2>3, <2>6 DEF Fresh
    <3>2. blind \subseteq blind' /\ blind' \subseteq Name
      BY <2>6 DEF TablesInv, TablesOK
    <3>3. QED
      BY <2>2, <2>4, <2>6, <3>1, <3>2, KeepInsertValue DEF InsertValue
  <2>7. QED
    BY <1>6, <2>5, <2>6 DEF AddValue
<1>7. CASE AddRow
  BY <1>7, KeepInsertProps, KeepUpdateValue, KeepAddingFails, KeepTakeBack, KeepInsertProp
  DEF AddRow
<1>8. CASE Overwrite
  <2>1. /\ call # None /\ call.at = "overwrite" /\ call' = [call EXCEPT !.at = "finish"]
        /\ UNCHANGED tables
    BY <1>8 DEF Overwrite, At
  <2>2. call \in Overwriting /\ Alone(call.objectid)
    BY <2>1 DEF TablesInv, CallOK, Adding, Deleting, Creating, CallReady
  <2>3. call' \in Overwriting /\ call'.at = "finish" /\ call'.objectid = call.objectid
    BY <2>1, <2>2 DEF Overwriting
  <2>4. CallOK' /\ CallReady'
    BY <2>1, <2>2, <2>3 DEF CallOK, CallReady, AddingAt, Alone, tables
  <2>5. QED
    BY <2>1, <2>4, KeepTables
<1>9. CASE FinishWrite \/ LargeObjectFails \/ Restart
  BY <1>9, KeepEnd DEF FinishWrite, LargeObjectFails, Restart
<1>10. CASE DeleteObj
  BY <1>10, KeepDeleteProps, KeepDeleteValues, KeepDeleteRow, KeepDeleteFails DEF DeleteObj
<1>11. CASE Read
  <2>1. UNCHANGED tables /\ call' = None
    BY <1>11 DEF Read, vars, tables
  <2>2. QED
    BY <2>1, KeepEnd
<1>12. QED
  BY <1>1, <1>2, <1>3, <1>4, <1>5, <1>6, <1>7, <1>8, <1>9, <1>10, <1>11 DEF Next

-----------------------------------------------------------------------------
(* binderyio_pgsql.c: the large objects *)

\* The large object that a call has created is nobody's yet, and is written
\* before a value refers to it.
LargeReady ==
  call # None =>
    /\ call.at \in {"write", "commit", "insert"} => \A v \in value : v.data # last["large"]
    /\ call.at = "commit" \/ (call.at = "write" /\ tx = "open") =>
         \A l \in kept : l.oid # last["large"]
    /\ call.at = "commit" => \A l \in large : l.oid = last["large"] => l.data # Blank
    /\ call.at = "insert" =>
         \A l \in large \cup kept : l.oid = last["large"] => l.data # Blank

OneEach(S) == \A l, m \in S : l.oid = m.oid => l = m

ValuesDistinct ==
  /\ \A v, w \in value : v.data = w.data => v = w
  /\ \A v \in value : v.data <= last["large"]

ValuesWritten == \A v \in value, l \in large \cup kept : v.data = l.oid => l.data # Blank

LargeInv ==
  /\ large \subseteq LargeObject /\ kept \subseteq LargeObject
  /\ \A l \in large \cup kept : l.oid <= last["large"]
  /\ OneEach(large) /\ OneEach(kept)
  /\ ValuesDistinct /\ ValuesWritten
  /\ LargeReady

\* Statements on the tables, where no value has a new number in its data and
\* the next step is not one that uses a large object.
LEMMA KeepLarge ==
  ASSUME LargeInv, UNCHANGED pg, last'["large"] = last["large"],
         \A w \in value' : \E v \in value : v.data = w.data,
         \A v, w \in value' : v.data = w.data => v = w,
         call' # None => call'.at \notin {"write", "commit", "insert"}
  PROVE  LargeInv'
<1>1. ValuesDistinct' /\ ValuesWritten'
  BY DEF LargeInv, ValuesDistinct, ValuesWritten, pg
<1>2. LargeReady'
  BY DEF LargeReady
<1>3. QED
  BY <1>1, <1>2 DEF LargeInv, OneEach, pg

LEMMA KeepLargeFewer ==
  ASSUME LargeInv, UNCHANGED pg, last'["large"] = last["large"], value' \subseteq value,
         call' # None => call'.at \notin {"write", "commit", "insert"}
  PROVE  LargeInv'
BY KeepLarge DEF LargeInv, ValuesDistinct

\* Other numbers are given than those of large objects.
LEMMA OtherNumbers ==
  ASSUME TablesInv, NEW table \in {"object", "prop", "value"}, Takes(table)
  PROVE  last'["large"] = last["large"]
BY NextNumber, Counters DEF TablesInv

LEMMA LargeAddRow ==
  ASSUME TablesInv, LargeInv, AddRow
  PROVE  LargeInv'
<1>1. UNCHANGED pg
  BY DEF AddRow
<1>2. CASE InsertProp \/ (PropInserted /\ call' = None)
  <2>1. /\ call # None /\ call.at = "prop" /\ Takes("prop") /\ value' = value
        /\ call' = None \/ call' = [call EXCEPT !.at = "update", !.propid = last'["prop"]]
    BY <1>2 DEF InsertProp, PropInserted
  <2>2. call \in Adding
    BY <2>1 DEF TablesInv, CallOK, Deleting, Creating, Overwriting
  <2>3. call' # None => call'.at = "update"
    BY <2>1, <2>2 DEF Adding
  <2>4. QED
    BY <1>1, <2>1, <2>3, OtherNumbers, KeepLargeFewer
<1>3. CASE UpdateValue
  <2> DEFINE New(v) == IF v.id = call.valueid THEN [v EXCEPT !.propid = call.propid] ELSE v
  <2>1. value' = {New(v) : v \in value} /\ last' = last /\ call' = None
    BY <1>3 DEF UpdateValue
  <2>2. ASSUME NEW v \in value PROVE New(v).data = v.data
    BY DEF TablesInv, TablesOK, ValueRow
  <2> HIDE DEF New
  <2>3. \A v, w \in value' : v.data = w.data => v = w
    BY <2>1, <2>2 DEF LargeInv, ValuesDistinct
  <2>4. \A w \in value' : \E v \in value : v.data = w.data
    BY <2>1, <2>2
  <2>5. QED
    BY <1>1, <2>1, <2>3, <2>4, KeepLarge
<1>4. CASE InsertPropFails \/ UpdateValueFails
  <2>1. /\ call # None /\ call.at \in {"prop", "update"} /\ UNCHANGED tables
        /\ \E at \in {"takeback", "takeback both"} : call' = [call EXCEPT !.at = at]
    BY <1>4 DEF InsertPropFails, UpdateValueFails
  <2>2. call \in Adding
    BY <2>1 DEF TablesInv, CallOK, Deleting, Creating, Overwriting
  <2>3. call'.at \in {"takeback", "takeback both"}
    BY <2>1, <2>2 DEF Adding
  <2>4. QED
    BY <1>1, <2>1, <2>3, KeepLargeFewer DEF tables
<1>5. CASE TakeBackValue
  <2>1. /\ call # None /\ call.at \in {"takeback", "takeback both"}
        /\ value' \subseteq value /\ last' = last
    BY <1>5 DEF TakeBackValue
  <2>2. call \in Adding
    BY <2>1 DEF TablesInv, CallOK, Deleting, Creating, Overwriting
  <2>3. call' = None \/ call'.at = "takeback prop"
    BY <1>5, <2>2 DEF TakeBackValue, Adding
  <2>4. QED
    BY <1>1, <2>1, <2>3, KeepLargeFewer
<1>6. CASE TakeBackProp
  BY <1>1, <1>6, KeepLargeFewer DEF TakeBackProp
<1>7. QED
  BY <1>2, <1>3, <1>4, <1>5, <1>6 DEF AddRow

LEMMA LargeDelete ==
  ASSUME TablesInv, LargeInv, DeleteObj
  PROVE  LargeInv'
<1>1. UNCHANGED pg
  BY DEF DeleteObj
<1>2. ASSUME NEW n \in Name, DeleteProps(n) PROVE LargeInv'
  <2>1. call'.at = "values" /\ value' = value /\ last' = last
    BY <1>2 DEF DeleteProps
  <2>2. QED
    BY <1>1, <2>1, KeepLargeFewer
<1>3. CASE DeleteValues
  <2>1. /\ call # None /\ call.at = "values" /\ call' = [call EXCEPT !.at = "object"]
        /\ value' \subseteq value /\ last' = last
    BY <1>3 DEF DeleteValues
  <2>2. call \in Deleting
    BY <2>1 DEF TablesInv, CallOK, Adding, Creating, Overwriting
  <2>3. call'.at = "object"
    BY <2>1, <2>2 DEF Deleting
  <2>4. QED
    BY <1>1, <2>1, <2>3, KeepLargeFewer
<1>4. CASE DeleteRow \/ DeleteFails
  BY <1>1, <1>4, KeepLargeFewer DEF DeleteRow, DeleteFails, tables
<1>5. QED
  BY <1>2, <1>3, <1>4 DEF DeleteObj

LEMMA LargeCreate ==
  ASSUME TablesInv, LargeInv, CreateLarge
  PROVE  LargeInv'
<1> DEFINE new == [oid |-> last'["large"], data |-> Blank]
<1>1. /\ large' = large \cup {new}
      /\ kept' = IF tx = "open" THEN kept ELSE large'
      /\ tx' = tx /\ value' = value
      /\ call # None /\ call.at = "create" /\ call' = [call EXCEPT !.at = "write"]
  BY DEF CreateLarge, At
<1>2. last'["large"] = last["large"] + 1 /\ last'["large"] \in Id
  BY NextNumber, Counters DEF TablesInv, CreateLarge
<1>3. last["large"] \in Nat
  BY Counters DEF TablesInv, NumbersGiven
<1>4. new \in LargeObject /\ new.oid = last'["large"]
  BY <1>2 DEF LargeObject
<1> HIDE DEF new
<1>5. /\ \A l \in large \cup kept : l.oid \in Nat /\ l.oid # last'["large"]
                                 /\ l.oid <= last'["large"]
      /\ \A v \in value : v.data # last'["large"] /\ v.data <= last'["large"]
  <2>1. \A l \in large \cup kept : l.oid \in Nat /\ l.oid <= last["large"]
    BY DEF LargeInv, LargeObject, Id
  <2>2. \A v \in value : v.data \in Int /\ v.data <= last["large"]
    BY PgsqlAssumption DEF LargeInv, ValuesDistinct, TablesInv, TablesOK, ValueRow
  <2>3. QED
    BY <1>2, <1>3, <2>1, <2>2
<1>6. large' \subseteq LargeObject /\ kept' \subseteq LargeObject
  BY <1>1, <1>4 DEF LargeInv
<1>7. \A l \in large' \cup kept' : l.oid <= last'["large"]
  BY <1>1, <1>2, <1>4, <1>5 DEF Id
<1>8. OneEach(large') /\ OneEach(kept')
  BY <1>1, <1>4, <1>5 DEF LargeInv, OneEach
<1>9. ValuesDistinct' /\ ValuesWritten'
  BY <1>1, <1>4, <1>5 DEF LargeInv, ValuesDistinct, ValuesWritten
<1>10. call \in Creating
  BY <1>1, CreatingCall
<1>11. call'.at = "write"
  BY <1>1, <1>10 DEF Creating
<1>12. LargeReady'
  BY <1>1, <1>5, <1>11 DEF LargeReady
<1>13. QED
  BY <1>6, <1>7, <1>8, <1>9, <1>12 DEF LargeInv, OneEach

\* Writing a large object that is not used, or is used and stays written.
LEMMA Written ==
  ASSUME LargeInv, NEW oid, NEW d \in Data, large' = WithData(oid, d)
  PROVE  /\ large' \subseteq LargeObject /\ OneEach(large')
         /\ \A l \in large' : \E m \in large :
              l.oid = m.oid /\ (l = m \/ l.data # Blank) /\ (l.oid = oid => l.data # Blank)
<1> DEFINE New(l) == IF l.oid = oid THEN [l EXCEPT !.data = d] ELSE l
<1>1. large' = {New(l) : l \in large}
  BY DEF WithData
<1>2. d # Blank
  BY PgsqlAssumption
<1>3. ASSUME NEW l \in large
      PROVE  /\ New(l) \in LargeObject /\ New(l).oid = l.oid
             /\ New(l) = l \/ New(l).data # Blank
             /\ l.oid = oid => New(l).data # Blank
  BY <1>2 DEF LargeInv, LargeObject
<1> HIDE DEF New
<1>4. OneEach(large')
  BY <1>1, <1>3 DEF LargeInv, OneEach
<1>5. QED
  BY <1>1, <1>3, <1>4

LEMMA LargeWrite ==
  ASSUME TablesInv, LargeInv, WriteLarge \/ Overwrite
  PROVE  LargeInv'
<1>1. /\ call # None /\ UNCHANGED tables /\ kept' = kept /\ tx' = tx /\ tx = "open"
      /\ \/ /\ call.at = "write" /\ call' = [call EXCEPT !.at = "commit"]
            /\ large' = WithData(last["large"], Zero)
         \/ /\ call.at = "overwrite" /\ call' = [call EXCEPT !.at = "finish"]
            /\ large' = WithData(call.oid, call.data)
  BY DEF WriteLarge, Overwrite, At
<1>2. call.at = "overwrite" => call \in Overwriting
  BY <1>1 DEF TablesInv, CallOK, Adding, Deleting, Creating
<1>3. call.at = "write" => call \in Creating
  BY <1>1, CreatingCall
<1>4. /\ large' \subseteq LargeObject /\ OneEach(large')
      /\ \A l \in large' : \E m \in large : l.oid = m.oid /\ (l = m \/ l.data # Blank)
      /\ call.at = "write" => \A l \in large' : l.oid = last["large"] => l.data # Blank
  <2>1. call.at = "overwrite" => call.data \in Data
    BY <1>2 DEF Overwriting
  <2>2. QED
    BY <1>1, <2>1, Written, PgsqlAssumption
<1>5. kept' \subseteq LargeObject /\ OneEach(kept')
  BY <1>1 DEF LargeInv
<1>6. \A l \in large' \cup kept' : l.oid <= last'["large"]
  BY <1>1, <1>4 DEF LargeInv, tables
<1>7. ValuesDistinct' /\ ValuesWritten'
  BY <1>1, <1>4 DEF LargeInv, ValuesDistinct, ValuesWritten, tables
<1>8. \/ call.at = "write" /\ call'.at = "commit"
      \/ call'.at = "finish"
  BY <1>1, <1>2, <1>3 DEF Creating, Overwriting
<1>9. LargeReady'
  BY <1>1, <1>4, <1>8 DEF LargeInv, LargeReady, tables
<1>10. QED
  BY <1>4, <1>5, <1>6, <1>7, <1>9 DEF LargeInv, OneEach

LEMMA LargeCommit ==
  ASSUME TablesInv, LargeInv, CommitLarge \/ FinishWrite
  PROVE  LargeInv'
<1>1. /\ UNCHANGED tables /\ call # None
      /\ large' = kept' /\ (large' = large \/ large' = kept)
      /\ \/ call.at = "commit" /\ call' = [call EXCEPT !.at = "insert"]
         \/ call' = None
  BY DEF CommitLarge, FinishWrite, Commit, At
<1>2. /\ large' \subseteq LargeObject /\ kept' \subseteq LargeObject
      /\ OneEach(large') /\ OneEach(kept')
      /\ \A l \in large' \cup kept' : l.oid <= last'["large"]
  BY <1>1 DEF LargeInv, tables
<1>3. ValuesDistinct' /\ ValuesWritten'
  BY <1>1 DEF LargeInv, ValuesDistinct, ValuesWritten, tables
<1>4. call' = None \/ (call.at = "commit" /\ call'.at = "insert")
  BY <1>1, CreatingCall DEF Creating
<1>5. LargeReady'
  BY <1>1, <1>4 DEF LargeInv, LargeReady, tables
<1>6. QED
  BY <1>2, <1>3, <1>5 DEF LargeInv, OneEach

\* The session's changes are given up.
LEMMA LargeBack ==
  ASSUME LargeInv, UNCHANGED tables, large' = kept, kept' = kept, call' = None
  PROVE  LargeInv'
<1>1. ValuesDistinct' /\ ValuesWritten' /\ LargeReady'
  BY DEF LargeInv, ValuesDistinct, ValuesWritten, LargeReady, tables
<1>2. QED
  BY <1>1 DEF LargeInv, OneEach, tables

LEMMA LargeAddValue ==
  ASSUME TablesInv, LargeInv, AddValue
  PROVE  LargeInv'
<1>1. UNCHANGED pg /\ call # None /\ call.at = "insert"
  BY DEF AddValue, At
<1>2. CASE call' = None /\ UNCHANGED tables
  BY <1>1, <1>2, KeepLargeFewer DEF tables
<1>3. CASE ValueInserted(call.objectid, last["large"]) /\ (call' = None \/ call'.at = "prop")
  <2> DEFINE row == [id |-> last'["value"], propid |-> -1, objectid |-> call.objectid,
                     data |-> last["large"]]
  <2>1. value' = value \cup {row} /\ row.data = last["large"]
    BY <1>3 DEF ValueInserted
  <2> HIDE DEF row
  <2>2. last'["large"] = last["large"]
    <3>1. Takes("value")
      BY <1>3 DEF ValueInserted
    <3>2. QED
      BY <3>1, OtherNumbers
  <2>3. /\ last["large"] \in Nat
        /\ \A w \in value : w.data # last["large"]
        /\ \A l \in large \cup kept : l.oid = last["large"] => l.data # Blank
    BY <1>1, Counters DEF TablesInv, NumbersGiven, LargeInv, LargeReady
  <2>4. ValuesDistinct' /\ ValuesWritten'
    BY <1>1, <2>1, <2>2, <2>3 DEF LargeInv, ValuesDistinct, ValuesWritten, pg
  <2>5. LargeReady'
    BY <1>3 DEF LargeReady
  <2>6. QED
    BY <1>1, <2>2, <2>4, <2>5 DEF LargeInv, OneEach, pg
<1>4. QED
  BY <1>2, <1>3 DEF AddValue, InsertValue

LEMMA PgsqlKeepsLarge ==
  ASSUME TablesInv, LargeInv, Next
  PROVE  LargeInv'
<1>1. ASSUME NEW n \in Name, AddObject(n) PROVE LargeInv'
  <2>1. Takes("object") /\ value' = value /\ call' = None /\ UNCHANGED pg
    BY <1>1 DEF AddObject, InsertObject
  <2>2. QED
    BY <2>1, OtherNumbers, KeepLargeFewer
<1>2. ASSUME NEW n \in Name, NEW p \in PropName,
             AddProp(n, p) \/ \E d \in Data : WriteProp(n, p, d)
      PROVE  LargeInv'
  <2>1. /\ call'.at \in {"create", "overwrite"} /\ value' = value /\ last' = last
        /\ large' = large /\ kept' = kept
    BY <1>2 DEF AddProp, WriteProp, Begin, tables
  <2>2. ValuesDistinct' /\ ValuesWritten' /\ LargeReady'
    BY <2>1 DEF LargeInv, ValuesDistinct, ValuesWritten, LargeReady
  <2>3. QED
    BY <2>1, <2>2 DEF LargeInv, OneEach
<1>3. CASE LargeObjectFails \/ Restart
  BY <1>3, LargeBack DEF LargeObjectFails, Restart
<1>4. CASE Read
  BY <1>4, KeepLargeFewer DEF Read, vars, tables
<1>5. QED
  BY <1>1, <1>2, <1>3, <1>4, LargeAddRow, LargeDelete, LargeCreate, LargeWrite,
     LargeCommit, LargeAddValue DEF Next

-----------------------------------------------------------------------------
(* The bindery *)

DbInv == TablesInv /\ (backend = "pgsql" => LargeInv)

LEMMA DbInvInit ==
  ASSUME DbInit
  PROVE  DbInv
<1>1. /\ object = {} /\ prop = {} /\ value = {} /\ call = None
      /\ last = [table \in Counter |-> 0] /\ large = {} /\ kept = {} /\ blind = {}
  BY DEF DbInit, Init, TablesInit
<1>2. TablesOK /\ NumbersGiven
  BY <1>1, SqlAssumption DEF TablesOK, NumbersGiven
<1>3. RowsFlat /\ RowsHaveOwners /\ ValuesUnshared /\ CallOK /\ CallReady
  BY <1>1 DEF RowsFlat, RowsHaveOwners, ValuesUnshared, CallOK, CallReady
<1>4. LargeInv
  BY <1>1 DEF LargeInv, OneEach, ValuesDistinct, ValuesWritten, LargeReady
<1>5. QED
  BY <1>2, <1>3, <1>4 DEF DbInv, TablesInv

LEMMA DbInvNext ==
  ASSUME DbInv, [DbNext]_dbvars
  PROVE  DbInv'
<1>1. CASE backend = "mysql" /\ Mysql!Next /\ UNCHANGED <<pg, backend>>
  BY <1>1, MysqlKeepsTables DEF DbInv
<1>2. CASE backend = "pgsql" /\ Next /\ UNCHANGED backend
  BY <1>2, PgsqlKeepsTables, PgsqlKeepsLarge DEF DbInv
<1>3. CASE UNCHANGED dbvars
  <2>1. TablesInv'
    BY <1>3 DEF DbInv, dbvars, vars, tables, TablesInv, TablesOK, CallOK, NumbersGiven,
                RowsFlat, RowsHaveOwners, ValuesUnshared, CallReady, Fresh, FreshIn, Alone,
                Numbered, PropsOf, ValuesOf
  <2>2. backend = "pgsql" => LargeInv'
    BY <1>3 DEF DbInv, dbvars, vars, pg, tables, LargeInv, OneEach, ValuesDistinct,
                ValuesWritten, LargeReady
  <2>3. backend' = backend
    BY <1>3 DEF dbvars
  <2>4. QED
    BY <2>1, <2>2, <2>3 DEF DbInv
<1>4. QED
  BY <1>1, <1>2, <1>3 DEF DbNext

LEMMA DbInvHolds == DbSpec => []DbInv
<1>1. DbInit => DbInv
  BY DbInvInit
<1>2. DbInv /\ [DbNext]_dbvars => DbInv'
  BY DbInvNext
<1>3. QED
  BY <1>1, <1>2, PTL DEF DbSpec

\* A number is that of one object, and so is a name, and an object has one
\* property of a name, but for the objects that have a row that was there when
\* bindio_add_object or bindio_add_prop looked, and was not found because the
\* SELECT failed: nothing else, in either database, makes two.
THEOREM DbRowsOnce == DbSpec => []RowsOnce
<1>1. DbInv => RowsOnce
  BY FlatIsOnce DEF DbInv, TablesInv
<1>2. QED
  BY <1>1, DbInvHolds, PTL

\* Every property and every value belongs to an object that exists: the three
\* statements of bindio_delete_obj are in the order that keeps this when one of
\* them fails, or the server is killed between two.
THEOREM DbRowsHaveOwners == DbSpec => []RowsHaveOwners
<1>1. DbInv => RowsHaveOwners
  BY DEF DbInv, TablesInv
<1>2. QED
  BY <1>1, DbInvHolds, PTL

\* No two properties share a value and no two values a large object, and a large
\* object that a value refers to was written: a transaction that is given up
\* takes its large object with it, and nothing refers to it.
THEOREM DbNothingShared == DbSpec => []NothingShared
<1>1. DbInv => NothingShared
  BY DEF DbInv, TablesInv, LargeInv, NothingShared, LargeObjectsUnshared, OneEach,
         ValuesDistinct, ValuesWritten
<1>2. QED
  BY <1>1, DbInvHolds, PTL

-----------------------------------------------------------------------------
(* What clients find *)

\* D is what clients find when V are the objects they see and F says which
\* property of which object has which value.
Describes(D, V, F, values) ==
  /\ D \in [Name -> [PropName -> values \cup {None}] \cup {None}]
  /\ \A n \in Name : (\A o \in V : o.name # n) => D[n] = None
  /\ \A o \in V :
       /\ o.name \in Name /\ D[o.name] \in [PropName -> values \cup {None}]
       /\ \A p \in PropName :
            /\ \A d : <<o.id, p, d>> \in F => D[o.name][p] = d
            /\ (\A d : <<o.id, p, d>> \notin F) => D[o.name][p] = None

\* F and G say the same of property p of object o.
Agree(F, G, o, p) == \A d : <<o.id, p, d>> \in F <=> <<o.id, p, d>> \in G

Named1(V) == \A o, q \in V : o.name = q.name => o = q

\* What a step changes: V and F are what is seen before it, W and G after.

Alike(V, F, G) == \A o \in V, p \in PropName : Agree(F, G, o, p)

Same(V, F, W, G) == W = V /\ Alike(V, F, G)

\* An object without properties appears, or an object goes.
Appears(V, F, W, G, o) ==
  /\ W = V \cup {o} /\ Alike(V, F, G)
  /\ \A q \in V : q.name # o.name
  /\ \A p \in PropName : \A d : <<o.id, p, d>> \notin G

Goes(V, F, W, G, o) ==
  /\ V = W \cup {o} /\ Alike(W, F, G)
  /\ \A q \in W : q.name # o.name

\* Property p of the object with number i has the value e, or none.
Holds(G, i, p, e) ==
  \/ <<i, p, e>> \in G
  \/ e = None /\ \A d : <<i, p, d>> \notin G

\* No value of an object is None.
NoneApart(values) == None \notin [PropName -> values \cup {None}]

\* Objects of other names than n are seen and found as they were.
Blurs(V, F, W, G, n) ==
  /\ \A o \in V \cup W : o.name # n => o \in V /\ o \in W
  /\ \A o \in V, p \in PropName : o.name # n => Agree(F, G, o, p)

Moves(V, F, W, G, names) ==
  \/ Same(V, F, W, G)
  \/ \E o : Appears(V, F, W, G, o) \/ Goes(V, F, W, G, o)
  \/ \E n \in names : Blurs(V, F, W, G, n)

\* Nothing but property p of object o differs.
Except(V, F, W, G, o, p) ==
  W = V /\ \A q \in V, x \in PropName : q # o \/ x # p => Agree(F, G, q, x)

Clears(V, F, W, G, names) ==
  \/ Same(V, F, W, G)
  \/ \E o \in V, p \in PropName :
       Except(V, F, W, G, o, p) /\ \A d : <<o.id, p, d>> \notin G
  \/ \E n \in names : Blurs(V, F, W, G, n)

LEMMA FoundSame ==
  ASSUME NEW D, NEW E, NEW V, NEW F, NEW G, NEW values,
         Describes(D, V, F, values), Describes(E, V, G, values),
         NEW o \in V, NEW p \in PropName, Agree(F, G, o, p)
  PROVE  D[o.name][p] = E[o.name][p]
<1>1. CASE \E d : <<o.id, p, d>> \in F
  BY <1>1 DEF Describes, Agree
<1>2. CASE \A d : <<o.id, p, d>> \notin F
  BY <1>2 DEF Describes, Agree
<1>3. QED
  BY <1>1, <1>2

\* The same, where the objects that are seen differ.
LEMMA EntrySame ==
  ASSUME NEW D, NEW E, NEW V, NEW W, NEW F, NEW G, NEW values,
         Describes(D, V, F, values), Describes(E, W, G, values),
         NEW o \in V, o \in W, \A p \in PropName : Agree(F, G, o, p)
  PROVE  D[o.name] = E[o.name]
<1>1. D[o.name] \in [PropName -> values \cup {None}] /\ E[o.name] \in [PropName -> values \cup {None}]
  BY DEF Describes
<1>2. ASSUME NEW p \in PropName PROVE D[o.name][p] = E[o.name][p]
  <2>1. CASE \E d : <<o.id, p, d>> \in F
    BY <2>1 DEF Describes, Agree
  <2>2. CASE \A d : <<o.id, p, d>> \notin F
    BY <2>2 DEF Describes, Agree
  <2>3. QED
    BY <2>1, <2>2
<1>3. QED
  BY <1>1, <1>2

LEMMA DirSame ==
  ASSUME NEW D, NEW E, NEW V, NEW F, NEW G, NEW values,
         Describes(D, V, F, values), Describes(E, V, G, values),
         \A o \in V, p \in PropName : Agree(F, G, o, p)
  PROVE  E = D
<1>1. ASSUME NEW n \in Name PROVE D[n] = E[n]
  <2>1. CASE \E o \in V : o.name = n
    BY <2>1, EntrySame
  <2>2. CASE \A o \in V : o.name # n
    BY <2>2 DEF Describes
  <2>3. QED
    BY <2>1, <2>2
<1>2. QED
  BY <1>1 DEF Describes

\* An object without properties is seen that was not seen before.
LEMMA DirAdd ==
  ASSUME NEW D, NEW E, NEW V, NEW W, NEW F, NEW G, NEW values, NEW o,
         Describes(D, V, F, values), Describes(E, W, G, values), Appears(V, F, W, G, o)
  PROVE  /\ o.name \in Name /\ D[o.name] = None
         /\ E = [D EXCEPT ![o.name] = [p \in PropName |-> None]]
<1>0. /\ W = V \cup {o} /\ \A q \in V, p \in PropName : Agree(F, G, q, p)
      /\ \A q \in V : q.name # o.name
      /\ \A p \in PropName : \A d : <<o.id, p, d>> \notin G
  BY DEF Appears, Alike
<1>1. o.name \in Name /\ D[o.name] = None
  BY <1>0 DEF Describes
<1>2. E[o.name] = [p \in PropName |-> None]
  <2>1. E[o.name] \in [PropName -> values \cup {None}] /\ \A p \in PropName : E[o.name][p] = None
    BY <1>0 DEF Describes
  <2>2. QED
    BY <2>1
<1>3. ASSUME NEW n \in Name, n # o.name PROVE E[n] = D[n]
  <2>1. CASE \E q \in V : q.name = n
    <3>1. PICK q \in V : q.name = n
      BY <2>1
    <3>2. QED
      BY <1>0, <3>1, EntrySame
  <2>2. CASE \A q \in V : q.name # n
    BY <1>0, <1>3, <2>2 DEF Describes
  <2>3. QED
    BY <2>1, <2>2
<1>4. QED
  BY <1>1, <1>2, <1>3 DEF Describes

\* An object is seen no more.
LEMMA DirDelete ==
  ASSUME NEW D, NEW E, NEW V, NEW W, NEW F, NEW G, NEW values, NEW o, NoneApart(values),
         Describes(D, V, F, values), Describes(E, W, G, values), Goes(V, F, W, G, o)
  PROVE  /\ o.name \in Name /\ D[o.name] # None
         /\ E = [D EXCEPT ![o.name] = None]
<1>0. /\ V = W \cup {o} /\ \A q \in W, p \in PropName : Agree(F, G, q, p)
      /\ \A q \in W : q.name # o.name
  BY DEF Goes, Alike
<1>1. o.name \in Name /\ D[o.name] # None /\ E[o.name] = None
  BY <1>0 DEF Describes, NoneApart
<1>2. ASSUME NEW n \in Name, n # o.name PROVE E[n] = D[n]
  <2>1. CASE \E q \in W : q.name = n
    <3>1. PICK q \in W : q.name = n
      BY <2>1
    <3>2. QED
      BY <1>0, <3>1, EntrySame
  <2>2. CASE \A q \in W : q.name # n
    BY <1>0, <1>2, <2>2 DEF Describes
  <2>3. QED
    BY <2>1, <2>2
<1>3. QED
  BY <1>1, <1>2 DEF Describes

\* A property gets a value, or loses it.
LEMMA DirSet ==
  ASSUME NEW D, NEW E, NEW V, NEW W, NEW F, NEW G, NEW values, NEW o \in V,
         NEW p \in PropName, NEW e, NoneApart(values), Named1(V),
         Describes(D, V, F, values), Describes(E, W, G, values),
         Except(V, F, W, G, o, p), Holds(G, o.id, p, e)
  PROVE  /\ o.name \in Name /\ D[o.name] # None
         /\ D[o.name] \in [PropName -> values \cup {None}]
         /\ E = [D EXCEPT ![o.name] = [D[o.name] EXCEPT ![p] = e]]
<1>0. W = V /\ \A q \in V, x \in PropName : q # o \/ x # p => Agree(F, G, q, x)
  BY DEF Except
<1>1. /\ o.name \in Name /\ D[o.name] # None
      /\ D[o.name] \in [PropName -> values \cup {None}]
      /\ E[o.name] \in [PropName -> values \cup {None}]
  BY <1>0 DEF Describes, NoneApart
<1>2. E[o.name] = [D[o.name] EXCEPT ![p] = e]
  <2>1. E[o.name][p] = e
    BY <1>0 DEF Describes, Holds
  <2>2. ASSUME NEW x \in PropName, x # p PROVE E[o.name][x] = D[o.name][x]
    BY <1>0, <2>2, FoundSame
  <2>3. QED
    BY <1>1, <2>1, <2>2
<1>3. ASSUME NEW n \in Name, n # o.name PROVE E[n] = D[n]
  <2>1. CASE \E q \in V : q.name = n
    <3>1. PICK q \in V : q.name = n
      BY <2>1
    <3>2. QED
      BY <1>0, <1>3, <3>1, EntrySame
  <2>2. CASE \A q \in V : q.name # n
    BY <1>0, <2>2 DEF Describes
  <2>3. QED
    BY <2>1, <2>2
<1>4. QED
  BY <1>1, <1>2, <1>3 DEF Describes

\* Nothing but one entry differs.
LEMMA DirBlur ==
  ASSUME NEW D, NEW E, NEW V, NEW W, NEW F, NEW G, NEW values, NEW n,
         Describes(D, V, F, values), Describes(E, W, G, values), Blurs(V, F, W, G, n)
  PROVE  \A m \in Name \ {n} : E[m] = D[m]
<1>0. /\ \A o \in V \cup W : o.name # n => o \in V /\ o \in W
      /\ \A o \in V, p \in PropName : o.name # n => Agree(F, G, o, p)
  BY DEF Blurs
<1>1. SUFFICES ASSUME NEW m \in Name, m # n PROVE E[m] = D[m]
  OBVIOUS
<1>2. CASE \E o \in V : o.name = m
  <2>1. PICK o \in V : o.name = m
    BY <1>2
  <2>2. QED
    BY <1>0, <1>1, <2>1, EntrySame
<1>3. CASE \A o \in V : o.name # m
  BY <1>0, <1>1, <1>3 DEF Describes
<1>4. QED
  BY <1>2, <1>3

-----------------------------------------------------------------------------
(* Rows *)

\* No two rows of a table have one number.
IdsOnce ==
  /\ \A r, s \in prop : r.id = s.id => r = s
  /\ \A r \in prop : r.id <= last["prop"]
  /\ \A v, w \in value : v.id = w.id => v = w

\* The objects that clients see.
Visible == {o \in object : ~(call \in Deleting /\ call.objectid = o.id)}

\* The objects and properties that are found: no other row has their name.
Seen == {o \in Visible : \A q \in Visible : q.name = o.name => q = o}
Sole == {r \in prop : \A s \in prop : s.objectid = r.objectid /\ s.name = r.name => s = r}

LEMMA FoundStay ==
  /\ Visible' = Visible => Seen' = Seen
  /\ prop' = prop => Sole' = Sole
BY DEF Seen, Sole

\* What the rows say: property f[2] of object f[1] has f[3] in its column data.
Base(P, W) ==
  {f \in Id \X PropName \X Content :
     \E r \in P, v \in W :
       r.objectid = f[1] /\ r.name = f[2] /\ v.id = r.valueid /\ v.data = f[3]}

\* The same, where the column has the number of a large object.
Large(B, K) ==
  {f \in Id \X PropName \X Data :
     \E l \in K : <<f[1], f[2], l.oid>> \in B /\ l.data = f[3]}

LEMMA BaseIs ==
  ASSUME NEW P \in SUBSET PropRow, NEW W \in SUBSET ValueRow, NEW i, NEW p, NEW d
  PROVE  <<i, p, d>> \in Base(P, W) <=>
           \E r \in P, v \in W : r.objectid = i /\ r.name = p /\ v.id = r.valueid /\ v.data = d
BY DEF Base, PropRow, ValueRow

LEMMA LargeIs ==
  \A B, K, i, p, d :
    (\A f \in B : f \in Id \X PropName \X Content) =>
      (<<i, p, d>> \in Large(B, K) <=>
         d \in Data /\ \E l \in K : <<i, p, l.oid>> \in B /\ l.data = d)
<1>1. SUFFICES ASSUME NEW B, NEW K, NEW i, NEW p, NEW d,
                      \A f \in B : f \in Id \X PropName \X Content
               PROVE  <<i, p, d>> \in Large(B, K) <=>
                        d \in Data /\ \E l \in K : <<i, p, l.oid>> \in B /\ l.data = d
  OBVIOUS
<1>2. ASSUME NEW l \in K, <<i, p, l.oid>> \in B PROVE i \in Id /\ p \in PropName
  <2>1. <<i, p, l.oid>> \in Id \X PropName \X Content
    BY <1>1, <1>2
  <2>2. QED
    BY <2>1
<1>3. <<i, p, d>> \in Large(B, K) =>
        d \in Data /\ \E l \in K : <<i, p, l.oid>> \in B /\ l.data = d
  BY DEF Large
<1>4. ASSUME d \in Data, NEW l \in K, <<i, p, l.oid>> \in B, l.data = d
      PROVE  <<i, p, d>> \in Large(B, K)
  <2>1. <<i, p, d>> \in Id \X PropName \X Data
    BY <1>2, <1>4
  <2>2. QED
    BY <1>4, <2>1 DEF Large
<1>5. QED
  BY <1>3, <1>4

LEMMA BaseRows ==
  ASSUME NEW P, NEW W
  PROVE  Base(P, W) \in SUBSET (Id \X PropName \X Content)
BY DEF Base

\* A property that is found has one row, and that has at most one value.
LEMMA BaseOnce ==
  ASSUME TablesInv, IdsOnce, NEW i, NEW p, NEW d, NEW e,
         <<i, p, d>> \in Base(Sole, value), <<i, p, e>> \in Base(Sole, value)
  PROVE  d = e
<1>1. Sole \in SUBSET PropRow /\ value \in SUBSET ValueRow
  BY DEF TablesInv, TablesOK, Sole
<1>2. PICK r \in Sole, v \in value : r.objectid = i /\ r.name = p /\ v.id = r.valueid /\ v.data = d
  BY <1>1, BaseIs
<1>3. PICK s \in Sole, w \in value : s.objectid = i /\ s.name = p /\ w.id = s.valueid /\ w.data = e
  BY <1>1, BaseIs
<1>4. r = s
  BY <1>2, <1>3 DEF Sole
<1>5. QED
  BY <1>2, <1>3, <1>4 DEF IdsOnce

\* The property that is found, and its value.
LEMMA ReadableIs ==
  ASSUME TablesInv, IdsOnce, NEW i, NEW p
  PROVE  /\ Readable(i, p) => <<i, p, ValueRowOf(i, p).data>> \in Base(Sole, value)
         /\ Readable(i, p) <=> \E d : <<i, p, d>> \in Base(Sole, value)
<1>1. Sole \in SUBSET PropRow /\ value \in SUBSET ValueRow
  BY DEF TablesInv, TablesOK, Sole
<1>2. ASSUME Readable(i, p)
      PROVE  <<i, p, ValueRowOf(i, p).data>> \in Base(Sole, value)
  <2>1. PropsOf(i, p) = {The(PropsOf(i, p))}
    BY <1>2, OneRow DEF Readable
  <2>2. ValuesOf(The(PropsOf(i, p))) = {ValueRowOf(i, p)}
    BY <1>2, OneRow DEF Readable, ValueRowOf
  <2>3. /\ The(PropsOf(i, p)) \in Sole /\ ValueRowOf(i, p) \in value
        /\ The(PropsOf(i, p)).objectid = i /\ The(PropsOf(i, p)).name = p
        /\ ValueRowOf(i, p).id = The(PropsOf(i, p)).valueid
    BY <2>1, <2>2 DEF PropsOf, ValuesOf, Sole
  <2>4. QED
    BY <1>1, <2>3, BaseIs
<1>3. ASSUME NEW d, <<i, p, d>> \in Base(Sole, value)
      PROVE  Readable(i, p)
  <2>1. PICK r \in Sole, v \in value : r.objectid = i /\ r.name = p /\ v.id = r.valueid /\ v.data = d
    BY <1>1, <1>3, BaseIs
  <2>2. PropsOf(i, p) = {r}
    BY <2>1 DEF PropsOf, Sole
  <2>3. ValuesOf(r) = {v}
    BY <2>1 DEF ValuesOf, IdsOnce
  <2>4. The(PropsOf(i, p)) = r
    BY <2>2 DEF The
  <2>5. QED
    BY <2>2, <2>3, <2>4 DEF Readable, One
<1>4. QED
  BY <1>2, <1>3

\* A name is that of no object that is found, or of one.
LEMMA SeenOnce ==
  ASSUME TablesInv
  PROVE  /\ Named1(Seen) /\ \A o, q \in object : o.id = q.id => o = q
         /\ \A o \in Seen : o \in object /\ o.id \in Id /\ o.name \in Name
BY DEF TablesInv, TablesOK, RowsFlat, Named1, Seen, Visible, ObjectRow

\* What a scan by name finds.
LEMMA PresentIs ==
  ASSUME NEW S, NEW n, S = {o \in Visible : o.name = n}
  PROVE  /\ (\A o \in Seen : o.name # n) => \A o : S # {o}
         /\ \A o \in Seen : o.name = n => S = {o}
BY DEF Seen

LEMMA CallHides ==
  ASSUME TablesInv
  PROVE  \A o : (call = None \/ call.objectid # o.id \/ call.at \notin {"values", "object"}) <=>
                ~(call \in Deleting /\ call.objectid = o.id)
<1>1. call \in Deleting => call # None /\ call.at \in {"values", "object"}
  BY DatabasesAssumption DEF Deleting
<1>2. call # None /\ call.at \in {"values", "object"} => call \in Deleting
  BY DEF TablesInv, CallOK, Adding, Creating, Overwriting
<1>3. QED
  BY <1>1, <1>2

LEMMA MysqlPresent ==
  ASSUME TablesInv, NEW n
  PROVE  Mysql!Present(n) = {o \in Visible : o.name = n}
<1>1. Mysql!Present(n) = {o \in {o \in object : o.name = n} :
                            call = None \/ call.objectid # o.id \/ call.at \notin {"values", "object"}}
  BY DEF Mysql!Present, Mysql!Named
<1>2. QED
  BY <1>1, CallHides DEF Visible

LEMMA PgsqlPresent ==
  ASSUME NEW n
  PROVE  Present(n) = {o \in Visible : o.name = n}
BY DEF Present, Named, Visible

LEMMA MysqlLookup ==
  ASSUME NEW i, NEW p
  PROVE  Mysql!Lookup(i, p) = IF Readable(i, p) THEN ValueRowOf(i, p).data ELSE None
BY DEF Mysql!Lookup, Mysql!Readable, Mysql!ValueRowOf, Mysql!PropsOf, Mysql!ValuesOf, Mysql!One,
       Mysql!The, Readable, ValueRowOf, PropsOf, ValuesOf, One, The

LEMMA Described ==
  ASSUME NEW D, NEW F, NEW values,
         D = [n \in Name |-> D[n]],
         \A n \in Name : (\A o \in Seen : o.name # n) => D[n] = None,
         \A o \in Seen :
           o.name \in Name /\ D[o.name] = [p \in PropName |-> D[o.name][p]],
         \A o \in Seen, p \in PropName :
           /\ D[o.name][p] \in values \cup {None}
           /\ \A d : <<o.id, p, d>> \in F => D[o.name][p] = d
           /\ (\A d : <<o.id, p, d>> \notin F) => D[o.name][p] = None
  PROVE  Describes(D, Seen, F, values)
<1>1. ASSUME NEW o \in Seen PROVE D[o.name] \in [PropName -> values \cup {None}]
  <2>1. D[o.name] = [p \in PropName |-> D[o.name][p]]
    OBVIOUS
  <2>2. QED
    BY <2>1
<1>2. ASSUME NEW n \in Name
      PROVE  D[n] \in [PropName -> values \cup {None}] \cup {None}
  <2>1. CASE \E o \in Seen : o.name = n
    BY <1>1, <2>1
  <2>2. CASE \A o \in Seen : o.name # n
    BY <2>2
  <2>3. QED
    BY <2>1, <2>2
<1>3. D \in [Name -> [PropName -> values \cup {None}] \cup {None}]
  BY <1>2
<1>4. QED
  BY <1>1, <1>3 DEF Describes

LEMMA MysqlDescribes ==
  ASSUME TablesInv, IdsOnce
  PROVE  Describes(Mysql!Directory, Seen, Base(Sole, value), Content)
<1> DEFINE D == Mysql!Directory
<1>1. ASSUME NEW i, NEW p
      PROVE  /\ Mysql!Lookup(i, p) \in Content \cup {None}
             /\ \A d : <<i, p, d>> \in Base(Sole, value) => Mysql!Lookup(i, p) = d
             /\ (\A d : <<i, p, d>> \notin Base(Sole, value)) => Mysql!Lookup(i, p) = None
  <2>1. CASE Readable(i, p)
    <3>1. /\ <<i, p, ValueRowOf(i, p).data>> \in Base(Sole, value)
          /\ Mysql!Lookup(i, p) = ValueRowOf(i, p).data
      BY <2>1, ReadableIs, MysqlLookup
    <3>2. ValueRowOf(i, p).data \in Content
      BY <3>1, BaseRows
    <3>3. QED
      BY <3>1, <3>2, BaseOnce
  <2>2. CASE ~Readable(i, p)
    BY <2>2, ReadableIs, MysqlLookup
  <2>3. QED
    BY <2>1, <2>2
<1>2. ASSUME NEW n \in Name, \A o \in Seen : o.name # n PROVE D[n] = None
  <2>1. \A o : Mysql!Present(n) # {o}
    BY <1>2, MysqlPresent, PresentIs
  <2>2. ~Mysql!One(Mysql!Present(n))
    BY <2>1 DEF Mysql!One
  <2>3. QED
    BY <2>2 DEF Mysql!Directory
<1>3. ASSUME NEW o \in Seen
      PROVE  o.name \in Name /\ D[o.name] = [p \in PropName |-> Mysql!Lookup(o.id, p)]
  <2>1. Mysql!Present(o.name) = {o} /\ o.name \in Name
    BY MysqlPresent, PresentIs, SeenOnce
  <2>2. Mysql!One(Mysql!Present(o.name)) /\ Mysql!The(Mysql!Present(o.name)) = o
    BY <2>1 DEF Mysql!One, Mysql!The
  <2>3. QED
    BY <2>1, <2>2 DEF Mysql!Directory
<1>4. D = [n \in Name |-> D[n]]
  BY DEF Mysql!Directory
<1> HIDE DEF D
<1>5. ASSUME NEW o \in Seen
      PROVE  /\ \A p \in PropName : D[o.name][p] = Mysql!Lookup(o.id, p)
             /\ D[o.name] = [p \in PropName |-> D[o.name][p]]
  <2>1. D[o.name] = [p \in PropName |-> Mysql!Lookup(o.id, p)]
    BY <1>3
  <2>2. QED
    BY <2>1
<1>6. \A o \in Seen, p \in PropName :
        /\ D[o.name][p] \in Content \cup {None}
        /\ \A d : <<o.id, p, d>> \in Base(Sole, value) => D[o.name][p] = d
        /\ (\A d : <<o.id, p, d>> \notin Base(Sole, value)) => D[o.name][p] = None
  <2>1. ASSUME NEW o \in Seen, NEW p \in PropName
        PROVE  /\ D[o.name][p] \in Content \cup {None}
               /\ \A d : <<o.id, p, d>> \in Base(Sole, value) => D[o.name][p] = d
               /\ (\A d : <<o.id, p, d>> \notin Base(Sole, value)) => D[o.name][p] = None
    <3>1. D[o.name][p] = Mysql!Lookup(o.id, p)
      BY <1>5
    <3>2. QED
      BY <1>1, <3>1, Zenon
  <2>2. QED
    BY <2>1
<1>7. \A o \in Seen : o.name \in Name /\ D[o.name] = [p \in PropName |-> D[o.name][p]]
  BY <1>3, <1>5
<1>8. \A n \in Name : (\A o \in Seen : o.name # n) => D[n] = None
  BY <1>2
<1> DEFINE F == Base(Sole, value)
<1>9. \A o \in Seen, p \in PropName :
        /\ D[o.name][p] \in Content \cup {None}
        /\ \A d : <<o.id, p, d>> \in F => D[o.name][p] = d
        /\ (\A d : <<o.id, p, d>> \notin F) => D[o.name][p] = None
  BY <1>6
<1> HIDE DEF F
<1>10. Describes(D, Seen, F, Content)
  BY ONLY <1>4, <1>7, <1>8, <1>9, Described
<1>11. QED
  BY <1>10 DEF D, F

LEMMA PgsqlDescribes ==
  ASSUME TablesInv, IdsOnce, LargeInv
  PROVE  Describes(Directory, Seen, Large(Base(Sole, value), kept), Data)
<1> DEFINE D == Directory
<1>1. ASSUME NEW i, NEW p
      PROVE  /\ Lookup(i, p) \in Data \cup {None}
             /\ \A d : <<i, p, d>> \in Large(Base(Sole, value), kept) => Lookup(i, p) = d
             /\ (\A d : <<i, p, d>> \notin Large(Base(Sole, value), kept)) => Lookup(i, p) = None
  <2>1. \A d : <<i, p, d>> \in Large(Base(Sole, value), kept) <=>
          d \in Data /\ \E l \in kept : <<i, p, l.oid>> \in Base(Sole, value) /\ l.data = d
    <3>1. \A f \in Base(Sole, value) : f \in Id \X PropName \X Content
      BY BaseRows
    <3>2. ASSUME NEW d
          PROVE  <<i, p, d>> \in Large(Base(Sole, value), kept) <=>
                   d \in Data /\ \E l \in kept : <<i, p, l.oid>> \in Base(Sole, value) /\ l.data = d
      BY <3>1, LargeIs
    <3>3. QED
      BY <3>2
  <2>2. CASE Readable(i, p)
    <3> DEFINE c == ValueRowOf(i, p).data
    <3>1. <<i, p, c>> \in Base(Sole, value)
      BY <2>2, ReadableIs
    <3> HIDE DEF c
    <3>2. \A d : <<i, p, d>> \in Large(Base(Sole, value), kept) <=>
            d \in Data /\ \E l \in kept : l.oid = c /\ l.data = d
      BY <2>1, <3>1, BaseOnce
    <3>3. Lookup(i, p) = IF One(Contents(c)) THEN The(Contents(c)).data ELSE None
      BY <2>2 DEF Lookup, Loadable, c
    <3>4. CASE Contents(c) = {}
      <4>1. \A l \in kept : l.oid = c => l.data = Blank
        BY <3>4 DEF Contents
      <4>2. \A d : <<i, p, d>> \notin Large(Base(Sole, value), kept)
        BY <3>2, <4>1, PgsqlAssumption
      <4>3. ~One(Contents(c))
        BY <3>4 DEF One
      <4>4. QED
        BY <3>3, <4>2, <4>3
    <3>5. CASE Contents(c) # {}
      <4>1. PICK l \in kept : l.oid = c /\ l.data # Blank
        BY <3>5 DEF Contents
      <4>2. Contents(c) = {l} /\ l.data \in Data
        BY <4>1 DEF Contents, LargeInv, OneEach, LargeObject
      <4>3. One(Contents(c)) /\ The(Contents(c)) = l
        BY <4>2 DEF One, The
      <4>4. \A d : <<i, p, d>> \in Large(Base(Sole, value), kept) <=> d = l.data
        BY <3>2, <4>1, <4>2 DEF LargeInv, OneEach
      <4>5. QED
        BY <3>3, <4>2, <4>3, <4>4
    <3>6. QED
      BY <3>4, <3>5
  <2>3. CASE ~Readable(i, p)
    <3>1. \A d : <<i, p, d>> \notin Base(Sole, value)
      BY <2>3, ReadableIs
    <3>2. QED
      BY <2>1, <2>3, <3>1 DEF Lookup, Loadable
  <2>4. QED
    BY <2>2, <2>3
<1>2. ASSUME NEW n \in Name, \A o \in Seen : o.name # n PROVE D[n] = None
  <2>1. \A o : Present(n) # {o}
    BY <1>2, PgsqlPresent, PresentIs
  <2>2. ~One(Present(n))
    BY <2>1 DEF One
  <2>3. QED
    BY <2>2 DEF Directory
<1>3. ASSUME NEW o \in Seen
      PROVE  o.name \in Name /\ D[o.name] = [p \in PropName |-> Lookup(o.id, p)]
  <2>1. Present(o.name) = {o} /\ o.name \in Name
    BY PgsqlPresent, PresentIs, SeenOnce
  <2>2. One(Present(o.name)) /\ The(Present(o.name)) = o
    BY <2>1 DEF One, The
  <2>3. QED
    BY <2>1, <2>2 DEF Directory
<1>4. D = [n \in Name |-> D[n]]
  BY DEF Directory
<1> HIDE DEF D
<1>5. ASSUME NEW o \in Seen
      PROVE  /\ \A p \in PropName : D[o.name][p] = Lookup(o.id, p)
             /\ D[o.name] = [p \in PropName |-> D[o.name][p]]
  <2>1. D[o.name] = [p \in PropName |-> Lookup(o.id, p)]
    BY <1>3
  <2>2. QED
    BY <2>1
<1>6. \A o \in Seen, p \in PropName :
        /\ D[o.name][p] \in Data \cup {None}
        /\ \A d : <<o.id, p, d>> \in Large(Base(Sole, value), kept) => D[o.name][p] = d
        /\ (\A d : <<o.id, p, d>> \notin Large(Base(Sole, value), kept)) => D[o.name][p] = None
  <2>1. ASSUME NEW o \in Seen, NEW p \in PropName
        PROVE  /\ D[o.name][p] \in Data \cup {None}
               /\ \A d : <<o.id, p, d>> \in Large(Base(Sole, value), kept) => D[o.name][p] = d
               /\ (\A d : <<o.id, p, d>> \notin Large(Base(Sole, value), kept)) => D[o.name][p] = None
    <3>1. D[o.name][p] = Lookup(o.id, p)
      BY <1>5
    <3>2. QED
      BY <1>1, <3>1, Zenon
  <2>2. QED
    BY <2>1
<1>7. \A o \in Seen : o.name \in Name /\ D[o.name] = [p \in PropName |-> D[o.name][p]]
  BY <1>3, <1>5
<1>8. \A n \in Name : (\A o \in Seen : o.name # n) => D[n] = None
  BY <1>2
<1> DEFINE F == Large(Base(Sole, value), kept)
<1>9. \A o \in Seen, p \in PropName :
        /\ D[o.name][p] \in Data \cup {None}
        /\ \A d : <<o.id, p, d>> \in F => D[o.name][p] = d
        /\ (\A d : <<o.id, p, d>> \notin F) => D[o.name][p] = None
  BY <1>6
<1> HIDE DEF F
<1>10. Describes(D, Seen, F, Data)
  BY ONLY <1>4, <1>7, <1>8, <1>9, Described
<1>11. QED
  BY <1>10 DEF D, F

-----------------------------------------------------------------------------
(* What the values are *)

AtIn(S) == call # None /\ call.at \in S

\* The value of a property that is being added is Zero.
MysqlReady == AtIn({"prop"}) => \A v \in value : v.id = call.valueid => v.data = Zero

\* The same, if its large object was committed; and the value that is being
\* written is that of the property.
PgsqlReady ==
  /\ AtIn({"prop"}) =>
       \A v \in value, l \in kept : v.id = call.valueid /\ l.oid = v.data => l.data = Zero
  /\ AtIn({"insert"}) => \A l \in kept : l.oid = last["large"] => l.data = Zero
  /\ AtIn({"commit"}) => \A l \in large : l.oid = last["large"] => l.data = Zero
  /\ AtIn({"overwrite", "finish"}) =>
       /\ <<call.objectid, call.name, call.oid>> \in Base(Sole, value)
       /\ \E l \in kept : l.oid = call.oid

\* Two sets of large objects, alike but for one number.
SameBut(K, L, oid) == \A l : l.oid # oid => (l \in K <=> l \in L)

\* The large objects of the session are the committed ones, but for the one the
\* call has created or written.
Sync ==
  /\ ~AtIn({"write", "commit", "finish"}) => large = kept
  /\ AtIn({"write"}) /\ tx # "open" => large = kept
  /\ AtIn({"write", "commit"}) => SameBut(large, kept, last["large"])
  /\ AtIn({"finish"}) =>
       /\ SameBut(large, kept, call.oid)
       /\ \A l \in large : l.oid = call.oid => l.data = call.data
       /\ \E l \in large : l.oid = call.oid

\* After a statement both files have no large object is in use.
LEMMA AfterStatement ==
  ASSUME TablesInv, Statement \/ Failure \/ (PropInserted /\ call' = None)
  PROVE  ~AtIn(AddingAt \cup {"overwrite", "finish"})'
<1>1. CASE InsertProp \/ InsertPropFails \/ UpdateValueFails \/ TakeBackValue
  <2>1. /\ call # None /\ call.at \in {"prop", "update", "takeback", "takeback both"}
        /\ \/ call' = None
           \/ \E at \in {"takeback", "takeback both", "takeback prop"} : call' = [call EXCEPT !.at = at]
           \/ call' = [call EXCEPT !.at = "update", !.propid = last'["prop"]]
    BY <1>1 DEF InsertProp, PropInserted, InsertPropFails, UpdateValueFails, TakeBackValue
  <2>2. call \in Adding
    BY <2>1 DEF TablesInv, CallOK, Deleting, Creating, Overwriting
  <2>3. call' = None \/ call'.at \in {"update", "takeback", "takeback both", "takeback prop"}
    BY <2>1, <2>2 DEF Adding
  <2>4. QED
    BY <2>3 DEF AtIn, AddingAt
<1>2. CASE DeleteValues
  <2>1. call # None /\ call.at = "values" /\ call' = [call EXCEPT !.at = "object"]
    BY <1>2 DEF DeleteValues
  <2>2. call \in Deleting
    BY <2>1 DEF TablesInv, CallOK, Adding, Creating, Overwriting
  <2>3. call'.at = "object"
    BY <2>1, <2>2 DEF Deleting
  <2>4. QED
    BY <2>3 DEF AtIn, AddingAt
<1>3. ASSUME NEW n \in Name, DeleteProps(n) PROVE call'.at = "values"
  BY <1>3 DEF DeleteProps
<1>4. ASSUME NEW n \in Name, InsertObject(n) PROVE call' = None
  BY <1>4 DEF InsertObject
<1>5. CASE UpdateValue \/ TakeBackProp \/ DeleteRow \/ DeleteFails \/ (PropInserted /\ call' = None)
  BY <1>5 DEF UpdateValue, TakeBackProp, DeleteRow, DeleteFails, AtIn
<1>6. QED
  BY <1>1, <1>2, <1>3, <1>4, <1>5 DEF Statement, Failure, AtIn, AddingAt

LEMMA IdsFewer ==
  ASSUME IdsOnce, prop' \subseteq prop, value' \subseteq value, last'["prop"] = last["prop"]
  PROVE  IdsOnce'
BY DEF IdsOnce

LEMMA IdsPropInserted ==
  ASSUME TablesInv, IdsOnce, PropInserted
  PROVE  IdsOnce'
<1> DEFINE row == [id |-> last'["prop"], name |-> call.name,
                   objectid |-> call.objectid, valueid |-> call.valueid]
<1>1. value' = value /\ prop' = prop \cup {row} /\ row.id = last'["prop"]
  BY DEF PropInserted
<1> HIDE DEF row
<1>2. last'["prop"] = last["prop"] + 1 /\ last["prop"] \in Nat
  BY NextNumber, Counters DEF TablesInv, NumbersGiven, PropInserted
<1>3. \A r \in prop : r.id \in Nat
  BY DEF TablesInv, TablesOK, PropRow, Id
<1>4. \A r \in prop : r.id # last'["prop"] /\ r.id <= last'["prop"]
  BY <1>2, <1>3 DEF IdsOnce
<1>5. QED
  BY <1>1, <1>2, <1>4 DEF IdsOnce

LEMMA IdsValueInserted ==
  ASSUME TablesInv, IdsOnce, NEW id, NEW content, ValueInserted(id, content)
  PROVE  IdsOnce'
<1> DEFINE row == [id |-> last'["value"], propid |-> -1, objectid |-> id, data |-> content]
<1>1. value' = value \cup {row} /\ prop' = prop /\ row.id = last'["value"]
  BY DEF ValueInserted
<1> HIDE DEF row
<1>2. /\ last'["value"] = last["value"] + 1 /\ last["value"] \in Nat
      /\ last'["prop"] = last["prop"]
  BY NextNumber, Counters DEF TablesInv, NumbersGiven, ValueInserted
<1>3. \A v \in value : v.id \in Nat /\ v.id <= last["value"]
  BY DEF TablesInv, TablesOK, NumbersGiven, ValueRow, Id
<1>4. \A v \in value : v.id # last'["value"]
  BY <1>2, <1>3
<1>5. QED
  BY <1>1, <1>2, <1>4 DEF IdsOnce

LEMMA IdsStatement ==
  ASSUME TablesInv, IdsOnce, Statement \/ Failure
  PROVE  IdsOnce'
<1>1. ASSUME NEW n \in Name, InsertObject(n) PROVE IdsOnce'
  <2>1. last'["prop"] = last["prop"] /\ prop' = prop /\ value' = value
    BY <1>1, NextNumber, Counters DEF TablesInv, InsertObject
  <2>2. QED
    BY <2>1, IdsFewer
<1>2. CASE UpdateValue
  <2> DEFINE New(v) == IF v.id = call.valueid THEN [v EXCEPT !.propid = call.propid] ELSE v
  <2>1. value' = {New(v) : v \in value} /\ prop' = prop /\ last' = last
    BY <1>2 DEF UpdateValue
  <2>2. ASSUME NEW v \in value PROVE New(v).id = v.id
    BY DEF TablesInv, TablesOK, ValueRow
  <2> HIDE DEF New
  <2>3. QED
    BY <2>1, <2>2 DEF IdsOnce
<1>3. CASE InsertProp
  BY <1>3, IdsPropInserted DEF InsertProp
<1>4. ASSUME \/ TakeBackValue \/ TakeBackProp \/ DeleteValues \/ DeleteRow
             \/ Failure \/ \E n \in Name : DeleteProps(n)
      PROVE  IdsOnce'
  <2>1. prop' \subseteq prop /\ value' \subseteq value /\ last' = last
    BY <1>4 DEF TakeBackValue, TakeBackProp, DeleteValues, DeleteRow, DeleteProps, Failure,
                InsertPropFails, UpdateValueFails, DeleteFails, tables
  <2>2. QED
    BY <2>1, IdsFewer
<1>5. QED
  BY <1>1, <1>2, <1>3, <1>4 DEF Statement

LEMMA MysqlKeepsIds ==
  ASSUME TablesInv, IdsOnce, Mysql!Next
  PROVE  IdsOnce'
<1>1. CASE Mysql!Statement \/ Mysql!Failure
  BY <1>1, SameStatements, IdsStatement
<1>2. CASE Mysql!Kill \/ Mysql!Read
  BY <1>2, IdsFewer DEF Mysql!Kill, Mysql!Read, Mysql!tables, Mysql!vars
<1>3. ASSUME NEW n \in Name, NEW p \in PropName, Mysql!AddProp(n, p) PROVE IdsOnce'
  <2>1. ValueInserted(Mysql!The(Mysql!Named(n)).id, Zero)
    BY <1>3 DEF Mysql!AddProp, Mysql!InsertValue, Mysql!ValueInserted, Mysql!Takes,
                ValueInserted, Takes
  <2>2. QED
    BY <2>1, IdsValueInserted
<1>4. ASSUME NEW n \in Name, NEW p \in PropName, NEW d \in Content, Mysql!WriteProp(n, p, d)
      PROVE  IdsOnce'
  <2> DEFINE New(v, id) == IF v.id = id THEN [v EXCEPT !.data = d] ELSE v
  <2>1. PICK id : value' = {New(v, id) : v \in value}
    BY <1>4 DEF Mysql!WriteProp
  <2>2. ASSUME NEW v \in value PROVE New(v, id).id = v.id
    BY DEF TablesInv, TablesOK, ValueRow
  <2> HIDE DEF New
  <2>3. prop' = prop /\ last' = last
    BY <1>4 DEF Mysql!WriteProp
  <2>4. QED
    BY <2>1, <2>2, <2>3 DEF IdsOnce
<1>5. QED
  BY <1>1, <1>2, <1>3, <1>4 DEF Mysql!Next

LEMMA PgsqlKeepsIds ==
  ASSUME TablesInv, IdsOnce, Next
  PROVE  IdsOnce'
<1>1. ASSUME \/ \E n \in Name : AddObject(n)
             \/ DeleteObj
      PROVE  IdsOnce'
  BY <1>1, IdsStatement DEF AddObject, DeleteObj, Statement, Failure
<1>2. CASE AddRow
  BY <1>2, IdsStatement, IdsPropInserted DEF AddRow, Statement, Failure
<1>3. CASE AddValue
  <2>1. CASE UNCHANGED tables
    BY <2>1, IdsFewer DEF tables
  <2>2. CASE \E id, content : ValueInserted(id, content)
    BY <2>2, IdsValueInserted
  <2>3. QED
    BY <1>3, <2>1, <2>2 DEF AddValue, InsertValue
<1>4. CASE CreateLarge
  <2>1. last'["prop"] = last["prop"] /\ prop' = prop /\ value' = value
    BY <1>4, NextNumber, Counters DEF TablesInv, CreateLarge
  <2>2. QED
    BY <2>1, IdsFewer
<1>5. ASSUME UNCHANGED <<prop, value, last>> PROVE IdsOnce'
  BY <1>5, IdsFewer
<1>6. QED
  BY <1>1, <1>2, <1>3, <1>4, <1>5
  DEF Next, AddProp, WriteProp, WriteLarge, CommitLarge, Overwrite, FinishWrite,
      LargeObjectFails, Read, Restart, vars, tables

\* A zero value is inserted, and then its property.
LEMMA MysqlKeepsReady ==
  ASSUME TablesInv, MysqlReady, Mysql!Next
  PROVE  MysqlReady'
<1>1. CASE Mysql!Statement \/ Mysql!Failure
  BY <1>1, SameStatements, AfterStatement DEF MysqlReady, AtIn, AddingAt
<1>2. CASE Mysql!Kill
  BY <1>2 DEF Mysql!Kill, MysqlReady, AtIn
<1>3. CASE Mysql!Read
  BY <1>3 DEF Mysql!Read, Mysql!vars, MysqlReady, AtIn
<1>4. ASSUME NEW n \in Name, NEW p \in PropName, Mysql!AddProp(n, p) PROVE MysqlReady'
  <2> DEFINE row == [id |-> last'["value"], propid |-> -1,
                     objectid |-> Mysql!The(Mysql!Named(n)).id, data |-> Zero]
  <2>1. Takes("value") /\ value' = value \cup {row} /\ call'.valueid = last'["value"]
    BY <1>4 DEF Mysql!AddProp, Mysql!InsertValue, Mysql!ValueInserted, Mysql!Takes, Takes
  <2>2. row.data = Zero
    OBVIOUS
  <2> HIDE DEF row
  <2>3. last'["value"] = last["value"] + 1 /\ last["value"] \in Nat
    BY <2>1, NextNumber, Counters DEF TablesInv, NumbersGiven
  <2>4. \A v \in value : v.id \in Nat /\ v.id <= last["value"]
    BY DEF TablesInv, TablesOK, NumbersGiven, ValueRow, Id
  <2>5. \A v \in value : v.id # last'["value"]
    BY <2>3, <2>4
  <2>6. QED
    BY <2>1, <2>2, <2>5 DEF MysqlReady
<1>5. ASSUME NEW n \in Name, NEW p \in PropName, NEW d \in Content, Mysql!WriteProp(n, p, d)
      PROVE  MysqlReady'
  BY <1>5 DEF Mysql!WriteProp, MysqlReady, AtIn
<1>6. QED
  BY <1>1, <1>2, <1>3, <1>4, <1>5 DEF Mysql!Next

LEMMA ReadyIdle ==
  ASSUME Sync, large' = kept', ~AtIn(AddingAt \cup {"overwrite", "finish"})' \/ AtIn({"create"})'
  PROVE  PgsqlReady' /\ Sync'
BY DEF PgsqlReady, Sync, AtIn, AddingAt

\* lo_write makes the large object hold what is written.
LEMMA WithDataIs ==
  ASSUME LargeInv, NEW oid, NEW d, large' = WithData(oid, d)
  PROVE  /\ SameBut(large', large, oid)
         /\ \A l \in large' : l.oid = oid => l.data = d
         /\ (\E l \in large : l.oid = oid) => \E l \in large' : l.oid = oid
<1> DEFINE New(l) == IF l.oid = oid THEN [l EXCEPT !.data = d] ELSE l
<1>1. large' = {New(l) : l \in large}
  BY DEF WithData
<1>2. ASSUME NEW l \in large
      PROVE  /\ New(l).oid = l.oid
             /\ l.oid = oid => New(l).data = d
             /\ l.oid # oid => New(l) = l
  BY DEF LargeInv, LargeObject
<1> HIDE DEF New
<1>3. \A l \in large' : l.oid = oid => l.data = d
  BY <1>1, <1>2
<1>4. SameBut(large', large, oid)
  BY <1>1, <1>2 DEF SameBut
<1>5. QED
  BY <1>1, <1>2, <1>3, <1>4

LEMMA ACall == \A c \in Adding \cup Deleting \cup Creating \cup Overwriting : c # None
BY DatabasesAssumption

LEMMA PgsqlKeepsReady ==
  ASSUME TablesInv, LargeInv, IdsOnce, PgsqlReady, Sync, Next
  PROVE  PgsqlReady' /\ Sync'
<1>1. CASE (\E n \in Name : AddObject(n)) \/ DeleteObj \/ AddRow
  <2>1. UNCHANGED pg
    BY <1>1 DEF AddObject, DeleteObj, AddRow
  <2>2. Statement \/ Failure \/ (PropInserted /\ call' = None)
    BY <1>1 DEF AddObject, DeleteObj, AddRow, Statement, Failure
  <2>3. ~AtIn({"write", "commit", "finish"})
    <3>1. CASE \E n \in Name : AddObject(n) \/ DeleteProps(n)
      BY <3>1 DEF AddObject, Idle, DeleteProps, AtIn
    <3>2. CASE AddRow \/ DeleteValues \/ DeleteRow \/ DeleteFails
      BY <3>2 DEF AddRow, InsertProp, PropInserted, UpdateValue, InsertPropFails, UpdateValueFails,
                  TakeBackValue, TakeBackProp, DeleteValues, DeleteRow, DeleteFails, AtIn
    <3>3. QED
      BY <1>1, <3>1, <3>2 DEF DeleteObj
  <2>4. large' = kept'
    BY <2>1, <2>3 DEF Sync, pg
  <2>5. QED
    BY <2>2, <2>4, AfterStatement, ReadyIdle
<1>2. ASSUME NEW n \in Name, NEW p \in PropName, AddProp(n, p) PROVE PgsqlReady' /\ Sync'
  <2>1. large' = kept' /\ call'.at = "create"
    BY <1>2 DEF AddProp, Idle, Begin, Sync, AtIn
  <2>2. QED
    BY <2>1 DEF PgsqlReady, Sync, AtIn
<1>3. ASSUME NEW n \in Name, NEW p \in PropName, NEW d \in Data, WriteProp(n, p, d)
      PROVE  PgsqlReady' /\ Sync'
  <2> DEFINE id == The(Named(n)).id
  <2>1. /\ Idle /\ Loadable(id, p) /\ UNCHANGED tables /\ large' = large /\ kept' = kept
        /\ call' = [at |-> "overwrite", objectid |-> id, name |-> p,
                    oid |-> ValueRowOf(id, p).data, data |-> d]
    BY <1>3 DEF WriteProp, Begin
  <2> HIDE DEF id
  <2>2. large' = kept'
    BY <2>1 DEF Idle, Sync, AtIn
  <2>3. /\ call'.at = "overwrite" /\ call'.objectid = id /\ call'.name = p
        /\ call'.oid = ValueRowOf(id, p).data
    BY <2>1
  <2>4. <<id, p, ValueRowOf(id, p).data>> \in Base(Sole, value)
    BY <2>1, ReadableIs DEF Loadable
  <2>5. \E l \in kept : l.oid = ValueRowOf(id, p).data
    BY <2>1, OneRow DEF Loadable, Contents, One
  <2>6. <<call'.objectid, call'.name, call'.oid>> \in Base(Sole', value')
    BY <2>1, <2>3, <2>4, FoundStay DEF tables
  <2>7. \E l \in kept' : l.oid = call'.oid
    BY <2>1, <2>3, <2>5
  <2>8. QED
    BY <2>2, <2>3, <2>6, <2>7 DEF PgsqlReady, Sync, AtIn
<1>4. CASE CreateLarge
  <2>1. /\ large' = large \cup {[oid |-> last'["large"], data |-> Blank]}
        /\ kept' = IF tx = "open" THEN kept ELSE large'
        /\ tx' = tx /\ call # None /\ call.at = "create" /\ call' = [call EXCEPT !.at = "write"]
    BY <1>4 DEF CreateLarge, At
  <2>2. call'.at = "write" /\ call' # None
    BY <2>1, CreatingCall, ACall DEF Creating
  <2>3. large = kept
    BY <2>1 DEF Sync, AtIn
  <2>4. SameBut(large', kept', last'["large"])
    BY <2>1, <2>3 DEF SameBut
  <2>5. tx' # "open" => large' = kept'
    BY <2>1
  <2>6. QED
    BY <2>2, <2>4, <2>5 DEF PgsqlReady, Sync, AtIn
<1>5. CASE WriteLarge
  <2>1. /\ call # None /\ call.at = "write" /\ large' = WithData(last["large"], Zero)
        /\ call' = [call EXCEPT !.at = "commit"] /\ UNCHANGED <<tables, kept>>
    BY <1>5 DEF WriteLarge, At
  <2>2. call'.at = "commit" /\ call' # None
    BY <2>1, CreatingCall, ACall DEF Creating
  <2>3. /\ SameBut(large', large, last["large"])
        /\ \A l \in large' : l.oid = last["large"] => l.data = Zero
    BY <2>1, WithDataIs
  <2>4. SameBut(large, kept, last["large"])
    BY <2>1 DEF Sync, AtIn
  <2>5. last' = last /\ kept' = kept
    BY <2>1 DEF tables
  <2>6. SameBut(large', kept', last'["large"])
    BY <2>3, <2>4, <2>5 DEF SameBut
  <2>7. QED
    BY <2>2, <2>3, <2>5, <2>6 DEF PgsqlReady, Sync, AtIn
<1>6. CASE CommitLarge
  <2>1. /\ call # None /\ call.at = "commit" /\ call' = [call EXCEPT !.at = "insert"]
        /\ large' = kept' /\ (kept' = large \/ kept' = kept) /\ last' = last
    BY <1>6 DEF CommitLarge, At, Commit, tables
  <2>2. call'.at = "insert"
    BY <2>1, CreatingCall DEF Creating
  <2>3. \A l \in kept' : l.oid = last'["large"] => l.data = Zero
    BY <2>1 DEF PgsqlReady, AtIn, LargeInv, LargeReady
  <2>4. QED
    BY <2>1, <2>2, <2>3 DEF PgsqlReady, Sync, AtIn
<1>7. CASE AddValue
  <2>1. UNCHANGED pg /\ call # None /\ call.at = "insert"
    BY <1>7 DEF AddValue, At
  <2>2. large' = kept' /\ kept' = kept
    BY <2>1 DEF Sync, AtIn, pg
  <2>3. CASE call' = None
    BY <2>2, <2>3 DEF PgsqlReady, Sync, AtIn
  <2>4. CASE InsertValue(call.objectid, call.name, last["large"])
    <3> DEFINE row == [id |-> last'["value"], propid |-> -1, objectid |-> call.objectid,
                       data |-> last["large"]]
    <3>1. /\ Takes("value") /\ value' = value \cup {row}
          /\ call'.at = "prop" /\ call'.valueid = last'["value"]
      BY <2>4 DEF InsertValue, ValueInserted
    <3>2. row.data = last["large"]
      OBVIOUS
    <3> HIDE DEF row
    <3>3. last'["value"] = last["value"] + 1 /\ last["value"] \in Nat
      BY <3>1, NextNumber, Counters DEF TablesInv, NumbersGiven
    <3>4. \A v \in value : v.id \in Nat /\ v.id <= last["value"]
      BY DEF TablesInv, TablesOK, NumbersGiven, ValueRow, Id
    <3>5. \A v \in value : v.id # last'["value"]
      BY <3>3, <3>4
    <3>6. \A l \in kept : l.oid = last["large"] => l.data = Zero
      BY <2>1 DEF PgsqlReady, AtIn
    <3>7. QED
      BY <2>2, <3>1, <3>2, <3>5, <3>6 DEF PgsqlReady, Sync, AtIn
  <2>5. QED
    BY <1>7, <2>3, <2>4 DEF AddValue
<1>8. CASE Overwrite
  <2>1. /\ call # None /\ call.at = "overwrite" /\ large' = WithData(call.oid, call.data)
        /\ call' = [call EXCEPT !.at = "finish"] /\ UNCHANGED <<tables, kept>>
    BY <1>8 DEF Overwrite, At
  <2>2. call \in Overwriting
    BY <2>1 DEF TablesInv, CallOK, Adding, Deleting, Creating
  <2>3. /\ call'.at = "finish" /\ call'.oid = call.oid /\ call'.data = call.data
        /\ call'.objectid = call.objectid /\ call'.name = call.name
        /\ call' # None
    BY <2>1, <2>2, ACall DEF Overwriting
  <2>4. large = kept /\ <<call.objectid, call.name, call.oid>> \in Base(Sole, value)
        /\ \E l \in kept : l.oid = call.oid
    BY <2>1 DEF PgsqlReady, Sync, AtIn
  <2>5. /\ SameBut(large', large, call.oid)
        /\ \A l \in large' : l.oid = call.oid => l.data = call.data
        /\ \E l \in large' : l.oid = call.oid
    BY <2>1, <2>4, WithDataIs
  <2>6. prop' = prop /\ value' = value /\ kept' = kept
    BY <2>1 DEF tables
  <2>7. <<call'.objectid, call'.name, call'.oid>> \in Base(Sole', value')
    BY <2>3, <2>4, <2>6, FoundStay
  <2>8. SameBut(large', kept', call'.oid)
    BY <2>3, <2>4, <2>5, <2>6
  <2>9. QED
    BY <2>3, <2>4, <2>5, <2>6, <2>7, <2>8 DEF PgsqlReady, Sync, AtIn
<1>9. CASE FinishWrite \/ LargeObjectFails \/ Restart
  <2>1. call' = None /\ large' = kept'
    BY <1>9 DEF FinishWrite, Commit, LargeObjectFails, Restart
  <2>2. QED
    BY <2>1, ReadyIdle DEF AtIn
<1>10. CASE Read
  <2>1. call' = None /\ large' = kept'
    BY <1>10 DEF Read, vars, pg, Sync, AtIn
  <2>2. QED
    BY <2>1, ReadyIdle DEF AtIn
<1>11. QED
  BY <1>1, <1>2, <1>3, <1>4, <1>5, <1>6, <1>7, <1>8, <1>9, <1>10 DEF Next

-----------------------------------------------------------------------------
(* The invariant *)

DirInv ==
  /\ DbInv /\ IdsOnce
  /\ backend = "mysql" => MysqlReady
  /\ backend = "pgsql" => PgsqlReady /\ Sync

LEMMA DirInvInit ==
  ASSUME DbInit
  PROVE  DirInv
<1>1. DbInv
  BY DbInvInit
<1>2. /\ prop = {} /\ value = {} /\ call = None /\ large = {} /\ kept = {}
  BY DEF DbInit, Init, TablesInit
<1>3. QED
  BY <1>1, <1>2 DEF DirInv, IdsOnce, MysqlReady, PgsqlReady, Sync, AtIn

LEMMA DirInvNext ==
  ASSUME DirInv, [DbNext]_dbvars
  PROVE  DirInv'
<1>1. DbInv'
  BY DbInvNext DEF DirInv
<1>2. CASE backend = "mysql" /\ Mysql!Next /\ UNCHANGED <<pg, backend>>
  <2>1. IdsOnce' /\ MysqlReady'
    BY <1>2, MysqlKeepsIds, MysqlKeepsReady DEF DirInv, DbInv
  <2>2. QED
    BY <1>1, <1>2, <2>1 DEF DirInv
<1>3. CASE backend = "pgsql" /\ Next /\ UNCHANGED backend
  <2>1. IdsOnce' /\ PgsqlReady' /\ Sync'
    BY <1>3, PgsqlKeepsIds, PgsqlKeepsReady DEF DirInv, DbInv
  <2>2. QED
    BY <1>1, <1>3, <2>1 DEF DirInv
<1>4. CASE UNCHANGED dbvars
  <2>1. IdsOnce'
    BY <1>4, IdsFewer DEF DirInv, dbvars, vars, tables
  <2>2. /\ (backend = "mysql" => MysqlReady)'
        /\ (backend = "pgsql" => PgsqlReady /\ Sync)'
    BY <1>4, FoundStay DEF DirInv, dbvars, vars, pg, tables, MysqlReady, PgsqlReady, Sync, AtIn
  <2>3. QED
    BY <1>1, <2>1, <2>2 DEF DirInv
<1>5. QED
  BY <1>2, <1>3, <1>4 DEF DbNext

LEMMA DirInvHolds == DbSpec => []DirInv
<1>1. DbInit => DirInv
  BY DirInvInit
<1>2. DirInv /\ [DbNext]_dbvars => DirInv'
  BY DirInvNext
<1>3. QED
  BY <1>1, <1>2, PTL DEF DbSpec

LEMMA MysqlDescribesNext ==
  (TablesInv /\ IdsOnce)' =>
    Describes(Mysql!Directory', Seen', Base(Sole', value'), Content)
<1>1. TablesInv /\ IdsOnce => Describes(Mysql!Directory, Seen, Base(Sole, value), Content)
  BY MysqlDescribes
<1>2. (TablesInv /\ IdsOnce => Describes(Mysql!Directory, Seen, Base(Sole, value), Content))'
  BY <1>1, PTL
<1>3. QED
  BY <1>2

LEMMA PgsqlDescribesNext ==
  (TablesInv /\ IdsOnce /\ LargeInv)' =>
    Describes(Directory', Seen', Large(Base(Sole', value'), kept'), Data)
<1>1. TablesInv /\ IdsOnce /\ LargeInv =>
        Describes(Directory, Seen, Large(Base(Sole, value), kept), Data)
  BY PgsqlDescribes
<1>2. (TablesInv /\ IdsOnce /\ LargeInv =>
        Describes(Directory, Seen, Large(Base(Sole, value), kept), Data))'
  BY <1>1, PTL
<1>3. QED
  BY <1>2

-----------------------------------------------------------------------------
(* What a step changes *)

LEMMA SameIs ==
  ASSUME NEW D, NEW E, NEW V, NEW W, NEW F, NEW G, NEW values,
         Describes(D, V, F, values), Describes(E, W, G, values), Same(V, F, W, G)
  PROVE  E = D
BY DirSame DEF Same, Alike

LEMMA MovesAre ==
  ASSUME NEW D, NEW E, NEW V, NEW W, NEW F, NEW G, NEW values, NoneApart(values),
         Describes(D, V, F, values), Describes(E, W, G, values),
         NEW names, Moves(V, F, W, G, names)
  PROVE  \/ E = D
         \/ \E n \in Name :
              \/ D[n] = None /\ E = [D EXCEPT ![n] = [p \in PropName |-> None]]
              \/ D[n] # None /\ E = [D EXCEPT ![n] = None]
         \/ \E n \in names : \A m \in Name \ {n} : E[m] = D[m]
<1>1. CASE Same(V, F, W, G)
  BY <1>1, SameIs
<1>2. ASSUME NEW o, Appears(V, F, W, G, o)
      PROVE  /\ o.name \in Name /\ D[o.name] = None
             /\ E = [D EXCEPT ![o.name] = [p \in PropName |-> None]]
  BY <1>2, DirAdd
<1>3. ASSUME NEW o, Goes(V, F, W, G, o)
      PROVE  o.name \in Name /\ D[o.name] # None /\ E = [D EXCEPT ![o.name] = None]
  BY <1>3, DirDelete
<1>4. QED
  BY <1>1, <1>2, <1>3, DirBlur DEF Moves

LEMMA ClearsAre ==
  ASSUME NEW D, NEW E, NEW V, NEW W, NEW F, NEW G, NEW values, NoneApart(values), Named1(V),
         Describes(D, V, F, values), Describes(E, W, G, values),
         NEW names, Clears(V, F, W, G, names)
  PROVE  \/ E = D
         \/ \E n \in Name, p \in PropName :
              D[n] # None /\ E = [D EXCEPT ![n] = [D[n] EXCEPT ![p] = None]]
         \/ \E n \in names : \A m \in Name \ {n} : E[m] = D[m]
<1>1. CASE Same(V, F, W, G)
  BY <1>1, SameIs
<1>2. ASSUME NEW o \in V, NEW p \in PropName, Except(V, F, W, G, o, p),
             \A d : <<o.id, p, d>> \notin G
      PROVE  /\ o.name \in Name /\ D[o.name] # None
             /\ E = [D EXCEPT ![o.name] = [D[o.name] EXCEPT ![p] = None]]
  <2>1. Holds(G, o.id, p, None)
    BY <1>2 DEF Holds
  <2>2. QED
    BY <1>2, <2>1, DirSet
<1>3. ASSUME NEW n \in names, Blurs(V, F, W, G, n)
      PROVE  \A m \in Name \ {n} : E[m] = D[m]
  BY <1>3, DirBlur
<1>4. CASE \E o \in V, p \in PropName :
             Except(V, F, W, G, o, p) /\ \A d : <<o.id, p, d>> \notin G
  <2>1. PICK o \in V, p \in PropName : Except(V, F, W, G, o, p) /\ \A d : <<o.id, p, d>> \notin G
    BY <1>4
  <2>2. /\ o.name \in Name /\ D[o.name] # None
        /\ E = [D EXCEPT ![o.name] = [D[o.name] EXCEPT ![p] = None]]
    BY <1>2, <2>1
  <2>3. QED
    BY <2>2
<1>5. QED
  BY <1>1, <1>3, <1>4 DEF Clears

\* The same, where the columns have numbers of large objects.
LEMMA LargeAgrees ==
  ASSUME NEW B, NEW C, NEW K
  PROVE  /\ \A o, p : Agree(B, C, o, p) => Agree(Large(B, K), Large(C, K), o, p)
         /\ \A i, p : (\A d : <<i, p, d>> \notin C) => \A d : <<i, p, d>> \notin Large(C, K)
<1>1. ASSUME NEW o, NEW p, Agree(B, C, o, p)
      PROVE  Agree(Large(B, K), Large(C, K), o, p)
  <2>1. ASSUME NEW d
        PROVE  <<o.id, p, d>> \in Large(B, K) <=> <<o.id, p, d>> \in Large(C, K)
    BY <1>1 DEF Agree, Large
  <2>2. QED
    BY <2>1 DEF Agree
<1>2. ASSUME NEW i, NEW p, \A d : <<i, p, d>> \notin C, NEW d
      PROVE  <<i, p, d>> \notin Large(C, K)
  BY <1>2 DEF Large
<1>3. QED
  BY <1>1, <1>2

LEMMA LargeFollows ==
  ASSUME NEW V, NEW W, NEW K, NEW B, NEW C, NEW names
  PROVE  /\ Same(V, B, W, C) => Same(V, Large(B, K), W, Large(C, K))
         /\ Moves(V, B, W, C, names) => Moves(V, Large(B, K), W, Large(C, K), names)
         /\ Clears(V, B, W, C, names) => Clears(V, Large(B, K), W, Large(C, K), names)
<1>1. /\ \A o, p : Agree(B, C, o, p) => Agree(Large(B, K), Large(C, K), o, p)
      /\ \A i, p : (\A d : <<i, p, d>> \notin C) => \A d : <<i, p, d>> \notin Large(C, K)
  BY LargeAgrees
<1>2. \A U : Alike(U, B, C) => Alike(U, Large(B, K), Large(C, K))
  BY <1>1 DEF Alike
<1>3. Same(V, B, W, C) => Same(V, Large(B, K), W, Large(C, K))
  BY <1>2 DEF Same
<1>4. \A o : Appears(V, B, W, C, o) => Appears(V, Large(B, K), W, Large(C, K), o)
  BY <1>1, <1>2 DEF Appears
<1>5. \A o : Goes(V, B, W, C, o) => Goes(V, Large(B, K), W, Large(C, K), o)
  BY <1>2 DEF Goes
<1>6. \A o, p : Except(V, B, W, C, o, p) => Except(V, Large(B, K), W, Large(C, K), o, p)
  BY <1>1 DEF Except
<1>7. \A n : Blurs(V, B, W, C, n) => Blurs(V, Large(B, K), W, Large(C, K), n)
  BY <1>1 DEF Blurs
<1>8. Moves(V, B, W, C, names) => Moves(V, Large(B, K), W, Large(C, K), names)
  BY <1>3, <1>4, <1>5, <1>7 DEF Moves
<1>9. Clears(V, B, W, C, names) => Clears(V, Large(B, K), W, Large(C, K), names)
  BY <1>1, <1>3, <1>6, <1>7 DEF Clears
<1>10. QED
  BY <1>3, <1>8, <1>9

-----------------------------------------------------------------------------
(* What the statements do to what is seen *)

HasValue(P, W, i, p, d) ==
  \E r \in P, v \in W : r.objectid = i /\ r.name = p /\ v.id = r.valueid /\ v.data = d

LEMMA BasesAre ==
  ASSUME TablesInv, TablesInv'
  PROVE  \A i, p, d :
           /\ <<i, p, d>> \in Base(Sole, value) <=> HasValue(Sole, value, i, p, d)
           /\ <<i, p, d>> \in Base(Sole', value') <=> HasValue(Sole', value', i, p, d)
<1>1. Sole \in SUBSET PropRow /\ value \in SUBSET ValueRow
  BY DEF TablesInv, TablesOK, Sole
<1>2. Sole' \in SUBSET PropRow /\ value' \in SUBSET ValueRow
  BY DEF TablesInv, TablesOK, Sole
<1>3. ASSUME NEW i, NEW p, NEW d
      PROVE  <<i, p, d>> \in Base(Sole, value) <=> HasValue(Sole, value, i, p, d)
  BY <1>1, BaseIs DEF HasValue
<1>4. ASSUME NEW i, NEW p, NEW d
      PROVE  <<i, p, d>> \in Base(Sole', value') <=> HasValue(Sole', value', i, p, d)
  BY <1>2, BaseIs DEF HasValue
<1>5. QED
  BY <1>3, <1>4

LEMMA AlikeIs ==
  ASSUME TablesInv, TablesInv', NEW V,
         \A o \in V, p \in PropName : \A d :
           HasValue(Sole, value, o.id, p, d) <=> HasValue(Sole', value', o.id, p, d)
  PROVE  Alike(V, Base(Sole, value), Base(Sole', value'))
BY BasesAre DEF Alike, Agree

\* The rows of properties of another object, or another name, do not matter.
LEMMA SoleApart ==
  ASSUME NEW r, NEW i, NEW p, i # r.objectid \/ p # r.name, value' = value,
         prop' = prop \cup {r} \/ prop' = prop \ {r}, NEW d
  PROVE  HasValue(Sole, value, i, p, d) <=> HasValue(Sole', value', i, p, d)
<1>1. \A s : s.objectid = i /\ s.name = p => (s \in prop <=> s \in prop')
  OBVIOUS
<1>2. \A s : s.objectid = i /\ s.name = p => (s \in Sole <=> s \in Sole')
  BY <1>1 DEF Sole
<1>3. QED
  BY <1>2 DEF HasValue

LEMMA AllSeen ==
  \A c : c = None \/ c.at \notin {"values", "object"} => c \notin Deleting
BY DatabasesAssumption DEF Deleting

\* Deleting an object hides it, and a deletion that fails shows it again.
LEMMA EndShows ==
  ASSUME TablesInv, TablesInv', UNCHANGED <<object, prop, value>>,
         call' = None \/ call'.at \notin {"values", "object"}
  PROVE  Moves(Seen, Base(Sole, value), Seen', Base(Sole', value'), blind')
<1>1. prop' = prop /\ value' = value /\ object' = object /\ Sole' = Sole
  BY FoundStay
<1>2. Visible' = object
  BY <1>1, AllSeen DEF Visible
<1>3. \A V : Alike(V, Base(Sole, value), Base(Sole', value'))
  BY <1>1 DEF Alike, Agree
<1>4. CASE call \in Deleting /\ \E o \in object : o.id = call.objectid
  <2>1. PICK o \in object : o.id = call.objectid
    BY <1>4
  <2>2. call # None /\ call.at \in {"values", "object"}
    BY <1>4, AllSeen
  <2>3. \A q \in object : q.id = o.id \/ q.name = o.name => q = o
    BY <2>1, <2>2 DEF TablesInv, CallReady, Alone, RowsFlat
  <2>4. Visible = object \ {o}
    BY <1>4, <2>1, <2>3 DEF Visible
  <2>5. Seen' = Seen \cup {o} /\ \A q \in Seen : q.name # o.name
    BY <1>2, <2>1, <2>3, <2>4 DEF Seen
  <2>6. \A r \in prop : r.objectid # o.id
    BY <2>1, <2>2 DEF TablesInv, CallReady
  <2>7. \A p, d : ~HasValue(Sole', value', o.id, p, d)
    BY <1>1, <2>6 DEF HasValue, Sole
  <2>8. \A p \in PropName : \A d : <<o.id, p, d>> \notin Base(Sole', value')
    BY <2>7, BasesAre
  <2>9. Appears(Seen, Base(Sole, value), Seen', Base(Sole', value'), o)
    BY <1>3, <2>5, <2>8 DEF Appears
  <2>10. QED
    BY <2>9 DEF Moves
<1>5. CASE ~(call \in Deleting /\ \E o \in object : o.id = call.objectid)
  <2>1. Visible' = Visible
    BY <1>2, <1>5 DEF Visible
  <2>2. QED
    BY <1>3, <2>1, FoundStay DEF Moves, Same
<1>6. QED
  BY <1>4, <1>5

LEMMA InsertObjectShows ==
  ASSUME TablesInv, TablesInv', NEW n \in Name, InsertObject(n)
  PROVE  Moves(Seen, Base(Sole, value), Seen', Base(Sole', value'), blind')
<1> DEFINE o == [id |-> last'["object"], name |-> n]
<1>1. /\ call = None /\ call' = None /\ prop' = prop /\ value' = value
      /\ object' = object \cup {o} /\ o.id = last'["object"] /\ o.name = n
  BY DEF InsertObject
<1> HIDE DEF o
<1>2. Visible = object /\ Visible' = object'
  BY <1>1, AllSeen DEF Visible
<1>3. \A q \in object : q.id # o.id
  <2>1. last'["object"] = last["object"] + 1 /\ last["object"] \in Nat
    BY NextNumber, Counters DEF TablesInv, NumbersGiven, InsertObject
  <2>2. \A q \in object : q.id \in Nat /\ q.id <= last["object"]
    BY DEF TablesInv, TablesOK, NumbersGiven, ObjectRow, Id
  <2>3. QED
    BY <1>1, <2>1, <2>2
<1>4. \A r \in prop : r.objectid # o.id
  BY <1>3 DEF TablesInv, RowsHaveOwners, Numbered
<1>5. Alike(Seen, Base(Sole, value), Base(Sole', value')) /\ Sole' = Sole
  BY <1>1, FoundStay DEF Alike, Agree
<1>6. CASE \A q \in object : q.name # n
  <2>1. Seen' = Seen \cup {o} /\ \A q \in Seen : q.name # o.name
    BY <1>1, <1>2, <1>6 DEF Seen
  <2>2. \A p, d : ~HasValue(Sole', value', o.id, p, d)
    BY <1>4, <1>5 DEF HasValue, Sole
  <2>3. \A p \in PropName : \A d : <<o.id, p, d>> \notin Base(Sole', value')
    BY <2>2, BasesAre
  <2>4. Appears(Seen, Base(Sole, value), Seen', Base(Sole', value'), o)
    BY <1>5, <2>1, <2>3 DEF Appears
  <2>5. QED
    BY <2>4 DEF Moves
<1>7. CASE \E q \in object : q.name = n
  <2>1. n \in blind'
    BY <1>1, <1>3, <1>7 DEF TablesInv, RowsFlat
  <2>2. \A q \in Seen \cup Seen' : q.name # n => q \in Seen /\ q \in Seen'
    BY <1>1, <1>2 DEF Seen
  <2>3. Blurs(Seen, Base(Sole, value), Seen', Base(Sole', value'), n)
    BY <1>5, <2>2 DEF Blurs, Alike
  <2>4. QED
    BY <2>1, <2>3 DEF Moves
<1>8. QED
  BY <1>6, <1>7

LEMMA DeletePropsHides ==
  ASSUME TablesInv, TablesInv', NEW n \in Name, DeleteProps(n)
  PROVE  Moves(Seen, Base(Sole, value), Seen', Base(Sole', value'), blind')
<1> DEFINE o == The(Named(n))
<1>1. /\ call = None /\ prop' = {r \in prop : r.objectid # o.id}
      /\ call' = [at |-> "values", objectid |-> o.id]
      /\ object' = object /\ value' = value
  BY DEF DeleteProps
<1>2. o \in object /\ \A q \in object : q.name = o.name \/ q.id = o.id => q = o
  <2>1. Named(n) = {o}
    BY OneRow DEF DeleteProps
  <2> HIDE DEF o
  <2>2. QED
    BY <2>1 DEF Named, TablesInv, RowsFlat
<1> HIDE DEF o
<1>3. call' \in Deleting /\ call'.objectid = o.id
  BY <1>1, <1>2 DEF Deleting, TablesInv, TablesOK, ObjectRow
<1>4. Visible = object
  BY <1>1, AllSeen DEF Visible
<1>5. Visible' = {q \in object : q.id # o.id}
  BY <1>1, <1>3 DEF Visible
<1>6. Seen = Seen' \cup {o} /\ \A q \in Seen' : q.name # o.name /\ q.id # o.id
  BY <1>2, <1>4, <1>5 DEF Seen
<1>7. ASSUME NEW q \in Seen', NEW p \in PropName, NEW d
      PROVE  HasValue(Sole, value, q.id, p, d) <=> HasValue(Sole', value', q.id, p, d)
  <2>1. \A r \in prop : r.objectid # o.id => (r \in Sole <=> r \in Sole')
    BY <1>1 DEF Sole
  <2>2. \A r \in Sole' : r \in prop
    BY <1>1 DEF Sole
  <2>3. QED
    BY <1>1, <1>6, <2>1, <2>2 DEF HasValue, Sole
<1>8. Alike(Seen', Base(Sole, value), Base(Sole', value'))
  BY <1>7, AlikeIs
<1>9. Goes(Seen, Base(Sole, value), Seen', Base(Sole', value'), o)
  BY <1>6, <1>8 DEF Goes
<1>10. QED
  BY <1>9 DEF Moves

\* The rows of what is being deleted are not seen.
LEMMA DeletingShows ==
  ASSUME TablesInv, TablesInv', DeleteValues \/ DeleteRow \/ DeleteFails
  PROVE  Moves(Seen, Base(Sole, value), Seen', Base(Sole', value'), blind')
<1>1. CASE DeleteValues
  <2>1. /\ call # None /\ call.at = "values" /\ call' = [call EXCEPT !.at = "object"]
        /\ value' = {v \in value : v.objectid # call.objectid}
        /\ prop' = prop /\ object' = object
    BY <1>1 DEF DeleteValues
  <2>2. call \in Deleting
    BY <2>1 DEF TablesInv, CallOK, Adding, Creating, Overwriting
  <2>3. call' \in Deleting /\ call'.objectid = call.objectid
    BY <2>1, <2>2 DEF Deleting
  <2>4. Visible' = Visible
    BY <2>1, <2>2, <2>3 DEF Visible
  <2>5. \A r \in prop : r.objectid # call.objectid
    BY <2>1 DEF TablesInv, CallReady
  <2>6. \A r \in prop, v \in value : v.id = r.valueid => v.objectid = r.objectid
    BY DEF TablesInv, ValuesUnshared, ValuesOf
  <2>7. \A r \in prop, v \in value : v.id = r.valueid => v \in value'
    BY <2>1, <2>5, <2>6
  <2>8. \A i, p, d : HasValue(Sole, value, i, p, d) <=> HasValue(Sole', value', i, p, d)
    BY <2>1, <2>7, FoundStay DEF HasValue, Sole
  <2>9. Alike(Seen, Base(Sole, value), Base(Sole', value'))
    BY <2>8, AlikeIs
  <2>10. QED
    BY <2>4, <2>9, FoundStay DEF Moves, Same
<1>2. CASE DeleteRow
  <2>1. /\ call # None /\ call.at = "object" /\ call' = None
        /\ object' = {o \in object : o.id # call.objectid}
        /\ prop' = prop /\ value' = value
    BY <1>2 DEF DeleteRow
  <2>2. call \in Deleting
    BY <2>1 DEF TablesInv, CallOK, Adding, Creating, Overwriting
  <2>3. call' \notin Deleting
    BY <2>1, AllSeen
  <2>4. Visible' = Visible
    BY <2>1, <2>2, <2>3 DEF Visible
  <2>5. Alike(Seen, Base(Sole, value), Base(Sole', value'))
    BY <2>1, FoundStay DEF Alike, Agree
  <2>6. QED
    BY <2>4, <2>5, FoundStay DEF Moves, Same
<1>3. CASE DeleteFails
  BY <1>3, EndShows DEF DeleteFails, tables
<1>4. QED
  BY <1>1, <1>2, <1>3

\* A value that no property has is not seen.
LEMMA InsertValueShows ==
  ASSUME TablesInv, TablesInv', NEW id, NEW content, ValueInserted(id, content),
         call = None \/ call.at \notin {"values", "object"},
         call' = None \/ call'.at \notin {"values", "object"}
  PROVE  Same(Seen, Base(Sole, value), Seen', Base(Sole', value'))
<1> DEFINE row == [id |-> last'["value"], propid |-> -1, objectid |-> id, data |-> content]
<1>1. value' = value \cup {row} /\ row.id = last'["value"] /\ prop' = prop /\ object' = object
  BY DEF ValueInserted
<1> HIDE DEF row
<1>2. Visible' = Visible
  BY <1>1, AllSeen DEF Visible
<1>3. \A r \in prop : r.valueid # row.id
  <2>1. last'["value"] = last["value"] + 1 /\ last["value"] \in Nat
    BY NextNumber, Counters DEF TablesInv, NumbersGiven, ValueInserted
  <2>2. \A r \in prop : r.valueid \in Nat /\ r.valueid <= last["value"]
    BY DEF TablesInv, TablesOK, NumbersGiven, PropRow, Id
  <2>3. QED
    BY <1>1, <2>1, <2>2
<1>4. \A i, p, d : HasValue(Sole, value, i, p, d) <=> HasValue(Sole', value', i, p, d)
  BY <1>1, <1>3, FoundStay DEF HasValue, Sole
<1>5. Alike(Seen, Base(Sole, value), Base(Sole', value'))
  BY <1>4, AlikeIs
<1>6. QED
  BY <1>2, <1>5, FoundStay DEF Same

\* Statements of bindio_add_prop that no client sees.
LEMMA AddingShows ==
  ASSUME TablesInv, TablesInv', UpdateValue \/ InsertPropFails \/ UpdateValueFails
  PROVE  Same(Seen, Base(Sole, value), Seen', Base(Sole', value'))
<1>1. /\ call # None /\ call.at \in {"prop", "update"}
      /\ call' = None \/ \E at \in {"takeback", "takeback both"} : call' = [call EXCEPT !.at = at]
      /\ prop' = prop /\ object' = object
  BY DEF UpdateValue, InsertPropFails, UpdateValueFails, tables
<1>2. call \in Adding
  BY <1>1 DEF TablesInv, CallOK, Deleting, Creating, Overwriting
<1>3. call' = None \/ call'.at \in {"takeback", "takeback both"}
  BY <1>1, <1>2 DEF Adding
<1>4. Visible' = Visible
  BY <1>1, <1>3, AllSeen DEF Visible
<1>5. \A i, p, d : HasValue(Sole, value, i, p, d) <=> HasValue(Sole', value', i, p, d)
  <2>1. CASE UpdateValue
    <3> DEFINE New(v) == IF v.id = call.valueid THEN [v EXCEPT !.propid = call.propid] ELSE v
    <3>1. value' = {New(v) : v \in value}
      BY <2>1 DEF UpdateValue
    <3>2. ASSUME NEW v \in value PROVE New(v).id = v.id /\ New(v).data = v.data
      BY DEF TablesInv, TablesOK, ValueRow
    <3> HIDE DEF New
    <3>3. /\ \A v \in value : \E w \in value' : w.id = v.id /\ w.data = v.data
          /\ \A w \in value' : \E v \in value : w.id = v.id /\ w.data = v.data
      BY <3>1, <3>2
    <3>4. ASSUME NEW i, NEW p, NEW d, HasValue(Sole, value, i, p, d)
          PROVE  HasValue(Sole', value', i, p, d)
      <4>1. PICK r \in Sole, v \in value :
              r.objectid = i /\ r.name = p /\ v.id = r.valueid /\ v.data = d
        BY <3>4 DEF HasValue
      <4>2. PICK w \in value' : w.id = v.id /\ w.data = v.data
        BY <3>3
      <4>3. QED
        BY <1>1, <4>1, <4>2, FoundStay DEF HasValue
    <3>5. ASSUME NEW i, NEW p, NEW d, HasValue(Sole', value', i, p, d)
          PROVE  HasValue(Sole, value, i, p, d)
      BY <1>1, <3>3, <3>5, FoundStay DEF HasValue
    <3>6. QED
      BY <3>4, <3>5
  <2>2. CASE InsertPropFails \/ UpdateValueFails
    BY <1>1, <2>2, FoundStay DEF InsertPropFails, UpdateValueFails, tables, HasValue
  <2>3. QED
    BY <2>1, <2>2
<1>6. Alike(Seen, Base(Sole, value), Base(Sole', value'))
  BY <1>5, AlikeIs
<1>7. QED
  BY <1>4, <1>6, FoundStay DEF Same

\* A value that is taken back was seen as that of one property at most.
LEMMA TakeBackValueShows ==
  ASSUME TablesInv, TablesInv', TakeBackValue
  PROVE  Clears(Seen, Base(Sole, value), Seen', Base(Sole', value'), blind')
<1>1. /\ call # None /\ call.at \in {"takeback", "takeback both"}
      /\ call' = None \/ call' = [call EXCEPT !.at = "takeback prop"]
      /\ prop' = prop /\ object' = object
      /\ value' = value \/ value' = {v \in value : v.id # call.valueid}
  BY DEF TakeBackValue
<1>2. call \in Adding
  BY <1>1 DEF TablesInv, CallOK, Deleting, Creating, Overwriting
<1>3. call' = None \/ call'.at = "takeback prop"
  BY <1>1, <1>2 DEF Adding
<1>4. Seen' = Seen /\ Seen \subseteq object /\ Sole' = Sole /\ Sole \subseteq prop
  <2>1. Visible' = Visible /\ Visible = object
    BY <1>1, <1>3, AllSeen DEF Visible
  <2>2. QED
    BY <1>1, <2>1, FoundStay DEF Seen, Sole
<1>5. CASE \A r \in Sole : r.valueid # call.valueid
  <2>1. \A i, p, d : HasValue(Sole, value, i, p, d) <=> HasValue(Sole', value', i, p, d)
    BY <1>1, <1>4, <1>5 DEF HasValue
  <2>2. Alike(Seen, Base(Sole, value), Base(Sole', value'))
    BY <2>1, AlikeIs
  <2>3. QED
    BY <1>4, <2>2 DEF Clears, Same
<1>6. CASE value' = value
  <2>1. Alike(Seen, Base(Sole, value), Base(Sole', value'))
    BY <1>1, <1>4, <1>6 DEF Alike, Agree
  <2>2. QED
    BY <1>4, <2>1 DEF Clears, Same
<1>7. ASSUME NEW r \in Sole, r.valueid = call.valueid, value' = {v \in value : v.id # call.valueid}
      PROVE  Clears(Seen, Base(Sole, value), Seen', Base(Sole', value'), blind')
  <2>1. PICK o \in object : o.id = r.objectid
    BY <1>4 DEF TablesInv, RowsHaveOwners, Numbered
  <2>2. r.name \in PropName
    BY <1>4 DEF TablesInv, TablesOK, PropRow
  <2>3. \A s \in Sole : s.valueid = call.valueid => s = r
    BY <1>4, <1>7 DEF TablesInv, ValuesUnshared
  <2>4. \A q \in object : q.id = o.id => q = o
    BY DEF TablesInv, RowsFlat
  <2>5. \A s \in Sole : s.objectid = o.id /\ s.name = r.name => s = r
    BY <2>1 DEF Sole
  <2>6. ASSUME NEW q \in Seen, NEW x \in PropName, q # o \/ x # r.name, NEW d
        PROVE  HasValue(Sole, value, q.id, x, d) <=> HasValue(Sole', value', q.id, x, d)
    <3>1. q.id # r.objectid \/ x # r.name
      BY <1>4, <2>1, <2>4, <2>6
    <3>2. \A s \in Sole : s.objectid = q.id /\ s.name = x => s.valueid # call.valueid
      BY <2>3, <3>1
    <3>3. QED
      BY <1>4, <1>7, <3>2 DEF HasValue
  <2>7. CASE o \in Seen
    <3>1. \A d : ~HasValue(Sole', value', o.id, r.name, d)
      BY <1>4, <1>7, <2>5 DEF HasValue
    <3>2. Except(Seen, Base(Sole, value), Seen', Base(Sole', value'), o, r.name)
      BY <1>4, <2>6, BasesAre DEF Except, Agree
    <3>3. \A d : <<o.id, r.name, d>> \notin Base(Sole', value')
      BY <3>1, BasesAre
    <3>4. QED
      BY <2>2, <2>7, <3>2, <3>3 DEF Clears
  <2>8. CASE o \notin Seen
    <3>1. Alike(Seen, Base(Sole, value), Base(Sole', value'))
      BY <2>6, <2>8, AlikeIs
    <3>2. QED
      BY <1>4, <3>1 DEF Clears, Same
  <2>9. QED
    BY <2>7, <2>8
<1>8. QED
  BY <1>1, <1>5, <1>6, <1>7

\* The same for a property.
LEMMA TakeBackPropShows ==
  ASSUME TablesInv, TablesInv', IdsOnce, TakeBackProp
  PROVE  Clears(Seen, Base(Sole, value), Seen', Base(Sole', value'), blind')
<1>1. /\ call # None /\ call.at = "takeback prop" /\ call' = None
      /\ value' = value /\ object' = object /\ blind' = blind
      /\ prop' = prop \/ prop' = {r \in prop : r.id # call.propid}
  BY DEF TakeBackProp
<1>2. Seen' = Seen /\ Seen \subseteq object
  <2>1. Visible' = Visible /\ Visible = object
    BY <1>1, AllSeen DEF Visible
  <2>2. QED
    BY <2>1, FoundStay DEF Seen
<1>3. CASE prop' = prop \/ \A r \in prop : r.id # call.propid
  <2>1. Sole' = Sole
    BY <1>1, <1>3, FoundStay
  <2>2. Alike(Seen, Base(Sole, value), Base(Sole', value'))
    BY <1>1, <2>1 DEF Alike, Agree
  <2>3. QED
    BY <1>2, <2>2 DEF Clears, Same
<1>4. ASSUME NEW r \in prop, r.id = call.propid, prop' = {s \in prop : s.id # call.propid}
      PROVE  Clears(Seen, Base(Sole, value), Seen', Base(Sole', value'), blind')
  <2>1. PICK o \in object : o.id = r.objectid
    BY DEF TablesInv, RowsHaveOwners, Numbered
  <2>2. r.name \in PropName
    BY DEF TablesInv, TablesOK, PropRow
  <2>3. prop' = prop \ {r}
    BY <1>4 DEF IdsOnce
  <2>4. \A q \in object : q.id = o.id => q = o
    BY DEF TablesInv, RowsFlat
  <2>5. ASSUME NEW q \in Seen, NEW x \in PropName, q # o \/ x # r.name, NEW d
        PROVE  HasValue(Sole, value, q.id, x, d) <=> HasValue(Sole', value', q.id, x, d)
    <3>1. q.id # r.objectid \/ x # r.name
      BY <1>2, <2>1, <2>4, <2>5
    <3>2. QED
      BY <1>1, <2>3, <3>1, SoleApart
  <2>6. CASE o \notin Seen
    <3>1. Alike(Seen, Base(Sole, value), Base(Sole', value'))
      BY <2>5, <2>6, AlikeIs
    <3>2. QED
      BY <1>2, <3>1 DEF Clears, Same
  <2>7. CASE o \in Seen /\ r \in Sole
    <3>1. \A s \in Sole' : ~(s.objectid = o.id /\ s.name = r.name)
      BY <2>1, <2>3, <2>7 DEF Sole
    <3>2. \A d : ~HasValue(Sole', value', o.id, r.name, d)
      BY <3>1 DEF HasValue
    <3>3. Except(Seen, Base(Sole, value), Seen', Base(Sole', value'), o, r.name)
      BY <1>2, <2>5, BasesAre DEF Except, Agree
    <3>4. \A d : <<o.id, r.name, d>> \notin Base(Sole', value')
      BY <3>2, BasesAre
    <3>5. QED
      BY <2>2, <2>7, <3>3, <3>4 DEF Clears
  <2>8. CASE r \notin Sole
    <3>1. o.name \in blind'
      <4>1. PICK s \in prop : s.objectid = r.objectid /\ s.name = r.name /\ s # r
        BY <1>4, <2>8 DEF Sole
      <4>2. QED
        BY <1>1, <1>4, <2>1, <4>1 DEF TablesInv, RowsFlat
    <3>2. \A q \in Seen, x \in PropName : q.name # o.name =>
            Agree(Base(Sole, value), Base(Sole', value'), q, x)
      BY <2>5, BasesAre DEF Agree
    <3>3. Blurs(Seen, Base(Sole, value), Seen', Base(Sole', value'), o.name)
      BY <1>2, <3>2 DEF Blurs
    <3>4. QED
      BY <3>1, <3>3 DEF Clears
  <2>9. QED
    BY <2>6, <2>7, <2>8
<1>5. QED
  BY <1>1, <1>3, <1>4

\* The property that is inserted had no value before; it has that of the call,
\* unless its object is not found, or had a row of the property that was not.
LEMMA InsertPropShows ==
  ASSUME TablesInv, TablesInv', PropInserted,
         call' = None \/ call' = [call EXCEPT !.at = "update", !.propid = last'["prop"]]
  PROVE  \/ Moves(Seen, Base(Sole, value), Seen', Base(Sole', value'), blind')
         \/ \E o \in Seen :
              /\ o.id = call.objectid /\ call.name \in PropName
              /\ Except(Seen, Base(Sole, value), Seen', Base(Sole', value'), o, call.name)
              /\ \A d : <<o.id, call.name, d>> \notin Base(Sole, value)
              /\ \A d : <<o.id, call.name, d>> \in Base(Sole', value') <=>
                         \E v \in value : v.id = call.valueid /\ v.data = d
<1> DEFINE row == [id |-> last'["prop"], name |-> call.name,
                   objectid |-> call.objectid, valueid |-> call.valueid]
<1>1. /\ call # None /\ call.at = "prop" /\ object' = object /\ value' = value
      /\ prop' = prop \cup {row} /\ row.name = call.name /\ blind' = blind
      /\ row.objectid = call.objectid /\ row.valueid = call.valueid
  BY DEF PropInserted
<1> HIDE DEF row
<1>2. call \in Adding
  BY <1>1 DEF TablesInv, CallOK, Deleting, Creating, Overwriting
<1>3. call' = None \/ call'.at = "update"
  BY <1>2 DEF Adding
<1>4. Seen' = Seen /\ Seen \subseteq object
  <2>1. Visible' = Visible /\ Visible = object
    BY <1>1, <1>3, AllSeen DEF Visible
  <2>2. QED
    BY <2>1, FoundStay DEF Seen
<1>5. Fresh(call.objectid, call.name)
  BY <1>1 DEF TablesInv, CallReady, AddingAt
<1>6. PICK o \in object : o.id = call.objectid
  BY <1>5 DEF Fresh, FreshIn, Numbered
<1>7. \A q \in object : q.id = o.id => q = o
  BY DEF TablesInv, RowsFlat
<1>8. ASSUME NEW q \in Seen, NEW x \in PropName, q # o \/ x # call.name, NEW d
      PROVE  HasValue(Sole, value, q.id, x, d) <=> HasValue(Sole', value', q.id, x, d)
  <2>1. q.id # row.objectid \/ x # row.name
    BY <1>1, <1>4, <1>6, <1>7, <1>8
  <2>2. QED
    BY <1>1, <2>1, SoleApart
<1>9. CASE o \notin Seen
  <2>1. Alike(Seen, Base(Sole, value), Base(Sole', value'))
    BY <1>8, <1>9, AlikeIs
  <2>2. QED
    BY <1>4, <2>1 DEF Moves, Same
<1>10. CASE PropsOf(call.objectid, call.name) # {}
  <2>1. o.name \in blind'
    <3>1. \A q \in Numbered(call.objectid) : q = o
      BY <1>6, <1>7 DEF Numbered
    <3>2. QED
      BY <1>1, <1>5, <1>10, <3>1 DEF Fresh, FreshIn
  <2>2. \A q \in Seen, x \in PropName : q.name # o.name =>
          Agree(Base(Sole, value), Base(Sole', value'), q, x)
    BY <1>8, BasesAre DEF Agree
  <2>3. Blurs(Seen, Base(Sole, value), Seen', Base(Sole', value'), o.name)
    BY <1>4, <2>2 DEF Blurs
  <2>4. QED
    BY <2>1, <2>3 DEF Moves
<1>11. CASE o \in Seen /\ PropsOf(call.objectid, call.name) = {}
  <2>1. \A s \in prop : ~(s.objectid = o.id /\ s.name = call.name)
    BY <1>6, <1>11 DEF PropsOf
  <2>2. Except(Seen, Base(Sole, value), Seen', Base(Sole', value'), o, call.name)
    BY <1>4, <1>8, BasesAre DEF Except, Agree
  <2>3. \A d : ~HasValue(Sole, value, o.id, call.name, d)
    BY <2>1 DEF HasValue, Sole
  <2>4. \A s \in Sole' : s.objectid = o.id /\ s.name = call.name => s = row
    BY <1>1, <2>1 DEF Sole
  <2>5. row \in Sole'
    BY <1>1, <1>6, <2>1 DEF Sole
  <2>6. ASSUME NEW d
        PROVE  HasValue(Sole', value', o.id, call.name, d) <=>
                 \E v \in value : v.id = call.valueid /\ v.data = d
    BY <1>1, <1>6, <2>4, <2>5 DEF HasValue
  <2>7. /\ \A d : <<o.id, call.name, d>> \notin Base(Sole, value)
        /\ \A d : <<o.id, call.name, d>> \in Base(Sole', value') <=>
                   \E v \in value : v.id = call.valueid /\ v.data = d
    BY <2>3, <2>6, BasesAre
  <2>8. call.name \in PropName
    BY <1>2 DEF Adding
  <2>9. QED
    BY <1>6, <1>11, <2>2, <2>7, <2>8
<1>12. QED
  BY <1>9, <1>10, <1>11

-----------------------------------------------------------------------------
(* What clients find is what FrommelObjects promises *)

LEMMA NoneIsApart == NoneApart(Content) /\ NoneApart(Data)
BY DatabasesAssumption DEF NoneApart

LEMMA StatementMoves ==
  ASSUME TablesInv, TablesInv',
         \/ DeleteValues \/ DeleteRow \/ DeleteFails
         \/ UpdateValue \/ InsertPropFails \/ UpdateValueFails
         \/ \E n \in Name : InsertObject(n) \/ DeleteProps(n)
  PROVE  Moves(Seen, Base(Sole, value), Seen', Base(Sole', value'), blind')
BY DeletingShows, AddingShows, InsertObjectShows, DeletePropsHides DEF Moves

LEMMA MysqlMoves ==
  ASSUME \/ Mysql!Directory' = Mysql!Directory
         \/ \E n \in Name :
              \/ /\ Mysql!Directory[n] = None
                 /\ Mysql!Directory' = [Mysql!Directory EXCEPT ![n] = [p \in PropName |-> None]]
              \/ /\ Mysql!Directory[n] # None
                 /\ Mysql!Directory' = [Mysql!Directory EXCEPT ![n] = None]
         \/ \E n \in blind' : \A m \in Name \ {n} : Mysql!Directory'[m] = Mysql!Directory[m]
  PROVE  Mysql!ObjectStep
BY DEF Mysql!ObjectStep, Mysql!Objects!Next, Mysql!Objects!AddObject, Mysql!Objects!DeleteObject,
       Mysql!Objects!Absent, Mysql!Objects!Put

LEMMA MysqlMovesStep ==
  ASSUME TablesInv, IdsOnce, TablesInv', IdsOnce',
         Moves(Seen, Base(Sole, value), Seen', Base(Sole', value'), blind')
  PROVE  Mysql!ObjectStep
<1> DEFINE D == Mysql!Directory
           E == Mysql!Directory'
           F == Base(Sole, value)
           G == Base(Sole', value')
<1>1. /\ Describes(D, Seen, F, Content) /\ Describes(E, Seen', G, Content)
      /\ NoneApart(Content) /\ Moves(Seen, F, Seen', G, blind')
  BY MysqlDescribes, MysqlDescribesNext, NoneIsApart
<1> HIDE DEF D, E, F, G
<1>2. \/ E = D
      \/ \E n \in Name :
           \/ D[n] = None /\ E = [D EXCEPT ![n] = [p \in PropName |-> None]]
           \/ D[n] # None /\ E = [D EXCEPT ![n] = None]
      \/ \E n \in blind' : \A m \in Name \ {n} : E[m] = D[m]
  BY ONLY <1>1, MovesAre
<1>3. QED
  BY <1>2, MysqlMoves DEF D, E

LEMMA ExceptNothing ==
  ASSUME NEW V, NEW W, NEW F, NEW G, NEW o, NEW p, Except(V, F, W, G, o, p), Agree(F, G, o, p)
  PROVE  Same(V, F, W, G)
BY DEF Except, Same, Alike

\* A property has its first value, or another one.
LEMMA ValueSet ==
  ASSUME NEW D, NEW E, NEW V, NEW W, NEW F, NEW G, NEW values, NEW o \in V,
         NEW p \in PropName, NEW e, NoneApart(values), Named1(V), None \notin values,
         Describes(D, V, F, values), Describes(E, W, G, values),
         Except(V, F, W, G, o, p), <<o.id, p, e>> \in G
  PROVE  /\ o.name \in Name /\ D[o.name] # None
         /\ E = [D EXCEPT ![o.name] = [D[o.name] EXCEPT ![p] = e]]
         /\ (\A d : <<o.id, p, d>> \notin F) => D[o.name][p] = None
         /\ \A c \in values : <<o.id, p, c>> \in F => D[o.name][p] # None
<1>1. Holds(G, o.id, p, e)
  BY DEF Holds
<1>2. /\ o.name \in Name /\ D[o.name] # None
      /\ E = [D EXCEPT ![o.name] = [D[o.name] EXCEPT ![p] = e]]
  BY <1>1, DirSet
<1>3. /\ (\A d : <<o.id, p, d>> \notin F) => D[o.name][p] = None
      /\ \A c \in values : <<o.id, p, c>> \in F => D[o.name][p] # None
  BY DEF Describes
<1>4. QED
  BY <1>2, <1>3

LEMMA MysqlInsertPropStep ==
  ASSUME TablesInv, IdsOnce, MysqlReady, TablesInv', IdsOnce', InsertProp
  PROVE  Mysql!ObjectStep
<1> DEFINE D == Mysql!Directory
           E == Mysql!Directory'
           F == Base(Sole, value)
           G == Base(Sole', value')
<1>1. /\ Describes(D, Seen, F, Content) /\ Describes(E, Seen', G, Content)
      /\ Named1(Seen) /\ NoneApart(Content) /\ None \notin Content
  BY MysqlDescribes, MysqlDescribesNext, SeenOnce, NoneIsApart, DatabasesAssumption
<1>2. SUFFICES ASSUME NEW o \in Seen,
                      o.id = call.objectid, call.name \in PropName,
                      Except(Seen, F, Seen', G, o, call.name),
                      \A d : <<o.id, call.name, d>> \notin F,
                      \A d : <<o.id, call.name, d>> \in G <=>
                             \E v \in value : v.id = call.valueid /\ v.data = d
               PROVE  Mysql!ObjectStep
  BY InsertPropShows, MysqlMovesStep DEF InsertProp
<1>3. \A v \in value : v.id = call.valueid => v.data = Zero
  BY DEF InsertProp, PropInserted, MysqlReady, AtIn
<1> HIDE DEF F, G
<1>4. CASE \E v \in value : v.id = call.valueid
  <2>1. <<o.id, call.name, Zero>> \in G
    BY <1>2, <1>3, <1>4
  <2>2. /\ o.name \in Name /\ D[o.name] # None
        /\ E = [D EXCEPT ![o.name] = [D[o.name] EXCEPT ![call.name] = Zero]]
        /\ D[o.name][call.name] = None
    <3> HIDE DEF D, E
    <3>1. QED
      BY <1>1, <1>2, <2>1, ValueSet
  <2>3. Mysql!Objects!AddProperty(o.name, call.name)
    BY <2>2 DEF Mysql!Objects!AddProperty, Mysql!Objects!Absent, Mysql!Objects!Put
  <2>4. QED
    BY <1>2, <2>2, <2>3 DEF Mysql!ObjectStep, Mysql!Objects!Next
<1>5. CASE ~\E v \in value : v.id = call.valueid
  <2>1. Agree(F, G, o, call.name)
    BY <1>2, <1>5 DEF Agree
  <2>2. Same(Seen, F, Seen', G)
    BY <1>2, <2>1, ExceptNothing
  <2>3. E = D
    <3> HIDE DEF D, E
    <3>1. QED
      BY <1>1, <2>2, SameIs
  <2>4. QED
    BY <2>3 DEF Mysql!ObjectStep
<1>6. QED
  BY <1>4, <1>5

\* A write changes the value of one property of one object.
LEMMA MysqlWrites ==
  ASSUME TablesInv, IdsOnce, TablesInv', IdsOnce',
         NEW n \in Name, NEW p \in PropName, NEW d \in Content, Mysql!WriteProp(n, p, d)
  PROVE  /\ Mysql!Directory[n] # None /\ Mysql!Directory[n][p] # None
         /\ Mysql!Directory' = [Mysql!Directory EXCEPT ![n] = [Mysql!Directory[n] EXCEPT ![p] = d]]
<1> DEFINE D == Mysql!Directory
           E == Mysql!Directory'
           F == Base(Sole, value)
           G == Base(Sole', value')
           o == The(Named(n))
           r == The(PropsOf(o.id, p))
           v == The(ValuesOf(r))
           New(w) == IF w.id = v.id THEN [w EXCEPT !.data = d] ELSE w
<1>1. /\ Describes(D, Seen, F, Content) /\ Describes(E, Seen', G, Content)
      /\ Named1(Seen) /\ NoneApart(Content) /\ None \notin Content
  BY MysqlDescribes, MysqlDescribesNext, SeenOnce, NoneIsApart, DatabasesAssumption
<1>2. /\ call = None /\ call' = None /\ prop' = prop /\ object' = object
      /\ One(Named(n)) /\ Readable(o.id, p)
      /\ value' = {New(w) : w \in value}
  BY DEF Mysql!WriteProp, Mysql!One, Mysql!The, Mysql!Named, Mysql!Readable, Mysql!PropsOf,
         Mysql!ValuesOf, Mysql!ValueRowOf, One, The, Named, Readable, PropsOf, ValuesOf
<1>3. o \in object /\ o.name = n /\ \A q \in object : q.name = n => q = o
  <2>1. Named(n) = {o}
    BY <1>2, OneRow
  <2> HIDE DEF o
  <2>2. QED
    BY <2>1 DEF Named
<1>4. r \in Sole /\ r.objectid = o.id /\ r.name = p /\ v \in value /\ v.id = r.valueid
  <2>1. PropsOf(o.id, p) = {r} /\ ValuesOf(r) = {v}
    <3> HIDE DEF o
    <3>1. QED
      BY <1>2, OneRow DEF Readable
  <2> HIDE DEF o, r, v
  <2>2. QED
    BY <2>1 DEF PropsOf, ValuesOf, Sole
<1>5. ASSUME NEW w \in value
      PROVE  /\ New(w).id = w.id
             /\ w.id = v.id => New(w).data = d
             /\ w.id # v.id => New(w).data = w.data
  BY DEF TablesInv, TablesOK, ValueRow
<1> HIDE DEF New, o, r, v
<1>6. /\ \A w \in value : \E x \in value' :
           x.id = w.id /\ (w.id = v.id => x.data = d) /\ (w.id # v.id => x.data = w.data)
      /\ \A x \in value' : \E w \in value :
           x.id = w.id /\ (w.id = v.id => x.data = d) /\ (w.id # v.id => x.data = w.data)
  BY <1>2, <1>5
<1>7. /\ Seen' = Seen /\ o \in Seen /\ Seen \subseteq object
      /\ Sole' = Sole /\ Sole \subseteq prop
  <2>1. Visible' = Visible /\ Visible = object
    BY <1>2, AllSeen DEF Visible
  <2>2. QED
    BY <1>2, <1>3, <2>1, FoundStay DEF Seen, Sole
<1>8. \A s \in Sole : s.valueid = v.id => s = r
  BY <1>4, <1>7 DEF TablesInv, ValuesUnshared
<1>9. \A q \in object : q.id = o.id => q = o
  BY <1>3 DEF TablesInv, RowsFlat
<1>10. ASSUME NEW q \in Seen, NEW x \in PropName, q # o \/ x # p, NEW e
       PROVE  HasValue(Sole, value, q.id, x, e) <=> HasValue(Sole', value', q.id, x, e)
  <2>1. \A s \in Sole : s.objectid = q.id /\ s.name = x => s.valueid # v.id
    BY <1>4, <1>7, <1>8, <1>9, <1>10
  <2>2. ASSUME HasValue(Sole, value, q.id, x, e) PROVE HasValue(Sole', value', q.id, x, e)
    <3>1. PICK s \in Sole, w \in value :
            s.objectid = q.id /\ s.name = x /\ w.id = s.valueid /\ w.data = e
      BY <2>2 DEF HasValue
    <3>2. PICK y \in value' : y.id = w.id /\ y.data = w.data
      BY <1>6, <2>1, <3>1
    <3>3. QED
      BY <1>7, <3>1, <3>2 DEF HasValue
  <2>3. ASSUME HasValue(Sole', value', q.id, x, e) PROVE HasValue(Sole, value, q.id, x, e)
    <3>1. PICK s \in Sole, w \in value' :
            s.objectid = q.id /\ s.name = x /\ w.id = s.valueid /\ w.data = e
      BY <1>7, <2>3 DEF HasValue
    <3>2. PICK y \in value : y.id = w.id /\ y.data = w.data
      BY <1>6, <2>1, <3>1
    <3>3. QED
      BY <3>1, <3>2 DEF HasValue
  <2>4. QED
    BY <2>2, <2>3
<1>11. Except(Seen, F, Seen', G, o, p)
  BY <1>7, <1>10, BasesAre DEF Except, Agree
<1>12. <<o.id, p, d>> \in G
  <2>1. HasValue(Sole', value', o.id, p, d)
    BY <1>4, <1>6, <1>7 DEF HasValue
  <2>2. QED
    BY <2>1, BasesAre
<1>13. <<o.id, p, v.data>> \in F /\ v.data \in Content
  <2>1. HasValue(Sole, value, o.id, p, v.data)
    BY <1>4 DEF HasValue
  <2>2. QED
    BY <1>4, <2>1, BasesAre DEF TablesInv, TablesOK, ValueRow
<1> HIDE DEF D, E, F, G
<1>14. /\ D[o.name] # None /\ D[o.name][p] # None
       /\ E = [D EXCEPT ![o.name] = [D[o.name] EXCEPT ![p] = d]]
  <2>1. o \in Seen
    BY <1>7
  <2>2. /\ D[o.name] # None
        /\ E = [D EXCEPT ![o.name] = [D[o.name] EXCEPT ![p] = d]]
        /\ \A c \in Content : <<o.id, p, c>> \in F => D[o.name][p] # None
    BY ONLY <1>1, <1>11, <1>12, <2>1, p \in PropName, ValueSet
  <2>3. QED
    BY <1>13, <2>2
<1>15. QED
  BY <1>3, <1>14 DEF D, E

LEMMA MysqlWritesReadBack ==
  ASSUME TablesInv, IdsOnce, TablesInv', IdsOnce'
  PROVE  Mysql!WriteReadsBack
<1>1. ASSUME NEW n \in Name, NEW p \in PropName, NEW d \in Content, Mysql!WriteProp(n, p, d)
      PROVE  Mysql!Directory' = [Mysql!Directory EXCEPT ![n][p] = d]
  BY <1>1, MysqlWrites
<1>2. QED
  BY <1>1 DEF Mysql!WriteReadsBack

LEMMA MysqlTakesBack ==
  ASSUME TablesInv, IdsOnce, TablesInv', IdsOnce', TakeBackValue \/ TakeBackProp
  PROVE  Mysql!ObjectStep
<1> DEFINE D == Mysql!Directory
           E == Mysql!Directory'
           F == Base(Sole, value)
           G == Base(Sole', value')
<1>1. /\ Describes(D, Seen, F, Content) /\ Describes(E, Seen', G, Content)
      /\ Named1(Seen) /\ NoneApart(Content) /\ Clears(Seen, F, Seen', G, blind')
  BY MysqlDescribes, MysqlDescribesNext, NoneIsApart, SeenOnce, TakeBackValueShows, TakeBackPropShows
<1>2. Mysql!TakeBackValue \/ Mysql!TakeBackProp
  BY DEF TakeBackValue, TakeBackProp, Mysql!TakeBackValue, Mysql!TakeBackProp
<1> HIDE DEF D, E, F, G
<1>3. \/ E = D
      \/ \E n \in Name, p \in PropName :
           D[n] # None /\ E = [D EXCEPT ![n] = [D[n] EXCEPT ![p] = None]]
      \/ \E n \in blind' : \A m \in Name \ {n} : E[m] = D[m]
  BY ONLY <1>1, ClearsAre
<1>4. QED
  BY <1>2, <1>3 DEF D, E, Mysql!ObjectStep, Mysql!Objects!Put

LEMMA MysqlImplements ==
  ASSUME TablesInv, IdsOnce, MysqlReady, TablesInv', IdsOnce', Mysql!Next
  PROVE  Mysql!ObjectStep
<1>1. CASE Mysql!Statement \/ Mysql!Failure
  <2>1. Statement \/ Failure
    BY <1>1, SameStatements
  <2>2. CASE \/ DeleteValues \/ DeleteRow \/ DeleteFails
             \/ UpdateValue \/ InsertPropFails \/ UpdateValueFails
             \/ \E n \in Name : InsertObject(n) \/ DeleteProps(n)
    <3>1. Moves(Seen, Base(Sole, value), Seen', Base(Sole', value'), blind')
      BY <2>2, StatementMoves
    <3>2. QED
      BY <3>1, MysqlMovesStep
  <2>3. QED
    BY <2>1, <2>2, MysqlInsertPropStep, MysqlTakesBack DEF Statement, Failure
<1>2. CASE Mysql!Kill \/ Mysql!Read
  <2>1. UNCHANGED <<object, prop, value>> /\ call' = None
    BY <1>2 DEF Mysql!Kill, Mysql!Read, Mysql!tables, Mysql!vars
  <2>2. Moves(Seen, Base(Sole, value), Seen', Base(Sole', value'), blind')
    BY <2>1, EndShows
  <2>3. QED
    BY <2>2, MysqlMovesStep
<1>3. ASSUME NEW n \in Name, NEW p \in PropName, Mysql!AddProp(n, p)
      PROVE  Mysql!ObjectStep
  <2>1. /\ ValueInserted(The(Named(n)).id, Zero) /\ call = None
        /\ call' = [at |-> "prop", objectid |-> The(Named(n)).id, name |-> p,
                    valueid |-> last'["value"], propid |-> -1]
    BY <1>3 DEF Mysql!AddProp, Mysql!MayAddProp, Mysql!InsertValue, Mysql!ValueInserted,
                Mysql!Takes, Mysql!The, Mysql!Named, ValueInserted, Takes, The, Named
  <2>2. call'.at = "prop"
    BY <2>1
  <2>3. Same(Seen, Base(Sole, value), Seen', Base(Sole', value'))
    BY <2>1, <2>2, InsertValueShows
  <2>4. Moves(Seen, Base(Sole, value), Seen', Base(Sole', value'), blind')
    BY <2>3 DEF Moves
  <2>5. QED
    BY <2>4, MysqlMovesStep
<1>4. ASSUME NEW n \in Name, NEW p \in PropName, NEW d \in Content, Mysql!WriteProp(n, p, d)
      PROVE  Mysql!ObjectStep
  <2>1. Mysql!Objects!WriteProperty(n, p, d)
    BY <1>4, MysqlWrites
    DEF Mysql!Objects!WriteProperty, Mysql!Objects!Absent, Mysql!Objects!Put
  <2>2. QED
    BY <2>1 DEF Mysql!ObjectStep, Mysql!Objects!Next
<1>5. QED
  BY <1>1, <1>2, <1>3, <1>4 DEF Mysql!Next

\* The same with PostgreSQL, where a value is seen when its large object is
\* committed.
LEMMA PgsqlDescribed ==
  ASSUME TablesInv, LargeInv, IdsOnce, TablesInv', LargeInv', IdsOnce'
  PROVE  /\ Describes(Directory, Seen, Large(Base(Sole, value), kept), Data)
         /\ Describes(Directory', Seen', Large(Base(Sole', value'), kept'), Data)
         /\ Named1(Seen) /\ NoneApart(Data) /\ None \notin Data
BY PgsqlDescribes, PgsqlDescribesNext, SeenOnce, NoneIsApart, PgsqlAssumption

LEMMA PgsqlMoves ==
  ASSUME \/ Directory' = Directory
         \/ \E n \in Name :
              \/ Directory[n] = None /\ Directory' = [Directory EXCEPT ![n] = [p \in PropName |-> None]]
              \/ Directory[n] # None /\ Directory' = [Directory EXCEPT ![n] = None]
         \/ \E n \in blind' : \A m \in Name \ {n} : Directory'[m] = Directory[m]
  PROVE  ObjectStep
BY DEF ObjectStep, Objects!Next, Objects!AddObject, Objects!DeleteObject, Objects!Absent, Objects!Put

LEMMA PgsqlMovesStep ==
  ASSUME TablesInv, LargeInv, IdsOnce, TablesInv', LargeInv', IdsOnce', kept' = kept,
         Moves(Seen, Base(Sole, value), Seen', Base(Sole', value'), blind')
  PROVE  ObjectStep
<1> DEFINE D == Directory
           E == Directory'
           F == Large(Base(Sole, value), kept)
           G == Large(Base(Sole', value'), kept')
<1>1. /\ Describes(D, Seen, F, Data) /\ Describes(E, Seen', G, Data)
      /\ NoneApart(Data)
  BY PgsqlDescribed
<1>2. Moves(Seen, F, Seen', G, blind')
  BY LargeFollows
<1> HIDE DEF D, E, F, G
<1>3. \/ E = D
      \/ \E n \in Name :
           \/ D[n] = None /\ E = [D EXCEPT ![n] = [p \in PropName |-> None]]
           \/ D[n] # None /\ E = [D EXCEPT ![n] = None]
      \/ \E n \in blind' : \A m \in Name \ {n} : E[m] = D[m]
  BY ONLY <1>1, <1>2, MovesAre
<1>4. QED
  BY <1>3, PgsqlMoves DEF D, E

LEMMA PgsqlTakesBack ==
  ASSUME TablesInv, LargeInv, IdsOnce, TablesInv', LargeInv', IdsOnce', kept' = kept,
         TakeBackValue \/ TakeBackProp
  PROVE  ObjectStep
<1> DEFINE D == Directory
           E == Directory'
           F == Large(Base(Sole, value), kept)
           G == Large(Base(Sole', value'), kept')
<1>1. /\ Describes(D, Seen, F, Data) /\ Describes(E, Seen', G, Data)
      /\ Named1(Seen) /\ NoneApart(Data)
  BY PgsqlDescribed
<1>2. Clears(Seen, F, Seen', G, blind')
  BY LargeFollows, TakeBackValueShows, TakeBackPropShows
<1> HIDE DEF D, E, F, G
<1>3. \/ E = D
      \/ \E n \in Name, p \in PropName :
           D[n] # None /\ E = [D EXCEPT ![n] = [D[n] EXCEPT ![p] = None]]
      \/ \E n \in blind' : \A m \in Name \ {n} : E[m] = D[m]
  BY ONLY <1>1, <1>2, ClearsAre
<1>4. QED
  BY <1>3 DEF D, E, ObjectStep, Objects!Put

LEMMA PgsqlSame ==
  ASSUME TablesInv, LargeInv, IdsOnce, TablesInv', LargeInv', IdsOnce',
         Same(Seen, Large(Base(Sole, value), kept), Seen', Large(Base(Sole', value'), kept'))
  PROVE  Directory' = Directory
<1> DEFINE D == Directory
           E == Directory'
           F == Large(Base(Sole, value), kept)
           G == Large(Base(Sole', value'), kept')
<1>1. /\ Describes(D, Seen, F, Data) /\ Describes(E, Seen', G, Data)
      /\ Same(Seen, F, Seen', G)
  BY PgsqlDescribed
<1> HIDE DEF D, E, F, G
<1>2. E = D
  BY ONLY <1>1, SameIs
<1>3. QED
  BY <1>2 DEF D, E

\* A large object that no value refers to is not seen.
LEMMA LargeOther ==
  ASSUME NEW B, NEW K, NEW L, NEW oid, SameBut(K, L, oid), NEW o, NEW p,
         <<o.id, p, oid>> \notin B
  PROVE  Agree(Large(B, K), Large(B, L), o, p)
<1>1. ASSUME NEW d, NEW l, <<o.id, p, l.oid>> \in B PROVE l \in K <=> l \in L
  BY <1>1 DEF SameBut
<1>2. ASSUME NEW d
      PROVE  <<o.id, p, d>> \in Large(B, K) <=> <<o.id, p, d>> \in Large(B, L)
  BY <1>1 DEF Large
<1>3. QED
  BY <1>2 DEF Agree

LEMMA LargeHas ==
  ASSUME NEW B \in SUBSET (Id \X PropName \X Content), NEW K, NEW i, NEW p, NEW l \in K,
         <<i, p, l.oid>> \in B, l.data \in Data
  PROVE  <<i, p, l.data>> \in Large(B, K)
<1>1. <<i, p, l.oid>> \in Id \X PropName \X Content
  OBVIOUS
<1>2. <<i, p, l.data>> \in Id \X PropName \X Data
  BY <1>1
<1>3. QED
  BY <1>2 DEF Large

LEMMA LargeFrom ==
  ASSUME NEW B, NEW K, NEW i, NEW p, NEW d, <<i, p, d>> \in Large(B, K)
  PROVE  \E l \in K : <<i, p, l.oid>> \in B /\ l.data = d
BY DEF Large

LEMMA LargeUnused ==
  ASSUME TablesInv, LargeInv, IdsOnce, TablesInv', LargeInv', IdsOnce',
         UNCHANGED <<object, prop, value>>,
         call = None \/ call.at \notin {"values", "object"},
         call' = None \/ call'.at \notin {"values", "object"},
         NEW oid, SameBut(kept, kept', oid), \A v \in value : v.data # oid
  PROVE  Directory' = Directory
<1>1. Seen' = Seen /\ Sole' = Sole
  <2>1. Visible' = Visible
    BY AllSeen DEF Visible
  <2>2. QED
    BY <2>1, FoundStay
<1>2. \A i, p : ~HasValue(Sole, value, i, p, oid)
  BY DEF HasValue
<1>3. \A i, p : <<i, p, oid>> \notin Base(Sole, value)
  BY <1>2, BasesAre
<1>4. ASSUME NEW o \in Seen, NEW p \in PropName
      PROVE  Agree(Large(Base(Sole, value), kept), Large(Base(Sole, value), kept'), o, p)
  BY <1>3, LargeOther
<1>5. Same(Seen, Large(Base(Sole, value), kept), Seen', Large(Base(Sole', value'), kept'))
  BY <1>1, <1>4 DEF Same, Alike
<1>6. QED
  BY <1>5, PgsqlSame

LEMMA PgsqlInsertPropStep ==
  ASSUME TablesInv, LargeInv, IdsOnce, PgsqlReady, TablesInv', LargeInv', IdsOnce',
         PropInserted, kept' = kept,
         call' = None \/ call' = [call EXCEPT !.at = "update", !.propid = last'["prop"]]
  PROVE  ObjectStep
<1> DEFINE D == Directory
           E == Directory'
           B == Base(Sole, value)
           C == Base(Sole', value')
           F == Large(B, kept)
           G == Large(C, kept')
<1>1. /\ Describes(D, Seen, F, Data) /\ Describes(E, Seen', G, Data)
      /\ Named1(Seen) /\ NoneApart(Data) /\ None \notin Data
  BY PgsqlDescribed
<1>2. SUFFICES ASSUME NEW o \in Seen,
                      o.id = call.objectid, call.name \in PropName,
                      Except(Seen, B, Seen', C, o, call.name),
                      \A d : <<o.id, call.name, d>> \notin B,
                      \A d : <<o.id, call.name, d>> \in C <=>
                             \E v \in value : v.id = call.valueid /\ v.data = d
               PROVE  ObjectStep
  BY InsertPropShows, PgsqlMovesStep
<1>3. \A v \in value, l \in kept : v.id = call.valueid /\ l.oid = v.data => l.data = Zero
  BY DEF PropInserted, PgsqlReady, AtIn
<1>4. C \in SUBSET (Id \X PropName \X Content)
  BY BaseRows
<1> HIDE DEF B, C
<1>5. Except(Seen, F, Seen', G, o, call.name)
  BY <1>2, LargeAgrees DEF Except
<1>6. \A d : <<o.id, call.name, d>> \notin F
  BY <1>2, LargeAgrees
<1>7. CASE \E v \in value, l \in kept : v.id = call.valueid /\ l.oid = v.data
  <2>1. PICK v \in value, l \in kept : v.id = call.valueid /\ l.oid = v.data
    BY <1>7
  <2>2. l \in kept' /\ <<o.id, call.name, l.oid>> \in C /\ l.data = Zero /\ Zero \in Data
    BY <1>2, <1>3, <2>1, PgsqlAssumption
  <2>3. <<o.id, call.name, Zero>> \in G
    BY <1>4, <2>2, LargeHas
  <2> HIDE DEF F, G
  <2>4. /\ o.name \in Name /\ D[o.name] # None
        /\ E = [D EXCEPT ![o.name] = [D[o.name] EXCEPT ![call.name] = Zero]]
        /\ D[o.name][call.name] = None
    <3> HIDE DEF D, E
    <3>1. QED
      BY <1>1, <1>2, <1>5, <1>6, <2>3, ValueSet
  <2>5. Objects!AddProperty(o.name, call.name)
    BY <2>4 DEF Objects!AddProperty, Objects!Absent, Objects!Put
  <2>6. QED
    BY <1>2, <2>4, <2>5 DEF ObjectStep, Objects!Next
<1>8. CASE ~\E v \in value, l \in kept : v.id = call.valueid /\ l.oid = v.data
  <2>1. Agree(F, G, o, call.name)
    <3>1. \A l \in kept' : <<o.id, call.name, l.oid>> \notin C
      BY <1>2, <1>8
    <3>2. ASSUME NEW d, <<o.id, call.name, d>> \in G PROVE FALSE
      <4>1. \E l \in kept' : <<o.id, call.name, l.oid>> \in C /\ l.data = d
        BY <3>2, LargeFrom
      <4>2. QED
        BY <3>1, <4>1
    <3>3. QED
      BY <1>6, <3>2 DEF Agree
  <2> HIDE DEF F, G
  <2>2. Same(Seen, F, Seen', G)
    BY <1>2, <1>5, <2>1, ExceptNothing
  <2>3. E = D
    <3> HIDE DEF D, E
    <3>1. QED
      BY <1>1, <2>2, SameIs
  <2>4. QED
    BY <2>3 DEF ObjectStep
<1>9. QED
  BY <1>7, <1>8

\* A write that is committed changes the value of its property; one that is
\* not changes nothing.
LEMMA PgsqlFinishes ==
  ASSUME TablesInv, LargeInv, IdsOnce, PgsqlReady, Sync, TablesInv', LargeInv', IdsOnce', FinishWrite
  PROVE  \/ kept' = kept /\ Directory' = Directory
         \/ \E n \in Name :
              /\ Named(n) = Numbered(call.objectid)
              /\ call.name \in PropName /\ call.data \in Data
              /\ Directory[n] # None /\ Directory[n][call.name] # None
              /\ Directory' = [Directory EXCEPT ![n] = [Directory[n] EXCEPT ![call.name] = call.data]]
<1> DEFINE D == Directory
           E == Directory'
           B == Base(Sole, value)
           F == Large(B, kept)
           G == Large(B, kept')
           p == call.name
<1>1. /\ call # None /\ call.at = "finish" /\ call' = None /\ UNCHANGED tables
      /\ kept' = large \/ kept' = kept
  BY DEF FinishWrite, At, Commit
<1>2. prop' = prop /\ value' = value /\ object' = object /\ Sole' = Sole /\ Sole \subseteq prop
  BY <1>1, FoundStay DEF tables, Sole
<1>3. /\ Seen' = Seen /\ Seen \subseteq object
      /\ \A o \in object : (\A q \in object : q.name = o.name => q = o) => o \in Seen
  <2>1. Visible' = Visible /\ Visible = object
    BY <1>1, <1>2, AllSeen DEF Visible
  <2>2. QED
    BY <2>1, FoundStay DEF Seen
<1>4. call \in Overwriting
  BY <1>1 DEF TablesInv, CallOK, Adding, Deleting, Creating
<1>5. CASE kept' = kept
  <2>1. Alike(Seen, F, G)
    BY <1>5 DEF Alike, Agree
  <2>2. Same(Seen, F, Seen', Large(Base(Sole', value'), kept'))
    BY <1>2, <1>3, <2>1 DEF Same
  <2>3. QED
    BY <1>5, <2>2, PgsqlSame
<1>6. CASE kept' = large
  <2>1. /\ Describes(D, Seen, F, Data) /\ Describes(E, Seen', G, Data)
        /\ Named1(Seen) /\ NoneApart(Data) /\ None \notin Data
    BY <1>2, PgsqlDescribed
  <2>2. /\ <<call.objectid, p, call.oid>> \in B
        /\ \E l \in kept : l.oid = call.oid
        /\ SameBut(large, kept, call.oid)
        /\ \A l \in large : l.oid = call.oid => l.data = call.data
        /\ \E l \in large : l.oid = call.oid
    BY <1>1 DEF PgsqlReady, Sync, AtIn
  <2>3. HasValue(Sole, value, call.objectid, p, call.oid)
    BY <2>2, BasesAre
  <2>4. PICK r \in Sole, v \in value :
          r.objectid = call.objectid /\ r.name = p /\ v.id = r.valueid /\ v.data = call.oid
    BY <2>3 DEF HasValue
  <2>5. PICK o \in object : o.id = call.objectid
    BY <1>2, <2>4 DEF TablesInv, RowsHaveOwners, Numbered
  <2>6. \A q \in object : q.id = o.id \/ q.name = o.name => q = o
    BY <1>1, <2>5 DEF TablesInv, RowsFlat, CallReady, Alone
  <2>7. p \in PropName /\ call.data \in Data
    BY <1>4 DEF Overwriting
  <2>8. ASSUME NEW q \in Seen, NEW x \in PropName, q # o \/ x # p
        PROVE  Agree(F, G, q, x)
    <3>1. ~HasValue(Sole, value, q.id, x, call.oid)
      <4>1. SUFFICES ASSUME NEW s \in Sole, NEW w \in value,
                            s.objectid = q.id, s.name = x, w.id = s.valueid, w.data = call.oid
                     PROVE  FALSE
        BY DEF HasValue
      <4>2. w = v
        BY <2>4, <4>1 DEF LargeInv, ValuesDistinct
      <4>3. s = r
        BY <1>2, <2>4, <4>1, <4>2 DEF TablesInv, ValuesUnshared
      <4>4. QED
        BY <1>3, <2>4, <2>5, <2>6, <2>8, <4>1, <4>3
    <3>2. <<q.id, x, call.oid>> \notin B
      BY <3>1, BasesAre
    <3>3. SameBut(kept, kept', call.oid)
      BY <1>6, <2>2 DEF SameBut
    <3> HIDE DEF B
    <3>4. QED
      BY <3>2, <3>3, LargeOther
  <2>9. Except(Seen, F, Seen', G, o, p)
    BY <1>3, <2>8 DEF Except
  <2>10. B \in SUBSET (Id \X PropName \X Content)
    BY BaseRows
  <2> HIDE DEF B
  <2>11. <<o.id, p, call.data>> \in G
    <3>1. PICK l \in kept' : l.oid = call.oid /\ l.data = call.data
      BY <1>6, <2>2
    <3>2. <<o.id, p, l.oid>> \in B /\ l.data \in Data
      BY <2>2, <2>5, <2>7, <3>1
    <3>3. QED
      BY <2>10, <3>1, <3>2, LargeHas
  <2>12. PICK c \in Data : <<o.id, p, c>> \in F
    <3>1. PICK l \in kept : l.oid = call.oid
      BY <2>2
    <3>2. l.data \in Data
      BY <2>4, <3>1 DEF LargeInv, LargeObject, ValuesWritten
    <3>3. <<o.id, p, l.oid>> \in B
      BY <2>2, <2>5, <3>1
    <3>4. QED
      BY <2>10, <3>2, <3>3, LargeHas
  <2> HIDE DEF D, E, F, G
  <2>13. /\ o.name \in Name /\ D[o.name] # None /\ D[o.name][p] # None
         /\ E = [D EXCEPT ![o.name] = [D[o.name] EXCEPT ![p] = call.data]]
    <3> HIDE DEF p
    <3>1. o \in Seen
      BY <1>3, <2>6
    <3>2. /\ o.name \in Name /\ D[o.name] # None
          /\ E = [D EXCEPT ![o.name] = [D[o.name] EXCEPT ![p] = call.data]]
          /\ \A d \in Data : <<o.id, p, d>> \in F => D[o.name][p] # None
      BY ONLY <2>1, <2>7, <2>9, <2>11, <3>1, ValueSet
    <3>3. QED
      BY <2>12, <3>2
  <2>14. Named(o.name) = {o} /\ Numbered(call.objectid) = {o}
    BY <2>5, <2>6 DEF Named, Numbered
  <2>15. QED
    BY <2>7, <2>13, <2>14 DEF D, E
<1>7. QED
  BY <1>1, <1>5, <1>6

LEMMA PgsqlCreates ==
  ASSUME TablesInv, LargeInv, IdsOnce, Sync, TablesInv', LargeInv', IdsOnce',
         CreateLarge \/ CommitLarge
  PROVE  Directory' = Directory
<1>1. CASE CreateLarge
  <2> DEFINE new == [oid |-> last'["large"], data |-> Blank]
  <2>1. /\ call # None /\ call.at = "create" /\ call' = [call EXCEPT !.at = "write"]
        /\ Takes("large") /\ UNCHANGED <<object, prop, value>>
        /\ large' = large \cup {new} /\ new.oid = last'["large"]
        /\ kept' = kept \/ kept' = large'
    BY <1>1 DEF CreateLarge, At
  <2> HIDE DEF new
  <2>2. call'.at = "write"
    BY <2>1, CreatingCall DEF Creating
  <2>3. large = kept
    BY <2>1 DEF Sync, AtIn
  <2>4. SameBut(kept, kept', last'["large"])
    BY <2>1, <2>3 DEF SameBut
  <2>5. last'["large"] = last["large"] + 1 /\ last["large"] \in Nat
    BY <2>1, NextNumber, Counters DEF TablesInv, NumbersGiven
  <2>6. \A v \in value : v.data # last'["large"]
    <3>1. \A v \in value : v.data \in Nat /\ v.data <= last["large"]
      BY PgsqlAssumption, SqlAssumption, Counters
      DEF TablesInv, TablesOK, ValueRow, LargeInv, ValuesDistinct
    <3>2. QED
      BY <2>5, <3>1
  <2>7. QED
    BY <2>1, <2>2, <2>4, <2>6, LargeUnused
<1>2. CASE CommitLarge
  <2>1. /\ call # None /\ call.at = "commit" /\ call' = [call EXCEPT !.at = "insert"]
        /\ UNCHANGED <<object, prop, value>>
        /\ kept' = kept \/ kept' = large
    BY <1>2 DEF CommitLarge, At, Commit, tables
  <2>2. call'.at = "insert"
    BY <2>1, CreatingCall DEF Creating
  <2>3. SameBut(kept, kept', last["large"])
    BY <2>1 DEF Sync, AtIn, SameBut
  <2>4. \A v \in value : v.data # last["large"]
    BY <2>1 DEF LargeInv, LargeReady
  <2>5. QED
    BY <2>1, <2>2, <2>3, <2>4, LargeUnused
<1>3. QED
  BY <1>1, <1>2

LEMMA PgsqlImplements ==
  ASSUME TablesInv, LargeInv, IdsOnce, PgsqlReady, Sync, TablesInv', LargeInv', IdsOnce', Next
  PROVE  ObjectStep
<1>1. ASSUME kept' = kept, UNCHANGED <<object, prop, value>>,
             call' = None \/ call'.at \notin {"values", "object"}
      PROVE  ObjectStep
  BY <1>1, EndShows, PgsqlMovesStep
<1>2. ASSUME NEW n \in Name, AddObject(n) PROVE ObjectStep
  <2>1. InsertObject(n) /\ kept' = kept
    BY <1>2 DEF AddObject, pg
  <2>2. QED
    BY <2>1, InsertObjectShows, PgsqlMovesStep
<1>3. ASSUME NEW n \in Name, NEW p \in PropName,
             AddProp(n, p) \/ \E d \in Data : WriteProp(n, p, d)
      PROVE  ObjectStep
  <2>1. UNCHANGED <<object, prop, value>> /\ kept' = kept /\ call'.at \in {"create", "overwrite"}
    BY <1>3 DEF AddProp, WriteProp, Begin, tables
  <2>2. QED
    BY <1>1, <2>1
<1>4. CASE CreateLarge \/ CommitLarge
  BY <1>4, PgsqlCreates DEF ObjectStep
<1>5. CASE WriteLarge
  <2>1. /\ call # None /\ call.at = "write" /\ call' = [call EXCEPT !.at = "commit"]
        /\ UNCHANGED <<object, prop, value>> /\ kept' = kept
    BY <1>5 DEF WriteLarge, At, tables
  <2>2. call'.at = "commit"
    BY <2>1, CreatingCall DEF Creating
  <2>3. QED
    BY <1>1, <2>1, <2>2
<1>6. CASE Overwrite
  <2>1. /\ call # None /\ call.at = "overwrite" /\ call' = [call EXCEPT !.at = "finish"]
        /\ UNCHANGED <<object, prop, value>> /\ kept' = kept
    BY <1>6 DEF Overwrite, At, tables
  <2>2. call \in Overwriting
    BY <2>1 DEF TablesInv, CallOK, Adding, Deleting, Creating
  <2>3. call'.at = "finish"
    BY <2>1, <2>2 DEF Overwriting
  <2>4. QED
    BY <1>1, <2>1, <2>3
<1>7. CASE AddValue
  <2>1. kept' = kept /\ call # None /\ call.at = "insert"
    BY <1>7 DEF AddValue, At, pg
  <2>2. CASE call' = None /\ UNCHANGED tables
    BY <1>1, <2>1, <2>2 DEF tables
  <2>3. CASE ValueInserted(call.objectid, last["large"]) /\ (call' = None \/ call'.at = "prop")
    <3>1. Same(Seen, Base(Sole, value), Seen', Base(Sole', value'))
      BY <2>1, <2>3, InsertValueShows
    <3>2. Moves(Seen, Base(Sole, value), Seen', Base(Sole', value'), blind')
      BY <3>1 DEF Moves
    <3>3. QED
      BY <2>1, <3>2, PgsqlMovesStep
  <2>4. QED
    BY <1>7, <2>2, <2>3 DEF AddValue, InsertValue
<1>8. CASE AddRow
  <2>1. kept' = kept
    BY <1>8 DEF AddRow, pg
  <2>2. CASE UpdateValue \/ InsertPropFails \/ UpdateValueFails
    <3>1. Moves(Seen, Base(Sole, value), Seen', Base(Sole', value'), blind')
      BY <2>2, StatementMoves
    <3>2. QED
      BY <2>1, <3>1, PgsqlMovesStep
  <2>3. CASE InsertProp \/ (PropInserted /\ call' = None)
    BY <2>1, <2>3, PgsqlInsertPropStep DEF InsertProp
  <2>4. QED
    BY <1>8, <2>1, <2>2, <2>3, PgsqlTakesBack DEF AddRow
<1>9. CASE FinishWrite
  <2>1. CASE Directory' = Directory
    BY <2>1 DEF ObjectStep
  <2>2. ASSUME NEW n \in Name, call.name \in PropName, call.data \in Data,
               Directory[n] # None, Directory[n][call.name] # None,
               Directory' = [Directory EXCEPT ![n] = [Directory[n] EXCEPT ![call.name] = call.data]]
        PROVE  ObjectStep
    <3>1. Objects!WriteProperty(n, call.name, call.data)
      BY <2>2 DEF Objects!WriteProperty, Objects!Absent, Objects!Put
    <3>2. QED
      BY <2>2, <3>1 DEF ObjectStep, Objects!Next
  <2>3. QED
    BY <1>9, <2>1, <2>2, PgsqlFinishes
<1>10. CASE LargeObjectFails \/ Restart
  BY <1>1, <1>10 DEF LargeObjectFails, Restart, tables
<1>11. CASE DeleteObj
  <2>1. kept' = kept
    BY <1>11 DEF DeleteObj, pg
  <2>2. Moves(Seen, Base(Sole, value), Seen', Base(Sole', value'), blind')
    BY <1>11, StatementMoves DEF DeleteObj
  <2>3. QED
    BY <2>1, <2>2, PgsqlMovesStep
<1>12. CASE Read
  <2>1. UNCHANGED <<object, prop, value>> /\ kept' = kept /\ call' = None
    BY <1>12 DEF Read, vars, pg, tables
  <2>2. QED
    BY <1>1, <2>1
<1>13. QED
  BY <1>2, <1>3, <1>4, <1>5, <1>6, <1>7, <1>8, <1>9, <1>10, <1>11, <1>12 DEF Next

LEMMA PgsqlWritesReadBack ==
  ASSUME TablesInv, LargeInv, IdsOnce, PgsqlReady, Sync, TablesInv', LargeInv', IdsOnce'
  PROVE  WriteReadsBack
<1>1. ASSUME FinishWrite, kept' # kept
      PROVE  \E n \in Name :
               /\ Named(n) = Numbered(call.objectid)
               /\ Directory' = [Directory EXCEPT ![n][call.name] = call.data]
  BY <1>1, PgsqlFinishes
<1>2. QED
  BY <1>1 DEF WriteReadsBack

LEMMA DirStep ==
  ASSUME DirInv, DirInv', [DbNext]_dbvars
  PROVE  /\ UNCHANGED dbvars \/ (IF backend = "mysql" THEN Mysql!ObjectStep ELSE ObjectStep)
         /\ UNCHANGED dbvars \/ (IF backend = "mysql" THEN Mysql!WriteReadsBack ELSE WriteReadsBack)
<1>1. CASE backend = "mysql" /\ Mysql!Next /\ UNCHANGED <<pg, backend>>
  BY <1>1, MysqlImplements, MysqlWritesReadBack DEF DirInv, DbInv
<1>2. CASE backend = "pgsql" /\ Next /\ UNCHANGED backend
  BY <1>2, PgsqlImplements, PgsqlWritesReadBack DEF DirInv, DbInv
<1>3. QED
  BY <1>1, <1>2 DEF DbNext

\* At first no object is found.
LEMMA DirInit ==
  ASSUME DbInit
  PROVE  Mysql!Objects!Init /\ Objects!Init
<1>1. object = {}
  BY DEF DbInit, Init, TablesInit
<1>2. \A n : ~Mysql!One(Mysql!Present(n)) /\ ~One(Present(n))
  BY <1>1 DEF Mysql!One, Mysql!Present, Mysql!Named, One, Present, Named
<1>3. Mysql!Directory = [n \in Name |-> None] /\ Directory = [n \in Name |-> None]
  BY <1>2 DEF Mysql!Directory, Directory
<1>4. QED
  BY <1>3 DEF Mysql!Objects!Init, Objects!Init

\* The types that the other invariants do not say.
TypeInv ==
  /\ tx \in {"none", "open", "aborted"}
  /\ backend \in {"mysql", "pgsql"}
  /\ backend = "mysql" => call = None \/ call \in Adding \cup Deleting

LEMMA TypeInvNext ==
  ASSUME DbInv, DbInv', TypeInv, [DbNext]_dbvars
  PROVE  TypeInv'
<1>1. CASE backend = "mysql" /\ Mysql!Next /\ UNCHANGED <<pg, backend>>
  <2>1. ~AtIn({"create", "write", "commit", "insert", "overwrite", "finish"})'
    <3>1. CASE Mysql!Statement \/ Mysql!Failure
      BY <3>1, SameStatements, AfterStatement DEF DbInv, AtIn, AddingAt
    <3>2. CASE Mysql!Kill \/ Mysql!Read
      BY <3>2 DEF Mysql!Kill, Mysql!Read, Mysql!vars, AtIn
    <3>3. ASSUME NEW n \in Name, NEW p \in PropName,
                 Mysql!AddProp(n, p) \/ \E d \in Content : Mysql!WriteProp(n, p, d)
          PROVE  call' = None \/ call'.at = "prop"
      BY <3>3 DEF Mysql!AddProp, Mysql!InsertValue, Mysql!WriteProp
    <3>4. QED
      BY <1>1, <3>1, <3>2, <3>3 DEF Mysql!Next, AtIn
  <2>2. call' = None \/ call' \in Adding \cup Deleting
    BY <2>1, ACall DEF DbInv, TablesInv, CallOK, Creating, Overwriting, AtIn
  <2>3. QED
    BY <1>1, <2>2 DEF TypeInv, pg
<1>2. CASE backend = "pgsql" /\ Next /\ UNCHANGED backend
  <2>1. tx' \in {"none", "open", "aborted"}
    BY <1>2 DEF TypeInv, Next, AddObject, AddProp, WriteProp, Begin, CreateLarge, WriteLarge,
                CommitLarge, Commit, AddValue, AddRow, Overwrite, FinishWrite,
                LargeObjectFails, DeleteObj, Read, Restart, pg, vars
  <2>2. QED
    BY <1>2, <2>1 DEF TypeInv
<1>3. CASE UNCHANGED dbvars
  BY <1>3 DEF TypeInv, dbvars, vars, pg, Adding, Deleting
<1>4. QED
  BY <1>1, <1>2, <1>3 DEF DbNext

\* Every variable keeps its type, in either database.
THEOREM DbTypeCorrect == DbSpec => []DbTypeOK
<1>1. DbInit => TypeInv
  BY DEF DbInit, Init, TypeInv
<1>2. DbInv /\ DbInv' /\ TypeInv /\ [DbNext]_dbvars => TypeInv'
  BY TypeInvNext
<1>3. DbInv /\ TypeInv => DbTypeOK
  <2> SUFFICES ASSUME DbInv, TypeInv PROVE DbTypeOK
    OBVIOUS
  <2>1. CASE backend = "mysql"
    <3>1. Mysql!TablesOK /\ (call = None \/ call \in Mysql!Adding \cup Mysql!Deleting)
      BY <2>1 DEF DbInv, TypeInv, TablesInv, TablesOK, Mysql!TablesOK, Mysql!Adding, Mysql!Deleting,
                  Adding, Deleting, Mysql!ObjectRow, Mysql!PropRow, Mysql!ValueRow, Mysql!Id,
                  ObjectRow, PropRow, ValueRow, Id
    <3>2. QED
      BY <2>1, <3>1 DEF DbTypeOK, Mysql!TypeOK
  <2>2. CASE backend = "pgsql"
    BY <2>2 DEF DbInv, TypeInv, TablesInv, CallOK, LargeInv, DbTypeOK, TypeOK
  <2>3. QED
    BY <2>1, <2>2 DEF TypeInv
<1>4. QED
  BY <1>1, <1>2, <1>3, DbInvHolds, PTL DEF DbSpec

\* What a client writes to a property is what a read by name finds, in either
\* database: with PostgreSQL a write goes to the large object of that property
\* alone, and shows when its transaction is committed.
THEOREM DbWritesReadBack == DbSpec => WritesReadBack
<1>1. DirInv /\ DirInv' /\ [DbNext]_dbvars =>
        [IF backend = "mysql" THEN Mysql!WriteReadsBack ELSE WriteReadsBack]_dbvars
  BY DirStep
<1>2. QED
  BY <1>1, DirInvHolds, PTL DEF DbSpec, WritesReadBack

\* What clients find by name is the abstract bindery, step by step: whichever
\* statement fails, the SELECT of an add among them, and whenever the server is
\* killed, a call changes one entry as the abstract bindery would, or nothing.
\* Only the entries of objects with a row that was added again change otherwise,
\* each by itself.
THEOREM DbImplementsObjects == DbSpec => ImplementsObjects
<1>1. DirInv /\ DirInv' /\ [DbNext]_dbvars =>
        [IF backend = "mysql" THEN Mysql!ObjectStep ELSE ObjectStep]_dbvars
  BY DirStep
<1>2. DbInit => Mysql!Objects!Init /\ Objects!Init
  BY DirInit
<1>3. QED
  BY <1>1, <1>2, DirInvHolds, PTL DEF DbSpec, ImplementsObjects
=============================================================================
