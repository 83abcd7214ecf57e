--------------------------- MODULE FrommelLoginsProofs ---------------------------
(***************************************************************************)
(* What holds of logins and rights for every number of connections, every  *)
(* set of objects, properties and passwords.                               *)
(***************************************************************************)
EXTENDS FrommelLogins, SequenceTheorems, TLAPS

Row == [id : Id, name : Name, access : Level]

\* Numbers are given once, and a connection remembers one that was given.
NumbersOnce ==
  /\ objects \in Seq(Row) /\ given \subseteq Id
  /\ \A o \in Object : o.id \in given
  /\ \A o, q \in Object : o.id = q.id => o = q

SessionsKnow ==
  /\ status \in [Conn -> {"unused", "attached", "loggedin"}]
  /\ object_id \in [Conn -> given \cup {NoId, Nobody}]
  /\ object_supervisor \in [Conn -> BOOLEAN]
  /\ login \in [Conn -> Name \cup {NoName}]
  /\ \A c \in Conn, o \in Object : o.id = object_id[c] => o.name = login[c]
  /\ \A c \in Conn : object_supervisor[c] => object_id[c] # Nobody

LoginsInv == NumbersOnce /\ SessionsKnow

-----------------------------------------------------------------------------
LEMMA Numbers ==
  Nobody \notin Id /\ NoId \notin Id /\ 1 \in Id /\ Nobody # NoId
BY LoginsAssumption DEF Nobody, NoId, Id

LEMMA TheIs ==
  ASSUME NEW n \in Names
  PROVE  The(n) \in Object /\ The(n).name = n
BY DEF Names, The

\* A connection that is logged out or wiped.
LEMMA KeepNobody ==
  ASSUME LoginsInv, NEW c \in Conn, NEW s \in {"unused", "attached"}, NEW i \in {NoId, Nobody},
         status' = [status EXCEPT ![c] = s],
         object_id' = [object_id EXCEPT ![c] = i],
         object_supervisor' = [object_supervisor EXCEPT ![c] = FALSE],
         login' = [login EXCEPT ![c] = NoName],
         UNCHANGED bindery
  PROVE  LoginsInv'
<1>1. Object' = Object /\ given' = given /\ objects' = objects
  BY DEF bindery, Object
<1>2. NumbersOnce'
  BY <1>1 DEF LoginsInv, NumbersOnce
<1>3. \A o \in Object : o.id # i
  BY Numbers DEF LoginsInv, NumbersOnce
<1>4. SessionsKnow'
  BY <1>1, <1>3 DEF LoginsInv, SessionsKnow
<1>5. QED
  BY <1>2, <1>4 DEF LoginsInv

LEMMA KeepLogin ==
  ASSUME LoginsInv, NEW c \in Conn, NEW n \in Name, NEW proof, KeyedLogin(c, n, proof)
  PROVE  LoginsInv'
<1>1. /\ n \in Names /\ Object' = Object /\ given' = given /\ objects' = objects
      /\ status' = [status EXCEPT ![c] = "loggedin"]
      /\ object_id' = [object_id EXCEPT ![c] = The(n).id]
      /\ object_supervisor' = [object_supervisor EXCEPT ![c] = IsSupervisor(The(n).id)]
      /\ login' = [login EXCEPT ![c] = n]
  BY DEF KeyedLogin, bindery, Object
<1>2. The(n) \in Object /\ The(n).name = n
  BY <1>1, TheIs
<1>3. The(n).id \in given /\ The(n).id # Nobody /\ \A o \in Object : o.id = The(n).id => o.name = n
  BY <1>2, Numbers DEF LoginsInv, NumbersOnce
<1>4. IsSupervisor(The(n).id) \in BOOLEAN
  BY DEF IsSupervisor, IsInSet
<1>5. NumbersOnce'
  BY <1>1 DEF LoginsInv, NumbersOnce
<1>6. SessionsKnow'
  BY <1>1, <1>3, <1>4 DEF LoginsInv, SessionsKnow
<1>7. QED
  BY <1>5, <1>6 DEF LoginsInv

\* Calls on properties do not touch the objects.
LEMMA KeepObjects ==
  ASSUME LoginsInv, UNCHANGED <<objects, given, session>>
  PROVE  LoginsInv'
BY DEF LoginsInv, NumbersOnce, SessionsKnow, Object, session

LEMMA KeepCreate ==
  ASSUME LoginsInv, NEW c \in Conn, NEW n \in Name, NEW a \in Access["object"], CreateObj(c, n, a)
  PROVE  LoginsInv'
<1>1. PICK i \in NewIds :
        /\ objects' = Append(objects, [id |-> i, name |-> n, access |-> a])
        /\ given' = given \cup {i}
  BY DEF CreateObj
<1> DEFINE new == [id |-> i, name |-> n, access |-> a]
<1>2. i \in Id /\ i \notin given
  BY DEF NewIds
<1>3. a \in Level
  BY LoginsAssumption
<1>4. new \in Row /\ new.id = i /\ new.name = n
  BY <1>2, <1>3 DEF Row
<1>5. objects' = Append(objects, new)
  BY <1>1
<1> HIDE DEF new
<1>6. objects' \in Seq(Row) /\ \A o \in Object' : o \in Object \/ o = new
  BY <1>4, <1>5 DEF LoginsInv, NumbersOnce, Object
<1>7. UNCHANGED session
  BY DEF CreateObj
<1>8. NumbersOnce'
  BY <1>1, <1>2, <1>4, <1>6 DEF LoginsInv, NumbersOnce
<1>9. \A d \in Conn : object_id[d] # i
  BY <1>2, Numbers DEF LoginsInv, SessionsKnow
<1>10. SessionsKnow'
  BY <1>1, <1>4, <1>6, <1>7, <1>9 DEF LoginsInv, SessionsKnow, session
<1>11. QED
  BY <1>8, <1>10 DEF LoginsInv

LEMMA KeepDelete ==
  ASSUME LoginsInv, NEW c \in Conn, NEW n \in DOMAIN objects, DeleteObj(c, n)
  PROVE  LoginsInv'
<1> DEFINE last  == Len(objects)
           moved == [objects EXCEPT ![n] = objects[last]]
<1>1. objects' = SubSeq(moved, 1, last - 1) /\ UNCHANGED <<given, session>>
  BY DEF DeleteObj, Without
<1>2. objects \in Seq(Row) /\ last \in Nat /\ n \in 1..last /\ DOMAIN objects = 1..last
  BY DEF LoginsInv, NumbersOnce
<1>3. moved \in Seq(Row) /\ Len(moved) = last
  BY <1>2
<1>4. \A k \in 1..last : moved[k] \in Object
  BY <1>2 DEF Object
<1> HIDE DEF moved
<1>5. /\ objects' \in Seq(Row) /\ DOMAIN objects' = 1..last-1
      /\ \A k \in 1..last-1 : objects'[k] = moved[k]
  BY <1>1, <1>2, <1>3
<1>6. \A o \in Object' : o \in Object
  BY <1>2, <1>4, <1>5 DEF Object
<1>7. NumbersOnce'
  BY <1>1, <1>5, <1>6 DEF LoginsInv, NumbersOnce
<1>8. SessionsKnow'
  BY <1>1, <1>6 DEF LoginsInv, SessionsKnow, session
<1>9. QED
  BY <1>7, <1>8 DEF LoginsInv

LEMMA KeepChanges ==
  ASSUME LoginsInv, NEW c \in Conn, Changes(c)
  PROVE  LoginsInv'
<1>1. CASE \E n \in Name, a \in Access["object"] : CreateObj(c, n, a)
  BY <1>1, KeepCreate
<1>2. CASE \E n \in DOMAIN objects : DeleteObj(c, n)
  BY <1>2, KeepDelete
<1>3. CASE UNCHANGED <<objects, given, session>>
  BY <1>3, KeepObjects
<1>4. QED
  BY <1>1, <1>2, <1>3 DEF Changes, CreateProp, AddObjToSet, DeleteObjFromSet, WriteProp, KeyedChangePwd

LEMMA LoginsInvInit ==
  ASSUME Init
  PROVE  LoginsInv
<1> DEFINE root == [id |-> 1, name |-> Root, access |-> <<1, 3>>]
<1>1. root \in Row /\ root.id = 1
  BY LoginsAssumption, Numbers DEF Row, Level
<1>2. objects = <<root>>
  BY DEF Init
<1> HIDE DEF root
<1>3. objects \in Seq(Row) /\ Object = {root}
  BY <1>1, <1>2 DEF Object
<1>4. NumbersOnce
  BY <1>1, <1>3, Numbers DEF Init, NumbersOnce
<1>5. SessionsKnow
  BY <1>1, <1>3, Numbers DEF Init, SessionsKnow, NoId
<1>6. QED
  BY <1>4, <1>5 DEF LoginsInv

LEMMA LoginsInvNext ==
  ASSUME LoginsInv, [Next]_vars
  PROVE  LoginsInv'
<1>1. ASSUME NEW c \in Conn, Logout(c) PROVE LoginsInv'
  BY <1>1, KeepNobody DEF Logout
<1>2. ASSUME NEW c \in Conn, Wipe(c) PROVE LoginsInv'
  BY <1>2, KeepNobody DEF Wipe
<1>3. ASSUME NEW c \in Conn, NEW d \in Conn, ClearConn(c, d) PROVE LoginsInv'
  BY <1>2, <1>3 DEF ClearConn
<1>4. CASE UNCHANGED vars
  BY <1>4, KeepObjects DEF vars, bindery
<1>5. QED
  BY <1>1, <1>2, <1>3, <1>4, KeepLogin, KeepChanges DEF Next

LEMMA LoginsInvHolds == Spec => []LoginsInv
<1>1. Init => LoginsInv
  BY LoginsInvInit
<1>2. LoginsInv /\ [Next]_vars => LoginsInv'
  BY LoginsInvNext
<1>3. QED
  BY <1>1, <1>2, PTL DEF Spec

\* The server never reports a connection under a name that it has not logged in
\* with: the number a connection keeps is not given to another object when its
\* own is deleted, nor kept when the slot is given to another client.
THEOREM StationsAreTrue == Spec => []StationInfoIsTrue
<1>1. ASSUME LoginsInv PROVE StationInfoIsTrue
  <2>1. SUFFICES ASSUME NEW c \in Conn, object_id[c] \in Ids
                 PROVE  (CHOOSE o \in Object : o.id = object_id[c]).name = login[c]
    BY DEF StationInfoIsTrue, LoggedName
  <2>2. \E o \in Object : o.id = object_id[c]
    BY <2>1 DEF Ids
  <2>3. QED
    BY <1>1, <2>2 DEF LoginsInv, SessionsKnow
<1>2. QED
  BY <1>1, LoginsInvHolds, PTL

\* What ncp_handle_objaccesslevel reports is what bind_check_access grants, for
\* connections whose object was deleted, too: a supervisor always has a number.
THEOREM LevelsAreGranted == Spec => []LevelIsGranted
<1>1. ASSUME LoginsInv PROVE LevelIsGranted
  <2>1. SUFFICES ASSUME NEW c \in Conn, NEW i \in Ids, NEW level \in 0..ObjAccessLevel(c, i)
                 PROVE  Granted(c, i, level)
    BY DEF LevelIsGranted
  <2>2. i # Nobody
    BY <1>1, Numbers DEF LoginsInv, NumbersOnce, Ids
  <2>3. CASE object_supervisor[c]
    <3>1. level \in 0..3 /\ object_id[c] # Nobody
      BY <1>1, <2>1, <2>3 DEF ObjAccessLevel, LoginsInv, SessionsKnow
    <3>2. QED
      BY <2>3, <3>1 DEF Granted
  <2>4. CASE ~object_supervisor[c] /\ object_id[c] = i
    <3>1. level \in 0..2
      BY <2>1, <2>4 DEF ObjAccessLevel
    <3>2. QED
      BY <2>2, <2>4, <3>1 DEF Granted
  <2>5. CASE ~object_supervisor[c] /\ object_id[c] # i
    <3>1. CASE IsInSet(i, "OBJ_SUPERVISORS", object_id[c])
      BY <3>1 DEF Granted
    <3>2. CASE ~IsInSet(i, "OBJ_SUPERVISORS", object_id[c])
      <4>1. level \in 0..(IF object_id[c] = Nobody THEN 0 ELSE 1)
        BY <2>1, <2>5, <3>2 DEF ObjAccessLevel
      <4>2. QED
        BY <4>1 DEF Granted
    <3>3. QED
      BY <3>1, <3>2
  <2>6. QED
    BY <2>3, <2>4, <2>5
<1>2. QED
  BY <1>1, LoginsInvHolds, PTL

-----------------------------------------------------------------------------
(* Promotions *)

\* Supervisors alone write objects and their rights, but of those that were lent.
Guarded ==
  /\ \A q \in DOMAIN props :
       /\ props[q] = [access |-> props[q].access, val |-> props[q].val]
       /\ q[2] \in Rights => props[q].access[2] = 3 \/ q[1] \in lent
  /\ \A o \in Object : o.access[2] = 3 \/ o.id \in lent

LEMMA AddedIs ==
  ASSUME NEW i, NEW p, NEW access, NEW val, Added(i, p, access, val)
  PROVE  /\ DOMAIN props' = {<<i, p>>} \cup DOMAIN props
         /\ props'[<<i, p>>] = [access |-> access, val |-> val]
         /\ \A q \in DOMAIN props : q # <<i, p>> => props'[q] = props[q]
BY DEF Added

\* What is granted at level 3 is granted to those who are trusted.
LEMMA GrantedThree ==
  ASSUME NEW c, NEW i, NEW access, MayWrite(c, i, access), access[2] = 3
  PROVE  Trusted(c, i)
BY DEF MayWrite, Granted, Trusted

\* What happens to the properties: an object goes with them, one is created with
\* zeros, a password is set, or one is written by somebody who may.
Dropped == \E S \in SUBSET DOMAIN props : props' = [q \in S |-> props[q]]
Made(c) == \E o \in Object : \E p \in Prop : \E a \in Access[p] : CreateProp(c, o, p, a)
SetPwd  == \E i, a, val : Added(i, "PASSWORD", a, val)
Wrote(c) == \E o, p, val : WriteProp(c, o, p, val)

LEMMA PropChanges ==
  ASSUME NEW c \in Conn, Changes(c)
  PROVE  \/ \E n \in Name, a \in Access["object"] : CreateObj(c, n, a)
         \/ \E n \in DOMAIN objects : DeleteObj(c, n)
         \/ Made(c)
         \/ SetPwd /\ UNCHANGED <<objects, lent>>
         \/ Wrote(c)
<1>1. CASE \E n \in Name, a \in Access["object"] : CreateObj(c, n, a)
  BY <1>1
<1>2. CASE \E n \in DOMAIN objects : DeleteObj(c, n)
  BY <1>2
<1>3. CASE \E o \in Object : \E p \in Prop : \E a \in Access[p] : CreateProp(c, o, p, a)
  BY <1>3 DEF Made
<1>4. CASE \E o \in Object, p \in Prop, m \in Object : AddObjToSet(c, o, p, m) \/ DeleteObjFromSet(c, o, p, m)
  BY <1>4 DEF AddObjToSet, DeleteObjFromSet, Wrote
<1>5. CASE \E o \in Object : WriteProp(c, o, "PASSWORD", "scrambled")
  BY <1>5 DEF Wrote
<1>6. CASE \E o \in Object, p \in Prop \ {"PASSWORD"}, val \in Raw : WriteProp(c, o, p, val)
  BY <1>6 DEF Wrote
<1>7. ASSUME NEW o \in Object, NEW proof \in Proof, NEW under \in Password \cup {"blank"}, NEW new \in Password,
             KeyedChangePwd(c, o, proof, under, new)
      PROVE  SetPwd /\ UNCHANGED <<objects, lent>>
  BY <1>7 DEF KeyedChangePwd, SetPwd
<1>8. QED
  BY <1>1, <1>2, <1>3, <1>4, <1>5, <1>6, <1>7 DEF Changes

\* The objects that remain when one is deleted, and their properties.
LEMMA DeleteIs ==
  ASSUME NumbersOnce, NEW c \in Conn, NEW n \in DOMAIN objects, DeleteObj(c, n)
  PROVE  Dropped /\ lent' = lent /\ \A o \in Object' : o \in Object
<1> DEFINE last  == Len(objects)
           moved == [objects EXCEPT ![n] = objects[last]]
<1>1. objects' = SubSeq(moved, 1, last - 1) /\ lent' = lent
  BY DEF DeleteObj, Without
<1>2. objects \in Seq(Row) /\ last \in Nat /\ n \in 1..last /\ DOMAIN objects = 1..last
  BY DEF NumbersOnce
<1>3. moved \in Seq(Row) /\ Len(moved) = last /\ \A k \in 1..last : moved[k] \in Object
  BY <1>2 DEF Object
<1> HIDE DEF moved
<1>4. \A o \in Object' : o \in Object
  BY <1>1, <1>2, <1>3 DEF Object
<1>5. Dropped
  BY DEF DeleteObj, Dropped
<1>6. QED
  BY <1>1, <1>4, <1>5

\* What a written property is, and that nothing else changes.
Written(c, key, val) ==
  /\ key \in DOMAIN props /\ DOMAIN props' = DOMAIN props
  /\ \A q \in DOMAIN props : q # key => props'[q] = props[q]
  /\ props'[key] = [access |-> props[key].access, val |-> val]
  /\ MayWrite(c, key[1], props[key].access)
  /\ UNCHANGED <<objects, lent>>

LEMMA WrittenIs ==
  ASSUME Guarded, NEW c, NEW o, NEW p, NEW val, WriteProp(c, o, p, val)
  PROVE  Written(c, <<o.id, p>>, val)
<1> DEFINE key == <<o.id, p>>
<1>1. /\ key \in DOMAIN props /\ props' = [props EXCEPT ![key].val = val]
      /\ MayWrite(c, o.id, props[key].access) /\ UNCHANGED <<objects, lent>>
  BY DEF WriteProp, Has
<1>2. props[key] = [access |-> props[key].access, val |-> props[key].val]
  BY <1>1 DEF Guarded
<1> HIDE DEF key
<1>3. /\ DOMAIN props' = DOMAIN props
      /\ \A q \in DOMAIN props : q # key => props'[q] = props[q]
      /\ props'[key] = [access |-> props[key].access, val |-> val]
  BY <1>1, <1>2
<1>4. key[1] = o.id
  BY DEF key
<1>5. QED
  BY <1>1, <1>3, <1>4 DEF key, Written

LEMMA GuardedAdded ==
  ASSUME Guarded, NEW i, NEW p, NEW a, NEW val, Added(i, p, a, val),
         lent \subseteq lent', objects' = objects,
         p \in Rights => a[2] = 3 \/ i \in lent'
  PROVE  Guarded'
<1> DEFINE key == <<i, p>>
           new == [access |-> a, val |-> val]
<1>1. /\ DOMAIN props' = {key} \cup DOMAIN props /\ props'[key] = new
      /\ \A q \in DOMAIN props : q # key => props'[q] = props[q]
  BY AddedIs
<1>2. new = [access |-> new.access, val |-> new.val] /\ key[1] = i /\ key[2] = p
  OBVIOUS
<1>3. key[2] \in Rights => new.access[2] = 3 \/ key[1] \in lent'
  OBVIOUS
<1>4. Object' = Object
  BY DEF Object
<1> HIDE DEF key, new
<1>5. QED
  BY <1>1, <1>2, <1>3, <1>4 DEF Guarded

LEMMA GuardedChanges ==
  ASSUME LoginsInv, Guarded, NEW c \in Conn, Changes(c)
  PROVE  Guarded'
<1>1. ASSUME NEW n \in Name, NEW a \in Access["object"], CreateObj(c, n, a)
      PROVE  Guarded'
  <2>1. PICK i \in NewIds :
          /\ objects' = Append(objects, [id |-> i, name |-> n, access |-> a])
          /\ lent' = IF a[2] # 3 THEN lent \cup {i} ELSE lent
    BY <1>1 DEF CreateObj
  <2> DEFINE new == [id |-> i, name |-> n, access |-> a]
  <2>2. objects \in Seq(Row) /\ i \in Id /\ a \in Level
    BY LoginsAssumption DEF LoginsInv, NumbersOnce, NewIds
  <2>3. new \in Row /\ new.id = i /\ new.access = a
    BY <2>2 DEF Row
  <2>4. objects' = Append(objects, new)
    BY <2>1
  <2> HIDE DEF new
  <2>5. \A o \in Object' : o \in Object \/ o = new
    BY <2>2, <2>3, <2>4 DEF Object
  <2>6. UNCHANGED props
    BY <1>1 DEF CreateObj
  <2>7. QED
    BY <2>1, <2>3, <2>5, <2>6 DEF Guarded
<1>2. ASSUME NEW n \in DOMAIN objects, DeleteObj(c, n)
      PROVE  Guarded'
  <2>1. Dropped /\ lent' = lent /\ \A o \in Object' : o \in Object
    BY <1>2, DeleteIs DEF LoginsInv
  <2>2. QED
    BY <2>1 DEF Guarded, Dropped
<1>3. ASSUME NEW o \in Object, NEW p \in Prop, NEW a \in Access[p], CreateProp(c, o, p, a)
      PROVE  Guarded'
  <2>1. /\ Added(o.id, p, a, IF p = "PASSWORD" THEN "scrambled" ELSE {}) /\ objects' = objects
        /\ lent' = IF p \in Rights /\ a[2] # 3 /\ Trusted(c, o.id) THEN lent \cup {o.id} ELSE lent
        /\ MayWrite(c, o.id, o.access)
    BY <1>3 DEF CreateProp
  <2>2. ~Trusted(c, o.id) => o.id \in lent
    BY <2>1, GrantedThree DEF Guarded
  <2>3. lent \subseteq lent' /\ (p \in Rights => a[2] = 3 \/ o.id \in lent')
    BY <2>1, <2>2
  <2>4. QED
    BY <2>1, <2>3, GuardedAdded
<1>4. ASSUME SetPwd, UNCHANGED <<objects, lent>>
      PROVE  Guarded'
  <2>1. PICK i, a, val : Added(i, "PASSWORD", a, val)
    BY <1>4 DEF SetPwd
  <2>2. "PASSWORD" \notin Rights
    BY DEF Rights
  <2>3. QED
    BY <1>4, <2>1, <2>2, GuardedAdded
<1>5. ASSUME NEW o, NEW p, NEW val, WriteProp(c, o, p, val)
      PROVE  Guarded'
  <2> DEFINE key == <<o.id, p>>
  <2>1. Written(c, key, val)
    BY <1>5, WrittenIs
  <2> HIDE DEF key
  <2>2. QED
    BY <2>1 DEF Guarded, Object, Written
<1>6. QED
  BY <1>1, <1>2, <1>3, <1>4, <1>5, PropChanges DEF Made, Wrote

LEMMA GuardedNext ==
  ASSUME LoginsInv, Guarded, [Next]_vars
  PROVE  Guarded'
<1>1. ASSUME UNCHANGED bindery PROVE Guarded'
  BY <1>1 DEF Guarded, bindery, Object
<1>2. QED
  BY <1>1, GuardedChanges DEF Next, vars, Logout, Wipe, ClearConn, KeyedLogin

\* Whoever gives an object new rights writes them, and level 3 lets it.
LEMMA RisesByTrusted ==
  ASSUME LoginsInv, Guarded, NEW o \in Object, NEW c \in Conn, Rises(o.id), Changes(c)
  PROVE  Trusted(c, o.id) \/ o.id \in lent
<1>1. PICK p \in Rights : ~(Members(o.id, p)' \subseteq Members(o.id, p))
  BY DEF Rises, Rights, IsSupervisor, IsInSet
<1> DEFINE key == <<o.id, p>>
<1>2. key \in DOMAIN props' /\ ~(props'[key].val \subseteq (IF key \in DOMAIN props THEN props[key].val ELSE {}))
  BY <1>1 DEF Members, Has
<1>3. p \in {"SECURITY_EQUALS", "OBJ_SUPERVISORS"}
  BY DEF Rights
<1>4. ASSUME NEW i, NEW r, NEW a, NEW val, Added(i, r, a, val), r # "PASSWORD" => val = {}
      PROVE  FALSE
  <2> DEFINE other == <<i, r>>
  <2>1. /\ props'[other] = [access |-> a, val |-> val]
        /\ \A q \in DOMAIN props : q # other => props'[q] = props[q]
        /\ DOMAIN props' = {other} \cup DOMAIN props
    <3> HIDE DEF key
    <3>1. QED
      BY <1>4, AddedIs
  <2>2. key = other => val = {}
    BY <1>3, <1>4
  <2> HIDE DEF key, other
  <2>3. QED
    BY <1>2, <2>1, <2>2
<1>5. ~UNCHANGED props /\ ~Dropped
  <2> HIDE DEF key
  <2>1. QED
    BY <1>2 DEF Dropped
<1>6. ~SetPwd
  BY <1>4 DEF SetPwd
<1>7. ~Made(c)
  BY <1>4 DEF Made, CreateProp
<1>8. \A n \in DOMAIN objects : ~DeleteObj(c, n)
  BY <1>5, DeleteIs DEF LoginsInv
<1>9. PICK q, r, val : WriteProp(c, q, r, val)
  BY <1>5, <1>6, <1>7, <1>8, PropChanges DEF Wrote, CreateObj
<1> DEFINE other == <<q.id, r>>
<1>10. Written(c, other, val)
  BY <1>9, WrittenIs
<1>11. key = other
  <2> HIDE DEF key, other
  <2>1. ASSUME key # other PROVE FALSE
    BY <1>2, <1>10, <2>1 DEF Written
  <2>2. QED
    BY <2>1
<1>12. key[1] = o.id
  OBVIOUS
<1>13. key \in DOMAIN props /\ MayWrite(c, o.id, props[key].access)
  <2> HIDE DEF key, other
  <2>1. QED
    BY <1>10, <1>11, <1>12 DEF Written
<1>14. props[key].access[2] = 3 \/ o.id \in lent
  BY <1>13 DEF Guarded
<1>15. QED
  BY <1>13, <1>14, GrantedThree

\* Whatever levels clients create objects and properties with, and whatever they
\* write into sets: nobody becomes equivalent to the supervisor, and no object
\* gets an object supervisor, but by a supervisor or one of its own object
\* supervisors, until one of those leaves the object's rights to others.
THEOREM OnlySupervisorsPromote == Spec => SupervisorsPromote
<1>1. Init => Guarded
  <2>1. SUFFICES ASSUME Init PROVE Guarded
    OBVIOUS
  <2>2. /\ DOMAIN props = {<<1, "PASSWORD">>, <<1, "SECURITY_EQUALS">>}
        /\ props[<<1, "PASSWORD">>] = [access |-> <<4, 4>>, val |-> "blank"]
        /\ props[<<1, "SECURITY_EQUALS">>] = [access |-> <<2, 3>>, val |-> {}]
    BY <2>1 DEF Init
  <2>3. Object = {[id |-> 1, name |-> Root, access |-> <<1, 3>>]}
    BY <2>1 DEF Init, Object
  <2>4. QED
    BY <2>2, <2>3 DEF Guarded, Rights
<1>2. LoginsInv /\ Guarded /\ [Next]_vars => Guarded'
  BY GuardedNext
<1>3. LoginsInv /\ Guarded => \A o \in Object, c \in Conn :
        Rises(o.id) /\ Changes(c) => Trusted(c, o.id) \/ o.id \in lent
  BY RisesByTrusted
<1>4. LoginsInv /\ Guarded /\ [Next]_vars =>
        [\A o \in Object, c \in Conn : Rises(o.id) /\ Changes(c) => Trusted(c, o.id) \/ o.id \in lent]_vars
  BY <1>3
<1>5. QED
  BY <1>1, <1>2, <1>4, LoginsInvHolds, PTL DEF Spec, SupervisorsPromote
=============================================================================
