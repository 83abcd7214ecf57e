----------------------------- MODULE FrommelLogins -----------------------------
(***************************************************************************)
(* Who a client is and what it may do: the calls of NCP 23 on the bindery  *)
(* (ncp_23.c), the rights they ask for (bindery.c) and what a connection   *)
(* remembers of its login (conn.c).  A call is one step: poll runs one     *)
(* handler to its end.  How objects and properties are stored is the       *)
(* matter of FrommelBindery, FrommelSets, FrommelMysql and FrommelPgsql;   *)
(* here a property has a set of members, or a password.                    *)
(*                                                                         *)
(* A login key is random and known to its client, so what a client sends   *)
(* for a password is that password, or Wrong when its key is out of date.  *)
(***************************************************************************)
EXTENDS Integers, FiniteSets, SequencesExt

CONSTANTS
  Conn,      \* connection slots
  NIds,      \* bound: objects that are ever created get the numbers 1..NIds
  Name,      \* names of objects, with their types
  Root,      \* SUPERVISOR, of number 1
  NoName,    \* no object
  SetProp,   \* the set properties that clients create
  Access,    \* the security clients create properties, and "object"s, with: the
             \* levels for reading and for writing
  Password,  \* passwords that clients choose
  Raw,       \* what clients write into set properties themselves
  MaxProps   \* bound on the number of properties

Prop  == SetProp \cup {"PASSWORD", "SECURITY_EQUALS", "OBJ_SUPERVISORS"}
Level == (0..4) \X (0..4)

ASSUME LoginsAssumption ==
  /\ NIds \in Nat \ {0} /\ MaxProps \in Nat
  /\ Root \in Name /\ NoName \notin Name
  /\ Access \in [Prop \cup {"object"} -> SUBSET Level]
  /\ Raw \subseteq SUBSET (0..NIds + 1)
  /\ Password \cap {"blank", "scrambled", "wrong"} = {}

Id     == 1..NIds
Nobody == NIds + 1  \* 0xffffffff
NoId   == 0         \* what a wiped slot holds

\* What is stored for a password; "scrambled" is what no client's password gives.
Hash == Password \cup {"blank", "scrambled"}

\* What a client can send for a password.
Proof == Password \cup {"blank", "wrong"}

VARIABLES
  objects,            \* the objects, in the order of their file
  props,              \* their properties
  status,             \* conn[c]->status
  object_id,          \* conn[c]->object_id
  object_supervisor,  \* conn[c]->object_supervisor
  login,              \* history: the name c has logged in with
  given,              \* history: the numbers that objects have had
  lent                \* history: objects whose rights were left to others

bindery == <<objects, props, given, lent>>
session == <<status, object_id, object_supervisor, login>>
vars    == <<bindery, session>>

PropRec(p) == [access : Level, val : IF p = "PASSWORD" THEN Hash ELSE SUBSET (0..Nobody)]

TypeOK ==
  /\ objects \in Seq([id : Id, name : Name, access : Level])
  /\ \A p \in DOMAIN props : p \in Id \X Prop /\ props[p] \in PropRec(p[2])
  /\ status \in [Conn -> {"unused", "attached", "loggedin"}]
  /\ object_id \in [Conn -> Id \cup {NoId, Nobody}]
  /\ object_supervisor \in [Conn -> BOOLEAN]
  /\ login \in [Conn -> Name \cup {NoName}]
  /\ given \subseteq Id /\ lent \subseteq Id

\* bind_init, as far as it matters here, and conn_init
Init ==
  /\ objects = <<[id |-> 1, name |-> Root, access |-> <<1, 3>>]>>
  /\ props = [p \in {<<1, "PASSWORD">>, <<1, "SECURITY_EQUALS">>} |->
                IF p[2] = "PASSWORD" THEN [access |-> <<4, 4>>, val |-> "blank"]
                                     ELSE [access |-> <<2, 3>>, val |-> {}]]
  /\ status = [c \in Conn |-> "unused"]
  /\ object_id = [c \in Conn |-> NoId]
  /\ object_supervisor = [c \in Conn |-> FALSE]
  /\ login = [c \in Conn |-> NoName]
  /\ given = {1} /\ lent = {}

-----------------------------------------------------------------------------
(* The bindery as the calls see it *)

Object == {objects[n] : n \in DOMAIN objects}
Ids    == {o.id : o \in Object}
Names  == {o.name : o \in Object}
The(n) == CHOOSE o \in Object : o.name = n

Has(i, p)     == <<i, p>> \in DOMAIN props
Members(i, p) == IF Has(i, p) THEN props[<<i, p>>].val ELSE {}

\* bind_is_objinset without a connection, for numbers
IsInSet(i, p, m) == m \in Members(i, p)

\* bind_obj_is_supervisor
IsSupervisor(i) == i = 1 \/ IsInSet(i, "SECURITY_EQUALS", 1)

\* Mutant: the object itself must be a supervisor as well.
GrantedNotSelf(c, i, level) ==
  \/ IsInSet(i, "OBJ_SUPERVISORS", object_id[c])
  \/ level \in {0, 4}
  \/ level = 1 /\ object_id[c] # Nobody
  \/ level \in {2, 3} /\ object_supervisor[c]

\* What bind_check_access asks for one level; level 4 is "OS only", and granted.
Granted(c, i, level) ==
  \/ IsInSet(i, "OBJ_SUPERVISORS", object_id[c])
  \/ level \in {0, 4}
  \/ level = 1 /\ object_id[c] # Nobody
  \/ level = 2 /\ (object_supervisor[c] \/ object_id[c] = i)
  \/ level = 3 /\ object_supervisor[c]

\* Mutant: the level for reading.
MayWriteLax(c, i, access) == Granted(c, i, access[1])

MayWrite(c, i, access) == Granted(c, i, access[2])

\* ncp_handle_objaccesslevel
ObjAccessLevel(c, i) ==
  CASE object_supervisor[c] -> 3
    [] ~object_supervisor[c] /\ object_id[c] = i -> 2
    [] ~object_supervisor[c] /\ object_id[c] # i ->
         IF IsInSet(i, "OBJ_SUPERVISORS", object_id[c]) THEN 3
         ELSE IF object_id[c] = Nobody THEN 0 ELSE 1

\* ncp_handle_loggedinfo: the name of the object a connection has logged in as.
LoggedName(c) == IF object_id[c] \in Ids
                 THEN (CHOOSE o \in Object : o.id = object_id[c]).name ELSE NoName

\* conn_is_manager
IsManager(c) == object_supervisor[c] \/ IsInSet(object_id[c], "MANAGERS", 1)

\* ncp_handle_getobjconnlist: what it lists for a name, without an order.
ConnList(n) == {The(n).id : c \in {d \in Conn : object_id[d] = The(n).id}}

Used(c) == status[c] # "unused"

-----------------------------------------------------------------------------
(* Sessions *)

\* Mutant: the number of the object stays.
LogoutKeepsId(c) ==
  /\ status' = [status EXCEPT ![c] = "attached"]
  /\ object_supervisor' = [object_supervisor EXCEPT ![c] = FALSE]
  /\ login' = [login EXCEPT ![c] = NoName]
  /\ UNCHANGED <<bindery, object_id>>

\* conn_attach_client, which logs the slot out, and NCP 25
Logout(c) ==
  /\ status' = [status EXCEPT ![c] = "attached"]
  /\ object_id' = [object_id EXCEPT ![c] = Nobody]
  /\ object_supervisor' = [object_supervisor EXCEPT ![c] = FALSE]
  /\ login' = [login EXCEPT ![c] = NoName]
  /\ UNCHANGED bindery

\* conn_clear: by the clean-up, an operator or the client itself.
Wipe(c) ==
  /\ Used(c)
  /\ status' = [status EXCEPT ![c] = "unused"]
  /\ object_id' = [object_id EXCEPT ![c] = NoId]
  /\ object_supervisor' = [object_supervisor EXCEPT ![c] = FALSE]
  /\ login' = [login EXCEPT ![c] = NoName]
  /\ UNCHANGED bindery

\* NCP 23 210
ClearConn(c, d) == Used(c) /\ object_supervisor[c] /\ Wipe(d)

\* bind_verify_pwd
VerifyPwd(i, proof) == Has(i, "PASSWORD") /\ props[<<i, "PASSWORD">>].val = proof

\* NCP 23 24; a connection that has logged in may do so again.
KeyedLogin(c, n, proof) ==
  /\ Used(c) /\ n \in Names /\ VerifyPwd(The(n).id, proof)
  /\ status' = [status EXCEPT ![c] = "loggedin"]
  /\ object_id' = [object_id EXCEPT ![c] = The(n).id]
  /\ object_supervisor' = [object_supervisor EXCEPT ![c] = IsSupervisor(The(n).id)]
  /\ login' = [login EXCEPT ![c] = n]
  /\ UNCHANGED bindery

-----------------------------------------------------------------------------
(* Calls that change the bindery *)

\* random (), which does not come back to a number; any order will do.
NewIds == {i \in Id \ given : \A j \in Id \ given : i <= j}

\* NCP 23 50
CreateObj(c, n, access) ==
  /\ Used(c) /\ object_supervisor[c] /\ n \notin Names
  /\ \E i \in NewIds :
       /\ objects' = Append(objects, [id |-> i, name |-> n, access |-> access])
       /\ given' = given \cup {i}
       /\ lent' = IF access[2] # 3 THEN lent \cup {i} ELSE lent
  /\ UNCHANGED <<props, session>>

\* The file of objects without the n-th: the last takes its place.
Without(n) == LET last == Len(objects)
              IN  SubSeq([objects EXCEPT ![n] = objects[last]], 1, last - 1)

\* NCP 23 51
DeleteObj(c, n) ==
  /\ Used(c) /\ object_supervisor[c] /\ n \in DOMAIN objects
  /\ objects' = Without(n)
  /\ props' = [p \in {q \in DOMAIN props : q[1] # objects[n].id} |-> props[p]]
  /\ UNCHANGED <<given, lent, session>>

Added(i, p, access, val) ==
  props' = [q \in DOMAIN props \cup {<<i, p>>} |->
              IF q = <<i, p>> THEN [access |-> access, val |-> val] ELSE props[q]]

\* Those whom an object's rights are the business of, and what these rights are.
Trusted(c, i) == object_supervisor[c] \/ IsInSet(i, "OBJ_SUPERVISORS", object_id[c])
Rights        == {"SECURITY_EQUALS", "OBJ_SUPERVISORS"}

\* NCP 23 57: a property begins with zeros, and has the levels its creator wants.
CreateProp(c, o, p, access) ==
  /\ Used(c) /\ MayWrite(c, o.id, o.access) /\ ~Has(o.id, p)
  /\ Cardinality(DOMAIN props) < MaxProps
  /\ Added(o.id, p, access, IF p = "PASSWORD" THEN "scrambled" ELSE {})
  /\ lent' = IF p \in Rights /\ access[2] # 3 /\ Trusted(c, o.id) THEN lent \cup {o.id} ELSE lent
  /\ UNCHANGED <<objects, given, session>>

\* NCP 23 62
WriteProp(c, o, p, val) ==
  /\ Used(c) /\ Has(o.id, p) /\ MayWrite(c, o.id, props[<<o.id, p>>].access)
  /\ props' = [props EXCEPT ![<<o.id, p>>].val = val]
  /\ UNCHANGED <<objects, given, lent, session>>

\* NCP 23 65 and NCP 23 66: bind_add_remove_objfromset
AddObjToSet(c, o, p, m) ==
  /\ p # "PASSWORD" /\ m.id \notin Members(o.id, p)
  /\ WriteProp(c, o, p, Members(o.id, p) \cup {m.id})

DeleteObjFromSet(c, o, p, m) ==
  /\ p # "PASSWORD" /\ m.id \in Members(o.id, p)
  /\ WriteProp(c, o, p, Members(o.id, p) \ {m.id})

\* NCP 23 75: a supervisor may give the empty password for the old one.
IsReset(c, o, proof) == ~VerifyPwd(o.id, proof) /\ object_supervisor[c] /\ proof = "blank"

\* The call answers with an error ...
Refused(c, o, proof) ==
  Has(o.id, "PASSWORD") /\ ~VerifyPwd(o.id, proof) /\ ~IsReset(c, o, proof)

\* ... and to a supervisor with nothing else.
Ends(c, o, proof) == Refused(c, o, proof) /\ object_supervisor[c]

\* The new password comes encrypted with the old one, `under`, and is decrypted
\* with what is stored, or was never read.
Decrypted(c, o, proof, under, new) ==
  CASE ~Has(o.id, "PASSWORD") -> {new, "scrambled"}
    [] Has(o.id, "PASSWORD") /\ IsReset(c, o, proof) -> {IF under = "blank" THEN new ELSE "scrambled"}
    [] OTHER -> {IF under = props[<<o.id, "PASSWORD">>].val THEN new ELSE "scrambled"}

KeyedChangePwd(c, o, proof, under, new) ==
  /\ Used(c) /\ ~Ends(c, o, proof)
  /\ Has(o.id, "PASSWORD") \/ Cardinality(DOMAIN props) < MaxProps
  /\ \E val \in Decrypted(c, o, proof, under, new) :
       Added(o.id, "PASSWORD",
             IF Has(o.id, "PASSWORD") THEN props[<<o.id, "PASSWORD">>].access ELSE <<4, 4>>, val)
  /\ UNCHANGED <<objects, given, lent, session>>

\* What c does to the bindery.
Changes(c) ==
  \/ \E n \in Name, a \in Access["object"] : CreateObj(c, n, a)
  \/ \E n \in DOMAIN objects : DeleteObj(c, n)
  \/ \E o \in Object :
       \/ \E p \in Prop : \E a \in Access[p] : CreateProp(c, o, p, a)
       \/ \E p \in Prop, m \in Object : AddObjToSet(c, o, p, m) \/ DeleteObjFromSet(c, o, p, m)
       \/ WriteProp(c, o, "PASSWORD", "scrambled")
       \/ \E p \in Prop \ {"PASSWORD"}, val \in Raw : WriteProp(c, o, p, val)
       \/ \E proof \in Proof, under \in Password \cup {"blank"}, new \in Password :
            KeyedChangePwd(c, o, proof, under, new)

Next ==
  \E c \in Conn :
    \/ Logout(c) \/ Wipe(c) \/ \E d \in Conn : ClearConn(c, d)
    \/ \E n \in Name, proof \in Proof : KeyedLogin(c, n, proof)
    \/ Changes(c)

Spec == Init /\ [][Next]_vars

-----------------------------------------------------------------------------
(* Properties *)

\* NCP 23 22 and 28 report the name a connection has logged in with, or none:
\* neither the next client of a slot nor the next object takes a name over.
StationInfoIsTrue == \A c \in Conn : LoggedName(c) \in {login[c], NoName}

\* The level NCP 23 72 reports is granted by every call, though both ask in
\* their own way, and connections go on after their object is deleted.
LevelIsGranted ==
  \A c \in Conn, i \in Ids : Used(c) => \A level \in 0..ObjAccessLevel(c, i) : Granted(c, i, level)

\* And no higher one is.  It fails: an object that supervises itself is told 2.
LevelIsAll ==
  \A c \in Conn, i \in Ids : Used(c) => \A level \in 0..3 : Granted(c, i, level) => level <= ObjAccessLevel(c, i)

\* Whatever levels properties are created with: an object becomes equivalent to
\* the supervisor, and gets an object supervisor, by a supervisor or one of its
\* own object supervisors, or after one of those created it or one of these
\* properties with another level for writing than the server uses itself.
Rises(i) ==
  \/ ~IsSupervisor(i) /\ IsSupervisor(i)'
  \/ ~(Members(i, "OBJ_SUPERVISORS")' \subseteq Members(i, "OBJ_SUPERVISORS"))

SupervisorsPromote ==
  [][\A o \in Object, c \in Conn :
       Rises(o.id) /\ Changes(c) => Trusted(c, o.id) \/ o.id \in lent]_vars

\* A connection is a supervisor as long as its object is.  It fails: the flag
\* is set at the login.
SupervisorIsCurrent ==
  \A c \in Conn : object_supervisor[c] => object_id[c] \in Ids /\ IsSupervisor(object_id[c])

\* A change of password that is refused changes nothing.  It fails: only a
\* supervisor's call ends there.
RefusedChangesNothing ==
  [][\A c \in Conn, o \in Object, proof \in Proof, under \in Password \cup {"blank"}, new \in Password :
       KeyedChangePwd(c, o, proof, under, new) /\ Refused(c, o, proof) => UNCHANGED props]_vars

\* A first password is the one the client has chosen.  It fails: it is
\* decrypted with what happens to be on the stack.
FirstPasswordsAreChosen ==
  [][\A c \in Conn, o \in Object, new \in Password :
       ~Has(o.id, "PASSWORD") /\ KeyedChangePwd(c, o, "blank", "blank", new)
         => props'[<<o.id, "PASSWORD">>].val = new]_vars

\* "whether we appear or not in the MANAGERS property of the supervisor".  It
\* fails: the property of the client's own object is asked for the supervisor.
ManagersAreListed ==
  \A c \in Conn : status[c] = "loggedin" =>
    (IsManager(c) <=> object_supervisor[c] \/ IsInSet(1, "MANAGERS", object_id[c]))

\* The list of an object's connections is one of connections.  It fails: it
\* repeats the number of the object.
ConnListIsOfConns ==
  \A n \in Names : Cardinality(ConnList(n)) = Cardinality({c \in Conn : object_id[c] = The(n).id})
=============================================================================
