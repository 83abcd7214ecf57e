----------------------------- MODULE FrommelSets -----------------------------
(***************************************************************************)
(* The value of a set property of the bindery (bindery.c): GROUP_MEMBERS,  *)
(* SECURITY_EQUALS and the like hold Entries object numbers of IdLen bytes *)
(* each, zeroes where there is none.                                       *)
(*                                                                         *)
(* The loops over the value move by one byte where the entries are IdLen   *)
(* bytes apart, and end after Entries steps; a "window" is what they read  *)
(* at one of these places.                                                 *)
(***************************************************************************)
EXTENDS Integers, FiniteSets, SequencesExt

CONSTANTS
  IdLen,    \* bytes of an object number: 4
  Entries,  \* entries of a value: 32
  Byte,     \* bytes that occur
  Id        \* numbers of the bindery's objects

Zeroes == [k \in 1..IdLen |-> 0]

ASSUME SetsAssumption ==
  /\ IdLen \in Nat \ {0} /\ Entries \in Nat \ {0}
  /\ Byte \subseteq Nat /\ 0 \in Byte
  /\ Id \subseteq [1..IdLen -> Byte] \ {Zeroes}

VARIABLE data   \* BINDERY_VAL.data of the property

SetTypeOK == data \in [1..IdLen * Entries -> Byte]

-----------------------------------------------------------------------------
Places == 0..Entries-1

Window(d, i) == [k \in 1..IdLen |-> d[i + k]]

\* bind_is_objinset
IsObjInSet(id) == \E i \in Places : Window(data, i) = id

Members == {id \in Id : IsObjInSet(id)}

Put(d, i, id) ==
  [k \in DOMAIN d |-> IF k \in i+1..i+IdLen THEN id[k - i] ELSE d[k]]

\* Mutant: the loop ends at the first window that holds the number.
DeletedFirst(d, id) ==
  IF \E i \in Places : Window(d, i) = id
  THEN Put(d, CHOOSE i \in Places : Window(d, i) = id, Zeroes)
  ELSE d

\* Mutant: the number is compared once, and all windows after it are zeroed.
DeletedOnward(d, id) ==
  [k \in DOMAIN d |->
     IF \E i \in Places : k \in i+1..i+IdLen /\ \E j \in 0..i : Window(d, j) = id
     THEN 0 ELSE d[k]]

\* The loop of a deletion, which reads what it has zeroed already.
Deleted(d, id) ==
  LET pass[i \in 0..Entries] ==
        IF i = 0 THEN d
        ELSE LET e == pass[i - 1]
             IN  IF Window(e, i - 1) = id THEN Put(e, i - 1, Zeroes) ELSE e
  IN  pass[Entries]

-----------------------------------------------------------------------------
SetInit == data = [k \in 1..IdLen * Entries |-> 0]

\* NCP 23 65: into the first blank window, unless the number stands before
\* it; without a blank window the call fails.
AddObjToSet(id) ==
  \E i \in Places :
    /\ Window(data, i) = Zeroes
    /\ \A j \in 0..i-1 : Window(data, j) \notin {id, Zeroes}
    /\ data' = Put(data, i, id)

\* NCP 23 66
DeleteObjFromSet(id) ==
  /\ IsObjInSet(id)
  /\ data' = Deleted(data, id)

SetNext == \E id \in Id : AddObjToSet(id) \/ DeleteObjFromSet(id)

SetSpec == SetInit /\ [][SetNext]_data

-----------------------------------------------------------------------------
(* Properties *)

\* What a window reads that begins c bytes into the entry a, with b behind it.
Across(a, b, c) ==
  [k \in 1..IdLen |-> IF k <= IdLen - c THEN a[c + k] ELSE b[k - (IdLen - c)]]

\* Numbers that the loops can tell apart: none ends in a zero byte, and nothing that
\* is read across two entries is one of them.  So are those below 256, which the
\* databases give first, and most others.
Apart ==
  /\ \A id \in Id : id[IdLen] # 0
  /\ \A a, b \in Id \cup {Zeroes}, c \in 1..IdLen-1 : Across(a, b, c) \notin Id

\* The value is a set of object numbers, and each call changes it by the
\* number it names.  It holds for numbers that are Apart, also when a number
\* has got into the value twice.
Set == INSTANCE FrommelMembers WITH members <- Members

ImplementsMembers == Set!Spec

\* What was deleted is a member no more, also when its number got into the
\* value twice: the loop of a deletion goes on after the first one it finds.
DeletedAreGone ==
  [][\A id \in Id : DeleteObjFromSet(id) => id \notin Members']_data

\* "This will check whether object [mem_name] can be found": only an object
\* that was added becomes a member.  It fails for numbers that are not
\* Apart, where a window across two entries reads as that of a third object.
OnlyAddedJoin ==
  [][\A id \in Id : AddObjToSet(id) => Members' \subseteq Members \cup {id}]_data

\* "scan the entire property for a blank space": adding an object leaves the
\* others members.  It fails for a number that ends in a zero byte, which
\* the window of the next blank covers.
AddKeepsMembers == [][\A id \in Id : AddObjToSet(id) => Members \subseteq Members']_data

\* "is it already there": a member is not added again.  It fails when there
\* is a blank entry before it.
MembersAddedOnce == [][\A id \in Id : AddObjToSet(id) => id \notin Members]_data

\* "scan the entire property": a blank entry can be used.  It fails, since
\* the loops see the first Entries + IdLen - 1 bytes only.
BlankEntriesCount ==
  (\E e \in Places : Window(data, IdLen * e) = Zeroes)
    => \E i \in Places : Window(data, i) = Zeroes
=============================================================================
