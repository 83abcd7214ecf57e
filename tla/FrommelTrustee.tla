---------------------------- MODULE FrommelTrustee ----------------------------
(***************************************************************************)
(* The trustee files (trustee.c and its callers in ncp_22.c): who has      *)
(* which rights in the directories from the root of a volume, number 0,    *)
(* down to directory Deepest; the parent of directory d is d - 1.          *)
(*                                                                         *)
(* A rights word is its two bytes, the sets of the bits set in each.  NCP  *)
(* clients send the word low byte first and GET_BE16 reads it high byte    *)
(* first, so the eight rights RWOCEPFM stand in the byte `hi`.             *)
(***************************************************************************)
EXTENDS Integers, Sequences

CONSTANTS
  Deepest,    \* the last directory of the path
  Object,     \* bindery objects that are no supervisors
  Blank,      \* an unused entry of a SECURITY_EQUALS property
  Equals,     \* the entries of every object's SECURITY_EQUALS property
  Bit,        \* bits of a byte of rights
  MaxRecords  \* bound on the records of one file

Directory == 0..Deepest
Byte      == SUBSET Bit
Rights    == [hi : Byte, lo : Byte]
NoRights  == [hi |-> {}, lo |-> {}]
None      == [hi |-> "none"]
Record    == [id : Object, rights : Rights]

ASSUME TrusteeAssumption ==
  /\ Deepest \in Nat /\ MaxRecords \in Nat /\ Blank \notin Object
  /\ Equals \in [Object -> Seq(Object \cup {Blank})]

VARIABLE file   \* the $TRUSTEE.SYS of every directory, an absent one empty

TrusteeTypeOK == file \in [Directory -> Seq(Record)]

-----------------------------------------------------------------------------
(* Reading *)

\* The records of object o in a file.
Of(f, o) == {i \in DOMAIN f : f[i].id = o}

Least(S) == CHOOSE i \in S : \A j \in S : i <= j

\* trust_grab_rights: the first record of the object.
Grab(f, o) == IF Of(f, o) = {} THEN None ELSE f[Least(Of(f, o))].rights

\* trust_scan_rights: from the directory up to the root.
Scan(d, o) ==
  LET ds == {e \in 0..d : Of(file[e], o) # {}}
  IN  IF ds = {} THEN None ELSE Grab(file[CHOOSE e \in ds : \A g \in ds : g <= e], o)

\* The entries trust_get_rights looks up when the object itself has no
\* record: the loop counter is overwritten by the result, 0x100 when there is
\* no record, so the loop ends after the first number that is not zero.  The
\* loop moves by bytes, so behind a blank entry that number is a single byte,
\* which is nobody's.
Consulted(o) == {p \in Object : Equals[o] # <<>> /\ Equals[o][1] = p}

\* Mutant: the first entry is consulted before the object itself.
GetRightsEquivalentFirst(d, o) ==
  LET other == {p \in Consulted(o) : Scan(d, p) # None}
  IN  IF other # {} THEN Scan(d, CHOOSE p \in other : TRUE)
      ELSE IF Scan(d, o) # None THEN Scan(d, o) ELSE NoRights

\* trust_get_rights, outside SYS:LOGIN.
GetRights(d, o) ==
  LET other == {p \in Consulted(o) : Scan(d, p) # None}
  IN  IF Scan(d, o) # None THEN Scan(d, o)
      ELSE IF other # {} THEN Scan(d, CHOOSE p \in other : TRUE)
      ELSE NoRights

\* trust_check_rights
HasRights(d, o, wanted) == wanted \subseteq GetRights(d, o).hi

-----------------------------------------------------------------------------
(* Writing *)

\* Mutant: the file is not searched for a record of the object.
GrantedAtEnd(f, o, r) == Append(f, [id |-> o, rights |-> r])

\* trust_grant_right on a file.
Granted(f, o, r) ==
  IF Of(f, o) = {} THEN Append(f, [id |-> o, rights |-> r])
  ELSE [f EXCEPT ![Least(Of(f, o))].rights = r]

\* Mutant: the file is not positioned at its last record before the read.
OverwrittenByFirst(f, o) == [f EXCEPT ![Least(Of(f, o))] = f[1]]

\* Mutant: the file is not positioned back before the record is written.
OverwrittenNext(f, o) ==
  LET i == Least(Of(f, o)) IN IF i < Len(f) THEN [f EXCEPT ![i + 1] = f[Len(f)]] ELSE f

\* trust_remove_right, first half: the last record over the object's first.
Overwritten(f, o) == [f EXCEPT ![Least(Of(f, o))] = f[Len(f)]]

\* Both halves.
Removed(f, o) == SubSeq(Overwritten(f, o), 1, Len(f) - 1)

TrusteeInit == file = [d \in Directory |-> <<>>]

Grant(d, o, r) ==
  /\ Len(Granted(file[d], o, r)) <= MaxRecords
  /\ file' = [file EXCEPT ![d] = Granted(@, o, r)]

\* Mutant: the byte is not widened to the word.
AddTrusteeBare(d, o, mask) == Grant(d, o, [lo |-> mask])

\* NCP 22 13 sends one byte and passes it on as the word.
AddTrustee(d, o, mask) == Grant(d, o, [hi |-> {}, lo |-> mask])

\* NCP 22 39 sends the word.
AddExtTrustee(d, o, r) == Grant(d, o, r)

\* NCP 22 43.
RemoveTrustee(d, o) ==
  /\ Of(file[d], o) # {}
  /\ file' = [file EXCEPT ![d] = Removed(@, o)]

\* NCP 22 43 when ftruncate fails or the server is killed before it.
RemoveCutShort(d, o) ==
  /\ Of(file[d], o) # {}
  /\ file' = [file EXCEPT ![d] = Overwritten(@, o)]

Change ==
  \E d \in Directory, o \in Object :
    \/ \E mask \in Byte : AddTrustee(d, o, mask)
    \/ \E r \in Rights : AddExtTrustee(d, o, r)
    \/ RemoveTrustee(d, o)

Cut == \E d \in Directory, o \in Object : RemoveCutShort(d, o)

TrusteeSpec == TrusteeInit /\ [][Change]_file

CrashSpec == TrusteeInit /\ [][Change \/ Cut]_file

-----------------------------------------------------------------------------
(* Properties *)

\* No file has two records of one object, however grants and removals
\* alternate: otherwise a removal would leave the other record in force.
OneRecordPerTrustee ==
  \A d \in Directory : \A i, j \in DOMAIN file[d] : file[d][i].id = file[d][j].id => i = j

\* The files are a map from directories and objects to rights, and a call
\* changes the entry it names and no other, although a removal moves the
\* record of somebody else.
Map == INSTANCE FrommelTrustees WITH
         trustees <- [d \in Directory |-> [o \in Object |-> Grab(file[d], o)]]

ImplementsTrustees == Map!Spec

\* Granting by NCP 22 39 takes effect at once, also in a file that an
\* interrupted removal has left with two records of the object: granting
\* writes the record that trust_grab_rights will find.
ExtGrantTakesEffect ==
  [][\A d \in Directory, o \in Object, r \in Rights :
       AddExtTrustee(d, o, r) => HasRights(d, o, r.hi)']_file

\* "If no valid entries are found, it will go one level down": the object a
\* record was removed of is back to what the parent directory gives it.
RemovalRestoresParent ==
  [][\A d \in Directory, o \in Object :
       RemoveTrustee(d, o) =>
         Scan(d, o)' = IF d = 0 THEN None ELSE Scan(d - 1, o)']_file

\* The first interrupted removal harms nobody but the object it is about,
\* although the record of somebody else is in the file twice after it.
FirstCutHarmsNobodyElse ==
  [][OneRecordPerTrustee =>
       \A d \in Directory, o \in Object :
         RemoveCutShort(d, o) => \A p \in Object \ {o} : Scan(d, p)' = Scan(d, p)]_file

\* "This will grant right [rights] to object [objid]": NCP 22 13 grants.  It
\* fails, since the byte sent ends up in the low half of the word.
GrantTakesEffect ==
  [][\A d \in Directory, o \in Object, mask \in Byte :
       AddTrustee(d, o, mask) => HasRights(d, o, mask)']_file

\* "The daemon will also check every object the user is security-equilivant
\* to": it fails, since the loop over them ends after one.
EquivalentsAllCount ==
  \A d \in Directory, o \in Object : \A i \in DOMAIN Equals[o] :
    /\ Equals[o][i] # Blank
    /\ Scan(d, o) = None
    /\ Scan(d, Equals[o][i]) \notin {None, NoRights}
    => GetRights(d, o) # NoRights
=============================================================================
