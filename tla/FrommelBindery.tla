---------------------------- MODULE FrommelBindery ----------------------------
(***************************************************************************)
(* The bindery files (binderyio.c): objects, the properties chained to     *)
(* them and the values of these, in three files of records.  A record that *)
(* is removed is overwritten by the last one of its file.                  *)
(*                                                                         *)
(* The files are written through stdio: the last write to a file stays in  *)
(* its buffer until the next call seeks in that file, and is lost if the   *)
(* server is killed before.  `disk` is what would be left.                 *)
(***************************************************************************)
EXTENDS Integers, SequencesExt

CONSTANTS
  Name,      \* names (and types) of objects
  PropName,  \* names of properties
  Data,      \* values
  Zero,      \* the value of a property that was never written
  None,      \* no object, no value, no deletion
  MaxDrawn,  \* bound on the numbers drawn
  Seeded     \* is this a build that calls srandomdev (FreeBSD)?

Nil    == -1       \* 0xffffffff
Number == 1..MaxDrawn
Link   == Number \cup {Nil}
NoName == "junk"

ASSUME BinderyAssumption ==
  /\ Zero \in Data /\ NoName \notin Name /\ MaxDrawn \in Nat /\ Seeded \in BOOLEAN
  /\ None \notin Data \cup [pos : Nat, next : Link] \cup [PropName -> Data \cup {None}]

ObjectRecord   == [id : Number \cup {0}, name : Name \cup {NoName}, first : Link]
PropertyRecord == [id : Number \cup {0}, name : PropName \cup {NoName},
                   owner : Number \cup {0}, value : Number \cup {0}, next : Link]
ValueRecord    == [id : Number, data : Data]

VARIABLES
  obj, prop, val,  \* net$obj.sys, net$prop.sys, net$val.sys as the server sees them
  disk,            \* the three as they are on the disk
  drawn,           \* how many numbers random() has given; no run draws one twice
  job,             \* the deletion that is going on, or None
  harmed           \* history: the server was killed, or a write failed

vars == <<obj, prop, val, disk, drawn, job, harmed>>

Files == [obj |-> obj, prop |-> prop, val |-> val]

TypeOK ==
  /\ obj \in Seq(ObjectRecord) /\ prop \in Seq(PropertyRecord) /\ val \in Seq(ValueRecord)
  /\ disk \in [obj : Seq(ObjectRecord), prop : Seq(PropertyRecord), val : Seq(ValueRecord)]
  /\ drawn \in 0..MaxDrawn
  /\ job \in [pos : Nat, next : Link] \cup {None}
  /\ harmed \in BOOLEAN

-----------------------------------------------------------------------------
(* Scans: all of them begin at the top of a file *)

Least(S) == CHOOSE i \in S : \A j \in S : i <= j

WithId(f, id) == {i \in DOMAIN f : f[i].id = id}

\* bindio_scan_object
Named(n) == {i \in DOMAIN obj : obj[i].name = n}

\* The record the calls for object n work on: by its name they get its number,
\* and with that, the first record of that number.
RecordOf(n) == Least(WithId(obj, obj[Least(Named(n))].id))

\* bindio_scan_prop: by owner and name, whatever is chained to the owner.
PropsOf(id, p) == {i \in DOMAIN prop : prop[i].owner = id /\ prop[i].name = p}

\* The value of a property, by its record.
ValueOf(r) == WithId(val, r.value)

\* bindio_scan_prop_nextid
Pointing(f, id) == {i \in DOMAIN f : f[i].next = id}

\* The k-th link of the chain that starts with `first`; it stays at the first
\* one that leads nowhere, which a chain without a loop reaches in Len(f).
Chain(f, first) ==
  LET link[k \in 0..Len(f)] ==
        IF k = 0 THEN first
        ELSE IF WithId(f, link[k - 1]) = {} THEN link[k - 1]
        ELSE f[Least(WithId(f, link[k - 1]))].next
  IN  link

ChainEnd(f, first)  == Chain(f, first)[Len(f)]
ChainEnds(f, first) == WithId(f, ChainEnd(f, first)) = {}

\* The records a chain goes through.
Chained(f, first) ==
  {Least(WithId(f, id)) : id \in {i \in Range(Chain(f, first)) : WithId(f, i) # {}}}

\* bindio_dump returns.
DumpEnds(o, f) == \A i \in DOMAIN o : ChainEnds(f, o[i].first)

-----------------------------------------------------------------------------
(* Adding and changing *)

Init ==
  /\ obj = <<>> /\ prop = <<>> /\ val = <<>>
  /\ disk = Files
  /\ drawn = 0
  /\ job = None
  /\ harmed = FALSE

\* A call that only reads, or fails before it writes, seeks in these files.
Look(S) ==
  /\ job = None
  /\ disk' = [f \in DOMAIN disk |-> IF f \in S THEN Files[f] ELSE disk[f]]
  /\ UNCHANGED <<obj, prop, val, drawn, job>>

\* NCP 23 50, sap_handle_response, bind_init.
AddObject(n) ==
  /\ job = None /\ Named(n) = {}
  /\ drawn < MaxDrawn /\ drawn' = drawn + 1
  /\ obj' = Append(obj, [id |-> drawn', name |-> n, first |-> Nil])
  /\ disk' = [disk EXCEPT !.obj = obj]
  /\ UNCHANGED <<prop, val, job>>

\* Mutant: the new property is put before the first one, too.
NewPropertyBefore(id, p) ==
  [id |-> drawn + 2, name |-> p, owner |-> id, value |-> drawn + 1,
   next |-> obj[Least(WithId(obj, id))].first]

NewProperty(id, p) ==
  [id |-> drawn + 2, name |-> p, owner |-> id, value |-> drawn + 1, next |-> Nil]

\* Mutant: the chain is not followed, its first property gets the link.
LinkedToFirst(f, first) ==
  [f EXCEPT ![Least(WithId(f, first))].next = f[Len(f)].id]

\* The record that bindio_add_prop links the last one of f to: the last of
\* the chain, or, if the chain leads nowhere, the last that was read.
Linked(f, first) ==
  LET ends == {i \in Chained(f, first) : f[i].next = Nil}
      at   == IF ends = {} THEN Len(f) ELSE Least(ends)
  IN  [f EXCEPT ![at].next = f[Len(f)].id]

\* The property does not exist yet.
Addable(id, p) == PropsOf(id, p) = {}

\* What NCP 23 57, NCP 23 75, sap_handle_response and bind_init need.
AddPropStarts(n, p) ==
  /\ job = None /\ Named(n) # {}
  /\ Addable(obj[RecordOf(n)].id, p)
  /\ drawn + 2 <= MaxDrawn /\ drawn' = drawn + 2
  /\ UNCHANGED job

NewValue == [id |-> drawn + 1, data |-> Zero]

\* bindio_add_prop: property, value, then the link.
AddProp(n, p) ==
  LET i == RecordOf(n)
      f == Append(prop, NewProperty(obj[i].id, p))
  IN  /\ AddPropStarts(n, p)
      /\ val' = Append(val, NewValue)
      /\ IF obj[i].first = Nil
         THEN /\ obj' = [obj EXCEPT ![i].first = drawn + 2]
              /\ prop' = f
              /\ disk' = Files
         ELSE /\ ChainEnds(f, obj[i].first)
              /\ prop' = Linked(f, obj[i].first)
              /\ disk' = [Files EXCEPT !.prop = f]
              /\ UNCHANGED obj

\* The same when the value, or the link, cannot be written.
AddPropFails(n, p) ==
  LET i == RecordOf(n)
      f == Append(prop, NewProperty(obj[i].id, p))
  IN  /\ AddPropStarts(n, p)
      /\ prop' = f
      /\ val' \in {val, Append(val, NewValue)}
      /\ disk' = IF val' # val /\ obj[i].first # Nil THEN [Files EXCEPT !.prop = f] ELSE Files
      /\ UNCHANGED obj

\* Mutant: the record is written behind the one that was found.
WrittenNext(v, d) == [val EXCEPT ![IF v < Len(val) THEN v + 1 ELSE v].data = d]

Written(v, d) == [val EXCEPT ![v].data = d]

\* bindio_write_prop: NCP 23 62 and 75, the set calls, sap_handle_response.
WriteProp(n, p, d) ==
  /\ job = None /\ Named(n) # {}
  /\ LET found == PropsOf(obj[RecordOf(n)].id, p)
     IN  /\ found # {} /\ ValueOf(prop[Least(found)]) # {}
         /\ val' = Written(Least(ValueOf(prop[Least(found)])), d)
  /\ disk' = Files
  /\ UNCHANGED <<obj, prop, drawn, job>>

-----------------------------------------------------------------------------
(* Deleting an object, property by property *)

\* NCP 23 51: bindio_delete_obj up to its loop.
DeleteObj(n) ==
  /\ job = None /\ Named(n) # {}
  /\ job' = [pos |-> RecordOf(n), next |-> obj[RecordOf(n)].first]
  /\ disk' = [disk EXCEPT !.obj = obj]
  /\ UNCHANGED <<obj, prop, val, drawn>>

\* What the stack may hold where a record is written that was never read.
StackObjects == Range(obj) \cup {[id |-> 0, name |-> NoName, first |-> Nil]}
StackProps   == Range(prop) \cup {[id |-> 0, name |-> NoName, owner |-> 0,
                                   value |-> 0, next |-> Nil]}

\* Deleting a value: it is cut off if it is the last, or else overwritten by
\* the last, which stays where it was, too.
ValueDeleted(v) ==
  IF v = Len(val) THEN Front(val) ELSE [val EXCEPT ![v] = val[Len(val)]]

\* bindio_delete_prop.  bindio_dump leaves the property file at its end, so
\* the last record is cut off, whichever property is deleted.  Then what
\* linked to it is rewritten, from a record that was never read: another
\* property, or else the object.
DeleteProp ==
  /\ job # None /\ WithId(prop, job.next) # {}
  /\ DumpEnds(obj, prop)
  /\ LET r == prop[Least(WithId(prop, job.next))]
         f == Front(prop)
     IN  /\ ValueOf(r) # {}
         /\ val' = ValueDeleted(Least(ValueOf(r)))
         /\ job' = [job EXCEPT !.next = r.next]
         /\ disk' = [obj |-> obj, prop |-> f,
                     val |-> IF Len(val') < Len(val) THEN val' ELSE val]
         /\ IF Pointing(f, r.id) # {}
            THEN /\ \E s \in StackProps :
                      prop' = [f EXCEPT ![Least(Pointing(f, r.id))] = [s EXCEPT !.next = r.next]]
                 /\ UNCHANGED obj
            ELSE /\ DumpEnds(obj, f)
                 /\ WithId(obj, r.owner) # {}
                 /\ prop' = f
                 /\ LET i == Least(WithId(obj, r.owner))
                    IN  IF obj[i].first = r.id
                        THEN \E s \in StackObjects :
                               obj' = [obj EXCEPT ![i] = [s EXCEPT !.first = r.next]]
                        ELSE UNCHANGED obj
  /\ UNCHANGED drawn

\* It fails, and bindio_delete_obj with it: the value is not there,
DeleteValueless ==
  /\ job # None /\ WithId(prop, job.next) # {}
  /\ DumpEnds(obj, prop)
  /\ ValueOf(prop[Least(WithId(prop, job.next))]) = {}
  /\ disk' = Files
  /\ job' = None
  /\ UNCHANGED <<obj, prop, val, drawn>>

\* or nothing links to the property, and its object is not there.
DeleteOwnerless ==
  /\ job # None /\ WithId(prop, job.next) # {}
  /\ DumpEnds(obj, prop)
  /\ LET r == prop[Least(WithId(prop, job.next))]
         f == Front(prop)
     IN  /\ ValueOf(r) # {} /\ Pointing(f, r.id) = {}
         /\ DumpEnds(obj, f) /\ WithId(obj, r.owner) = {}
         /\ prop' = f
         /\ val' = ValueDeleted(Least(ValueOf(r)))
         /\ disk' = [obj |-> obj, prop |-> f,
                     val |-> IF Len(val') < Len(val) THEN val' ELSE val]
  /\ job' = None
  /\ UNCHANGED <<obj, drawn>>

\* Mutant: the last record is not moved.
RemovedLast(i) == Front(obj)

\* Record i goes and the last one takes its place.
RemovedAt(i) == Front([obj EXCEPT ![i] = obj[Len(obj)]])

\* The rest of bindio_delete_obj.
EndDelete ==
  /\ job # None /\ WithId(prop, job.next) = {}
  /\ obj' = RemovedAt(job.pos)
  /\ disk' = [disk EXCEPT !.obj = obj']
  /\ job' = None
  /\ UNCHANGED <<prop, val, drawn>>

-----------------------------------------------------------------------------
(* The server is killed and started again; bind_init dumps the bindery *)

\* A seeded random() does not come back to the numbers of an earlier run; an
\* unseeded one begins with them.
Restart ==
  /\ disk' = Files'
  /\ job' = None
  /\ drawn' = IF Seeded THEN drawn ELSE 0

Crash ==
  /\ obj' = disk.obj /\ prop' = disk.prop /\ val' = disk.val
  /\ Restart

\* In bindio_delete_prop, when the value has been cut off and the property has
\* not.  (A value that is not the last is overwritten in the buffer only.)
CrashInDeleteProp ==
  /\ job # None /\ WithId(prop, job.next) # {}
  /\ DumpEnds(obj, prop)
  /\ ValueOf(prop[Least(WithId(prop, job.next))]) # {}
  /\ Least(ValueOf(prop[Least(WithId(prop, job.next))])) = Len(val)
  /\ val' = Front(val)
  /\ UNCHANGED <<obj, prop>>
  /\ Restart

\* In bindio_delete_obj, before the object file is truncated: the record that
\* bindio_delete_prop wrote is there, or the last one is there twice.
CrashInEndDelete ==
  /\ job # None /\ WithId(prop, job.next) = {}
  /\ obj' \in {obj, [obj EXCEPT ![job.pos] = obj[Len(obj)]]}
  /\ prop' = disk.prop /\ val' = disk.val
  /\ Restart

-----------------------------------------------------------------------------
Growing ==
  \/ \E S \in SUBSET DOMAIN disk : Look(S)
  \/ \E n \in Name :
       \/ AddObject(n)
       \/ \E p \in PropName : AddProp(n, p) \/ \E d \in Data : WriteProp(n, p, d)

\* The deletions that work: the object has no property, or just one, which was
\* added last of all, or none that can be found.
Careful(n) ==
  LET first == obj[RecordOf(n)].first
  IN  \/ WithId(prop, first) = {}
      \/ /\ WithId(prop, first) = {Len(prop)}
         /\ Last(prop).next = Nil
         /\ ValueOf(Last(prop)) \in {{}, {Len(val)}}

CarefulNext ==
  \/ Growing
  \/ \E n \in Name : Named(n) # {} /\ Careful(n) /\ DeleteObj(n)
  \/ DeleteProp \/ EndDelete

Harm ==
  \/ DeleteValueless \/ Crash \/ CrashInDeleteProp \/ CrashInEndDelete
  \/ \E n \in Name, p \in PropName : AddPropFails(n, p)

\* Careful operators, failing writes, and a server that may be killed.
CrashNext ==
  \/ CarefulNext /\ UNCHANGED harmed
  \/ Harm /\ harmed' = TRUE

CrashSpec == Init /\ [][CrashNext]_vars

\* Any deletion.
Next ==
  /\ \/ Growing \/ \E n \in Name : DeleteObj(n)
     \/ DeleteProp \/ DeleteValueless \/ DeleteOwnerless \/ EndDelete
  /\ UNCHANGED harmed

Spec == Init /\ [][Next]_vars

-----------------------------------------------------------------------------
(* Properties *)

\* The object that a deletion is about counts as gone when it begins.
Present(n) == Named(n) \ (IF job = None THEN {} ELSE {job.pos})

Lookup(n, p) ==
  LET found == PropsOf(obj[Least(Present(n))].id, p)
  IN  IF found = {} \/ ValueOf(prop[Least(found)]) = {} THEN None
      ELSE val[Least(ValueOf(prop[Least(found)]))].data

Directory == [n \in Name |-> IF Present(n) = {} THEN None
                             ELSE [p \in PropName |-> Lookup(n, p)]]

\* Until the server is killed or a write fails, what clients find by name in the
\* files is a map from objects to properties to values, and a call changes the
\* entry it names and no other.
Objects == INSTANCE FrommelObjects WITH bindery <- Directory

ImplementsObjects ==
  /\ Objects!Init
  /\ [][~harmed' => Objects!Next \/ UNCHANGED Directory]_vars

\* What a client writes to a property is what a read by name finds, and no other
\* entry changes, wherever deletions have moved the records and whatever was lost.
WritesReadBack ==
  [][val' # val /\ UNCHANGED <<obj, prop>> =>
       \A n \in Name, p \in PropName, d \in Data :
         WriteProp(n, p, d) => Directory' = [Directory EXCEPT ![n][p] = d]]_vars

\* Until then the chain of every object goes through all of its properties and no
\* others, so deleting the object can find them.
ChainsComplete ==
  job = None /\ ~harmed =>
    \A i \in DOMAIN obj :
      /\ ChainEnd(prop, obj[i].first) = Nil
      /\ Chained(prop, obj[i].first) = {k \in DOMAIN prop : prop[k].owner = obj[i].id}

\* No chain has a loop, whenever the server was killed: bindio_dump would
\* never return, and bind_init calls it before the server serves anybody.
ServerStarts == DumpEnds(obj, prop) /\ DumpEnds(disk.obj, disk.prop)

\* A chain may have lost its end, but never leads to another object's
\* property, which would be deleted with the wrong object.
ChainsStayHome ==
  job = None =>
    \A i \in DOMAIN obj : \A k \in Chained(prop, obj[i].first) : prop[k].owner = obj[i].id

\* No object has two properties of one name, also when adding one was
\* interrupted and tried again: the scans would find the first one only.
PropertiesOnce ==
  \A i, j \in DOMAIN prop :
    prop[i].owner = prop[j].owner /\ prop[i].name = prop[j].name => i = j

\* What is left of the files when the server was killed at any time, and wherever
\* a write has failed, can be read and used again.
FilesAreSound == ServerStarts /\ ChainsStayHome /\ PropertiesOnce

\* "This will delete object [objid] from the bindery, along with all
\* properties and values": those of other objects stay.  It fails for nearly
\* every object that has properties.
DeleteSparesOthers ==
  [][job # None => \A n \in Name : Present(n) # {} /\ Present(n)' # {} =>
                      \A p \in PropName : Lookup(n, p)' = Lookup(n, p)]_vars
=============================================================================
