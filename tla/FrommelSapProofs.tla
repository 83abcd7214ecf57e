---------------------------- MODULE FrommelSapProofs ----------------------------
(***************************************************************************)
(* What holds of the service table for every number of slots, names and    *)
(* types, and wherever the alarm falls into the reading of a response.     *)
(***************************************************************************)
EXTENDS FrommelSap, WellFoundedInduction, SequenceTheorems, TLAPS

Writing == step \in {"type", "name"}

\* In these slots every service stands once.
Once(S) == \A i, j \in S : Used(i) /\ Holds(j, sap_service[i]) => i = j

\* While a slot is written it may show anything, but it is the only one that
\* is going to hold the service.
OnceButSlot ==
  /\ ~Writing => Once(Slot)
  /\ Writing => /\ Once(Slot \ {slot})
                /\ \A j \in Slot \ {slot} : ~Holds(j, Current)
  /\ step = "name" => sap_service[slot].type \in {Blank, Current.type}

\* Without an alarm, what was read is in the table.
ReadIsListed ==
  /\ ~Writing => \A e \in 1..entry-1 : Listed(packet[e])
  /\ Writing => \A e \in 1..entry-1 :
                  \/ packet[e] = Current
                  \/ \E i \in Slot \ {slot} : Holds(i, packet[e])
  /\ step = "name" => sap_service[slot].type = Current.type
  /\ step \in {"stamp", "bindery"} => Listed(Current)

SapInv ==
  /\ TypeOK /\ Len(packet) <= MaxPacket
  /\ Idle => step = "find"
  /\ OnceButSlot
  /\ ~Idle /\ ~cleaned => ReadIsListed

-----------------------------------------------------------------------------
LEMMA LowestIsThere ==
  ASSUME NEW S \in SUBSET Nat, S # {}
  PROVE  Lowest(S) \in S
<1>1. \E i \in S : \A j \in S : <<j, i>> \notin OpToRel(<, Nat)
  BY NatLessThanWellFounded, WFMin
<1>2. PICK i \in S : \A j \in S : <<j, i>> \notin OpToRel(<, Nat)
  BY <1>1
<1>3. ASSUME NEW j \in S PROVE i <= j
  <2>1. i \in Nat /\ j \in Nat
    OBVIOUS
  <2>2. ASSUME j < i PROVE FALSE
    <3>1. <<j, i>> \in Nat \X Nat /\ <<j, i>>[1] < <<j, i>>[2]
      BY <2>1, <2>2
    <3>2. <<j, i>> \in OpToRel(<, Nat)
      BY <3>1, Zenon DEF OpToRel
    <3>3. QED
      BY <1>2, <3>2
  <2>3. QED
    BY <2>1, <2>2
<1>4. QED
  BY <1>2, <1>3 DEF Lowest

LEMMA CurrentIsService ==
  ASSUME TypeOK, ~Idle
  PROVE  /\ Current \in Service /\ Current.type # Blank /\ entry \in 1..Len(packet)
         /\ \A e \in 1..entry : packet[e] \in Service
<1>1. entry \in 1..Len(packet)
  BY SapAssumption DEF TypeOK, Idle
<1>2. \A e \in 1..entry : packet[e] \in Service
  BY <1>1 DEF TypeOK
<1>3. Current \in Service
  BY <1>1, <1>2 DEF Current
<1>4. QED
  BY <1>1, <1>2, <1>3, SapAssumption DEF Service

\* What a step does to the table, by columns.
LEMMA Columns ==
  ASSUME TypeOK, NEW i \in Slot
  PROVE  /\ sap_service[i].type \in Type \cup {Blank}
         /\ sap_service[i].name \in Name \cup {Blank}
         /\ sap_service[i].age \in 0..Expired
BY DEF TypeOK

LEMMA SapInvInit ==
  ASSUME Init
  PROVE  SapInv
<1>1. TypeOK
  <2>1. 0 \in Slot /\ Expired \in 0..Expired /\ 1 \in 1..MaxPacket + 1
    BY SapAssumption DEF Slot, Expired
  <2>2. sap_service \in [Slot -> [type : Type \cup {Blank}, name : Name \cup {Blank}, age : 0..Expired]]
    BY <2>1 DEF Init
  <2>3. packet \in Seq(Service)
    BY DEF Init
  <2>4. QED
    BY <2>1, <2>2, <2>3 DEF Init, TypeOK, Steps
<1>2. Len(packet) <= MaxPacket /\ Idle /\ step = "find"
  BY SapAssumption DEF Init, Idle
<1>3. OnceButSlot
  BY <1>2 DEF Init, OnceButSlot, Writing, Once, Used
<1>4. QED
  BY <1>1, <1>2, <1>3 DEF SapInv

LEMMA KeepReceive ==
  ASSUME SapInv, Receive
  PROVE  SapInv'
<1>1. PICK n \in 1..MaxPacket : packet' \in [1..n -> Service \ gone]
  BY DEF Receive
<1>2. packet' \in Seq(Service) /\ Len(packet') = n
  BY <1>1, SapAssumption
<1>3. /\ entry' = 1 /\ step' = "find" /\ sap_service' = sap_service
      /\ slot' = slot /\ gone' = gone /\ cleaned' = FALSE
  BY DEF Receive
<1>4. step = "find" /\ OnceButSlot
  BY DEF Receive, SapInv
<1>5. TypeOK' /\ Len(packet') <= MaxPacket
  <2>1. 1 \in 1..MaxPacket + 1 /\ n <= MaxPacket
    BY SapAssumption
  <2>2. QED
    BY <1>2, <1>3, <2>1 DEF SapInv, TypeOK, Steps
<1>6. OnceButSlot'
  BY <1>3, <1>4 DEF OnceButSlot, Writing, Once, Used, Holds
<1>7. ReadIsListed'
  BY <1>3 DEF ReadIsListed, Writing
<1>8. QED
  BY <1>3, <1>5, <1>6, <1>7 DEF SapInv

LEMMA KeepFind ==
  ASSUME SapInv, Find
  PROVE  SapInv'
<1>1. /\ ~Idle /\ step = "find" /\ step' = "type" /\ slot' = Lowest(Found(Current))
      /\ sap_service' = sap_service /\ packet' = packet /\ entry' = entry
      /\ gone' = gone /\ cleaned' = cleaned
  BY DEF Find
<1>2. Found(Current) \in SUBSET Slot /\ Found(Current) # {} /\ Slot \in SUBSET Nat
  BY SapAssumption DEF Find, Found, FreeSlots, Slot
<1>3. slot' \in Found(Current) /\ slot' \in Slot
  BY <1>1, <1>2, LowestIsThere
<1>4. Current \in Service /\ Current.type # Blank
  BY <1>1, CurrentIsService DEF SapInv
<1>5. Once(Slot)
  BY <1>1 DEF SapInv, OnceButSlot, Writing
<1>6. \A j \in Slot \ {slot'} : ~Holds(j, Current)
  <2>1. CASE Listed(Current)
    <3>1. Holds(slot', Current)
      BY <1>3, <2>1 DEF Found
    <3>2. \A j \in Slot : Holds(j, Current) => Used(slot') /\ Holds(j, sap_service[slot'])
      BY <3>1, <1>4 DEF Holds, Used
    <3>3. QED
      BY <3>2, <1>3, <1>5 DEF Once
  <2>2. CASE ~Listed(Current)
    BY <2>2 DEF Listed
  <2>3. QED
    BY <2>1, <2>2
<1>7. TypeOK'
  BY <1>1, <1>3 DEF SapInv, TypeOK, Steps
<1>8. OnceButSlot'
  <2>1. Once(Slot \ {slot'})
    BY <1>5 DEF Once
  <2>2. QED
    BY <1>1, <1>6, <2>1 DEF OnceButSlot, Writing, Once, Used, Holds, Current
<1>9. ASSUME ~cleaned PROVE ReadIsListed'
  <2>1. \A e \in 1..entry-1 : Listed(packet[e])
    BY <1>1, <1>9 DEF SapInv, ReadIsListed, Writing
  <2>2. ASSUME NEW e \in 1..entry-1
        PROVE  packet[e] = Current \/ \E i \in Slot \ {slot'} : Holds(i, packet[e])
    <3>1. PICK i \in Slot : Holds(i, packet[e])
      BY <2>1 DEF Listed
    <3>2. packet[e] \in Service
      BY <1>1, CurrentIsService DEF SapInv, TypeOK
    <3>3. CASE i = slot'
      <4>1. Used(slot')
        BY <3>1, <3>2, <3>3, SapAssumption DEF Holds, Used, Service
      <4>2. Holds(slot', Current)
        BY <1>3, <4>1 DEF Found, FreeSlots
      <4>3. packet[e] = Current
        BY <3>1, <3>2, <3>3, <4>2, <1>4 DEF Holds, Service
      <4>4. QED
        BY <4>3
    <3>4. QED
      BY <3>1, <3>3
  <2>3. QED
    BY <1>1, <2>2 DEF ReadIsListed, Writing, Holds, Current
<1>10. QED
  BY <1>1, <1>7, <1>8, <1>9 DEF SapInv, Idle

LEMMA KeepOutOfSlots ==
  ASSUME SapInv, OutOfSlots
  PROVE  SapInv'
<1>1. /\ step = "find" /\ entry' = Len(packet) + 1 /\ packet' = packet
      /\ UNCHANGED <<sap_service, step, slot, gone, cleaned>>
  BY DEF OutOfSlots
<1>2. Len(packet) \in Nat
  BY DEF SapInv, TypeOK
<1>3. Idle' /\ TypeOK'
  BY <1>1, <1>2, SapAssumption DEF SapInv, TypeOK, Idle
<1>4. OnceButSlot'
  BY <1>1 DEF SapInv, OnceButSlot, Writing, Once, Used, Holds
<1>5. QED
  BY <1>1, <1>3, <1>4 DEF SapInv

LEMMA KeepWriteType ==
  ASSUME SapInv, WriteType
  PROVE  SapInv'
<1>1. /\ ~Idle /\ step = "type" /\ step' = "name"
      /\ sap_service' = [sap_service EXCEPT ![slot].type = Current.type]
      /\ packet' = packet /\ entry' = entry /\ slot' = slot
      /\ gone' = gone /\ cleaned' = cleaned
  BY DEF WriteType, Write
<1>2. Current \in Service /\ Current.type \in Type
  BY <1>1, CurrentIsService DEF SapInv, Service
<1>3. /\ slot \in Slot /\ sap_service'[slot].type = Current.type
      /\ \A j \in Slot \ {slot} : sap_service'[j] = sap_service[j]
  BY <1>1 DEF SapInv, TypeOK
<1>4. TypeOK'
  BY <1>1, <1>2 DEF SapInv, TypeOK, Steps
<1>5. OnceButSlot'
  BY <1>1, <1>3 DEF SapInv, OnceButSlot, Writing, Once, Used, Holds, Current
<1>6. ~cleaned => ReadIsListed'
  BY <1>1, <1>3 DEF SapInv, ReadIsListed, Writing, Holds, Current
<1>7. QED
  BY <1>1, <1>4, <1>5, <1>6 DEF SapInv, Idle

LEMMA KeepWriteName ==
  ASSUME SapInv, WriteName
  PROVE  SapInv'
<1>1. /\ ~Idle /\ step = "name" /\ step' = "stamp"
      /\ sap_service' = [sap_service EXCEPT ![slot].name = Current.name]
      /\ packet' = packet /\ entry' = entry /\ slot' = slot
      /\ gone' = gone /\ cleaned' = cleaned
  BY DEF WriteName, Write
<1>2. Current \in Service /\ Current.name \in Name /\ Current.type # Blank
  BY <1>1, CurrentIsService DEF SapInv, Service
<1>3. /\ slot \in Slot /\ sap_service'[slot].name = Current.name
      /\ sap_service'[slot].type = sap_service[slot].type
      /\ \A j \in Slot \ {slot} : sap_service'[j] = sap_service[j]
  BY <1>1 DEF SapInv, TypeOK
<1>4. TypeOK'
  BY <1>1, <1>2 DEF SapInv, TypeOK, Steps
<1>5. /\ Once(Slot \ {slot})
      /\ \A j \in Slot \ {slot} : ~Holds(j, Current)
      /\ sap_service[slot].type \in {Blank, Current.type}
  BY <1>1 DEF SapInv, OnceButSlot, Writing
<1>6. Once(Slot)'
  <2>1. SUFFICES ASSUME NEW i \in Slot, NEW j \in Slot,
                        Used(i)', sap_service'[j].type = sap_service'[i].type,
                        sap_service'[j].name = sap_service'[i].name, i # j
                 PROVE  FALSE
    BY DEF Once, Holds
  <2>2. CASE i # slot /\ j # slot
    BY <2>1, <2>2, <1>3, <1>5 DEF Once, Holds, Used
  <2>3. CASE i = slot
    BY <2>1, <2>3, <1>2, <1>3, <1>5 DEF Holds, Used
  <2>4. CASE j = slot
    BY <2>1, <2>4, <1>2, <1>3, <1>5 DEF Holds, Used
  <2>5. QED
    BY <2>2, <2>3, <2>4
<1>7. OnceButSlot'
  BY <1>1, <1>6 DEF OnceButSlot, Writing
<1>8. ASSUME ~cleaned PROVE ReadIsListed'
  <2>1. /\ sap_service[slot].type = Current.type
        /\ \A e \in 1..entry-1 : \/ packet[e] = Current
                                 \/ \E i \in Slot \ {slot} : Holds(i, packet[e])
    BY <1>1, <1>8 DEF SapInv, ReadIsListed, Writing
  <2>2. Listed(Current)'
    BY <1>1, <1>3, <2>1 DEF Listed, Holds, Current
  <2>3. \A e \in 1..entry-1 : Listed(packet[e])'
    BY <1>1, <1>3, <2>1, <2>2 DEF Listed, Holds, Current
  <2>4. QED
    BY <1>1, <2>2, <2>3 DEF ReadIsListed, Writing, Listed, Holds
<1>9. QED
  BY <1>1, <1>4, <1>7, <1>8 DEF SapInv, Idle

\* The ages of the services are nothing the invariant is about.
LEMMA KeepAges ==
  ASSUME SapInv, TypeOK', UNCHANGED <<packet, entry, slot, cleaned>>,
         \A i \in Slot : /\ sap_service'[i].type = sap_service[i].type
                         /\ sap_service'[i].name = sap_service[i].name,
         step' = step \/ (~Idle /\ step = "stamp" /\ step' = "bindery")
  PROVE  SapInv'
<1>1. OnceButSlot'
  <2>1. Current' = Current /\ Writing' = Writing /\ slot' = slot /\ slot \in Slot
    BY DEF Current, Writing, SapInv, TypeOK
  <2>2. \A S \in SUBSET Slot : Once(S) => Once(S)'
    BY DEF Once, Used, Holds
  <2>3. \A j \in Slot : ~Holds(j, Current) => ~Holds(j, Current)'
    BY <2>1 DEF Holds
  <2>4. Once(Slot \ {slot}) => Once(Slot \ {slot})'
    BY <2>1, <2>2 DEF Once
  <2>5. step' = "name" => step = "name"
    OBVIOUS
  <2>6. Once(Slot) => Once(Slot)'
    BY <2>2
  <2>7. QED
    BY <2>1, <2>3, <2>4, <2>5, <2>6 DEF SapInv, OnceButSlot
<1>2. ~Idle /\ ~cleaned => ReadIsListed'
  <2>1. SUFFICES ASSUME ReadIsListed PROVE ReadIsListed'
    BY DEF SapInv
  <2>2. /\ packet' = packet /\ entry' = entry /\ slot' = slot /\ slot \in Slot
        /\ Writing' = Writing /\ (step' = "name" => step = "name")
        /\ step' \in {"stamp", "bindery"} => step \in {"stamp", "bindery"}
    BY DEF Writing, SapInv, TypeOK
  <2>3. ~Writing => (\A e \in 1..entry-1 : Listed(packet[e]))'
    BY <2>1, <2>2 DEF ReadIsListed, Listed, Holds
  <2>4. Writing => (\A e \in 1..entry-1 : \/ packet[e] = Current
                                          \/ \E i \in Slot \ {slot} : Holds(i, packet[e]))'
    BY <2>1, <2>2 DEF ReadIsListed, Holds, Current
  <2>5. step' = "name" => (sap_service[slot].type = Current.type)'
    BY <2>1, <2>2 DEF ReadIsListed, Current
  <2>6. step' \in {"stamp", "bindery"} => Listed(Current)'
    BY <2>1, <2>2 DEF ReadIsListed, Listed, Holds, Current
  <2>7. QED
    BY <2>2, <2>3, <2>4, <2>5, <2>6 DEF ReadIsListed
<1>3. QED
  BY <1>1, <1>2 DEF SapInv, Idle

LEMMA KeepStamp ==
  ASSUME SapInv, Stamp
  PROVE  SapInv'
<1>1. /\ ~Idle /\ step = "stamp" /\ step' = "bindery"
      /\ sap_service' = [sap_service EXCEPT ![slot].age = 0]
      /\ UNCHANGED <<packet, entry, slot, gone, cleaned>>
  BY DEF Stamp, Write
<1>2. 0 \in 0..Expired
  BY SapAssumption DEF Expired
<1>3. TypeOK'
  BY <1>1, <1>2 DEF SapInv, TypeOK, Steps
<1>4. \A i \in Slot : /\ sap_service'[i].type = sap_service[i].type
                      /\ sap_service'[i].name = sap_service[i].name
  BY <1>1 DEF SapInv, TypeOK
<1>5. QED
  BY <1>1, <1>3, <1>4, KeepAges

LEMMA KeepTick ==
  ASSUME SapInv, Tick
  PROVE  SapInv'
<1> DEFINE Older(i) == [sap_service[i] EXCEPT !.age = IF @ < Expired THEN @ + 1 ELSE @]
<1>1. /\ sap_service' = [i \in Slot |-> Older(i)]
      /\ UNCHANGED <<packet, entry, step, slot, gone, cleaned>>
  BY DEF Tick
<1>2. ASSUME NEW i \in Slot
      PROVE  /\ Older(i) \in [type : Type \cup {Blank}, name : Name \cup {Blank}, age : 0..Expired]
             /\ Older(i).type = sap_service[i].type /\ Older(i).name = sap_service[i].name
  <2>1. /\ sap_service[i] \in [type : Type \cup {Blank}, name : Name \cup {Blank}, age : 0..Expired]
        /\ Expired \in Nat
    BY SapAssumption DEF SapInv, TypeOK, Expired
  <2>2. (IF sap_service[i].age < Expired THEN sap_service[i].age + 1 ELSE sap_service[i].age)
          \in 0..Expired
    BY <2>1
  <2>3. QED
    BY <2>1, <2>2
<1> HIDE DEF Older
<1>3. TypeOK'
  BY <1>1, <1>2 DEF SapInv, TypeOK
<1>4. QED
  BY <1>1, <1>2, <1>3, KeepAges

LEMMA KeepNextEntry ==
  ASSUME SapInv, NextEntry
  PROVE  SapInv'
<1>1. /\ ~Idle /\ step = "bindery" /\ step' = "find" /\ entry' = entry + 1
      /\ UNCHANGED <<sap_service, packet, slot, gone, cleaned>>
  BY DEF NextEntry
<1>2. entry \in 1..Len(packet) /\ Len(packet) \in Nat
  BY <1>1, CurrentIsService DEF SapInv, TypeOK
<1>3. TypeOK'
  BY <1>1, <1>2, SapAssumption DEF SapInv, TypeOK, Steps
<1>4. OnceButSlot'
  BY <1>1 DEF SapInv, OnceButSlot, Writing, Once, Used, Holds
<1>5. ASSUME ~cleaned PROVE ReadIsListed'
  <2>1. /\ \A e \in 1..entry-1 : Listed(packet[e])
        /\ Listed(Current)
    BY <1>1, <1>5 DEF SapInv, ReadIsListed, Writing
  <2>2. \A e \in 1..entry'-1 : e = entry \/ e \in 1..entry-1
    BY <1>1, <1>2
  <2>3. QED
    BY <1>1, <2>1, <2>2 DEF ReadIsListed, Writing, Listed, Holds, Current
<1>6. QED
  BY <1>1, <1>3, <1>4, <1>5 DEF SapInv

LEMMA KeepAlarm ==
  ASSUME SapInv, Alarm
  PROVE  SapInv'
<1> DEFINE Kept(i) == IF sap_service[i].age = Expired
                      THEN [sap_service[i] EXCEPT !.type = Blank]
                      ELSE sap_service[i]
<1>1. /\ sap_service' = [i \in Slot |-> Kept(i)] /\ cleaned' = ~Idle
      /\ UNCHANGED <<packet, entry, step, slot, gone>>
  BY DEF Alarm, Cleaned
<1>2. ASSUME NEW i \in Slot
      PROVE  /\ Kept(i) \in [type : Type \cup {Blank}, name : Name \cup {Blank}, age : 0..Expired]
             /\ Kept(i).name = sap_service[i].name
             /\ Kept(i).type \in {Blank, sap_service[i].type}
  BY DEF SapInv, TypeOK
<1> HIDE DEF Kept
<1>3. /\ \A i \in Slot : /\ sap_service'[i].name = sap_service[i].name
                         /\ sap_service'[i].type \in {Blank, sap_service[i].type}
      /\ TypeOK' /\ Idle' = Idle
  BY <1>1, <1>2 DEF SapInv, TypeOK, Idle
<1>4. \A S \in SUBSET Slot : Once(S) => Once(S)'
  BY <1>3 DEF Once, Used, Holds
<1>5. ~Idle => \A j \in Slot : ~Holds(j, Current) => ~Holds(j, Current)'
  BY <1>1, <1>3, CurrentIsService DEF SapInv, Holds, Current
<1>6. OnceButSlot'
  <2>1. CASE Writing
    <3>1. ~Idle /\ Once(Slot \ {slot}) /\ \A j \in Slot \ {slot} : ~Holds(j, Current)
      BY <2>1 DEF SapInv, OnceButSlot, Writing
    <3>2. step = "name" => sap_service'[slot].type \in {Blank, Current.type}
      BY <1>3 DEF SapInv, OnceButSlot, TypeOK
    <3>3. Once(Slot \ {slot})'
      BY <1>1, <1>4, <3>1 DEF Once
    <3>4. QED
      BY <1>1, <1>5, <2>1, <3>1, <3>2, <3>3 DEF OnceButSlot, Writing, Current
  <2>2. CASE ~Writing
    <3>1. Once(Slot)'
      BY <1>4, <2>2 DEF SapInv, OnceButSlot
    <3>2. QED
      BY <1>1, <2>2, <3>1 DEF OnceButSlot, Writing
  <2>3. QED
    BY <2>1, <2>2
<1>7. QED
  BY <1>1, <1>3, <1>6 DEF SapInv

LEMMA SapInvNext ==
  ASSUME SapInv, [Receive \/ Handle \/ Tick \/ Leave \/ Alarm]_vars
  PROVE  SapInv'
<1>1. CASE Leave \/ UNCHANGED vars
  <2>1. /\ UNCHANGED <<sap_service, packet, entry, step, slot, cleaned>>
        /\ gone' \in SUBSET Service
    BY <1>1 DEF Leave, vars, SapInv, TypeOK
  <2>2. TypeOK'
    BY <2>1 DEF SapInv, TypeOK
  <2>3. QED
    BY <2>1, <2>2, KeepAges
<1>2. QED
  BY <1>1, KeepReceive, KeepFind, KeepOutOfSlots, KeepWriteType, KeepWriteName, KeepStamp,
     KeepNextEntry, KeepTick, KeepAlarm DEF Handle

LEMMA SapInvHolds == Spec => []SapInv
<1>1. Init => SapInv
  BY SapInvInit
<1>2. SapInv /\ [Receive \/ Handle \/ Tick \/ Leave \/ Alarm]_vars => SapInv'
  BY SapInvNext
<1>3. QED
  BY <1>1, <1>2, PTL DEF Spec

\* Between packets no service stands in the table twice, whatever sap_cleanup
\* takes out while sap_handle_response is writing a slot.
THEOREM SapListedOnce == Spec => []ServicesListedOnce
<1>1. SapInv => ServicesListedOnce
  BY DEF SapInv, OnceButSlot, Writing, Once, ServicesListedOnce
<1>2. QED
  BY <1>1, SapInvHolds, PTL

\* A response that no alarm falls into has all its services in the table when it
\* was read to its end: a later entry never takes the slot of an earlier one.
THEOREM SapAnnouncedIsListed == Spec => AnnouncedIsListed
<1>1. ASSUME SapInv, ResponseRead, ~cleaned
      PROVE  \A e \in DOMAIN packet : Listed(packet[e])
  <2>1. ~Idle /\ step = "bindery" /\ entry = Len(packet)
    BY <1>1 DEF ResponseRead, NextEntry
  <2>2. /\ \A e \in 1..entry-1 : Listed(packet[e])
        /\ Listed(Current)
    BY <1>1, <2>1 DEF SapInv, ReadIsListed, Writing
  <2>3. DOMAIN packet = 1..entry /\ entry \in Nat
    BY <1>1, <2>1 DEF SapInv, TypeOK
  <2>4. \A e \in DOMAIN packet : e = entry \/ e \in 1..entry-1
    BY <2>3
  <2>5. QED
    BY <2>2, <2>4 DEF Current
<1>2. SapInv => [ResponseRead /\ ~cleaned => \A e \in DOMAIN packet : Listed(packet[e])]_vars
  BY <1>1
<1>3. QED
  BY <1>2, SapInvHolds, PTL DEF AnnouncedIsListed
=============================================================================
