------------------------------ MODULE FrommelSap ------------------------------
(***************************************************************************)
(* The table of services that other servers announce (sap.c): responses    *)
(* are read by the main loop statement by statement, and the SIGALRM       *)
(* handler cleans the table up.                                            *)
(*                                                                         *)
(* Times are ages, the time since last_update; a table that was never      *)
(* written has last_update 0 and is as old as can be.                      *)
(***************************************************************************)
EXTENDS Integers, Sequences

CONSTANTS
  Name,       \* server names
  Type,       \* service types, none of them zero
  Blank,      \* a type of zero, and the name in a slot that was never written
  NServices,  \* SAP_MAX_SERVICES
  Timeout,    \* SAP_TIMEOUT_LENGTH
  MaxPacket   \* entries of a response

ASSUME SapAssumption ==
  /\ NServices \in Nat \ {0} /\ Timeout \in Nat
  /\ MaxPacket \in Nat \ {0} /\ Blank \notin Name /\ Blank \notin Type

Slot    == 0..NServices-1
Service == [name : Name, type : Type]
Expired == Timeout + 1
Steps   == {"find", "type", "name", "stamp", "bindery"}

VARIABLES
  sap_service,  \* the table: a slot of type Blank is free
  packet,       \* the response being handled
  entry,        \* the entry of it that is next
  step,         \* the statement that is next
  slot,         \* the slot that was found for it
  gone,         \* services that are announced no more
  cleaned       \* history: the alarm went off during this response

vars == <<sap_service, packet, entry, step, slot, gone, cleaned>>

TypeOK ==
  /\ sap_service \in [Slot -> [type : Type \cup {Blank}, name : Name \cup {Blank}, age : 0..Expired]]
  /\ packet \in Seq(Service) /\ entry \in 1..MaxPacket + 1 /\ step \in Steps
  /\ slot \in Slot /\ gone \subseteq Service /\ cleaned \in BOOLEAN

-----------------------------------------------------------------------------
Idle == entry > Len(packet)

Holds(i, s) == sap_service[i].type = s.type /\ sap_service[i].name = s.name

Listed(s) == \E i \in Slot : Holds(i, s)

Used(i) == sap_service[i].type # Blank

\* Mutant: any slot will do.
FreeSlotsAny == Slot

\* The slots that sap_scan_freeserviceno may find.
FreeSlots == {i \in Slot : ~Used(i)}

Lowest(S) == CHOOSE i \in S : \A j \in S : i <= j

\* Mutant: a free slot is preferred to the one the service has.
FoundFreeFirst(s) == IF FreeSlots # {} THEN FreeSlots ELSE {i \in Slot : Holds(i, s)}

\* sap_scan_service, then sap_scan_freeserviceno.
Found(s) == IF Listed(s) THEN {i \in Slot : Holds(i, s)} ELSE FreeSlots

\* Mutant: the loop starts at 1.
CleanedFromOne == [i \in Slot |-> IF i > 0 /\ sap_service[i].age = Expired
                                  THEN [sap_service[i] EXCEPT !.type = Blank]
                                  ELSE sap_service[i]]

\* sap_cleanup: services that were not announced for longer than Timeout.
Cleaned == [i \in Slot |-> IF sap_service[i].age = Expired
                           THEN [sap_service[i] EXCEPT !.type = Blank]
                           ELSE sap_service[i]]

-----------------------------------------------------------------------------
Init ==
  /\ sap_service = [i \in Slot |-> [type |-> Blank, name |-> Blank, age |-> Expired]]
  /\ packet = <<>> /\ entry = 1 /\ step = "find" /\ slot = 0 /\ gone = {}
  /\ cleaned = FALSE

\* A response arrives: SAP operations 2 and 4.
Receive ==
  /\ Idle
  /\ \E n \in 1..MaxPacket : packet' \in [1..n -> Service \ gone]
  /\ entry' = 1 /\ step' = "find" /\ cleaned' = FALSE
  /\ UNCHANGED <<sap_service, slot, gone>>

Current == packet[entry]

Find ==
  /\ ~Idle /\ step = "find"
  /\ Found(Current) # {}
  /\ slot' = Lowest(Found(Current))
  /\ step' = "type"
  /\ UNCHANGED <<sap_service, packet, entry, gone, cleaned>>

\* "out of free service slots": the rest of the packet is left.
OutOfSlots ==
  /\ ~Idle /\ step = "find"
  /\ Found(Current) = {}
  /\ entry' = Len(packet) + 1
  /\ UNCHANGED <<sap_service, packet, step, slot, gone, cleaned>>

Write(at, next) ==
  /\ ~Idle /\ step = at
  /\ step' = next
  /\ UNCHANGED <<packet, entry, slot, gone, cleaned>>

WriteType == Write("type", "name")
          /\ sap_service' = [sap_service EXCEPT ![slot].type = Current.type]

\* The addresses, the socket and the hops go with the name.
WriteName == Write("name", "stamp")
          /\ sap_service' = [sap_service EXCEPT ![slot].name = Current.name]

Stamp == Write("stamp", "bindery")
      /\ sap_service' = [sap_service EXCEPT ![slot].age = 0]

\* A server is added to the bindery, by FrommelBindery's calls, whose results
\* nothing here depends on.  Then comes the next entry.
NextEntry ==
  /\ ~Idle /\ step = "bindery"
  /\ entry' = entry + 1 /\ step' = "find"
  /\ UNCHANGED <<sap_service, packet, slot, gone, cleaned>>

Handle == Find \/ OutOfSlots \/ WriteType \/ WriteName \/ Stamp \/ NextEntry

\* The part of sap_event that is about the table.
Alarm ==
  /\ sap_service' = Cleaned
  /\ cleaned' = ~Idle
  /\ UNCHANGED <<packet, entry, step, slot, gone>>

Tick ==
  /\ sap_service' = [i \in Slot |-> [sap_service[i] EXCEPT !.age =
                                       IF @ < Expired THEN @ + 1 ELSE @]]
  /\ UNCHANGED <<packet, entry, step, slot, gone, cleaned>>

\* A service ends, or its server is switched off.
Leave ==
  /\ \E s \in Service \ gone : gone' = gone \cup {s}
  /\ UNCHANGED <<sap_service, packet, entry, step, slot, cleaned>>

\* SIGALRM between any two statements.
Spec == Init /\ [][Receive \/ Handle \/ Tick \/ Leave \/ Alarm]_vars

\* The processor runs the handler, the clock ticks and the timer of sap_init
\* goes off again and again.  Nobody has to announce anything.
FairSpec == Spec /\ WF_vars(Handle) /\ WF_vars(Tick) /\ WF_vars(Alarm)

-----------------------------------------------------------------------------
(* Properties *)

\* Between packets every service has one slot, however the cleanup falls into
\* the writing of a slot that still has the name of another service.
ServicesListedOnce ==
  Idle => \A i, j \in Slot :
            Used(i) /\ Holds(j, sap_service[i]) => i = j

ResponseRead == NextEntry /\ entry = Len(packet)

\* "update or add the service": a response that was read to its end has all
\* its services in the table, if no alarm came in between.
AnnouncedIsListed ==
  [][ResponseRead /\ ~cleaned => \A e \in DOMAIN packet : Listed(packet[e])]_vars

\* The same with an alarm.  It fails: a slot has its type before its time of
\* update, so the cleanup takes a new service for a dead one.
AnnouncedSurvives ==
  [][ResponseRead => \A e \in DOMAIN packet : Listed(packet[e])]_vars

\* "do we already have this service? yes. update it": a service in the table
\* that is announced is updated.  It fails when it stands behind a new one in
\* a response and the table is full.
KnownIsUpdated ==
  [][OutOfSlots => \A e \in entry..Len(packet) : ~Listed(packet[e])]_vars

\* "This will get rid of any dead servers on the SAP list": a service that is
\* announced no more leaves the table for good, also if it is late in a packet
\* or the cleanup comes while its slot is written.
DeadServicesGo == \A s \in Service : s \in gone ~> [](~Idle \/ ~Listed(s))
=============================================================================
