-------------------------- MODULE FrommelConnProofs --------------------------
(***************************************************************************)
(* What FrommelConn keeps for every number of connections, file handles,   *)
(* descriptors, nodes and users, and every timeout, and what FrommelAlarm  *)
(* keeps of that.                                                          *)
(***************************************************************************)
EXTENDS FrommelAlarm, TLAPS

-----------------------------------------------------------------------------
(* Types *)

\* The records the handlers write are connection records.
LEMMA RecordTypes ==
  /\ Blank \in Connection
  /\ \A r \in Connection : LoggedOut(r) \in Connection
  /\ Slot # {} /\ 0 \in Fd
<1>1. 0 \in Fd /\ 1 \in Slot
  BY SizesAssumption DEF Fd, Slot
<1>2. Blank \in Connection
  BY <1>1, SizesAssumption DEF Blank, Connection
<1>3. \A r \in Connection : LoggedOut(r) \in Connection
  BY DEF LoggedOut, Connection
<1>4. QED
  BY <1>1, <1>2, <1>3

LEMMA ZeroAge == 0 \in 0..Timeout + 1
BY SizesAssumption

LEMMA FreshRecord ==
  ASSUME NEW r \in Connection, NEW a \in Station
  PROVE  [r EXCEPT !.addr = a, !.idle = 0, !.wdog = FALSE] \in Connection
BY ZeroAge DEF Connection

LEMMA HeardRecord ==
  ASSUME NEW r \in Connection
  PROVE  /\ [r EXCEPT !.idle = 0] \in Connection
         /\ [r EXCEPT !.idle = 0, !.wdog = FALSE] \in Connection
BY ZeroAge DEF Connection

LEMMA LoginRecord ==
  ASSUME NEW r \in Connection, NEW u \in User
  PROVE  [r EXCEPT !.status = "loggedin", !.user = u, !.idle = 0] \in Connection
BY ZeroAge DEF Connection

LEMMA FileRecord ==
  ASSUME NEW r \in Connection, NEW h \in File, NEW f \in Fd \cup {-1}
  PROVE  [r EXCEPT !.fh[h] = f, !.idle = 0] \in Connection
<1>1. [r.fh EXCEPT ![h] = f] \in [File -> Fd \cup {-1}]
  BY DEF Connection
<1>2. QED
  BY <1>1, ZeroAge DEF Connection

\* close() leaves a descriptor table.
LEMMA CloseType ==
  ASSUME TypeOK, NEW S
  PROVE  Close(S) \in [Fd -> Owner \cup {Free, StdIn}]
BY DEF Close, TypeOK

LEMMA TypeInit == Init => TypeOK
<1>1. SUFFICES ASSUME Init PROVE TypeOK
  OBVIOUS
<1>2. conn \in [Slot -> Connection]
  BY <1>1, RecordTypes DEF Init
<1>3. fdt \in [Fd -> Owner \cup {Free, StdIn}]
  BY <1>1 DEF Init
<1>4. QED
  BY <1>1, <1>2, <1>3 DEF Init, TypeOK

\* A step of the table, also where a packet is served that would no longer be
\* accepted, as FrommelAlarm has it.
AnyStep ==
  \/ \E a \in Station : CreateConn(a)
  \/ \E c \in Slot : Handle(c)
  \/ Environment

LEMMA NextIsAny == [Next]_vars => [AnyStep]_vars
BY DEF Next, AnyStep

LEMMA TypeKept == TypeOK /\ [AnyStep]_vars => TypeOK'
<1> SUFFICES ASSUME TypeOK, [AnyStep]_vars PROVE TypeOK'
  OBVIOUS
<1> USE RecordTypes, CloseType
<1>1. ASSUME NEW a \in Station, CreateConn(a) PROVE TypeOK'
  <2>1. PICK c \in Slot :
          conn' = [conn EXCEPT ![c] = [LoggedOut(@) EXCEPT !.addr = a, !.idle = 0,
                                                           !.wdog = FALSE]]
    BY <1>1 DEF CreateConn
  <2>2. [LoggedOut(conn[c]) EXCEPT !.addr = a, !.idle = 0, !.wdog = FALSE] \in Connection
    <3>1. LoggedOut(conn[c]) \in Connection
      BY DEF TypeOK
    <3>2. QED
      BY <3>1, FreshRecord
  <2>3. QED
    BY <1>1, <2>1, <2>2 DEF CreateConn, TypeOK
<1>2. ASSUME NEW c \in Slot, Handle(c) PROVE TypeOK'
  <2>0. conn[c] \in Connection
    BY DEF TypeOK
  <2>1. CASE DestroyConn(c)
    BY <2>1 DEF DestroyConn, TypeOK
  <2>2. CASE Request(c)
    <3>1. [conn[c] EXCEPT !.idle = 0] \in Connection
      BY <2>0, HeardRecord
    <3>2. QED
      BY <2>2, <3>1 DEF Request, TypeOK
  <2>3. CASE Logout(c)
    <3>1. LoggedOut(conn[c]) \in Connection
      BY <2>0
    <3>2. [LoggedOut(conn[c]) EXCEPT !.idle = 0] \in Connection
      BY <3>1, HeardRecord
    <3>3. QED
      BY <2>3, <3>2 DEF Logout, TypeOK
  <2>4. CASE OpenFile(c)
    <3>1. PICK h \in File, f \in Fd :
            /\ conn' = [conn EXCEPT ![c] = Opened(@, h, f)]
            /\ fdt' = [fdt EXCEPT ![f] = <<c, h>>]
      BY <2>4 DEF OpenFile
    <3>2. Opened(conn[c], h, f) \in Connection
      BY <2>0, FileRecord DEF Opened
    <3>3. <<c, h>> \in Owner
      BY DEF Owner
    <3>4. QED
      BY <2>4, <3>1, <3>2, <3>3 DEF OpenFile, TypeOK
  <2>5. ASSUME NEW u \in User, KeyedLogin(c, u) PROVE TypeOK'
    <3>1. [conn[c] EXCEPT !.status = "loggedin", !.user = u, !.idle = 0] \in Connection
      BY <2>0, LoginRecord
    <3>2. QED
      BY <2>5, <3>1 DEF KeyedLogin, TypeOK
  <2>6. ASSUME NEW h \in File, CloseFile(c, h) PROVE TypeOK'
    <3>1. [conn[c] EXCEPT !.fh[h] = -1, !.idle = 0] \in Connection
      BY <2>0, FileRecord
    <3>2. QED
      BY <2>6, <3>1 DEF CloseFile, TypeOK
  <2>7. ASSUME NEW d \in Slot, ClearConn(c, d) PROVE TypeOK'
    <3>1. [conn[c] EXCEPT !.idle = 0] \in Connection
      BY <2>0, HeardRecord
    <3>2. QED
      BY <2>7, <3>1 DEF ClearConn, TypeOK
  <2>8. QED
    BY <1>2, <2>1, <2>2, <2>3, <2>4, <2>5, <2>6, <2>7 DEF Handle
<1>3. ASSUME NEW c \in Slot, OperatorClear(c) PROVE TypeOK'
  BY <1>3 DEF OperatorClear, TypeOK
<1>4. ASSUME NEW k \in Cid, NEW n \in Node, WatchdogAnswer(k, n) PROVE TypeOK'
  <2>1. \A c \in Slot : Alive(conn[c]) \in Connection
    BY HeardRecord DEF TypeOK, Alive
  <2>2. conn' \in [Slot -> Connection]
    BY <1>4, <2>1 DEF WatchdogAnswer, TypeOK
  <2>3. wire' \subseteq wire /\ fdt' = fdt /\ silent' = silent
    BY <1>4 DEF WatchdogAnswer
  <2>4. QED
    BY <2>2, <2>3 DEF TypeOK
<1>5. ASSUME NEW k \in Cid, NEW n \in Node, LoseWatchdog(k, n) PROVE TypeOK'
  BY <1>5 DEF LoseWatchdog, TypeOK
<1>6. ASSUME NEW n \in Node, FallSilent(n) PROVE TypeOK'
  BY <1>6 DEF FallSilent, TypeOK
<1>7. CASE ConnCleanup
  <2>1. \A c \in Slot : Queried(conn[c]) \in Connection
    BY DEF Queried, Connection, TypeOK
  <2>2. conn' \in [Slot -> Connection]
    BY <1>7, <2>1 DEF ConnCleanup, TypeOK
  <2>3. fdt' \in [Fd -> Owner \cup {Free, StdIn}]
    BY <1>7 DEF ConnCleanup
  <2>4. wire' \subseteq Cid \X Node /\ silent' = silent
    BY <1>7 DEF ConnCleanup, TypeOK
  <2>5. QED
    BY <2>2, <2>3, <2>4 DEF TypeOK
<1>8. CASE Tick
  <2>1. \A c \in Slot : conn[c].idle <= Timeout =>
          [conn[c] EXCEPT !.idle = @ + 1] \in Connection
    BY SizesAssumption DEF Connection, TypeOK
  <2>2. QED
    BY <1>8, <2>1 DEF Tick, TypeOK
<1>9. CASE UNCHANGED vars
  BY <1>9 DEF vars, TypeOK
<1>10. QED
  BY <1>1, <1>2, <1>3, <1>4, <1>5, <1>6, <1>7, <1>8, <1>9 DEF AnyStep, Environment

LEMMA TypeStep == TypeOK /\ [Next]_vars => TypeOK'
BY TypeKept, NextIsAny

\* Every variable keeps its type: in particular no handle holds a number that
\* is not a descriptor, and no age exceeds the cap.
THEOREM TypeCorrect == Spec => []TypeOK
BY TypeInit, TypeStep, PTL DEF Spec

-----------------------------------------------------------------------------
(* Descriptors *)

\* Closing what the slots of D hold leaves the other slots' files alone.
LEMMA CloseOthers ==
  ASSUME TypeOK, HandlesOwnTheirFiles, NEW D \in SUBSET Slot,
         NEW d \in Slot \ D, NEW h \in File, conn[d].fh[h] > 0
  PROVE  Close(UNION {Closed(conn[c]) : c \in D})[conn[d].fh[h]] = <<d, h>>
<1> DEFINE f == conn[d].fh[h]
<1>1. conn[d] \in Connection /\ f \in Fd /\ fdt[f] = <<d, h>>
  BY SizesAssumption DEF TypeOK, Connection, HandlesOwnTheirFiles, Fd
<1>2. ASSUME NEW c \in D, f \in Closed(conn[c]) PROVE FALSE
  <2>1. PICK i \in File : conn[c].fh[i] = f
    BY <1>2 DEF Closed
  <2>2. fdt[f] = <<c, i>>
    BY <2>1 DEF HandlesOwnTheirFiles
  <2>3. QED
    BY <1>1, <2>2
<1>3. f \notin UNION {Closed(conn[c]) : c \in D}
  BY <1>2
<1>4. QED
  BY <1>1, <1>3 DEF Close

LEMMA CloseOther ==
  ASSUME TypeOK, HandlesOwnTheirFiles, NEW c \in Slot, NEW d \in Slot, c # d,
         NEW h \in File, conn[d].fh[h] > 0
  PROVE  Close(Closed(conn[c]))[conn[d].fh[h]] = <<d, h>>
<1>1. UNION {Closed(conn[e]) : e \in {c}} = Closed(conn[c])
  OBVIOUS
<1>2. d \in Slot \ {c} /\ {c} \in SUBSET Slot
  OBVIOUS
<1>3. QED
  BY <1>1, <1>2, CloseOthers

LEMMA HandlesInit == Init => HandlesOwnTheirFiles
BY DEF Init, HandlesOwnTheirFiles, Blank

LEMMA HandlesKept ==
  TypeOK /\ HandlesOwnTheirFiles /\ [AnyStep]_vars => HandlesOwnTheirFiles'
<1> SUFFICES ASSUME TypeOK, HandlesOwnTheirFiles, [AnyStep]_vars,
                    NEW d \in Slot, NEW i \in File, conn'[d].fh[i] > 0
             PROVE  fdt'[conn'[d].fh[i]] = <<d, i>>
  BY DEF HandlesOwnTheirFiles
<1>0. conn \in [Slot -> Connection] /\ conn[d] \in Connection
      /\ (conn[d].fh[i] > 0 => fdt[conn[d].fh[i]] = <<d, i>>)
  BY DEF TypeOK, HandlesOwnTheirFiles
<1>1. ASSUME NEW a \in Station, CreateConn(a) PROVE fdt'[conn'[d].fh[i]] = <<d, i>>
  <2>1. PICK c \in Slot :
          /\ conn' = [conn EXCEPT ![c] = [LoggedOut(@) EXCEPT !.addr = a, !.idle = 0,
                                                             !.wdog = FALSE]]
          /\ fdt' = Close(Closed(conn[c]))
    BY <1>1 DEF CreateConn
  <2>2. d # c
    BY <1>0, <2>1 DEF LoggedOut, Connection
  <2>3. QED
    BY <1>0, <2>1, <2>2, CloseOther
<1>2. ASSUME NEW c \in Slot, Handle(c) PROVE fdt'[conn'[d].fh[i]] = <<d, i>>
  <2>0. conn[c] \in Connection
    BY DEF TypeOK
  <2>1. CASE DestroyConn(c)
    BY <1>0, <2>1 DEF DestroyConn, Blank
  <2>2. CASE Request(c)
    BY <1>0, <2>2 DEF Request, Connection
  <2>3. CASE Logout(c)
    <3>1. d # c
      BY <1>0, <2>3 DEF Logout, LoggedOut, Connection
    <3>2. QED
      BY <1>0, <2>3, <3>1, CloseOther DEF Logout
  <2>4. CASE OpenFile(c)
    <3>1. PICK h \in File, f \in Fd :
            /\ fdt[f] = Free
            /\ conn' = [conn EXCEPT ![c] = Opened(@, h, f)]
            /\ fdt' = [fdt EXCEPT ![f] = <<c, h>>]
      BY <2>4 DEF OpenFile, First
    <3>2. CASE d = c /\ i = h
      <4>1. conn'[d].fh[i] = f
        BY <1>0, <3>1, <3>2 DEF Opened, Connection
      <4>2. QED
        BY <3>1, <3>2, <4>1 DEF TypeOK
    <3>3. CASE ~(d = c /\ i = h)
      <4>1. conn'[d].fh[i] = conn[d].fh[i]
        BY <1>0, <3>1, <3>3 DEF Opened, Connection
      <4>2. <<d, i>> # Free
        BY OwnerAssumption DEF Owner
      <4>3. conn[d].fh[i] # f
        BY <1>0, <3>1, <4>1, <4>2
      <4>4. QED
        BY <1>0, <3>1, <4>1, <4>3 DEF TypeOK, Connection, Fd
    <3>4. QED
      BY <3>2, <3>3
  <2>5. ASSUME NEW u \in User, KeyedLogin(c, u)
        PROVE  fdt'[conn'[d].fh[i]] = <<d, i>>
    BY <1>0, <2>5 DEF KeyedLogin, Connection
  <2>6. ASSUME NEW h \in File, CloseFile(c, h)
        PROVE  fdt'[conn'[d].fh[i]] = <<d, i>>
    <3>1. ~(d = c /\ i = h) /\ conn'[d].fh[i] = conn[d].fh[i]
      BY <1>0, <2>6 DEF CloseFile, Connection
    <3>2. conn[c].fh[h] # conn[d].fh[i]
      BY <1>0, <3>1 DEF HandlesOwnTheirFiles
    <3>3. QED
      BY <1>0, <2>6, <3>1, <3>2 DEF CloseFile, Close, TypeOK, Connection, Fd
  <2>7. ASSUME NEW e \in Slot, ClearConn(c, e)
        PROVE  fdt'[conn'[d].fh[i]] = <<d, i>>
    <3>1. d # e
      BY <2>7 DEF ClearConn, Blank
    <3>2. conn'[d].fh[i] = conn[d].fh[i]
      BY <1>0, <2>7, <3>1 DEF ClearConn, Connection
    <3>3. QED
      BY <2>7, <3>1, <3>2, CloseOther DEF ClearConn
  <2>8. QED
    BY <1>2, <2>1, <2>2, <2>3, <2>4, <2>5, <2>6, <2>7 DEF Handle
<1>3. ASSUME NEW c \in Slot, OperatorClear(c) PROVE fdt'[conn'[d].fh[i]] = <<d, i>>
  <2>1. d # c
    BY <1>0, <1>3 DEF OperatorClear, Blank
  <2>2. QED
    BY <1>0, <1>3, <2>1, CloseOther DEF OperatorClear
<1>4. ASSUME NEW k \in Cid, NEW n \in Node, WatchdogAnswer(k, n)
      PROVE  fdt'[conn'[d].fh[i]] = <<d, i>>
  BY <1>0, <1>4 DEF WatchdogAnswer, Alive, Connection
<1>5. CASE ConnCleanup
  <2> DEFINE D == {c \in Slot : Expired(c) /\ conn[c].wdog}
  <2>1. d \notin D /\ conn'[d].fh[i] = conn[d].fh[i]
    BY <1>0, <1>5 DEF ConnCleanup, Queried, Blank, Connection
  <2>2. fdt' = Close(UNION {Closed(conn[c]) : c \in D})
    <3>1. D = {c \in {e \in Slot : Expired(e)} : conn[c].wdog}
      OBVIOUS
    <3>2. QED
      BY <1>5, <3>1 DEF ConnCleanup
  <2>3. D \in SUBSET Slot
    OBVIOUS
  <2>4. QED
    BY <2>1, <2>2, <2>3, CloseOthers
<1>6. CASE Tick
  BY <1>0, <1>6 DEF Tick, Connection
<1>7. CASE UNCHANGED <<conn, fdt>>
  BY <1>0, <1>7
<1>8. QED
  BY <1>1, <1>2, <1>3, <1>4, <1>5, <1>6, <1>7
     DEF AnyStep, Environment, FallSilent, LoseWatchdog, vars

LEMMA HandlesStep ==
  TypeOK /\ HandlesOwnTheirFiles /\ [Next]_vars => HandlesOwnTheirFiles'
BY HandlesKept, NextIsAny

\* A file handle never reads or writes a file another handle opened, as long as
\* it is not on descriptor 0: the closes of conn_logout, conn_clear and
\* conn_cleanup hit the slot's own files only.
THEOREM HandlesOwned == Spec => []HandlesOwnTheirFiles
BY TypeInit, TypeStep, HandlesInit, HandlesStep, PTL DEF Spec

-----------------------------------------------------------------------------
(* Slots and nodes *)

\* Neither of the two is inductive without the other: a login makes a slot a
\* used one, and only an address in Node lets the packet in.
SlotInv == SlotsAreWhole /\ OneSlotPerNode

LEMMA Names ==
  /\ NoAddr \notin Station /\ NoUser \notin User /\ ZeroId \notin User
  /\ \A n \in Node : n # NoNode
BY NamesAssumption DEF NoAddr, Station

LEMMA SlotInit == Init => SlotInv
BY Names DEF Init, SlotInv, SlotsAreWhole, OneSlotPerNode, AtNode, Used, Blank, NoAddr

LEMMA HeardIsUsed ==
  ASSUME TypeOK, SlotsAreWhole, NEW c \in Slot, Heard(c)
  PROVE  Used(c) /\ conn[c].addr \in Station /\ conn[c].addr # NoAddr
BY Names DEF TypeOK, Connection, SlotsAreWhole, Heard, NoAddr

\* A step that moves no slot to another address keeps the nodes apart.
LEMMA NodesApart ==
  ASSUME OneSlotPerNode,
         \A c \in Slot : conn'[c].addr \in {conn[c].addr, NoAddr}
  PROVE  OneSlotPerNode'
BY Names DEF OneSlotPerNode, AtNode, NoAddr

LEMMA SlotStep == TypeOK /\ SlotInv /\ [Next]_vars => SlotInv'
<1> SUFFICES ASSUME TypeOK, SlotsAreWhole, OneSlotPerNode, [Next]_vars
             PROVE  SlotsAreWhole' /\ OneSlotPerNode'
  BY DEF SlotInv
<1>0. conn \in [Slot -> Connection] /\ \A c \in Slot : conn[c] \in Connection
  BY DEF TypeOK
<1>1. ASSUME NEW a \in Station, CreateConn(a) PROVE SlotsAreWhole' /\ OneSlotPerNode'
  <2>1. PICK c \in Slot :
          /\ Placed(c, a)
          /\ conn' = [conn EXCEPT ![c] = [LoggedOut(@) EXCEPT !.addr = a, !.idle = 0,
                                                             !.wdog = FALSE]]
    BY <1>1 DEF CreateConn
  <2>2. /\ conn'[c].addr = a /\ conn'[c].status = "attached" /\ conn'[c].user = NoUser
        /\ \A d \in Slot \ {c} : conn'[d] = conn[d]
    BY <1>0, <2>1 DEF LoggedOut, Connection
  <2>3. SlotsAreWhole'
    BY <2>2, Names DEF SlotsAreWhole, Used
  <2>4. a.node \in Node
    BY DEF Station
  <2>5. \A d \in AtNode(a.node) : d = c
    BY <2>1, <2>4 DEF Placed, First, OneSlotPerNode
  <2>6. OneSlotPerNode'
    BY <2>2, <2>5 DEF OneSlotPerNode, AtNode
  <2>7. QED
    BY <2>3, <2>6
<1>2. ASSUME NEW c \in Slot, Heard(c), Handle(c)
      PROVE  SlotsAreWhole' /\ OneSlotPerNode'
  <2>0. Used(c) /\ conn[c].addr \in Station /\ conn[c].addr # NoAddr
    BY <1>2, HeardIsUsed
  <2>1. CASE DestroyConn(c)
    BY <1>0, <2>1, Names, NodesApart DEF DestroyConn, Blank, SlotsAreWhole, Used
  <2>2. CASE Request(c)
    BY <1>0, <2>2, NodesApart DEF Request, SlotsAreWhole, Used, Connection
  <2>3. CASE Logout(c)
    BY <1>0, <2>0, <2>3, Names, NodesApart
       DEF Logout, LoggedOut, SlotsAreWhole, Used, Connection
  <2>4. CASE OpenFile(c)
    BY <1>0, <2>4, NodesApart DEF OpenFile, Opened, SlotsAreWhole, Used, Connection
  <2>5. ASSUME NEW u \in User, KeyedLogin(c, u)
        PROVE  SlotsAreWhole' /\ OneSlotPerNode'
    BY <1>0, <2>0, <2>5, NodesApart DEF KeyedLogin, SlotsAreWhole, Used, Connection
  <2>6. ASSUME NEW h \in File, CloseFile(c, h)
        PROVE  SlotsAreWhole' /\ OneSlotPerNode'
    BY <1>0, <2>6, NodesApart DEF CloseFile, SlotsAreWhole, Used, Connection
  <2>7. ASSUME NEW e \in Slot, ClearConn(c, e)
        PROVE  SlotsAreWhole' /\ OneSlotPerNode'
    BY <1>0, <2>7, Names, NodesApart DEF ClearConn, Blank, SlotsAreWhole, Used, Connection
  <2>8. QED
    BY <1>2, <2>1, <2>2, <2>3, <2>4, <2>5, <2>6, <2>7 DEF Handle
<1>3. ASSUME NEW c \in Slot, OperatorClear(c) PROVE SlotsAreWhole' /\ OneSlotPerNode'
  BY <1>0, <1>3, Names, NodesApart DEF OperatorClear, Blank, SlotsAreWhole, Used
<1>4. ASSUME NEW k \in Cid, NEW n \in Node, WatchdogAnswer(k, n)
      PROVE  SlotsAreWhole' /\ OneSlotPerNode'
  BY <1>0, <1>4, NodesApart DEF WatchdogAnswer, Alive, SlotsAreWhole, Used, Connection
<1>5. CASE ConnCleanup
  BY <1>0, <1>5, Names, NodesApart DEF ConnCleanup, Queried, Blank, SlotsAreWhole, Used, Connection
<1>6. CASE Tick
  BY <1>0, <1>6, NodesApart DEF Tick, SlotsAreWhole, Used, Connection
<1>7. CASE UNCHANGED conn
  BY <1>7, NodesApart DEF SlotsAreWhole, Used
<1>8. QED
  BY <1>1, <1>2, <1>3, <1>4, <1>5, <1>6, <1>7
     DEF Next, Environment, FallSilent, LoseWatchdog, vars

\* The table never holds a node twice, whatever the order in which creates (also
\* repeated ones, and from several ports), destroys, clears and drops arrive.
THEOREM NodeHasOneSlot == Spec => []OneSlotPerNode
<1>1. Spec => []SlotInv
  BY TypeInit, TypeStep, SlotInit, SlotStep, PTL DEF Spec
<1>2. SlotInv => OneSlotPerNode
  BY DEF SlotInv
<1>3. QED
  BY <1>1, <1>2, PTL

\* A slot is used exactly while it has an address, and names a user exactly
\* while someone is logged in: no wiped slot can be addressed by a packet.
THEOREM WholeSlots == Spec => []SlotsAreWhole
<1>1. Spec => []SlotInv
  BY TypeInit, TypeStep, SlotInit, SlotStep, PTL DEF Spec
<1>2. SlotInv => SlotsAreWhole
  BY DEF SlotInv
<1>3. QED
  BY <1>1, <1>2, PTL

-----------------------------------------------------------------------------
(* Implementation of the abstract sessions *)

Held == [c \in Slot |-> Session(c)]

LEMMA SessionsInit == Init => Sessions!Init
BY DEF Init, Sessions!Init, Sessions!NoSession, Sessions!Slot, Slot, Session,
       Blank, Used, NoAddr

\* A handler that leaves what Session reads of every slot is a stutter.
LEMMA SameSessions ==
  ASSUME \A c \in Slot : Session(c)' = Session(c)
  PROVE  UNCHANGED Held
BY DEF Held

LEMMA Dropped ==
  ASSUME NEW D \in SUBSET Slot,
         \A c \in D : conn'[c] = Blank,
         \A c \in Slot \ D : Session(c)' = Session(c)
  PROVE  Sessions!Next
<1>1. \A c \in D : Session(c)' = Sessions!NoSession
  BY DEF Session, Blank, Used, NoAddr, Sessions!NoSession
<1>2. Sessions!Drop(D)
  BY <1>1 DEF Sessions!Drop, Sessions!Slot, Slot
<1>3. QED
  BY <1>2 DEF Sessions!Next, Sessions!Slot, Slot

LEMMA DroppedOne ==
  ASSUME NEW c \in Slot, conn'[c] = Blank,
         \A d \in Slot \ {c} : Session(d)' = Session(d)
  PROVE  Sessions!Next
<1>1. {c} \in SUBSET Slot /\ \A d \in {c} : conn'[d] = Blank
  OBVIOUS
<1>2. QED
  BY <1>1, Dropped

LEMMA SessionsStep ==
  TypeOK /\ SlotInv /\ [Next]_vars => [Sessions!Next]_Held
<1> SUFFICES ASSUME TypeOK, SlotsAreWhole, OneSlotPerNode, [Next]_vars
             PROVE  Sessions!Next \/ UNCHANGED Held
  BY DEF SlotInv
<1>0. conn \in [Slot -> Connection] /\ \A c \in Slot : conn[c] \in Connection
  BY DEF TypeOK
<1>a. Sessions!Slot = Slot
  BY DEF Sessions!Slot, Slot
<1>1. ASSUME NEW a \in Station, CreateConn(a) PROVE Sessions!Next
  <2>1. PICK c \in Slot :
          /\ Placed(c, a)
          /\ conn' = [conn EXCEPT ![c] = [LoggedOut(@) EXCEPT !.addr = a, !.idle = 0,
                                                             !.wdog = FALSE]]
    BY <1>1 DEF CreateConn
  <2>2. /\ conn'[c].addr = a /\ conn'[c].status = "attached" /\ conn'[c].user = NoUser
        /\ \A d \in Slot \ {c} : conn'[d] = conn[d]
    BY <1>0, <2>1 DEF LoggedOut, Connection
  <2>3. Held' = [Held EXCEPT ![c] = [node |-> a.node, user |-> NoUser]]
    BY <2>2 DEF Held, Session, Used
  <2>4. a.node \in Node /\ a.node # NoNode
    BY Names DEF Station
  <2>5. \/ Sessions!Holds(a.node, c)
        \/ Session(c) = Sessions!NoSession /\ \A d \in Slot : ~Sessions!Holds(a.node, d)
    <3>1. \A d \in Slot : Sessions!Holds(a.node, d) <=> d \in AtNode(a.node)
      BY DEF Sessions!Holds, Session, AtNode
    <3>2. CASE AtNode(a.node) # {}
      BY <2>1, <3>1, <3>2 DEF Placed, First
    <3>3. CASE AtNode(a.node) = {}
      <4>1. ~Used(c)
        BY <2>1, <3>3 DEF Placed, First, FreeSlots
      <4>2. conn[c].addr = NoAddr
        BY <4>1 DEF SlotsAreWhole
      <4>3. QED
        BY <3>1, <3>3, <4>1, <4>2 DEF Session, NoAddr, Sessions!NoSession
    <3>4. QED
      BY <3>2, <3>3
  <2>6. Sessions!Attach(a.node, c)
    BY <2>3, <2>5, <1>a DEF Sessions!Attach, Held
  <2>7. QED
    BY <2>4, <2>6, <1>a DEF Sessions!Next
<1>2. ASSUME NEW c \in Slot, Heard(c), Handle(c) PROVE Sessions!Next \/ UNCHANGED Held
  <2>0. Used(c) /\ Session(c) # Sessions!NoSession
    <3>1. Used(c)
      BY <1>2, HeardIsUsed
    <3>2. Session(c).node # NoNode
      BY <1>2, Names DEF Heard, Session
    <3>3. QED
      BY <3>1, <3>2 DEF Sessions!NoSession
  <2>1. CASE DestroyConn(c)
    <3>1. conn'[c] = Blank /\ \A d \in Slot \ {c} : Session(d)' = Session(d)
      BY <1>0, <2>1 DEF DestroyConn, Session, Used
    <3>2. QED
      BY <3>1, DroppedOne
  <2>2. CASE Request(c)
    <3>1. \A d \in Slot : Session(d)' = Session(d)
      BY <1>0, <2>2 DEF Request, Session, Used, Connection
    <3>2. QED
      BY <3>1, SameSessions
  <2>3. CASE Logout(c)
    <3>1. Held' = [Held EXCEPT ![c] = [@ EXCEPT !.user = NoUser]]
      BY <1>0, <2>3 DEF Logout, LoggedOut, Held, Session, Used, Connection
    <3>2. Sessions!Logout(c)
      BY <2>0, <3>1 DEF Sessions!Logout, Held
    <3>3. QED
      BY <3>2, <1>a DEF Sessions!Next
  <2>4. CASE OpenFile(c)
    <3>1. \A d \in Slot : Session(d)' = Session(d)
      BY <1>0, <2>4 DEF OpenFile, Opened, Session, Used, Connection
    <3>2. QED
      BY <3>1, SameSessions
  <2>5. ASSUME NEW u \in User, KeyedLogin(c, u) PROVE Sessions!Next
    <3>1. Held' = [Held EXCEPT ![c] = [@ EXCEPT !.user = u]]
      BY <1>0, <2>5 DEF KeyedLogin, Held, Session, Used, Connection
    <3>2. Sessions!Login(c, u)
      BY <2>0, <3>1 DEF Sessions!Login, Held
    <3>3. QED
      BY <3>2, <1>a DEF Sessions!Next
  <2>6. ASSUME NEW h \in File, CloseFile(c, h) PROVE UNCHANGED Held
    <3>1. \A d \in Slot : Session(d)' = Session(d)
      BY <1>0, <2>6 DEF CloseFile, Session, Used, Connection
    <3>2. QED
      BY <3>1, SameSessions
  <2>7. ASSUME NEW e \in Slot, ClearConn(c, e) PROVE Sessions!Next
    <3>1. conn'[e] = Blank /\ \A d \in Slot \ {e} : Session(d)' = Session(d)
      BY <1>0, <2>7 DEF ClearConn, Session, Used, Connection
    <3>2. QED
      BY <3>1, DroppedOne
  <2>8. QED
    BY <1>2, <2>1, <2>2, <2>3, <2>4, <2>5, <2>6, <2>7 DEF Handle
<1>3. ASSUME NEW c \in Slot, OperatorClear(c) PROVE Sessions!Next
  <2>1. conn'[c] = Blank /\ \A d \in Slot \ {c} : Session(d)' = Session(d)
    BY <1>0, <1>3 DEF OperatorClear, Session, Used
  <2>2. QED
    BY <2>1, DroppedOne
<1>4. ASSUME NEW k \in Cid, NEW n \in Node, WatchdogAnswer(k, n) PROVE UNCHANGED Held
  <2>1. \A d \in Slot : Session(d)' = Session(d)
    BY <1>0, <1>4 DEF WatchdogAnswer, Alive, Session, Used, Connection
  <2>2. QED
    BY <2>1, SameSessions
<1>5. CASE ConnCleanup
  <2> DEFINE D == {c \in Slot : Expired(c) /\ conn[c].wdog}
  <2>1. \A c \in D : conn'[c] = Blank
    BY <1>5 DEF ConnCleanup
  <2>2. \A c \in Slot \ D : Session(c)' = Session(c)
    BY <1>0, <1>5 DEF ConnCleanup, Queried, Session, Used, Connection
  <2>3. D \in SUBSET Slot
    OBVIOUS
  <2>4. QED
    BY <2>1, <2>2, <2>3, Dropped
<1>6. CASE Tick
  <2>1. \A d \in Slot : Session(d)' = Session(d)
    BY <1>0, <1>6 DEF Tick, Session, Used, Connection
  <2>2. QED
    BY <2>1, SameSessions
<1>7. CASE UNCHANGED conn
  BY <1>7 DEF Held, Session, Used
<1>8. QED
  BY <1>1, <1>2, <1>3, <1>4, <1>5, <1>6, <1>7
     DEF Next, Environment, FallSilent, LoseWatchdog, vars

\* The connection table implements the sessions promised to clients: a slot
\* changes hands only through being free, and its user only by login, logout,
\* a new create of the same node or the end of the session.
THEOREM SessionsImplemented == Spec => ImplementsSessions
<1>1. Spec => Init /\ [][Next]_vars /\ []TypeOK /\ []SlotInv
  BY TypeInit, TypeStep, SlotInit, SlotStep, PTL DEF Spec
<1>2. Sessions!Spec <=> Sessions!Init /\ [][Sessions!Next]_Held
  BY DEF Sessions!Spec, Held
<1>3. QED
  BY <1>1, <1>2, SessionsInit, SessionsStep, PTL DEF ImplementsSessions

-----------------------------------------------------------------------------
(* The alarm inside a handler *)

Attaching == {"placed", "closed", "loggedout"}

\* Until its address is written, the slot of an attach is the only one that may
\* be at the node of the caller.
PlacedAlone ==
  job.at \in Attaching => job.from \in Station /\ AtNode(job.from.node) \subseteq {job.slot}

AlarmInv == AlarmTypeOK /\ OneSlotPerNode /\ PlacedAlone /\ HandlesOwnTheirFiles

LEMMA PollTypes == InPoll.at = "poll" /\ "poll" \notin Attaching
BY DEF InPoll, Attaching

LEMMA JobTypes ==
  ASSUME AlarmTypeOK, job.at # "poll"
  PROVE  job \in [at : Stages, slot : Slot, from : Station \cup {NoAddr}, rung : BOOLEAN]
BY DEF AlarmTypeOK, InPoll

LEMMA NotInPoll == ASSUME AlarmTypeOK, job # InPoll PROVE job.at # "poll"
BY DEF AlarmTypeOK, Stages

LEMMA AlarmInvInit == AlarmInit => AlarmInv
<1> SUFFICES ASSUME AlarmInit PROVE AlarmInv
  OBVIOUS
<1>1. Init /\ job = InPoll
  BY DEF AlarmInit
<1>2. OneSlotPerNode
  BY <1>1, SlotInit DEF SlotInv
<1>3. QED
  BY <1>1, <1>2, TypeInit, HandlesInit, PollTypes DEF AlarmInv, AlarmTypeOK, PlacedAlone

\* A step of the table that is no create gives no slot another address.
LEMMA AddressesStay ==
  ASSUME TypeOK, Environment \/ \E c \in Slot : Handle(c)
  PROVE  \A c \in Slot : conn'[c].addr \in {conn[c].addr, NoAddr}
<1>0. conn \in [Slot -> Connection] /\ \A c \in Slot : conn[c] \in Connection
  BY DEF TypeOK
<1>1. ASSUME NEW e \in Slot, Handle(e)
      PROVE  \A c \in Slot : conn'[c].addr \in {conn[c].addr, NoAddr}
  <2> DEFINE Kept == \A c \in Slot : conn'[c].addr \in {conn[c].addr, NoAddr}
  <2>1. CASE DestroyConn(e)
    BY <1>0, <2>1 DEF DestroyConn, Blank
  <2>2. CASE Request(e)
    BY <1>0, <2>2 DEF Request, Connection
  <2>3. CASE Logout(e)
    BY <1>0, <2>3 DEF Logout, LoggedOut, Connection
  <2>4. CASE OpenFile(e)
    BY <1>0, <2>4 DEF OpenFile, Opened, Connection
  <2>5. ASSUME NEW u \in User, KeyedLogin(e, u) PROVE Kept
    BY <1>0, <2>5 DEF KeyedLogin, Connection
  <2>6. ASSUME NEW h \in File, CloseFile(e, h) PROVE Kept
    BY <1>0, <2>6 DEF CloseFile, Connection
  <2>7. ASSUME NEW d \in Slot, ClearConn(e, d) PROVE Kept
    BY <1>0, <2>7 DEF ClearConn, Blank, Connection
  <2>8. QED
    BY <1>1, <2>1, <2>2, <2>3, <2>4, <2>5, <2>6, <2>7 DEF Handle
<1>2. ASSUME Environment PROVE \A c \in Slot : conn'[c].addr \in {conn[c].addr, NoAddr}
  <2>1. ASSUME NEW e \in Slot, OperatorClear(e)
        PROVE  \A c \in Slot : conn'[c].addr \in {conn[c].addr, NoAddr}
    BY <1>0, <2>1 DEF OperatorClear, Blank
  <2>2. ASSUME NEW k \in Cid, NEW n \in Node, WatchdogAnswer(k, n)
        PROVE  \A c \in Slot : conn'[c].addr \in {conn[c].addr, NoAddr}
    BY <1>0, <2>2 DEF WatchdogAnswer, Alive, Connection
  <2>3. CASE ConnCleanup
    BY <1>0, <2>3 DEF ConnCleanup, Blank, Queried, Connection
  <2>4. CASE Tick
    BY <1>0, <2>4 DEF Tick, Connection
  <2>5. QED
    BY <1>2, <2>1, <2>2, <2>3, <2>4 DEF Environment, LoseWatchdog, FallSilent
<1>3. QED
  BY <1>1, <1>2

LEMMA StayAlone ==
  ASSUME PlacedAlone, job'.at \in Attaching => job.at \in Attaching,
         job'.from = job.from, job'.slot = job.slot,
         \A c \in Slot : conn'[c].addr \in {conn[c].addr, NoAddr}
  PROVE  PlacedAlone'
<1> SUFFICES ASSUME job.at \in Attaching
             PROVE  job.from \in Station /\ AtNode(job.from.node)' \subseteq {job.slot}
  BY DEF PlacedAlone
<1>1. job.from \in Station /\ job.from.node \in Node
  BY DEF PlacedAlone, Station
<1>2. \A c \in Slot : conn'[c].addr.node = job.from.node => conn[c].addr.node = job.from.node
  BY <1>1, Names DEF NoAddr
<1>3. QED
  BY <1>1, <1>2 DEF PlacedAlone, AtNode

\* A statement of an attach writes a connection record in the slot.
LEMMA StepTypes ==
  ASSUME AlarmTypeOK, NEW from \in Stages, NEW to \in Stages, NEW r \in Connection,
         Step(from, to, r), fdt' \in [Fd -> Owner \cup {Free, StdIn}]
  PROVE  /\ AlarmTypeOK'
         /\ job.slot \in Slot /\ job'.at = to /\ job'.slot = job.slot /\ job'.from = job.from
         /\ job'.rung = job.rung
         /\ conn' = [conn EXCEPT ![job.slot] = r]
<1>1. job \in [at : Stages, slot : Slot, from : Station \cup {NoAddr}, rung : BOOLEAN]
  BY JobTypes DEF Step, Stages
<1>2. job' = [job EXCEPT !.at = to] /\ conn' = [conn EXCEPT ![job.slot] = r]
      /\ UNCHANGED <<wire, silent>>
  BY DEF Step
<1>3. job' \in [at : Stages, slot : Slot, from : Station \cup {NoAddr}, rung : BOOLEAN]
  BY <1>1, <1>2
<1>4. TypeOK'
  BY <1>1, <1>2 DEF AlarmTypeOK, TypeOK
<1>5. QED
  BY <1>1, <1>2, <1>3, <1>4 DEF AlarmTypeOK

LEMMA AlarmInvStep == AlarmInv /\ [AlarmNext]_allvars => AlarmInv'
<1> SUFFICES ASSUME AlarmTypeOK, OneSlotPerNode, PlacedAlone, HandlesOwnTheirFiles,
                    [AlarmNext]_allvars
             PROVE  AlarmInv'
  BY DEF AlarmInv
<1>0. TypeOK /\ conn \in [Slot -> Connection] /\ \A c \in Slot : conn[c] \in Connection
  BY DEF AlarmTypeOK, TypeOK
<1>a. ASSUME UNCHANGED vars
      PROVE  TypeOK' /\ OneSlotPerNode' /\ HandlesOwnTheirFiles'
  BY <1>0, <1>a DEF vars, TypeOK, OneSlotPerNode, AtNode, HandlesOwnTheirFiles
<1>1. ASSUME NEW a \in Station, Place(a) PROVE AlarmInv'
  <2>1. PICK c \in Slot :
          /\ Placed(c, a)
          /\ job' = [at |-> "placed", slot |-> c, from |-> a, rung |-> FALSE]
    BY <1>1 DEF Place
  <2>2. UNCHANGED vars
    BY <1>1 DEF Place
  <2>3. AlarmTypeOK'
    BY <1>a, <2>1, <2>2 DEF AlarmTypeOK, Stages
  <2>4. a.node \in Node
    BY DEF Station
  <2>5. AtNode(a.node) \subseteq {c}
    BY <2>1, <2>4 DEF Placed, First, OneSlotPerNode
  <2>6. PlacedAlone'
    BY <2>1, <2>2, <2>5 DEF PlacedAlone, AtNode, vars
  <2>7. QED
    BY <1>a, <2>2, <2>3, <2>6 DEF AlarmInv
<1>2. CASE CloseFiles
  <2> DEFINE r == [conn[job.slot] EXCEPT !.fh = [h \in File |-> -1]]
  <2>1. job.slot \in Slot
    BY <1>2, JobTypes DEF CloseFiles, Step
  <2>2. r \in Connection
    BY <1>0, <2>1 DEF Connection
  <2>3. fdt' = Close(Closed(conn[job.slot])) /\ Step("placed", "closed", r)
    BY <1>2 DEF CloseFiles
  <2>4. /\ AlarmTypeOK'
        /\ job'.at = "closed" /\ job.at = "placed" /\ job'.slot = job.slot
        /\ job'.from = job.from
        /\ conn' = [conn EXCEPT ![job.slot] = r]
    <3> HIDE DEF r
    <3>1. QED
      BY <1>0, <2>2, <2>3, CloseType, StepTypes DEF Stages, Step
  <2>5. \A c \in Slot : conn'[c].addr = conn[c].addr
    BY <1>0, <2>1, <2>4 DEF Connection
  <2>6. OneSlotPerNode' /\ PlacedAlone'
    BY <2>4, <2>5, NodesApart, StayAlone DEF Attaching
  <2>7. ASSUME NEW d \in Slot, NEW i \in File, conn'[d].fh[i] > 0
        PROVE  fdt'[conn'[d].fh[i]] = <<d, i>>
    <3>1. d # job.slot
      BY <1>0, <2>1, <2>4, <2>7 DEF Connection
    <3>2. QED
      BY <1>0, <2>1, <2>3, <2>4, <2>7, <3>1, CloseOther
  <2>8. QED
    BY <2>4, <2>6, <2>7 DEF AlarmInv, HandlesOwnTheirFiles
<1>3. ASSUME NEW from \in Stages, NEW to \in Stages \ {"placed"}, NEW r \in Connection,
             Step(from, to, r), UNCHANGED fdt, r.fh = conn[job.slot].fh
      PROVE  /\ AlarmTypeOK' /\ HandlesOwnTheirFiles'
             /\ job.at = from /\ job.slot \in Slot /\ job'.at = to
             /\ job'.slot = job.slot /\ job'.from = job.from
             /\ conn' = [conn EXCEPT ![job.slot] = r]
  <2>1. /\ AlarmTypeOK'
        /\ job.slot \in Slot /\ job'.at = to /\ job'.slot = job.slot /\ job'.from = job.from
        /\ conn' = [conn EXCEPT ![job.slot] = r]
    BY <1>0, <1>3, StepTypes DEF TypeOK
  <2>2. HandlesOwnTheirFiles'
    BY <1>0, <1>3, <2>1 DEF HandlesOwnTheirFiles
  <2>3. QED
    BY <1>3, <2>1, <2>2 DEF Step
<1>4. CASE LogOut
  <2> DEFINE r == [conn[job.slot] EXCEPT !.status = "attached", !.user = NoUser]
  <2>1. job.slot \in Slot
    BY <1>4, JobTypes DEF LogOut, Step
  <2>2. r \in Connection /\ r.fh = conn[job.slot].fh /\ r.addr = conn[job.slot].addr
    BY <1>0, <2>1 DEF Connection
  <2>3. Step("closed", "loggedout", r) /\ UNCHANGED fdt
    BY <1>4 DEF LogOut
  <2> HIDE DEF r
  <2>4. /\ AlarmTypeOK' /\ HandlesOwnTheirFiles'
        /\ job.at = "closed" /\ job'.at = "loggedout" /\ job'.slot = job.slot
        /\ job'.from = job.from
        /\ conn' = [conn EXCEPT ![job.slot] = r]
    BY <1>3, <2>2, <2>3 DEF Stages
  <2>5. \A c \in Slot : conn'[c].addr = conn[c].addr
    BY <1>0, <2>1, <2>2, <2>4
  <2>6. OneSlotPerNode' /\ PlacedAlone'
    BY <2>4, <2>5, NodesApart, StayAlone DEF Attaching
  <2>7. QED
    BY <2>4, <2>6 DEF AlarmInv
<1>5. CASE SetAddress
  <2> DEFINE r == [conn[job.slot] EXCEPT !.addr = job.from]
  <2>1. job.slot \in Slot /\ job.from \in Station \cup {NoAddr} /\ job.at \in Attaching
    BY <1>5, JobTypes DEF SetAddress, Step, Attaching
  <2>2. r \in Connection /\ r.fh = conn[job.slot].fh /\ r.addr = job.from
    BY <1>0, <2>1 DEF Connection
  <2>3. Step("loggedout", "addressed", r) /\ UNCHANGED fdt
    BY <1>5 DEF SetAddress
  <2> HIDE DEF r
  <2>4. /\ AlarmTypeOK' /\ HandlesOwnTheirFiles' /\ job'.at = "addressed"
        /\ conn' = [conn EXCEPT ![job.slot] = r]
    BY <1>3, <2>2, <2>3 DEF Stages
  <2>5. AtNode(job.from.node) \subseteq {job.slot}
    BY <2>1 DEF PlacedAlone
  <2>6. OneSlotPerNode'
    BY <1>0, <2>1, <2>2, <2>4, <2>5 DEF OneSlotPerNode, AtNode
  <2>7. PlacedAlone'
    BY <2>4 DEF PlacedAlone, Attaching
  <2>8. QED
    BY <2>4, <2>6, <2>7 DEF AlarmInv
<1>6. CASE SetTimes
  <2> DEFINE r == [conn[job.slot] EXCEPT !.idle = 0, !.wdog = FALSE]
  <2>1. job.slot \in Slot
    BY <1>6, JobTypes DEF SetTimes, Step
  <2>2. r \in Connection
    BY <1>0, <2>1, HeardRecord
  <2>3. r.fh = conn[job.slot].fh /\ r.addr = conn[job.slot].addr
    BY <1>0, <2>1 DEF Connection
  <2>4. Step("addressed", "returned", r) /\ UNCHANGED fdt
    BY <1>6 DEF SetTimes
  <2> HIDE DEF r
  <2>5. /\ AlarmTypeOK' /\ HandlesOwnTheirFiles' /\ job'.at = "returned"
        /\ conn' = [conn EXCEPT ![job.slot] = r]
    BY <1>3, <2>2, <2>3, <2>4 DEF Stages
  <2>6. \A c \in Slot : conn'[c].addr = conn[c].addr
    BY <1>0, <2>1, <2>3, <2>5
  <2>7. OneSlotPerNode' /\ PlacedAlone'
    BY <2>5, <2>6, NodesApart DEF PlacedAlone, Attaching
  <2>8. QED
    BY <2>5, <2>7 DEF AlarmInv
<1>7. ASSUME job' = InPoll, UNCHANGED vars PROVE AlarmInv'
  <2>1. AlarmTypeOK' /\ PlacedAlone'
    BY <1>a, <1>7, PollTypes DEF AlarmTypeOK, PlacedAlone
  <2>2. QED
    BY <1>a, <1>7, <2>1 DEF AlarmInv
<1>8. ASSUME NEW c \in Slot, Accept(c) PROVE AlarmInv'
  <2>1. job' = [at |-> "accepted", slot |-> c, from |-> NoAddr, rung |-> FALSE] /\ UNCHANGED vars
    BY <1>8 DEF Accept
  <2>2. AlarmTypeOK' /\ PlacedAlone'
    BY <1>a, <2>1 DEF AlarmTypeOK, PlacedAlone, Stages, Attaching
  <2>3. QED
    BY <1>a, <2>1, <2>2 DEF AlarmInv
<1>9. ASSUME Environment \/ \E c \in Slot : Handle(c)
      PROVE  TypeOK' /\ OneSlotPerNode' /\ HandlesOwnTheirFiles'
             /\ \A c \in Slot : conn'[c].addr \in {conn[c].addr, NoAddr}
  <2>1. AnyStep
    BY <1>9 DEF AnyStep
  <2>2. \A c \in Slot : conn'[c].addr \in {conn[c].addr, NoAddr}
    BY <1>0, <1>9, AddressesStay
  <2>3. QED
    BY <1>0, <2>1, <2>2, TypeKept, HandlesKept, NodesApart
<1>10. CASE Serve
  <2>1. job.slot \in Slot /\ Handle(job.slot) /\ job' = InPoll
    BY <1>10, JobTypes DEF Serve
  <2>2. TypeOK' /\ OneSlotPerNode' /\ HandlesOwnTheirFiles'
    BY <1>9, <2>1
  <2>3. QED
    BY <2>1, <2>2, PollTypes DEF AlarmInv, AlarmTypeOK, PlacedAlone
<1>11. CASE Between
  <2>1. job' = InPoll /\ Environment
    BY <1>11 DEF Between
  <2>2. TypeOK' /\ OneSlotPerNode' /\ HandlesOwnTheirFiles'
    BY <1>9, <2>1
  <2>3. QED
    BY <2>1, <2>2, PollTypes DEF AlarmInv, AlarmTypeOK, PlacedAlone
<1>12. CASE Amid
  <2>1. job # InPoll /\ Environment
    BY <1>12 DEF Amid, Environment
  <2>2. TypeOK' /\ OneSlotPerNode' /\ HandlesOwnTheirFiles'
        /\ \A c \in Slot : conn'[c].addr \in {conn[c].addr, NoAddr}
    BY <1>9, <2>1
  <2>3. job \in [at : Stages, slot : Slot, from : Station \cup {NoAddr}, rung : BOOLEAN]
    BY <2>1 DEF AlarmTypeOK
  <2>4. job' = [job EXCEPT !.rung = TRUE] \/ job' = job
    BY <1>12 DEF Amid
  <2>5. /\ job' \in [at : Stages, slot : Slot, from : Station \cup {NoAddr}, rung : BOOLEAN]
        /\ job'.at = job.at /\ job'.from = job.from /\ job'.slot = job.slot
    BY <2>3, <2>4
  <2>6. PlacedAlone'
    BY <2>2, <2>5, StayAlone
  <2>7. QED
    BY <2>2, <2>5, <2>6 DEF AlarmInv, AlarmTypeOK
<1>13. CASE UNCHANGED allvars
  <2>1. UNCHANGED vars /\ job' = job
    BY <1>13 DEF allvars, vars
  <2>2. AlarmTypeOK' /\ PlacedAlone'
    BY <1>a, <2>1 DEF AlarmTypeOK, PlacedAlone, AtNode, vars
  <2>3. QED
    BY <1>a, <2>1, <2>2 DEF AlarmInv
<1>14. QED
  BY <1>1, <1>2, <1>4, <1>5, <1>6, <1>7, <1>8, <1>10, <1>11, <1>12, <1>13
     DEF AlarmNext, Attach, Return

LEMMA AlarmInvHolds == AlarmSpec => []AlarmInv
BY AlarmInvInit, AlarmInvStep, PTL DEF AlarmSpec

\* Every variable keeps its type with the alarm between any two statements: what
\* an attach or a request goes on writing to a slot that was wiped meanwhile is a
\* connection record all the same.
THEOREM AlarmTypeCorrect == AlarmSpec => []TypeOK
<1>1. AlarmInv => TypeOK
  BY DEF AlarmInv, AlarmTypeOK
<1>2. QED
  BY <1>1, AlarmInvHolds, PTL

\* The alarm inside an attach does not give a node a second slot either: the slot
\* found by the scan stays the only one at the caller's node until its address is
\* written, also if conn_cleanup takes it away in between.
THEOREM AlarmNodeHasOneSlot == AlarmSpec => []OneSlotPerNode
<1>1. AlarmInv => OneSlotPerNode
  BY DEF AlarmInv
<1>2. QED
  BY <1>1, AlarmInvHolds, PTL

\* Nor does it let a handle read another handle's file: between the closing of
\* files and the rest of the attach no handle of the slot names a descriptor.
THEOREM AlarmHandlesOwned == AlarmSpec => []HandlesOwnTheirFiles
<1>1. AlarmInv => HandlesOwnTheirFiles
  BY DEF AlarmInv
<1>2. QED
  BY <1>1, AlarmInvHolds, PTL

\* How far the slot of an attach is, as long as the alarm has not come.
NoFiles(r) == \A h \in File : r.fh[h] = -1
Attached(r) == r.status = "attached" /\ r.user = NoUser

Undisturbed ==
  ~job.rung =>
    /\ job.at \in {"closed", "loggedout", "addressed", "returned"} => NoFiles(conn[job.slot])
    /\ job.at \in {"loggedout", "addressed", "returned"} => Attached(conn[job.slot])
    /\ job.at \in {"addressed", "returned"} => conn[job.slot].addr = job.from

LEMMA UndisturbedInit == AlarmInit => Undisturbed
BY DEF AlarmInit, Undisturbed, InPoll

LEMMA UndisturbedStep == AlarmInv /\ Undisturbed /\ [AlarmNext]_allvars => Undisturbed'
<1> SUFFICES ASSUME AlarmTypeOK, AlarmTypeOK', Undisturbed, [AlarmNext]_allvars, ~job'.rung
             PROVE  Undisturbed'
  BY AlarmInvStep DEF AlarmInv, Undisturbed
<1>0. conn \in [Slot -> Connection] /\ \A c \in Slot : conn[c] \in Connection
  BY DEF AlarmTypeOK, TypeOK
<1>1. ASSUME NEW a \in Station, Place(a) PROVE Undisturbed'
  BY <1>1 DEF Place, Undisturbed
<1>2. ASSUME NEW from \in Stages, NEW to, NEW r, Step(from, to, r)
      PROVE  /\ job.slot \in Slot /\ ~job.rung /\ job.at = from
             /\ job'.at = to /\ job'.slot = job.slot /\ job'.from = job.from
             /\ conn'[job.slot] = r
  <2>1. job \in [at : Stages, slot : Slot, from : Station \cup {NoAddr}, rung : BOOLEAN]
    BY <1>2, JobTypes DEF Step, Stages
  <2>2. QED
    BY <1>0, <1>2, <2>1 DEF Step
<1>3. CASE CloseFiles
  <2> DEFINE r == [conn[job.slot] EXCEPT !.fh = [h \in File |-> -1]]
  <2>1. Step("placed", "closed", r)
    BY <1>3 DEF CloseFiles
  <2>2. job.slot \in Slot /\ job'.at = "closed" /\ job'.slot = job.slot /\ conn'[job.slot] = r
    <3> HIDE DEF r
    <3>1. QED
      BY <1>2, <2>1 DEF Stages
  <2>3. NoFiles(r)
    BY <1>0, <2>2 DEF NoFiles, Connection
  <2> HIDE DEF r
  <2>4. QED
    BY <2>2, <2>3 DEF Undisturbed, NoFiles
<1>4. CASE LogOut
  <2> DEFINE r == [conn[job.slot] EXCEPT !.status = "attached", !.user = NoUser]
  <2>1. Step("closed", "loggedout", r)
    BY <1>4 DEF LogOut
  <2>2. /\ job.slot \in Slot /\ ~job.rung /\ job.at = "closed"
        /\ job'.at = "loggedout" /\ job'.slot = job.slot /\ conn'[job.slot] = r
    <3> HIDE DEF r
    <3>1. QED
      BY <1>2, <2>1 DEF Stages
  <2>3. NoFiles(r) /\ Attached(r)
    BY <1>0, <2>2 DEF NoFiles, Attached, Undisturbed, Connection
  <2> HIDE DEF r
  <2>4. QED
    BY <2>2, <2>3 DEF Undisturbed, NoFiles, Attached
<1>5. CASE SetAddress
  <2> DEFINE r == [conn[job.slot] EXCEPT !.addr = job.from]
  <2>1. Step("loggedout", "addressed", r)
    BY <1>5 DEF SetAddress
  <2>2. /\ job.slot \in Slot /\ ~job.rung /\ job.at = "loggedout"
        /\ job'.at = "addressed" /\ job'.slot = job.slot /\ job'.from = job.from
        /\ conn'[job.slot] = r
    <3> HIDE DEF r
    <3>1. QED
      BY <1>2, <2>1 DEF Stages
  <2>3. NoFiles(r) /\ Attached(r) /\ r.addr = job.from
    BY <1>0, <2>2 DEF NoFiles, Attached, Undisturbed, Connection
  <2> HIDE DEF r
  <2>4. QED
    BY <2>2, <2>3 DEF Undisturbed, NoFiles, Attached
<1>6. CASE SetTimes
  <2> DEFINE r == [conn[job.slot] EXCEPT !.idle = 0, !.wdog = FALSE]
  <2>1. Step("addressed", "returned", r)
    BY <1>6 DEF SetTimes
  <2>2. /\ job.slot \in Slot /\ ~job.rung /\ job.at = "addressed"
        /\ job'.at = "returned" /\ job'.slot = job.slot /\ job'.from = job.from
        /\ conn'[job.slot] = r
    <3> HIDE DEF r
    <3>1. QED
      BY <1>2, <2>1 DEF Stages
  <2>3. NoFiles(r) /\ Attached(r) /\ r.addr = job.from
    BY <1>0, <2>2 DEF NoFiles, Attached, Undisturbed, Connection
  <2> HIDE DEF r
  <2>4. QED
    BY <2>2, <2>3 DEF Undisturbed, NoFiles, Attached
<1>7. CASE job' = InPoll
  BY <1>7 DEF InPoll, Undisturbed
<1>8. ASSUME NEW c \in Slot, Accept(c) PROVE Undisturbed'
  BY <1>8 DEF Accept, Undisturbed
<1>9. ASSUME job' = job, UNCHANGED conn PROVE Undisturbed'
  BY <1>9 DEF Undisturbed, NoFiles, Attached
<1>10. CASE Amid
  <2>1. CASE job # InPoll /\ job' = [job EXCEPT !.rung = TRUE]
    <3>1. job \in [at : Stages, slot : Slot, from : Station \cup {NoAddr}, rung : BOOLEAN]
      BY <2>1 DEF AlarmTypeOK
    <3>2. job'.rung = TRUE
      BY <2>1, <3>1
    <3>3. QED
      BY <3>2
  <2>2. QED
    BY <1>9, <1>10, <2>1 DEF Amid, FallSilent, LoseWatchdog
<1>11. CASE UNCHANGED allvars
  BY <1>9, <1>11 DEF allvars
<1>12. QED
  BY <1>1, <1>3, <1>4, <1>5, <1>6, <1>7, <1>8, <1>10, <1>11
     DEF AlarmNext, Attach, Return, Serve, Between

\* "It will return the connection number on success": whenever the alarm did not
\* come during an attach, the slot returned is at the caller's address, with
\* nobody in and no file open, whatever it was used for before.
THEOREM UndisturbedAttachIsFresh == AlarmSpec => [](~job.rung => ReturnedSlotIsFresh)
<1>1. AlarmInit /\ [][AlarmNext]_allvars /\ []AlarmInv => []Undisturbed
  BY UndisturbedInit, UndisturbedStep, PTL
<1>2. Undisturbed => (~job.rung => ReturnedSlotIsFresh)
  BY DEF Undisturbed, ReturnedSlotIsFresh, NoFiles, Attached
<1>3. QED
  BY <1>1, <1>2, AlarmInvHolds, PTL DEF AlarmSpec

-----------------------------------------------------------------------------
(* One handler, one action *)

\* The handlers of FrommelAlarm without an alarm in the middle of one, and with
\* no client falling silent there.
QuietNext == AlarmNext /\ ~job'.rung /\ (job = InPoll \/ UNCHANGED silent)

Quiet == AlarmInit /\ [][QuietNext]_allvars

\* What the slot of an attach is going to be, and what closes on the way.
Placing == {"placed", "closed", "loggedout", "addressed"}

Coming == [LoggedOut(conn[job.slot]) EXCEPT !.addr = job.from, !.idle = 0, !.wdog = FALSE]

Seen == IF job.at \in Placing THEN [conn EXCEPT ![job.slot] = Coming] ELSE conn

SeenFds == IF job.at = "placed" THEN Close(Closed(conn[job.slot])) ELSE fdt

Whole == INSTANCE FrommelConn WITH conn <- Seen, fdt <- SeenFds

\* Where no attach is going on, a step is a step of FrommelConn as it stands.
LEMMA HandleWhole ==
  ASSUME Seen = conn, Seen' = conn', SeenFds = fdt, SeenFds' = fdt',
         NEW c \in Slot, Handle(c)
  PROVE  Whole!Handle(c)
<1>1. CASE DestroyConn(c)
  BY <1>1 DEF DestroyConn, Whole!DestroyConn, Whole!Handle, Blank, Whole!Blank, NoAddr, Whole!NoAddr,
     File, Whole!File
<1>2. CASE Request(c)
  BY <1>2 DEF Request, Whole!Request, Whole!Handle
<1>3. CASE Logout(c)
  BY <1>3 DEF Logout, Whole!Logout, Whole!Handle, LoggedOut, Whole!LoggedOut, Close, Whole!Close,
     Closed, Whole!Closed, File, Whole!File, Fd, Whole!Fd
<1>4. CASE OpenFile(c)
  BY <1>4 DEF OpenFile, Whole!OpenFile, Whole!Handle, Opened, Whole!Opened, First, Whole!First,
     File, Whole!File, Fd, Whole!Fd
<1>5. ASSUME NEW u \in User, KeyedLogin(c, u) PROVE Whole!Handle(c)
  BY <1>5 DEF KeyedLogin, Whole!KeyedLogin, Whole!Handle
<1>6. ASSUME NEW h \in File, CloseFile(c, h) PROVE Whole!Handle(c)
  BY <1>6 DEF CloseFile, Whole!CloseFile, Whole!Handle, Close, Whole!Close, Fd, Whole!Fd,
     File, Whole!File
<1>7. ASSUME NEW d \in Slot, ClearConn(c, d) PROVE Whole!Handle(c)
  BY <1>7 DEF ClearConn, Whole!ClearConn, Whole!Handle, Blank, Whole!Blank, NoAddr, Whole!NoAddr,
     File, Whole!File, Fd, Whole!Fd, Close, Whole!Close, Closed, Whole!Closed, Slot, Whole!Slot,
     IsSupervisor, Whole!IsSupervisor
<1>8. QED
  BY <1>1, <1>2, <1>3, <1>4, <1>5, <1>6, <1>7 DEF Handle

LEMMA EnvironmentWhole ==
  ASSUME Seen = conn, Seen' = conn', SeenFds = fdt, SeenFds' = fdt', Environment
  PROVE  Whole!Environment
<1> USE DEF Slot, Whole!Slot, File, Whole!File, Fd, Whole!Fd, Cid, Whole!Cid
<1>1. ASSUME NEW c \in Slot, OperatorClear(c) PROVE Whole!Environment
  BY <1>1 DEF OperatorClear, Whole!OperatorClear, Whole!Environment, Blank, Whole!Blank,
     NoAddr, Whole!NoAddr, Close, Whole!Close, Closed, Whole!Closed
<1>2. ASSUME NEW k \in Cid, NEW n \in Node, WatchdogAnswer(k, n) PROVE Whole!Environment
  BY <1>2 DEF WatchdogAnswer, Whole!WatchdogAnswer, Whole!Environment, Alive, Whole!Alive,
     AtNode, Whole!AtNode
<1>3. ASSUME NEW k \in Cid, NEW n \in Node, LoseWatchdog(k, n) PROVE Whole!Environment
  BY <1>3 DEF LoseWatchdog, Whole!LoseWatchdog, Whole!Environment
<1>4. ASSUME NEW n \in Node, FallSilent(n) PROVE Whole!Environment
  BY <1>4 DEF FallSilent, Whole!FallSilent, Whole!Environment
<1>5. CASE ConnCleanup
  BY <1>5 DEF ConnCleanup, Whole!ConnCleanup, Whole!Environment, Blank, Whole!Blank,
     NoAddr, Whole!NoAddr, Close, Whole!Close, Closed, Whole!Closed, Expired, Whole!Expired,
     Used, Whole!Used, Queried, Whole!Queried
<1>6. CASE Tick
  BY <1>6 DEF Tick, Whole!Tick, Whole!Environment
<1>7. QED
  BY <1>1, <1>2, <1>3, <1>4, <1>5, <1>6 DEF Environment

\* The sender of a request that was accepted is still heard when it is served,
\* and no alarm has come in any handler.
QuietInv == ~job.rung /\ (job.at = "accepted" => Heard(job.slot))

LEMMA QuietInvStep == AlarmInv /\ QuietInv /\ [QuietNext]_allvars => QuietInv'
<1> SUFFICES ASSUME AlarmTypeOK, QuietInv, [QuietNext]_allvars PROVE QuietInv'
  BY DEF AlarmInv
<1>1. CASE UNCHANGED allvars
  BY <1>1 DEF allvars, QuietInv, Heard
<1>2. CASE QuietNext
  <2>1. ~job'.rung
    BY <1>2 DEF QuietNext
  <2>2. ASSUME job'.at = "accepted" PROVE conn'[job'.slot].addr.node \in Node \ silent'
    <3>1. ASSUME NEW c \in Slot, Accept(c) PROVE conn'[job'.slot].addr.node \in Node \ silent'
      BY <3>1 DEF Accept, Heard, vars
    <3>2. ASSUME NEW a \in Station, Place(a) PROVE FALSE
      BY <2>2, <3>2 DEF Place
    <3>3. CASE Attach
      <4>1. job \in [at : Stages, slot : Slot, from : Station \cup {NoAddr}, rung : BOOLEAN]
            \/ job' = InPoll
        BY <3>3, JobTypes DEF Attach, CloseFiles, LogOut, SetAddress, SetTimes, Return, Step
      <4>2. job'.at \in {"closed", "loggedout", "addressed", "returned", "poll"}
        BY <3>3, <4>1 DEF Attach, CloseFiles, LogOut, SetAddress, SetTimes, Return, Step, InPoll
      <4>3. QED
        BY <2>2, <4>2
    <3>4. CASE Serve \/ Between
      BY <2>2, <3>4 DEF Serve, Between, InPoll
    <3>5. CASE Amid
      <4>1. job # InPoll /\ UNCHANGED silent
        BY <1>2, <3>5 DEF Amid, QuietNext
      <4>2. job \in [at : Stages, slot : Slot, from : Station \cup {NoAddr}, rung : BOOLEAN]
        BY <4>1 DEF AlarmTypeOK
      <4>3. job' = job /\ UNCHANGED conn
        BY <2>1, <3>5, <4>1, <4>2 DEF Amid, FallSilent, LoseWatchdog
      <4>4. QED
        BY <2>2, <4>1, <4>3 DEF QuietInv, Heard
    <3>6. QED
      BY <1>2, <3>1, <3>2, <3>3, <3>4, <3>5 DEF QuietNext, AlarmNext
  <2>3. QED
    BY <2>1, <2>2 DEF QuietInv, Heard
<1>3. QED
  BY <1>1, <1>2

\* Where the record of the slot is not being written, nothing is to come.
LEMMA NothingComing ==
  ASSUME job.at \notin Placing
  PROVE  Seen = conn /\ SeenFds = fdt
BY DEF Seen, SeenFds, Placing

\* A statement of the attach brings the slot no further than was seen before.
LEMMA StatementUnseen ==
  ASSUME AlarmTypeOK, Undisturbed, QuietInv, Attach
  PROVE  Seen' = Seen /\ SeenFds' = SeenFds /\ UNCHANGED <<wire, silent>>
<1>0. conn \in [Slot -> Connection]
  BY DEF AlarmTypeOK, TypeOK
<1>1. ASSUME NEW from \in Stages, NEW to, NEW r, Step(from, to, r)
      PROVE  /\ job.slot \in Slot /\ job.at = from
             /\ job'.at = to /\ job'.slot = job.slot /\ job'.from = job.from
             /\ conn' = [conn EXCEPT ![job.slot] = r] /\ conn[job.slot] \in Connection
  <2>1. job \in [at : Stages, slot : Slot, from : Station \cup {NoAddr}, rung : BOOLEAN]
    BY <1>1, JobTypes DEF Step, Stages
  <2>2. QED
    BY <1>0, <1>1, <2>1 DEF Step
<1>2. CASE CloseFiles
  <2> DEFINE r == [conn[job.slot] EXCEPT !.fh = [h \in File |-> -1]]
  <2>1. Step("placed", "closed", r) /\ SeenFds' = SeenFds /\ UNCHANGED <<wire, silent>>
    <3>1. Step("placed", "closed", r) /\ fdt' = Close(Closed(conn[job.slot]))
      BY <1>2 DEF CloseFiles
    <3>2. job.at = "placed" /\ job'.at = "closed"
      <4> HIDE DEF r
      <4>1. QED
        BY <1>1, <3>1 DEF Stages
    <3>3. QED
      BY <3>1, <3>2 DEF SeenFds, Step
  <2>2. /\ job.slot \in Slot /\ job.at = "placed"
        /\ job'.at = "closed" /\ job'.slot = job.slot /\ job'.from = job.from
        /\ conn' = [conn EXCEPT ![job.slot] = r] /\ conn[job.slot] \in Connection
    <3> HIDE DEF r
    <3>1. QED
      BY <1>1, <2>1 DEF Stages
  <2>3. Coming' = Coming
    BY <1>0, <2>2 DEF Coming, LoggedOut, Connection
  <2>4. Seen' = Seen
    <3> HIDE DEF r
    <3>1. Seen' = [conn' EXCEPT ![job.slot] = Coming]
      BY <2>2, <2>3 DEF Seen, Placing
    <3>2. QED
      BY <1>0, <2>2, <3>1 DEF Seen, Placing
  <2>5. QED
    BY <2>1, <2>4
<1>3. CASE LogOut
  <2> DEFINE r == [conn[job.slot] EXCEPT !.status = "attached", !.user = NoUser]
  <2>1. Step("closed", "loggedout", r) /\ UNCHANGED <<fdt, wire, silent>>
    BY <1>3 DEF LogOut, Step
  <2>2. /\ job.slot \in Slot /\ job.at = "closed"
        /\ job'.at = "loggedout" /\ job'.slot = job.slot /\ job'.from = job.from
        /\ conn' = [conn EXCEPT ![job.slot] = r] /\ conn[job.slot] \in Connection
    <3> HIDE DEF r
    <3>1. QED
      BY <1>1, <2>1 DEF Stages
  <2>3. Coming' = Coming
    BY <1>0, <2>2 DEF Coming, LoggedOut, Connection
  <2> HIDE DEF r
  <2>4. Seen' = [conn' EXCEPT ![job.slot] = Coming]
    BY <2>2, <2>3 DEF Seen, Placing
  <2>5. QED
    BY <1>0, <2>1, <2>2, <2>4 DEF Seen, SeenFds, Placing
<1>4. CASE SetAddress
  <2> DEFINE r == [conn[job.slot] EXCEPT !.addr = job.from]
  <2>1. Step("loggedout", "addressed", r) /\ UNCHANGED <<fdt, wire, silent>>
    BY <1>4 DEF SetAddress, Step
  <2>2. /\ job.slot \in Slot /\ job.at = "loggedout"
        /\ job'.at = "addressed" /\ job'.slot = job.slot /\ job'.from = job.from
        /\ conn' = [conn EXCEPT ![job.slot] = r] /\ conn[job.slot] \in Connection
    <3> HIDE DEF r
    <3>1. QED
      BY <1>1, <2>1 DEF Stages
  <2>3. Coming' = Coming
    BY <1>0, <2>2 DEF Coming, LoggedOut, Connection
  <2> HIDE DEF r
  <2>4. Seen' = [conn' EXCEPT ![job.slot] = Coming]
    BY <2>2, <2>3 DEF Seen, Placing
  <2>5. QED
    BY <1>0, <2>1, <2>2, <2>4 DEF Seen, SeenFds, Placing
<1>5. CASE SetTimes
  <2> DEFINE r == [conn[job.slot] EXCEPT !.idle = 0, !.wdog = FALSE]
  <2>1. Step("addressed", "returned", r) /\ UNCHANGED <<fdt, wire, silent>>
    BY <1>5 DEF SetTimes, Step
  <2>2. /\ job.slot \in Slot /\ job.at = "addressed"
        /\ job'.at = "returned" /\ job'.slot = job.slot /\ job'.from = job.from
        /\ conn' = [conn EXCEPT ![job.slot] = r] /\ conn[job.slot] \in Connection
    <3> HIDE DEF r
    <3>1. QED
      BY <1>1, <2>1 DEF Stages
  <2>3. r = Coming
    <3>1. /\ conn[job.slot].status = "attached" /\ conn[job.slot].user = NoUser
          /\ conn[job.slot].addr = job.from /\ conn[job.slot].fh = [h \in File |-> -1]
      BY <2>2 DEF Undisturbed, QuietInv, NoFiles, Attached, Connection
    <3>2. QED
      BY <2>2, <3>1 DEF Coming, LoggedOut, Connection
  <2> HIDE DEF r
  <2>4. QED
    BY <2>1, <2>2, <2>3 DEF Seen, SeenFds, Placing
<1>6. CASE Return
  BY <1>6 DEF Return, Seen, SeenFds, Placing, InPoll, vars
<1>7. QED
  BY <1>2, <1>3, <1>4, <1>5, <1>6 DEF Attach

\* The scan finds the slot and the whole attach is seen at once.
LEMMA PlaceWhole ==
  ASSUME AlarmTypeOK, NEW a \in Station, Place(a)
  PROVE  Whole!CreateConn(a)
<1>1. PICK c \in Slot :
        /\ Placed(c, a)
        /\ job' = [at |-> "placed", slot |-> c, from |-> a, rung |-> FALSE]
  BY DEF Place
<1>2. job = InPoll /\ a.node \notin silent /\ UNCHANGED vars
  BY DEF Place
<1>3. Seen = conn /\ SeenFds = fdt
  BY <1>2, NothingComing DEF Placing, InPoll
<1>4. Seen' = [conn EXCEPT ![c] = [LoggedOut(conn[c]) EXCEPT !.addr = a, !.idle = 0,
                                                           !.wdog = FALSE]]
  BY <1>1, <1>2 DEF Seen, Placing, Coming, LoggedOut, vars
<1>5. SeenFds' = Close(Closed(conn[c]))
  BY <1>1, <1>2 DEF SeenFds, Close, Closed, vars
<1>6. Whole!Placed(c, a)
  BY <1>1, <1>3 DEF Placed, Whole!Placed, AtNode, Whole!AtNode, First, Whole!First,
     FreeSlots, Whole!FreeSlots, Used, Whole!Used, Slot, Whole!Slot
<1>7. QED
  BY <1>2, <1>3, <1>4, <1>5, <1>6
     DEF Whole!CreateConn, Whole!Slot, Slot, LoggedOut, Whole!LoggedOut, Close, Whole!Close,
         Closed, Whole!Closed, File, Whole!File, Fd, Whole!Fd, vars

LEMMA QuietStep ==
  AlarmInv /\ Undisturbed /\ QuietInv /\ [QuietNext]_allvars => [Whole!Next]_<<Seen, SeenFds, wire, silent>>
<1> SUFFICES ASSUME AlarmTypeOK, Undisturbed, QuietInv, [QuietNext]_allvars
             PROVE  Whole!Next \/ UNCHANGED <<Seen, SeenFds, wire, silent>>
  BY DEF AlarmInv
<1>1. ASSUME NEW a \in Station, Place(a) PROVE Whole!Next
  <2>1. Whole!CreateConn(a)
    BY <1>1, PlaceWhole
  <2>2. QED
    BY <2>1 DEF Whole!Next, Whole!Station, Station
<1>2. CASE Attach
  BY <1>2, StatementUnseen
<1>3. ASSUME NEW c \in Slot, Accept(c) PROVE UNCHANGED <<Seen, SeenFds, wire, silent>>
  <2>1. job = InPoll /\ job'.at = "accepted" /\ UNCHANGED vars
    BY <1>3 DEF Accept
  <2>2. Seen = conn /\ SeenFds = fdt
    BY <2>1, NothingComing DEF InPoll, Placing
  <2>3. Seen' = conn' /\ SeenFds' = fdt'
    BY <2>1 DEF Seen, SeenFds, Placing
  <2>4. QED
    BY <2>1, <2>2, <2>3 DEF vars
<1>4. CASE Serve
  <2>1. job.at = "accepted" /\ job' = InPoll /\ Handle(job.slot) /\ job.slot \in Slot
    BY <1>4, JobTypes DEF Serve
  <2>2. Seen = conn /\ SeenFds = fdt
    BY <2>1, NothingComing DEF Placing
  <2>3. Seen' = conn' /\ SeenFds' = fdt'
    BY <2>1 DEF InPoll, Seen, SeenFds, Placing
  <2>4. Whole!Handle(job.slot)
    BY <2>1, <2>2, <2>3, HandleWhole
  <2>5. Whole!Heard(job.slot)
    BY <2>1, <2>2 DEF QuietInv, Heard, Whole!Heard
  <2>6. QED
    BY <2>1, <2>4, <2>5 DEF Whole!Next, Whole!Slot, Slot
<1>5. CASE Between
  <2>1. job = InPoll /\ job' = InPoll /\ Environment
    BY <1>5 DEF Between
  <2>2. Seen = conn /\ SeenFds = fdt /\ Seen' = conn' /\ SeenFds' = fdt'
    BY <2>1 DEF InPoll, Seen, SeenFds, Placing
  <2>3. QED
    BY <2>1, <2>2, EnvironmentWhole DEF Whole!Next
<1>6. CASE Amid /\ QuietNext
  <2>1. job # InPoll /\ UNCHANGED silent /\ ~job'.rung
    BY <1>6 DEF Amid, QuietNext
  <2>2. job \in [at : Stages, slot : Slot, from : Station \cup {NoAddr}, rung : BOOLEAN]
    BY <2>1 DEF AlarmTypeOK
  <2>3. PICK k \in Cid, n \in Node : LoseWatchdog(k, n)
    BY <1>6, <2>1, <2>2 DEF Amid, FallSilent
  <2>4. job' = job
    BY <1>6, <2>1, <2>2 DEF Amid
  <2>5. UNCHANGED <<Seen, SeenFds>>
    BY <2>3, <2>4 DEF LoseWatchdog, Seen, SeenFds, Coming, LoggedOut, Close, Closed
  <2>6. Whole!LoseWatchdog(k, n)
    BY <2>3, <2>5 DEF LoseWatchdog, Whole!LoseWatchdog
  <2>7. QED
    BY <2>6 DEF Whole!Next, Whole!Environment, Whole!Cid, Cid
<1>7. CASE UNCHANGED allvars
  BY <1>7 DEF allvars, Seen, SeenFds, Coming, LoggedOut, Close, Closed
<1>8. QED
  BY <1>1, <1>2, <1>3, <1>4, <1>5, <1>6, <1>7 DEF QuietNext, AlarmNext

\* FrommelConn makes one action of each handler.  That is what the code does as
\* long as no alarm comes inside a handler: the statements of an attach, taken
\* apart in FrommelAlarm, are seen as one create of FrommelConn, and a request
\* that was accepted is served as if no time had passed.
THEOREM QuietHandlersAreWhole == Quiet => Whole!Spec
<1>1. AlarmInit => Whole!Init /\ QuietInv
  BY DEF AlarmInit, Init, Whole!Init, Seen, SeenFds, InPoll, Placing, QuietInv, Blank, Whole!Blank,
     NoAddr, Whole!NoAddr, Slot, Whole!Slot, File, Whole!File, Fd, Whole!Fd
<1>2. [QuietNext]_allvars => [AlarmNext]_allvars
  BY DEF QuietNext
<1>3. Quiet => AlarmInit /\ [][QuietNext]_allvars /\ []AlarmInv /\ []Undisturbed /\ []QuietInv
  BY <1>1, <1>2, AlarmInvInit, AlarmInvStep, UndisturbedInit, UndisturbedStep, QuietInvStep, PTL
     DEF Quiet
<1>4. Whole!Spec <=> Whole!Init /\ [][Whole!Next]_<<Seen, SeenFds, wire, silent>>
  BY DEF Whole!Spec, Whole!vars
<1>5. QED
  BY <1>1, <1>3, <1>4, QuietStep, PTL
=============================================================================
