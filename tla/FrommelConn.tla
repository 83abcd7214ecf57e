----------------------------- MODULE FrommelConn -----------------------------
(***************************************************************************)
(* The connection table of the frommel NetWare server (conn.c), the NCP    *)
(* packets that change it (ncp.c), the open-file handles it owns (fs.c),   *)
(* the watchdog (wdog.c, conn_cleanup) and the ways an operator clears a   *)
(* connection.  The server is single threaded: main.c's poll() runs one    *)
(* handler to its end, so one handler is one action.  The SIGALRM handler  *)
(* is an action of its own here; module FrommelAlarm cuts an attach in the *)
(* pieces between which it really runs.                                    *)
(*                                                                         *)
(* Times are ages: conn[c].idle is now - last_time in clock ticks, which   *)
(* stops at Timeout + 1, the first age that conn_cleanup treats as old.    *)
(***************************************************************************)
EXTENDS Integers

CONSTANTS
  NConns,      \* conf_nofconns
  NFiles,      \* CONN_FH_PER_CONN
  NFds,        \* descriptors the process may give to client files, 0 included
  Timeout,     \* CONN_TIMEOUT_LENGTH, in clock ticks
  Cids,        \* values of the one-byte slot number in a watchdog packet
  Node, Port,  \* an IPX station is a network and host (a node) and a port
  User,        \* bindery objects that can log in
  Supervisor,  \* those bind_obj_is_supervisor accepts at login
  NoNode,      \* the all-zero network and host of a wiped slot
  NoUser,      \* object id 0xffffffff: nobody is logged in
  ZeroId,      \* object id 0 of a wiped slot
  Free, StdIn  \* owners of a descriptor that is not a client's open file

Station == [node : Node, port : Port]
NoAddr  == [node |-> NoNode, port |-> 0]

ASSUME SizesAssumption ==
  /\ NConns \in Nat \ {0} /\ NFiles \in Nat /\ NFds \in Nat \ {0}
  /\ Timeout \in Nat /\ Cids \in Nat \ {0}

ASSUME NamesAssumption ==
  /\ Supervisor \subseteq User
  /\ NoNode \notin Node
  /\ {NoUser, ZeroId} \cap User = {}
  /\ NoUser # ZeroId

Slot == 1..NConns
File == 1..NFiles
Fd   == 0..NFds-1
Owner == Slot \X File
Cid  == 0..Cids-1

ASSUME OwnerAssumption == Free # StdIn /\ {Free, StdIn} \cap Owner = {}

VARIABLES
  conn,    \* the table of CONNECTION records
  fdt,     \* the kernel's table: who opened a descriptor (external)
  wire,    \* watchdog queries <<slot number, node>> that may still be answered
  silent   \* nodes that have stopped sending for good

vars == <<conn, fdt, wire, silent>>

Connection == [status : {"unused", "attached", "loggedin"},
               addr   : Station \cup {NoAddr},
               idle   : 0..Timeout + 1,
               wdog   : BOOLEAN,           \* wdog_time # 0
               user   : User \cup {NoUser, ZeroId},
               fh     : [File -> Fd \cup {-1}]]

TypeOK ==
  /\ conn \in [Slot -> Connection]
  /\ fdt \in [Fd -> Owner \cup {Free, StdIn}]
  /\ wire \subseteq Cid \X Node
  /\ silent \subseteq Node

-----------------------------------------------------------------------------
(* State functions *)

Used(c) == conn[c].status # "unused"

First(c, S) == c \in S /\ \A d \in S : c <= d

\* conn_scan_client_by_addr: network and host only, whatever the status.
AtNode(n) == {c \in Slot : conn[c].addr.node = n}

\* Mutant: only logged-in slots count as taken.
FreeSlotsLax == {c \in Slot : conn[c].status # "loggedin"}

FreeSlots == {c \in Slot : ~Used(c)}

\* Mutant: the scan by address is left out.
PlacedAnywhere(c, a) == First(c, FreeSlots)

\* The slot conn_attach_client gives to a station, if it finds one.
Placed(c, a) ==
  IF AtNode(a.node) # {} THEN First(c, AtNode(a.node)) ELSE First(c, FreeSlots)

\* A wiped record (bzero): note that its file handles are 0, not -1.
Blank == [status |-> "unused", addr |-> NoAddr, idle |-> Timeout + 1,
          wdog |-> FALSE, user |-> ZeroId, fh |-> [h \in File |-> 0]]

\* Mutants: the file handles, or the user, are not reset.
LoggedOutOpen(r) == [r EXCEPT !.status = "attached", !.user = NoUser]
LoggedOutNamed(r) == [r EXCEPT !.status = "attached", !.fh = [h \in File |-> -1]]

\* What conn_logout leaves of a record ...
LoggedOut(r) == [r EXCEPT !.status = "attached", !.user = NoUser,
                          !.fh = [h \in File |-> -1]]

\* ... and the descriptors it closes on the way.
Closed(r) == {r.fh[h] : h \in File} \ {-1}

\* Mutant: the handle gets the descriptor after the one that was opened.
OpenedNext(r, h, f) == [r EXCEPT !.fh[h] = f + 1, !.idle = 0]

\* A file is opened on handle h.
Opened(r, h, f) == [r EXCEPT !.fh[h] = f, !.idle = 0]

\* A watchdog answer: the client lives and no query is pending.
Alive(r) == [r EXCEPT !.idle = 0, !.wdog = FALSE]

\* Mutant: wdog_time is not recorded.
QueriedUnnoted(r) == r

\* A watchdog query has been sent.
Queried(r) == [r EXCEPT !.wdog = TRUE]

\* close() on a set of descriptors; closing a free one is an error and no more.
Close(S) == [f \in Fd |-> IF f \in S THEN Free ELSE fdt[f]]

IsSupervisor(c) == conn[c].user \in Supervisor

\* A packet for slot c comes from its station: ncp_handle_packet accepts it.
Heard(c) == conn[c].addr.node \in Node \ silent

Expired(c) == Used(c) /\ conn[c].idle > Timeout

-----------------------------------------------------------------------------
(* conn_init *)

Init ==
  /\ conn = [c \in Slot |-> Blank]
  /\ fdt = [f \in Fd |-> IF f = 0 THEN StdIn ELSE Free]
  /\ wire = {}
  /\ silent = {}

-----------------------------------------------------------------------------
(* NCP packets (ncp_handle_packet) *)

\* 0x1111, create a service connection.  A station that has a slot, or a
\* packet that arrives twice, gets the same slot, logged out.
CreateConn(a) ==
  /\ a.node \notin silent
  /\ \E c \in Slot :
       /\ Placed(c, a)
       /\ conn' = [conn EXCEPT ![c] = [LoggedOut(@) EXCEPT !.addr = a,
                                        !.idle = 0, !.wdog = FALSE]]
       /\ fdt' = Close(Closed(conn[c]))
  /\ UNCHANGED <<wire, silent>>

\* 0x5555, destroy: the record is wiped and nothing is closed.
DestroyConn(c) ==
  /\ conn' = [conn EXCEPT ![c] = Blank]
  /\ UNCHANGED <<fdt, wire, silent>>

\* 0x2222, any request: last_time is set before the request is looked at.
\* Requests that change nothing else, failing ones included, end here.
Request(c) ==
  /\ conn' = [conn EXCEPT ![c].idle = 0]
  /\ UNCHANGED <<fdt, wire, silent>>

\* NCP 23 24, keyed login with the right password.
KeyedLogin(c, u) ==
  /\ conn' = [conn EXCEPT ![c] = [@ EXCEPT !.status = "loggedin", !.user = u,
                                  !.idle = 0]]
  /\ UNCHANGED <<fdt, wire, silent>>

\* NCP 25, logout.
Logout(c) ==
  /\ conn' = [conn EXCEPT ![c] = [LoggedOut(@) EXCEPT !.idle = 0]]
  /\ fdt' = Close(Closed(conn[c]))
  /\ UNCHANGED <<wire, silent>>

\* NCP 76 and 67, open or create: first free handle, and from the kernel the
\* lowest free descriptor.
OpenFile(c) ==
  /\ \E h \in File, f \in Fd :
       /\ First(h, {i \in File : conn[c].fh[i] = -1})
       /\ First(f, {g \in Fd : fdt[g] = Free})
       /\ conn' = [conn EXCEPT ![c] = Opened(@, h, f)]
       /\ fdt' = [fdt EXCEPT ![f] = <<c, h>>]
  /\ UNCHANGED <<wire, silent>>

\* NCP 66, close file, with a handle of the table: ncp.c:530 and fs.c:471 do not
\* ask whether the number is one, and what lies behind the handles is left out.
CloseFile(c, h) ==
  /\ conn[c].fh[h] >= 0
  /\ conn' = [conn EXCEPT ![c] = [@ EXCEPT !.fh[h] = -1, !.idle = 0]]
  /\ fdt' = Close({conn[c].fh[h]})
  /\ UNCHANGED <<wire, silent>>

\* NCP 23 210, a supervisor clears any slot, used or not, its own included.
ClearConn(by, c) ==
  /\ IsSupervisor(by)
  /\ conn' = [d \in Slot |-> IF d = c THEN Blank
                             ELSE IF d = by THEN [conn[d] EXCEPT !.idle = 0]
                             ELSE conn[d]]
  /\ fdt' = Close(Closed(conn[c]))
  /\ UNCHANGED <<wire, silent>>

\* What ncp_handle_packet does for slot c once the packet's address matched.
Handle(c) ==
  \/ DestroyConn(c) \/ Request(c) \/ Logout(c) \/ OpenFile(c)
  \/ \E u \in User : KeyedLogin(c, u)
  \/ \E h \in File : CloseFile(c, h)
  \/ \E d \in Slot : ClearConn(c, d)

-----------------------------------------------------------------------------
(* The console, the clock and the watchdog *)

\* GASP and the web interface clear any slot.
OperatorClear(c) ==
  /\ conn' = [conn EXCEPT ![c] = Blank]
  /\ fdt' = Close(Closed(conn[c]))
  /\ UNCHANGED <<wire, silent>>

\* SIGALRM, sap_event: conn_cleanup queries the slots that became old and
\* drops the old ones that were queried before.
ConnCleanup ==
  LET old     == {c \in Slot : Expired(c)}
      dropped == {c \in old : conn[c].wdog}
      queried == old \ dropped
  IN  /\ old # {}
      /\ conn' = [c \in Slot |->
                    CASE c \in dropped -> Blank
                      [] c \in queried -> Queried(conn[c])
                      [] OTHER -> conn[c]]
      /\ fdt' = Close(UNION {Closed(conn[c]) : c \in dropped})
      /\ wire' = wire \cup ({<<c % Cids, conn[c].addr.node>> : c \in queried}
                             \cap (Cid \X Node))
      /\ UNCHANGED silent

\* wdog_handle_packet: a node answers a query, perhaps late or twice; the
\* answer counts for the slot it names if that slot is at that node.
WatchdogAnswer(k, n) ==
  /\ <<k, n>> \in wire
  /\ n \notin silent
  /\ conn' = [c \in Slot |-> IF c = k /\ c \in AtNode(n)
                             THEN Alive(conn[c])
                             ELSE conn[c]]
  /\ wire' \in {wire, wire \ {<<k, n>>}}
  /\ UNCHANGED <<fdt, silent>>

\* A query, or its answer, is lost (external).
LoseWatchdog(k, n) ==
  /\ <<k, n>> \in wire
  /\ wire' = wire \ {<<k, n>>}
  /\ UNCHANGED <<conn, fdt, silent>>

\* A node stops sending for good (external).
FallSilent(n) ==
  /\ n \notin silent
  /\ silent' = silent \cup {n}
  /\ UNCHANGED <<conn, fdt, wire>>

Tick ==
  /\ conn' = [c \in Slot |-> IF conn[c].idle <= Timeout
                             THEN [conn[c] EXCEPT !.idle = @ + 1] ELSE conn[c]]
  /\ UNCHANGED <<fdt, wire, silent>>

\* What does not come in as an NCP packet.
Environment ==
  \/ \E c \in Slot : OperatorClear(c)
  \/ \E k \in Cid, n \in Node : WatchdogAnswer(k, n) \/ LoseWatchdog(k, n)
  \/ \E n \in Node : FallSilent(n)
  \/ ConnCleanup
  \/ Tick

Next ==
  \/ \E a \in Station : CreateConn(a)
  \/ \E c \in Slot : Heard(c) /\ Handle(c)
  \/ Environment

Spec == Init /\ [][Next]_vars

\* Real time passes, and setitimer keeps raising SIGALRM.
FairSpec == Spec /\ WF_vars(Tick) /\ WF_vars(ConnCleanup)

-----------------------------------------------------------------------------
(* Properties *)

\* A node is never given two connections: conn_scan_client_by_addr would find
\* only the first, and the second could not be addressed by a create again.
OneSlotPerNode ==
  \A n \in Node : \A c, d \in AtNode(n) : c = d

\* A free slot keeps nothing of its last owner, and a used one is complete:
\* the address is what lets a packet in (ncp_handle_packet compares nothing
\* else), so an unused slot with an address would still serve requests.
SlotsAreWhole ==
  \A c \in Slot :
    /\ Used(c) <=> conn[c].addr # NoAddr
    /\ conn[c].status = "loggedin" <=> conn[c].user \in User

\* A descriptor above 0 in a handle is the file that very handle opened,
\* whoever opened, closed, logged out or was cleared in between.
HandlesOwnTheirFiles ==
  \A c \in Slot, h \in File :
    conn[c].fh[h] > 0 => fdt[conn[c].fh[h]] = <<c, h>>

\* The same for descriptor 0, of the handles of a used slot: it fails, since
\* conn_logout takes the zeroes of a wiped record for open files.
ZeroIsOwnedToo ==
  \A c \in Slot, h \in File :
    Used(c) /\ conn[c].fh[h] = 0 => fdt[0] = <<c, h>>

\* Every client file the process holds open is in the handle that opened it,
\* so that it can be closed: it fails, since ncp_destroy_conn closes nothing.
NoFileLeaks ==
  \A f \in Fd : \A c \in Slot, h \in File :
    fdt[f] = <<c, h>> => conn[c].fh[h] = f

\* A recorded watchdog query belongs to the silence it is about, so a drop
\* always follows a query of the present silence: it fails, since a request
\* resets last_time and leaves wdog_time.
WatchdogIsCurrent ==
  \A c \in Slot : Used(c) /\ conn[c].wdog => conn[c].idle > Timeout

\* Answering the query sent to slot c keeps slot c: its age restarts and the
\* query is settled.  It fails: a slot number does not fit the packet's byte.
AnswerCounts ==
  [][\A c \in Slot : \A n \in Node :
       WatchdogAnswer(c % Cids, n) /\ c \in AtNode(n)
         => conn'[c].idle = 0 /\ ~conn'[c].wdog]_vars

\* The slot of a node that has fallen silent does not stay taken for ever.
SilentLosesSlot ==
  \A c \in Slot, n \in Node :
    (n \in silent /\ c \in AtNode(n)) ~> (c \notin AtNode(n))

\* The connection table implements the abstract sessions.
Session(c) == [node |-> conn[c].addr.node,
               user |-> IF Used(c) THEN conn[c].user ELSE NoUser]

Sessions == INSTANCE FrommelSessions WITH session <- [c \in Slot |-> Session(c)]

ImplementsSessions == Sessions!Spec
=============================================================================
