----------------------------- MODULE FrommelAlarm -----------------------------
(***************************************************************************)
(* FrommelConn with the SIGALRM handler where it really runs: not between  *)
(* two handlers but between any two statements of one.  sap_init installs  *)
(* sap_event, which calls conn_cleanup, and nothing masks the signal while *)
(* poll() runs a handler, so conn_cleanup may clear the very slot that     *)
(* conn_attach_client or ncp_handle_packet is working on.                  *)
(*                                                                         *)
(* The signal comes every conf_sap_interval seconds and a handler is much  *)
(* shorter, so it comes at most once, and no clock tick with it, while one *)
(* handler runs.                                                           *)
(*                                                                         *)
(* A create is cut where conn_attach_client writes the record, a request   *)
(* between the test of its address and the rest of its handling.           *)
(***************************************************************************)
EXTENDS FrommelConn

VARIABLE job   \* the handler poll() is in; rung: the alarm went off during it

allvars == <<conn, fdt, wire, silent, job>>

InPoll == [at |-> "poll", slot |-> 0, from |-> NoAddr, rung |-> FALSE]

Stages == {"placed", "closed", "loggedout", "addressed", "returned", "accepted"}

AlarmTypeOK ==
  /\ TypeOK
  /\ \/ job = InPoll
     \/ job \in [at : Stages, slot : Slot, from : Station \cup {NoAddr}, rung : BOOLEAN]

AlarmInit == Init /\ job = InPoll

-----------------------------------------------------------------------------
(* conn_attach_client, statement by statement *)

Place(a) ==
  /\ job = InPoll /\ a.node \notin silent
  /\ \E c \in Slot :
       /\ Placed(c, a)
       /\ job' = [at |-> "placed", slot |-> c, from |-> a, rung |-> FALSE]
  /\ UNCHANGED vars

\* One statement of the attach: the record of its slot and the next stage.
Step(from, to, record) ==
  /\ job.at = from
  /\ conn' = [conn EXCEPT ![job.slot] = record]
  /\ job' = [job EXCEPT !.at = to]
  /\ UNCHANGED <<wire, silent>>

\* conn_logout, its loop over the file handles ...
CloseFiles ==
  /\ Step("placed", "closed", [conn[job.slot] EXCEPT !.fh = [h \in File |-> -1]])
  /\ fdt' = Close(Closed(conn[job.slot]))

\* ... and the assignments after it.
LogOut ==
  /\ Step("closed", "loggedout",
          [conn[job.slot] EXCEPT !.status = "attached", !.user = NoUser])
  /\ UNCHANGED fdt

SetAddress ==
  /\ Step("loggedout", "addressed", [conn[job.slot] EXCEPT !.addr = job.from])
  /\ UNCHANGED fdt

SetTimes ==
  /\ Step("addressed", "returned",
          [conn[job.slot] EXCEPT !.idle = 0, !.wdog = FALSE])
  /\ UNCHANGED fdt

Return ==
  /\ job.at = "returned"
  /\ job' = InPoll
  /\ UNCHANGED vars

Attach == CloseFiles \/ LogOut \/ SetAddress \/ SetTimes \/ Return

-----------------------------------------------------------------------------
(* The other handlers, and what runs beside them *)

\* ncp_handle_packet has compared the addresses ...
Accept(c) ==
  /\ job = InPoll /\ Heard(c)
  /\ job' = [at |-> "accepted", slot |-> c, from |-> NoAddr, rung |-> FALSE]
  /\ UNCHANGED vars

\* ... and goes on with the slot, whatever became of it meanwhile.
Serve ==
  /\ job.at = "accepted"
  /\ Handle(job.slot)
  /\ job' = InPoll

\* What happens between two handlers: the others are left whole, they touch
\* one slot in one go.
Between ==
  /\ job = InPoll
  /\ Environment
  /\ UNCHANGED job

\* The alarm, and the network, in the middle of a handler.
Amid ==
  \/ /\ job # InPoll /\ ~job.rung
     /\ ConnCleanup
     /\ job' = [job EXCEPT !.rung = TRUE]
  \/ /\ job # InPoll
     /\ \/ \E n \in Node : FallSilent(n)
        \/ \E k \in Cid, n \in Node : LoseWatchdog(k, n)
     /\ UNCHANGED job

AlarmNext ==
  \/ \E a \in Station : Place(a)
  \/ Attach
  \/ \E c \in Slot : Accept(c)
  \/ Serve
  \/ Between
  \/ Amid

AlarmSpec == AlarmInit /\ [][AlarmNext]_allvars

-----------------------------------------------------------------------------
(* Properties *)

\* "It will return the connection number on success": the slot it returns is
\* a used one, at the caller's address, with nobody in and no file open.  It
\* fails when the alarm clears the slot between two statements.
ReturnedSlotIsFresh ==
  job.at = "returned" =>
    LET r == conn[job.slot]
    IN  /\ r.status = "attached" /\ r.addr = job.from
        /\ r.user = NoUser /\ \A h \in File : r.fh[h] = -1
=============================================================================
