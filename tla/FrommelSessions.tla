--------------------------- MODULE FrommelSessions ---------------------------
(***************************************************************************)
(* What the connection table promises its clients, without addresses,      *)
(* files, clocks or watchdogs: a slot holds at most one session, a node at *)
(* most one slot; a session starts with nobody logged in, its user changes *)
(* only by login and logout, and a slot changes hands only through being   *)
(* free.  FrommelConn implements this specification.                       *)
(***************************************************************************)
EXTENDS Integers

CONSTANTS NConns, Node, User, NoUser, NoNode

Slot == 1..NConns

VARIABLE session

NoSession == [node |-> NoNode, user |-> NoUser]

Holds(n, c) == session[c].node = n

Init == session = [c \in Slot |-> NoSession]

\* A node gets the slot it holds, or a free one when it holds none; a session
\* it had there is over.
Attach(n, c) ==
  /\ Holds(n, c) \/ (session[c] = NoSession /\ \A d \in Slot : ~Holds(n, d))
  /\ session' = [session EXCEPT ![c] = [node |-> n, user |-> NoUser]]

Login(c, u) ==
  /\ session[c] # NoSession
  /\ session' = [session EXCEPT ![c] = [@ EXCEPT !.user = u]]

Logout(c) ==
  /\ session[c] # NoSession
  /\ session' = [session EXCEPT ![c] = [@ EXCEPT !.user = NoUser]]

Drop(S) == session' = [c \in Slot |-> IF c \in S THEN NoSession ELSE session[c]]

Next ==
  \/ \E c \in Slot :
       \/ \E n \in Node : Attach(n, c)
       \/ \E u \in User : Login(c, u)
       \/ Logout(c)
  \/ \E S \in SUBSET Slot : Drop(S)

Spec == Init /\ [][Next]_session
=============================================================================
