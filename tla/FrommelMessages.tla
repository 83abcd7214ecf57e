---------------------------- MODULE FrommelMessages ----------------------------
(***************************************************************************)
(* The message buffer and the message switch of every connection: NCP 21   *)
(* (ncp_21.c), NCP 23 209 (ncp_23.c), the broadcast of an operator         *)
(* (gasp_server.c) and the way conn.c empties them.  A buffer holds one    *)
(* message, which its client fetches; nobody tells the client.             *)
(***************************************************************************)
EXTENDS Integers, FiniteSets

CONSTANTS
  NConns,    \* conf_nofconns
  Message,   \* messages
  NoMessage  \* the empty string

ASSUME MessagesAssumption == NConns \in Nat \ {0} /\ NoMessage \notin Message

Conn == 1..NConns

VARIABLES
  status,      \* conn[c]->status; a login does not matter to messages
  message,     \* conn[c]->message
  message_ok,  \* conn[c]->message_ok
  due          \* history: sent since c's session began and not fetched in it

mail == <<status, message, message_ok, due>>

MailTypeOK ==
  /\ status \in [Conn -> {"unused", "attached"}]
  /\ message \in [Conn -> Message \cup {NoMessage}]
  /\ message_ok \in [Conn -> BOOLEAN]
  /\ due \in [Conn -> SUBSET Message]

Used(c) == status[c] # "unused"

\* Messages that are not in a buffer, nor due, so that all can be told apart.
Unsent == {m \in Message : \A c \in Conn : m \notin due[c] /\ message[c] # m}

\* conn_init
MailInit ==
  /\ status = [c \in Conn |-> "unused"]
  /\ message = [c \in Conn |-> NoMessage]
  /\ message_ok = [c \in Conn |-> FALSE]
  /\ due = [c \in Conn |-> {}]

\* Mutant: the message stays.
FreshKeepsMessage(c) ==
  /\ UNCHANGED message
  /\ message_ok' = [message_ok EXCEPT ![c] = TRUE]
  /\ due' = [due EXCEPT ![c] = {}]

\* "messaging is enabled, without a current message"
Fresh(c) ==
  /\ message' = [message EXCEPT ![c] = NoMessage]
  /\ message_ok' = [message_ok EXCEPT ![c] = TRUE]
  /\ due' = [due EXCEPT ![c] = {}]

\* conn_attach_client and conn_logout
Attach(c) == Fresh(c) /\ status' = [status EXCEPT ![c] = "attached"]

\* conn_clear, and ncp_destroy_conn
Wipe(c) ==
  /\ status' = [status EXCEPT ![c] = "unused"]
  /\ message' = [message EXCEPT ![c] = NoMessage]
  /\ message_ok' = [message_ok EXCEPT ![c] = FALSE]
  /\ due' = [due EXCEPT ![c] = {}]

\* A message goes into the buffers of S, over what was there.  Stations are slots
\* and messages fit here: what a number outside the table (ncp_23.c:1316) or a
\* message longer than the buffer (gasp_server.c:289) overwrites is left out.
Stored(m, S) ==
  /\ message' = [c \in Conn |-> IF c \in S THEN m ELSE message[c]]
  /\ due' = [c \in Conn |-> IF c \in S /\ Used(c) THEN due[c] \cup {m} ELSE due[c]]
  /\ UNCHANGED <<status, message_ok>>

\* NCP 21 0: for every station of the list, into the sender's own buffer.
SendBcastOld(c, stations, m) == Used(c) /\ Stored(m, IF stations = {} THEN {} ELSE {c})

\* NCP 21 1 and NCP 21 11
GetMsg(c) ==
  /\ Used(c)
  /\ message' = [message EXCEPT ![c] = NoMessage]
  /\ due' = [due EXCEPT ![c] = @ \ {message[c]}]
  /\ UNCHANGED <<status, message_ok>>

\* NCP 21 2
DisableBcast(c) ==
  /\ Used(c)
  /\ message_ok' = [message_ok EXCEPT ![c] = FALSE]
  /\ UNCHANGED <<status, message, due>>

\* NCP 21 3
EnableBcast(c) ==
  /\ Used(c)
  /\ message_ok' = [message_ok EXCEPT ![c] = TRUE]
  /\ UNCHANGED <<status, message, due>>

\* NCP 21 9, which prints the message, and every call that does nothing.
ConsoleBcast(c) == Used(c) /\ UNCHANGED mail

\* NCP 23 209 of a console operator.  Without a list of stations it is for
\* every slot, used or not, provided that the sender's own messages are on.
BroadcastOld(c, stations, m) ==
  /\ Used(c)
  /\ Stored(m, IF stations # {} THEN stations
               ELSE IF message_ok[c] THEN Conn ELSE {})

\* An operator's broadcast: every connection in use.
Broadcast(m) == Stored(m, {c \in Conn : Used(c)})

\* What clients do.
Clients ==
  \E c \in Conn :
    \/ Attach(c) \/ Wipe(c)
    \/ GetMsg(c) \/ DisableBcast(c) \/ EnableBcast(c) \/ ConsoleBcast(c)
    \/ \E m \in Unsent, S \in SUBSET Conn : SendBcastOld(c, S, m) \/ BroadcastOld(c, S, m)

-----------------------------------------------------------------------------
(* Properties *)

\* What a client would fetch was sent during its session and was not fetched
\* before, although slots are given away with messages in them, and free slots
\* are sent some.
MailIsDue == \A c \in Conn : Used(c) /\ message[c] # NoMessage => message[c] \in due[c]

\* A client that wants no messages gets none.  It fails: a list of stations,
\* and an operator, do not ask, and a broadcast asks the sender.
SwitchIsObeyed ==
  [][\A c \in Conn : Used(c) /\ ~message_ok[c] /\ ~message_ok'[c]
                       => message'[c] \in {message[c], NoMessage}]_mail

\* NCP 21 0 is for the stations of its list.  It fails: the sender is told.
StationsAreTold ==
  [][\A c \in Conn, m \in Message, S \in SUBSET Conn :
       m \in Unsent /\ SendBcastOld(c, S, m) => \A s \in S : message'[s] = m]_mail
=============================================================================
