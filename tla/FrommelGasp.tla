------------------------------ MODULE FrommelGasp ------------------------------
(***************************************************************************)
(* Operators: the GASP sessions of the server (gasp_server.c), the consoles*)
(* that use them (console.c) and the datagrams between them, which may be  *)
(* lost, and overtake each other.  A console sends one request and waits   *)
(* for an answer as long as it takes; nothing in an answer says which      *)
(* request it answers.  A console is one run of the program: it may be     *)
(* killed, and is not started again.  What arrives need not come from a    *)
(* console that is where it should be: the server compares neither the     *)
(* sender nor the number of the session with its table.                    *)
(*                                                                         *)
(* Commands change connections through FrommelMessages.                    *)
(***************************************************************************)
EXTENDS FrommelMessages

CONSTANTS
  NSessions,  \* GASP_MAX_SESSIONS
  NServices,  \* SAP_MAX_SERVICES
  Console,    \* runs of the console program
  Nobody,     \* the address of a session that was never used
  NoSession,  \* 0xffff
  Beyond,     \* a number behind gasp_session
  NoKey,      \* what an answer without a key has in its place
  Foreign,    \* the commands that arrive without a console having sent them
  Doubled     \* whether the network delivers datagrams twice

ASSUME GaspAssumption ==
  /\ NSessions \in Nat \ {0} /\ NServices \in Nat \ {0} /\ Doubled \in BOOLEAN
  /\ Nobody \notin Console /\ NoSession \notin 0..NSessions
  /\ Beyond \notin 0..NSessions \cup {NoSession}

SessionId == 0..NSessions-1

\* A datagram holds any number.
AnySession == SessionId \cup {NoSession, Beyond}

\* A key is new for every greeting, so it is known by the console it is for.
Key == Console \cup {NoKey}

\* What a console asks for; con_cmd_list_conns, con_cmd_sessions and
\* con_cmd_sap ask for one entry after the other.
Listing == {"GETCONN", "GETSESS", "GETSAPINFO"}
Plain   == {"HELLO", "AUTH", "DISCON", "DOWN", "LENABLE", "LDISABLE", "GETINFO",
            "OTHER"}  \* what the server does not know
Number  == 0..NConns + NSessions + NServices

Command ==
  [cmd : Plain, arg : {0}]
    \cup [cmd : Listing \cup {"CLEARCONN"}, arg : Number]
    \cup [cmd : {"BROADCAST"}, arg : Message]

Code == {"OK", "NOTAUTH", "BADAUTH", "OUTOFSESS", "NOCONN", "NOSESS", "NOSAP", "BADSESS",
         "UNKNOWNCMD"}

Request == [from : Console, sid : AnySession, does : Command, key : Key \cup {Nobody}]
Reply   == [to : Console, sid : AnySession, code : Code, key : Key,
            does : Command]  \* history: the request it answers

VARIABLES
  session,   \* gasp_session
  up,        \* the server runs
  requests,  \* datagrams on the way to the server ...
  replies,   \* ... and to consoles
  console,   \* the consoles
  failed,    \* history: consoles that were killed, or lost a datagram
  strange    \* history: something arrived that no console sent

wire == <<requests, replies>>
vars == <<mail, session, up, wire, console, failed, strange>>

TypeOK ==
  /\ MailTypeOK
  /\ session \in [SessionId -> [status : {"UNUSED", "CONNECTED", "AUTH"},
                                addr : Console \cup {Nobody}, key : Key]]
  /\ up \in BOOLEAN
  /\ requests \subseteq Request /\ replies \subseteq Reply
  /\ console \in [Console -> [at : {"off", "init", "ready", "list", "wait", "gone"},
                              sid : AnySession, does : Command, authorised : BOOLEAN]]
  /\ failed \subseteq Console /\ strange \in BOOLEAN

Does(cmd) == [cmd |-> cmd, arg |-> 0]

\* gasp_init, and consoles that are not started yet.
Init ==
  /\ MailInit
  /\ session = [s \in SessionId |-> [status |-> "UNUSED", addr |-> Nobody, key |-> NoKey]]
  /\ up = TRUE /\ requests = {} /\ replies = {} /\ failed = {} /\ strange = FALSE
  /\ console = [c \in Console |-> [at |-> "off", sid |-> NoSession,
                                   does |-> Does("HELLO"), authorised |-> FALSE]]

-----------------------------------------------------------------------------
(* The server *)

\* A datagram has been read, and may come again.
Taken(p) == {requests \ {p}} \cup IF Doubled THEN {requests} ELSE {}

\* gasp_send_reply; a console that does not run has no socket.
Answer(p, to, sid, code, key) ==
  /\ requests' \in Taken(p)
  /\ replies' = IF to \in Console /\ console[to].at \notin {"off", "gone"}
                THEN replies \cup {[to |-> to, sid |-> sid, code |-> code, key |-> key,
                                    does |-> p.does]}
                ELSE replies

\* gasp_send_reply_session goes to the address of the greeting.
AnswerSession(p, code) == Answer(p, session[p.sid].addr, p.sid, code, NoKey)

\* Mutant: a session that is not authenticated counts as unused.
UnusedSessionsLax == {s \in SessionId : session[s].status # "AUTH"}

UnusedSessions == {s \in SessionId : session[s].status = "UNUSED"}

FirstOf(S) == CHOOSE s \in S : \A t \in S : s <= t

\* gasp_handle_hello
HandleHello(p) ==
  /\ p.sid = NoSession /\ p.does.cmd = "HELLO"
  /\ \/ /\ UnusedSessions = {}
        /\ Answer(p, p.from, NoSession, "OUTOFSESS", NoKey)
        /\ UNCHANGED session
     \/ /\ UnusedSessions # {}
        /\ LET s == FirstOf(UnusedSessions)
           IN  /\ session' = [session EXCEPT ![s] = [status |-> "CONNECTED",
                                                     addr |-> p.from, key |-> p.from]]
               /\ Answer(p, p.from, s, "OK", p.from)
  /\ UNCHANGED mail

\* Mutant: no answer.
BadSessionSilent(p) ==
  /\ p.sid = NoSession /\ p.does.cmd # "HELLO"
  /\ requests' = requests \ {p}
  /\ UNCHANGED <<mail, session, replies>>

BadSession(p) ==
  /\ p.sid = NoSession /\ p.does.cmd # "HELLO"
  /\ Answer(p, p.from, NoSession, "BADSESS", NoKey)
  /\ UNCHANGED <<mail, session>>

\* Mutant: the answer to a wrong password is followed by the other one.
HandleAuthTwice(p) ==
  /\ p.does.cmd = "AUTH"
  /\ session' = [session EXCEPT ![p.sid].status = "AUTH"]
  /\ requests' = requests \ {p}
  /\ replies' = replies \cup
       {[to |-> p.from, sid |-> p.sid, code |-> code, key |-> NoKey, does |-> p.does] :
          code \in {"OK"} \cup IF p.key = session[p.sid].key THEN {} ELSE {"BADAUTH"}}
  /\ UNCHANGED mail

\* gasp_handle_auth
HandleAuth(p) ==
  /\ p.does.cmd = "AUTH"
  /\ \/ /\ p.key = session[p.sid].key
        /\ session' = [session EXCEPT ![p.sid].status = "AUTH"]
        /\ AnswerSession(p, "OK")
     \/ /\ p.key # session[p.sid].key
        /\ AnswerSession(p, "BADAUTH")
        /\ UNCHANGED session
  /\ UNCHANGED mail

\* Mutant: disconnecting leaves the session.
DisconnectStays(p) ==
  /\ p.does.cmd = "DISCON"
  /\ Answer(p, p.from, p.sid, "OK", NoKey)
  /\ UNCHANGED <<mail, session>>

Disconnect(p) ==
  /\ p.does.cmd = "DISCON"
  /\ session' = [session EXCEPT ![p.sid].status = "UNUSED"]
  /\ Answer(p, p.from, p.sid, "OK", NoKey)
  /\ UNCHANGED mail

InRange(d) ==
  CASE d.cmd \in {"GETCONN", "CLEARCONN"} -> d.arg \in Conn
    [] d.cmd = "GETSESS"    -> d.arg \in 0..NSessions
    [] d.cmd = "GETSAPINFO" -> d.arg \in 0..NServices-1
    [] OTHER -> TRUE

OutOfRange == [GETCONN |-> "NOCONN", CLEARCONN |-> "NOCONN",
               GETSESS |-> "NOSESS", GETSAPINFO |-> "NOSAP"]

\* gasp_send_broadcast, gasp_clear_conn and the commands that only answer.
Effect(d) ==
  CASE d.cmd = "BROADCAST" -> Broadcast(d.arg)
    [] d.cmd = "CLEARCONN" -> Wipe(d.arg)
    [] OTHER -> UNCHANGED mail

Execute(p) ==
  /\ p.does.cmd \notin {"HELLO", "AUTH", "DISCON", "DOWN", "OTHER"}
  /\ \/ /\ ~InRange(p.does)
        /\ AnswerSession(p, OutOfRange[p.does.cmd])
        /\ UNCHANGED mail
     \/ /\ InRange(p.does)
        /\ IF p.does.cmd \in {"LENABLE", "LDISABLE"}
           THEN Answer(p, p.from, p.sid, "OK", NoKey) ELSE AnswerSession(p, "OK")
        /\ Effect(p.does)
  /\ UNCHANGED session

\* A greeting or a password has no place in a session that is not connected.
UnknownCommand(p) ==
  /\ p.does.cmd \in {"HELLO", "AUTH", "OTHER"}
  /\ Answer(p, p.from, p.sid, "UNKNOWNCMD", NoKey)
  /\ UNCHANGED <<mail, session>>

\* What stands behind the table decides whether a command is carried out there,
\* and who is answered.  What DISCON and a password overwrite is left out.
HandleBeyond(p) ==
  /\ p.sid = Beyond
  /\ \/ \E code \in {"OK", "NOTAUTH", "UNKNOWNCMD"} : Answer(p, p.from, Beyond, code, NoKey)
     \/ Answer(p, Nobody, Beyond, "OK", NoKey)
  /\ UNCHANGED mail \/ (InRange(p.does) /\ Effect(p.does))
  /\ UNCHANGED session

\* A session that is connected has to authenticate first; others do not, those
\* that nobody uses included.  Whose session it is, nobody asks.
Authenticated(p) == session[p.sid].status # "CONNECTED"

NotAuthenticated(p) ==
  /\ session[p.sid].status = "CONNECTED" /\ p.does.cmd # "AUTH"
  /\ Answer(p, p.from, p.sid, "NOTAUTH", NoKey)
  /\ UNCHANGED <<mail, session>>

\* gasp_handle_packet, but for the command that ends the server
HandlePacket(p) ==
  /\ up
  /\ \/ HandleHello(p) \/ BadSession(p) \/ HandleBeyond(p)
     \/ /\ p.sid \in SessionId
        /\ \/ NotAuthenticated(p)
           \/ session[p.sid].status = "CONNECTED" /\ HandleAuth(p)
           \/ Authenticated(p) /\ (Disconnect(p) \/ Execute(p) \/ UnknownCommand(p))
  /\ UNCHANGED <<up, console, failed>>

\* exit (0)
HandleDown(p) ==
  /\ up /\ p.does.cmd = "DOWN"
  /\ p.sid = Beyond \/ (p.sid \in SessionId /\ Authenticated(p))
  /\ up' = FALSE
  /\ Answer(p, p.from, p.sid, "OK", NoKey)
  /\ UNCHANGED <<mail, session, console, failed>>

-----------------------------------------------------------------------------
(* The consoles *)

\* con_send_request, of a console that is at `at` afterwards.
Sends(c, at, sid, does, key) ==
  /\ requests' = requests \cup {[from |-> c, sid |-> sid, does |-> does, key |-> key]}
  /\ console' = [console EXCEPT ![c].at = at, ![c].sid = sid, ![c].does = does]

\* con_init begins with a greeting.
Connect(c) ==
  /\ console[c].at = "off"
  /\ Sends(c, "init", NoSession, Does("HELLO"), NoKey)
  /\ UNCHANGED <<mail, session, up, replies, failed, strange>>

\* con_done, and exit: the socket is closed.
Leaves(c, sid) ==
  /\ requests' = requests \cup {[from |-> c, sid |-> sid, does |-> Does("DISCON"),
                                 key |-> NoKey]}
  /\ replies' = {r \in replies : r.to # c}
  /\ console' = [console EXCEPT ![c].at = "gone", ![c].sid = sid]

\* con_handle_packet: an answer for another session is discarded, and counts
\* as a failure of the network.
Accepted(c, r) == r.sid = console[c].sid \/ console[c].sid = NoSession

\* con_init goes on with an answer r.  The password is right, or not.
InitReply(c, r) ==
  /\ console[c].at = "init"
  /\ LET does == console[c].does.cmd
         sid  == IF Accepted(c, r) THEN r.sid ELSE console[c].sid
     IN  \/ /\ does = "HELLO"
            /\ replies' = replies \ {r}
            /\ \E key \in {r.key, Nobody} : Sends(c, "init", sid, Does("AUTH"), key)
         \/ /\ does = "AUTH" /\ Accepted(c, r) /\ r.code = "OK"
            /\ replies' = replies \ {r}
            /\ requests' = requests \cup {[from |-> c, sid |-> sid, does |-> Does("GETINFO"),
                                           key |-> NoKey]}
            /\ console' = [console EXCEPT ![c].does = Does("GETINFO"), ![c].authorised = TRUE]
         \/ /\ does = "GETINFO" /\ Accepted(c, r) /\ r.code = "OK"
            /\ replies' = replies \ {r}
            /\ console' = [console EXCEPT ![c].at = "ready"]
            /\ UNCHANGED requests
         \/ /\ does # "HELLO" /\ ~(Accepted(c, r) /\ r.code = "OK")
            /\ Leaves(c, sid)

\* con_execute_cmd shows the answer, whatever it is; con_cmd_down leaves.
CommandReply(c, r) ==
  /\ console[c].at = "wait"
  /\ replies' = {q \in replies : q # r /\ (q.to # c \/ console[c].does.cmd # "DOWN")}
  /\ console' = [console EXCEPT ![c].at = IF console[c].does.cmd = "DOWN" THEN "gone"
                                          ELSE "ready"]
  /\ UNCHANGED requests

\* The numbers a listing asks for, and whether it goes on after an answer.
FirstEntry(cmd) == IF cmd = "GETCONN" THEN 1 ELSE 0

Continues(d, r) ==
  CASE d.cmd = "GETCONN" -> d.arg < NConns
    [] d.cmd = "GETSESS" -> d.arg < NSessions - 1
    [] OTHER -> r.code = "OK"

\* A listing asks for the next entry, or ends.
ListReply(c, r) ==
  /\ console[c].at = "list"
  /\ replies' = replies \ {r}
  /\ IF Accepted(c, r) /\ Continues(console[c].does, r)
     THEN Sends(c, "list", console[c].sid, [console[c].does EXCEPT !.arg = @ + 1], NoKey)
     ELSE /\ console' = [console EXCEPT ![c].at = "ready"]
          /\ UNCHANGED requests

\* con_get_reply
GetReply(c) ==
  /\ \E r \in replies :
       r.to = c /\ (InitReply(c, r) \/ CommandReply(c, r) \/ ListReply(c, r))
  /\ UNCHANGED <<mail, session, up, failed, strange>>

\* con_go reads a command.
Enter(c) ==
  /\ console[c].at = "ready"
  /\ \/ \E cmd \in {"LENABLE", "LDISABLE", "DOWN"} :
          Sends(c, "wait", console[c].sid, Does(cmd), NoKey)
     \/ \E i \in 1..NConns + 1 :
          Sends(c, "wait", console[c].sid, [cmd |-> "CLEARCONN", arg |-> i], NoKey)
     \/ \E m \in Unsent :
          Sends(c, "wait", console[c].sid, [cmd |-> "BROADCAST", arg |-> m], NoKey)
     \/ \E cmd \in Listing :
          Sends(c, "list", console[c].sid, [cmd |-> cmd, arg |-> FirstEntry(cmd)], NoKey)
  /\ UNCHANGED <<mail, session, up, replies, failed, strange>>

\* con_cmd_exit
Exit(c) ==
  /\ console[c].at = "ready"
  /\ Leaves(c, console[c].sid)
  /\ UNCHANGED <<mail, session, up, failed, strange>>

-----------------------------------------------------------------------------
(* What goes wrong *)

Lose ==
  /\ \/ \E p \in requests : requests' = requests \ {p} /\ failed' = failed \cup {p.from}
                            /\ UNCHANGED replies
     \/ \E r \in replies : replies' = replies \ {r} /\ failed' = failed \cup {r.to}
                           /\ UNCHANGED requests
  /\ UNCHANGED <<mail, session, up, console, strange>>

Kill(c) ==
  /\ console[c].at \notin {"off", "gone"}
  /\ console' = [console EXCEPT ![c].at = "gone"]
  /\ replies' = {r \in replies : r.to # c}
  /\ failed' = failed \cup {c}
  /\ UNCHANGED <<mail, session, up, requests, strange>>

\* The server takes up what has arrived, from a console or not.
Serve(p) == HandlePacket(p) \/ HandleDown(p)

\* What no console sends: a command out of turn, or with the number of a session
\* that is somebody else's or none.  It is dealt with as it arrives.
Stray == {p \in Request : p.does.cmd \in Foreign}

\* The runs look no further than a datagram of this kind.
Regular == ~strange

Next ==
  \/ \E p \in requests : Serve(p) /\ UNCHANGED strange
  \/ \E p \in Stray : Serve(p) /\ strange' = TRUE
  \/ \E c \in Console : Connect(c) \/ GetReply(c) \/ Enter(c) \/ Exit(c) \/ Kill(c)
  \/ up /\ Clients /\ UNCHANGED <<session, up, wire, console, failed, strange>>
  \/ Lose

\* The server is started again; consoles go on with the sessions they had.
Restart ==
  /\ up' = TRUE
  /\ session' = [s \in SessionId |-> [status |-> "UNUSED", addr |-> Nobody, key |-> NoKey]]
  /\ status' = [c \in Conn |-> "unused"]
  /\ message' = [c \in Conn |-> NoMessage]
  /\ message_ok' = [c \in Conn |-> FALSE]
  /\ due' = [c \in Conn |-> {}]
  /\ UNCHANGED <<wire, console, failed, strange>>

\* The server and the consoles read what has arrived, and the network delivers
\* what it does not lose.
Fairness ==
  /\ \A c \in Console : WF_vars(GetReply(c))
  /\ \A c \in Console : WF_vars(\E p \in requests : p.from = c /\ Serve(p) /\ UNCHANGED strange)

Spec == Init /\ [][Next]_vars /\ Fairness

RestartSpec == Init /\ [][Next \/ Restart]_vars

-----------------------------------------------------------------------------
(* Properties *)

Waiting(c) == console[c].at \in {"init", "list", "wait"}

\* A console that has a session keeps it, for itself, until it leaves,
\* whatever other consoles do and whatever is lost, as long as nothing arrives
\* that no console sent.  It fails when datagrams are doubled, since a second
\* farewell ends the session of whoever has it by then, and when the server is
\* started again, since it forgets them.
SessionsOwned ==
  ~strange => \A c \in Console :
    console[c].at \notin {"off", "gone"} /\ console[c].sid # NoSession =>
      session[console[c].sid].addr = c /\ session[console[c].sid].status # "UNUSED"

\* Answers have no number, but a console gets the answer to what it asked last,
\* as long as nothing arrives that no console sent.  It fails when datagrams are
\* doubled, and when the server is started again: new consoles are given the
\* sessions, and the answers, of old ones.
RepliesAnswer ==
  ~strange => \A r \in replies : Waiting(r.to) /\ r.does = console[r.to].does
                                 /\ Accepted(r.to, r)

\* "are we authenticated?": a command is carried out for a console that has
\* authenticated itself.  It fails with consoles alone when the server is started
\* again: they go on in sessions it has forgotten, and it asks no one who is not
\* connected.
CommandsInSession ==
  [][\A p \in requests : p.sid \in SessionId /\ (Execute(p) \/ Disconnect(p) \/ HandleDown(p)) =>
       session[p.sid].status = "AUTH" /\ session[p.sid].addr = p.from]_vars

\* The sessions that nobody gives back are those of consoles that were killed,
\* lost a datagram or gave a wrong password, as long as nothing arrives that no
\* console sent.
SessionsComeBack ==
  up /\ ~strange => \A s \in SessionId :
    session[s].status # "UNUSED" =>
      LET c == session[s].addr
      IN  \/ console[c].at # "gone" \/ c \in failed \/ ~console[c].authorised
          \/ \E p \in requests : p.from = c

\* "con_done: This will close the console connection."  It fails after a wrong
\* password: the server answers that the console is not authenticated, and
\* keeps the session for ever.
DoneCloses ==
  up /\ ~strange => \A c \in Console :
    console[c].at = "gone" /\ c \notin failed /\ (\A p \in requests : p.from # c) =>
      \A s \in SessionId : session[s].addr = c => session[s].status = "UNUSED"

\* A console does not wait for ever, unless a datagram is lost, the server ends,
\* or something arrives that no console sent.
ConsolesGoOn ==
  \A c \in Console : Waiting(c) ~> ~Waiting(c) \/ c \in failed \/ ~up \/ strange
=============================================================================
