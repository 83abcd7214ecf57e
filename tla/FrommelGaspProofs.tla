---------------------------- MODULE FrommelGaspProofs ----------------------------
(***************************************************************************)
(* What holds of operators and messages for every number of sessions,      *)
(* consoles, connections and messages, whatever is lost or overtaken, as   *)
(* long as the network does not deliver a datagram twice, and nothing      *)
(* arrives that no console sent: the server does not look who sends.       *)
(***************************************************************************)
EXTENDS FrommelGasp, WellFoundedInduction, TLAPS

Sid == SessionId \cup {NoSession}

Entry == [cmd : Listing, arg : Nat]

Doing == Command \cup Entry

At == {"off", "init", "ready", "list", "wait", "gone"}

Typed ==
  /\ session \in [SessionId -> [status : {"UNUSED", "CONNECTED", "AUTH"},
                                addr : Console \cup {Nobody}, key : Key]]
  /\ console \in [Console -> [at : At, sid : Sid, does : Doing, authorised : BOOLEAN]]
  /\ \A p \in requests : p.from \in Console /\ p.sid \in Sid /\ p.does \in Doing
  /\ \A r \in replies : r.to \in Console /\ r.sid \in Sid /\ r.does \in Doing

\* A console has one datagram under way, in one direction.
OneDatagram ==
  /\ \A p, q \in requests : p.from = q.from => p = q
  /\ \A r, q \in replies : r.to = q.to => r = q
  /\ \A p \in requests, r \in replies : p.from # r.to

Owns(c, s) == session[s].addr = c /\ session[s].status # "UNUSED"

Authentic(c, s) == s # NoSession /\ session[s].status = "AUTH"

Lives(c) == console[c].at \notin {"off", "gone"}

RequestsMade ==
  \A p \in requests :
    /\ console[p.from].at # "off"
    /\ Lives(p.from) => /\ Waiting(p.from) /\ p.does.cmd # "DISCON"
                        /\ p.sid = console[p.from].sid /\ p.does = console[p.from].does
    /\ p.sid # NoSession => Owns(p.from, p.sid)
    /\ p.does.cmd = "HELLO" => p.sid = NoSession
    /\ p.does.cmd \notin {"HELLO", "AUTH", "DISCON"} => Authentic(p.from, p.sid)

RepliesGiven ==
  \A r \in replies :
    /\ Waiting(r.to) /\ r.does = console[r.to].does
    /\ r.sid # NoSession => Owns(r.to, r.sid)
    /\ IF r.does.cmd = "HELLO" THEN console[r.to].sid = NoSession
                               ELSE r.sid = console[r.to].sid
    /\ r.does.cmd = "AUTH" /\ r.code = "OK" => Authentic(r.to, r.sid)

\* Past the authentication.
In(c) == \/ console[c].at \in {"ready", "list", "wait"}
         \/ console[c].at = "init" /\ console[c].does.cmd = "GETINFO"

ConsolesKnow ==
  \A c \in Console :
    /\ Lives(c) /\ console[c].sid # NoSession => Owns(c, console[c].sid)
    /\ In(c) => Authentic(c, console[c].sid)
    /\ console[c].at = "list" => console[c].does \in Entry

GaspInv == Typed /\ OneDatagram /\ RequestsMade /\ RepliesGiven /\ ConsolesKnow

-----------------------------------------------------------------------------
LEMMA Sids ==
  /\ NoSession \notin SessionId /\ NoSession \in Sid /\ Beyond \notin Sid
  /\ SessionId \subseteq Sid
  /\ \A s \in Sid : s # NoSession => s \in SessionId
<1>1. NoSession \notin SessionId /\ Beyond \notin SessionId /\ Beyond # NoSession
  BY GaspAssumption DEF SessionId
<1>2. QED
  BY <1>1, Zenon DEF Sid

LEMMA FirstIsThere ==
  ASSUME NEW S \in SUBSET SessionId, S # {}
  PROVE  FirstOf(S) \in S
<1>1. S \in SUBSET Nat
  BY GaspAssumption DEF SessionId
<1>2. \E i \in S : \A j \in S : <<j, i>> \notin OpToRel(<, Nat)
  BY <1>1, NatLessThanWellFounded, WFMin
<1>3. PICK i \in S : \A j \in S : <<j, i>> \notin OpToRel(<, Nat)
  BY <1>2
<1>4. ASSUME NEW j \in S PROVE i <= j
  <2>1. i \in Nat /\ j \in Nat
    BY <1>1
  <2>2. ASSUME j < i PROVE FALSE
    <3>1. <<j, i>> \in Nat \X Nat /\ <<j, i>>[1] < <<j, i>>[2]
      BY <2>1, <2>2
    <3>2. <<j, i>> \in OpToRel(<, Nat)
      BY <3>1, Zenon DEF OpToRel
    <3>3. QED
      BY <1>3, <3>2
  <2>3. QED
    BY <2>1, <2>2
<1>5. QED
  BY <1>3, <1>4 DEF FirstOf

LEMMA Commands ==
  /\ \A cmd \in Plain : Does(cmd) \in Doing /\ Does(cmd).cmd = cmd
  /\ \A cmd \in Listing, n \in Nat : [cmd |-> cmd, arg |-> n] \in Doing \cap Entry
  /\ \A d \in Entry : d.cmd \in Listing /\ [d EXCEPT !.arg = @ + 1] \in Doing \cap Entry
  /\ \A i \in 1..NConns + 1 : [cmd |-> "CLEARCONN", arg |-> i] \in Doing
  /\ \A m \in Message : [cmd |-> "BROADCAST", arg |-> m] \in Doing
  /\ \A d \in Doing : d.cmd = "BROADCAST" => d.arg \in Message
<1>1. \A cmd \in Plain : Does(cmd) \in Doing /\ Does(cmd).cmd = cmd
  BY DEF Does, Doing, Command
<1>2. \A cmd \in Listing, n \in Nat : [cmd |-> cmd, arg |-> n] \in Doing \cap Entry
  BY DEF Doing, Entry
<1>3. \A d \in Entry : d.cmd \in Listing /\ [d EXCEPT !.arg = @ + 1] \in Doing \cap Entry
  BY DEF Doing, Entry
<1>4. ASSUME NEW i \in 1..NConns + 1 PROVE [cmd |-> "CLEARCONN", arg |-> i] \in Doing
  <2>1. i \in Number
    BY GaspAssumption, MessagesAssumption DEF Number
  <2>2. QED
    BY <2>1 DEF Doing, Command
<1>5. \A m \in Message : [cmd |-> "BROADCAST", arg |-> m] \in Doing
  BY DEF Doing, Command
<1>6. ASSUME NEW d \in Doing, d.cmd = "BROADCAST" PROVE d.arg \in Message
  <2>1. d \notin [cmd : Plain, arg : {0}]
    BY <1>6 DEF Plain
  <2>2. d \notin [cmd : Listing \cup {"CLEARCONN"}, arg : Number]
    BY <1>6 DEF Listing
  <2>3. d \notin Entry
    BY <1>6 DEF Entry, Listing
  <2>4. d \in [cmd : {"BROADCAST"}, arg : Message]
    BY <2>1, <2>2, <2>3 DEF Doing, Command
  <2>5. QED
    BY <2>4
<1>7. QED
  BY <1>1, <1>2, <1>3, <1>4, <1>5, <1>6

-----------------------------------------------------------------------------
(* The server *)

LEMMA Answered ==
  ASSUME ~Doubled, NEW p \in requests, NEW to, NEW sid, NEW code, NEW key,
         Answer(p, to, sid, code, key)
  PROVE  /\ requests' = requests \ {p}
         /\ \A r \in replies' \ replies :
              /\ r.to = to /\ r.sid = sid /\ r.code = code /\ r.does = p.does
              /\ to \in Console /\ console[to].at \notin {"off", "gone"}
<1>1. requests' \in {requests \ {p}}
  BY DEF Answer, Taken
<1>2. CASE to \in Console /\ console[to].at \notin {"off", "gone"}
  BY <1>1, <1>2 DEF Answer
<1>3. CASE ~(to \in Console /\ console[to].at \notin {"off", "gone"})
  BY <1>1, <1>3 DEF Answer
<1>4. QED
  BY <1>2, <1>3

\* A request that takes nobody's session, unless it is the farewell of a console,
\* and is answered by what the console waits for.
LEMMA KeepServer ==
  ASSUME ~Doubled, GaspInv, NEW p \in requests,
         NEW sid \in Sid, NEW code, NEW key,
         Answer(p, p.from, sid, code, key),
         console' = console,
         session' \in [SessionId -> [status : {"UNUSED", "CONNECTED", "AUTH"},
                                     addr : Console \cup {Nobody}, key : Key]],
         \A s \in SessionId :
           session[s].status # "UNUSED" /\ (s = p.sid => p.does.cmd # "DISCON") =>
             /\ session'[s].addr = session[s].addr /\ session'[s].status # "UNUSED"
             /\ session[s].status = "AUTH" => session'[s].status = "AUTH",
         sid # NoSession /\ Lives(p.from) => Owns(p.from, sid)',
         p.does.cmd # "HELLO" => sid = p.sid,
         p.does.cmd = "AUTH" /\ code = "OK" /\ Lives(p.from) => Authentic(p.from, sid)'
  PROVE  GaspInv'
<1>1. /\ requests' = requests \ {p}
      /\ \A r \in replies' \ replies :
           /\ r.to = p.from /\ r.sid = sid /\ r.code = code /\ r.does = p.does
           /\ console[p.from].at # "gone"
  BY Answered
<1>2. p.from \in Console /\ p.sid \in Sid /\ p.does \in Doing
  BY DEF GaspInv, Typed
<1>4. \A r, q \in replies' \ replies : r = q
  <2>1. \A r \in replies' \ replies :
           r = [to |-> p.from, sid |-> sid, code |-> code, key |-> key, does |-> p.does]
    BY DEF Answer
  <2>2. QED
    BY <2>1
<1>5. Typed'
  BY <1>1, <1>2 DEF GaspInv, Typed
<1>6. OneDatagram'
  BY <1>1, <1>4 DEF GaspInv, OneDatagram
<1>7. ASSUME NEW q \in requests', q.sid # NoSession
      PROVE  /\ Owns(q.from, q.sid)'
             /\ Authentic(q.from, q.sid) => Authentic(q.from, q.sid)'
  <2>1. q \in requests /\ q # p /\ q.from # p.from
    BY <1>1, <1>7 DEF GaspInv, OneDatagram
  <2>2. Owns(q.from, q.sid) /\ q.sid \in SessionId
    BY <1>7, <2>1, Sids DEF GaspInv, RequestsMade, Typed
  <2>3. q.sid = p.sid => q.sid # NoSession /\ Owns(p.from, p.sid)
    BY <1>7 DEF GaspInv, RequestsMade
  <2>4. q.sid # p.sid
    BY <2>1, <2>2, <2>3 DEF Owns
  <2>5. QED
    BY <2>2, <2>4 DEF Owns, Authentic
<1>8. ASSUME NEW c \in Console, NEW s \in Sid, Lives(c), s # NoSession, Owns(c, s)
      PROVE  /\ Owns(c, s)'
             /\ Authentic(c, s) => Authentic(c, s)'
  <2>1. s \in SessionId
    BY <1>8, Sids
  <2>2. s = p.sid => p.does.cmd # "DISCON"
    <3>1. CASE s = p.sid
      <4>1. Owns(p.from, p.sid)
        BY <1>8, <3>1 DEF GaspInv, RequestsMade
      <4>2. c = p.from
        BY <1>8, <3>1, <4>1 DEF Owns
      <4>3. QED
        BY <1>8, <4>2 DEF GaspInv, RequestsMade
    <3>2. QED
      BY <3>1
  <2>3. QED
    BY <1>8, <2>1, <2>2 DEF Owns, Authentic
<1>9. RequestsMade'
  <2>1. SUFFICES ASSUME NEW q \in requests'
                 PROVE  (/\ console[q.from].at # "off"
                         /\ Lives(q.from) => /\ Waiting(q.from) /\ q.does.cmd # "DISCON"
                                             /\ q.sid = console[q.from].sid
                                             /\ q.does = console[q.from].does
                         /\ q.sid # NoSession => Owns(q.from, q.sid)
                         /\ q.does.cmd = "HELLO" => q.sid = NoSession
                         /\ q.does.cmd \notin {"HELLO", "AUTH", "DISCON"} =>
                              Authentic(q.from, q.sid))'
    BY DEF RequestsMade
  <2>2. q \in requests
    BY <1>1
  <2>3. q.does.cmd \notin {"HELLO", "AUTH", "DISCON"} => Authentic(q.from, q.sid)'
    BY <1>7, <2>2 DEF GaspInv, RequestsMade, Authentic
  <2>4. QED
    BY <1>7, <2>2, <2>3 DEF GaspInv, RequestsMade, Lives, Waiting
<1>10. ConsolesKnow'
  <2>1. SUFFICES ASSUME NEW c \in Console
                 PROVE  (/\ Lives(c) /\ console[c].sid # NoSession => Owns(c, console[c].sid)
                         /\ In(c) => Authentic(c, console[c].sid)
                         /\ console[c].at = "list" => console[c].does \in Entry)'
    BY DEF ConsolesKnow
  <2>2. console[c].sid \in Sid
    BY DEF GaspInv, Typed
  <2>3. In(c) => Lives(c) /\ console[c].sid # NoSession /\ Authentic(c, console[c].sid)
    BY DEF GaspInv, ConsolesKnow, In, Lives, Authentic
  <2>4. Lives(c)' = Lives(c) /\ In(c)' = In(c)
    BY DEF Lives, In
  <2>5. Lives(c) /\ console[c].sid # NoSession => Owns(c, console[c].sid)
    BY DEF GaspInv, ConsolesKnow
  <2>6. Lives(c) /\ console[c].sid # NoSession =>
          /\ Owns(c, console[c].sid)'
          /\ Authentic(c, console[c].sid) => Authentic(c, console[c].sid)'
    BY <1>8, <2>2, <2>5 DEF Owns, Authentic
  <2>7. QED
    BY <2>3, <2>4, <2>6 DEF GaspInv, ConsolesKnow
<1>11. RepliesGiven'
  <2>1. SUFFICES ASSUME NEW r \in replies'
                 PROVE  (/\ Waiting(r.to) /\ r.does = console[r.to].does
                         /\ r.sid # NoSession => Owns(r.to, r.sid)
                         /\ IF r.does.cmd = "HELLO" THEN console[r.to].sid = NoSession
                                                    ELSE r.sid = console[r.to].sid
                         /\ r.does.cmd = "AUTH" /\ r.code = "OK" => Authentic(r.to, r.sid))'
    BY DEF RepliesGiven
  <2>2. CASE r \in replies
    <3>1. /\ Waiting(r.to) /\ r.does = console[r.to].does
          /\ r.sid # NoSession => Owns(r.to, r.sid)
          /\ IF r.does.cmd = "HELLO" THEN console[r.to].sid = NoSession
                                     ELSE r.sid = console[r.to].sid
          /\ r.does.cmd = "AUTH" /\ r.code = "OK" => Authentic(r.to, r.sid)
      BY <2>2 DEF GaspInv, RepliesGiven
    <3>2. Lives(r.to) /\ r.to \in Console /\ r.sid \in Sid
      BY <2>2, <3>1 DEF Waiting, Lives, GaspInv, Typed
    <3>3. r.sid # NoSession => /\ Owns(r.to, r.sid)'
                               /\ Authentic(r.to, r.sid) => Authentic(r.to, r.sid)'
      BY <1>8, <3>1, <3>2
    <3>4. QED
      BY <3>1, <3>3 DEF Waiting, Authentic
  <2>3. CASE r \notin replies
    <3>1. /\ r.to = p.from /\ r.sid = sid /\ r.code = code /\ r.does = p.does
          /\ Lives(p.from)
      BY <1>1, <2>3 DEF Lives, GaspInv, RequestsMade
    <3>2. /\ Waiting(p.from) /\ p.sid = console[p.from].sid /\ p.does = console[p.from].does
          /\ p.does.cmd = "HELLO" => p.sid = NoSession
      BY <3>1 DEF GaspInv, RequestsMade
    <3>3. QED
      BY <3>1, <3>2 DEF Waiting, Owns, Authentic
  <2>4. QED
    BY <2>2, <2>3
<1>12. QED
  BY <1>5, <1>6, <1>9, <1>10, <1>11 DEF GaspInv

LEMMA SessionOf ==
  ASSUME GaspInv, NEW p \in requests, p.sid # NoSession
  PROVE  /\ p.sid \in SessionId /\ p.sid \in Sid /\ p.from \in Console
         /\ session[p.sid].addr = p.from /\ session[p.sid].status # "UNUSED"
         /\ p.does.cmd # "HELLO"
         /\ Authenticated(p) => session[p.sid].status = "AUTH"
<1>1. p.sid \in SessionId /\ p.sid \in Sid /\ p.from \in Console
  BY Sids DEF GaspInv, Typed
<1>2. session[p.sid].status \in {"UNUSED", "CONNECTED", "AUTH"}
  BY <1>1 DEF GaspInv, Typed
<1>3. QED
  BY <1>1, <1>2 DEF GaspInv, RequestsMade, Owns, Authenticated

LEMMA KeepHello ==
  ASSUME ~Doubled, GaspInv, NEW p \in requests, HandleHello(p), console' = console
  PROVE  GaspInv'
<1>1. p.sid = NoSession /\ p.does.cmd = "HELLO" /\ p.from \in Console
  BY DEF HandleHello, GaspInv, Typed
<1>2. CASE UnusedSessions = {}
  <2>1. Answer(p, p.from, NoSession, "OUTOFSESS", NoKey) /\ session' = session
    BY <1>2 DEF HandleHello
  <2>2. session' \in [SessionId -> [status : {"UNUSED", "CONNECTED", "AUTH"},
                                     addr : Console \cup {Nobody}, key : Key]]
    BY <2>1 DEF GaspInv, Typed
  <2>3. QED
    BY <1>1, <2>1, <2>2, Sids, KeepServer
<1>3. CASE UnusedSessions # {}
  <2>1. PICK s \in SessionId : session[s].status = "UNUSED" /\ s = FirstOf(UnusedSessions)
    <3>1. UnusedSessions \in SUBSET SessionId
      BY DEF UnusedSessions
    <3>2. FirstOf(UnusedSessions) \in UnusedSessions
      BY <1>3, <3>1, FirstIsThere
    <3>3. QED
      BY <3>2 DEF UnusedSessions
  <2>2. /\ session' = [session EXCEPT ![s] = [status |-> "CONNECTED", addr |-> p.from,
                                              key |-> p.from]]
        /\ Answer(p, p.from, s, "OK", p.from)
    BY <1>3, <2>1 DEF HandleHello
  <2>3. p.from \in Key
    BY <1>1 DEF Key
  <2>4. session' \in [SessionId -> [status : {"UNUSED", "CONNECTED", "AUTH"},
                                     addr : Console \cup {Nobody}, key : Key]]
    <3>1. session \in [SessionId -> [status : {"UNUSED", "CONNECTED", "AUTH"},
                                      addr : Console \cup {Nobody}, key : Key]]
      BY DEF GaspInv, Typed
    <3>2. QED
      BY <1>1, <2>1, <2>2, <2>3, <3>1
  <2>5. /\ session'[s].addr = p.from /\ session'[s].status = "CONNECTED"
        /\ \A t \in SessionId : t # s => session'[t] = session[t]
    BY <2>1, <2>2 DEF GaspInv, Typed
  <2>6. s \in Sid
    BY <2>1, Sids
  <2>7. Owns(p.from, s)'
    BY <2>5 DEF Owns
  <2>8. QED
    BY <1>1, <2>1, <2>2, <2>4, <2>5, <2>6, <2>7, KeepServer
<1>4. QED
  BY <1>2, <1>3

\* Requests that leave the sessions as they are.
LEMMA KeepAnswer ==
  ASSUME ~Doubled, GaspInv, NEW p \in requests, NEW code, NEW key,
         Answer(p, p.from, p.sid, code, key),
         p.does.cmd # "HELLO",
         p.does.cmd = "AUTH" => code # "OK",
         session' = session, console' = console
  PROVE  GaspInv'
<1>1. p.sid \in Sid
  BY DEF GaspInv, Typed
<1>2. session' \in [SessionId -> [status : {"UNUSED", "CONNECTED", "AUTH"},
                                   addr : Console \cup {Nobody}, key : Key]]
  BY DEF GaspInv, Typed
<1>3. p.sid # NoSession => Owns(p.from, p.sid)'
  BY SessionOf DEF Owns
<1>4. QED
  BY <1>1, <1>2, <1>3, KeepServer

LEMMA KeepAuth ==
  ASSUME ~Doubled, GaspInv, NEW p \in requests, p.sid # NoSession, HandleAuth(p),
         console' = console
  PROVE  GaspInv'
<1>1. /\ p.sid \in SessionId /\ p.sid \in Sid
      /\ session[p.sid].addr = p.from /\ session[p.sid].status # "UNUSED"
  BY SessionOf
<1>2. p.does.cmd = "AUTH"
  BY DEF HandleAuth
<1>3. CASE /\ session' = [session EXCEPT ![p.sid].status = "AUTH"]
           /\ AnswerSession(p, "OK")
  <2>1. Answer(p, p.from, p.sid, "OK", NoKey)
    BY <1>1, <1>3 DEF AnswerSession
  <2>2. session' \in [SessionId -> [status : {"UNUSED", "CONNECTED", "AUTH"},
                                     addr : Console \cup {Nobody}, key : Key]]
    BY <1>1, <1>3 DEF GaspInv, Typed
  <2>3. /\ session'[p.sid].addr = p.from /\ session'[p.sid].status = "AUTH"
        /\ \A t \in SessionId : t # p.sid => session'[t] = session[t]
    BY <1>1, <1>3 DEF GaspInv, Typed
  <2>4. Owns(p.from, p.sid)' /\ Authentic(p.from, p.sid)'
    BY <2>3 DEF Owns, Authentic
  <2>5. QED
    BY <1>1, <1>2, <2>1, <2>2, <2>3, <2>4, KeepServer
<1>4. CASE AnswerSession(p, "BADAUTH") /\ session' = session
  <2>1. Answer(p, p.from, p.sid, "BADAUTH", NoKey)
    BY <1>1, <1>4 DEF AnswerSession
  <2>2. QED
    BY <1>2, <1>4, <2>1, KeepAnswer
<1>5. QED
  BY <1>3, <1>4 DEF HandleAuth

LEMMA KeepDisconnect ==
  ASSUME ~Doubled, GaspInv, NEW p \in requests, p.sid # NoSession, Disconnect(p),
         console' = console
  PROVE  GaspInv'
<1>1. p.sid \in SessionId /\ p.sid \in Sid
  BY SessionOf
<1>2. /\ p.does.cmd = "DISCON" /\ Answer(p, p.from, p.sid, "OK", NoKey)
      /\ session' = [session EXCEPT ![p.sid].status = "UNUSED"]
  BY DEF Disconnect
<1>3. ~Lives(p.from)
  BY <1>2 DEF GaspInv, RequestsMade
<1>4. session' \in [SessionId -> [status : {"UNUSED", "CONNECTED", "AUTH"},
                                   addr : Console \cup {Nobody}, key : Key]]
  BY <1>1, <1>2 DEF GaspInv, Typed
<1>5. \A t \in SessionId : t # p.sid => session'[t] = session[t]
  BY <1>1, <1>2 DEF GaspInv, Typed
<1>6. QED
  BY <1>1, <1>2, <1>3, <1>4, <1>5, KeepServer

LEMMA KeepExecute ==
  ASSUME ~Doubled, GaspInv, NEW p \in requests, p.sid # NoSession, Execute(p),
         console' = console
  PROVE  GaspInv'
<1>1. p.does.cmd \notin {"HELLO", "AUTH"} /\ session' = session
  BY DEF Execute
<1>2. session[p.sid].addr = p.from
  BY SessionOf
<1>3. \E code : Answer(p, p.from, p.sid, code, NoKey)
  BY <1>2 DEF Execute, AnswerSession
<1>4. QED
  BY <1>1, <1>3, KeepAnswer

LEMMA KeepHandlePacket ==
  ASSUME ~Doubled, GaspInv, NEW p \in requests, HandlePacket(p)
  PROVE  GaspInv'
<1>1. console' = console
  BY DEF HandlePacket
<1>2. CASE HandleHello(p)
  BY <1>1, <1>2, KeepHello
<1>3. CASE BadSession(p)
  <2>1. /\ p.sid = NoSession /\ p.does.cmd # "HELLO" /\ session' = session
        /\ Answer(p, p.from, p.sid, "BADSESS", NoKey)
    BY <1>3 DEF BadSession
  <2>2. QED
    BY <1>1, <2>1, KeepAnswer
<1>4. CASE p.sid # NoSession /\ NotAuthenticated(p)
  <2>1. /\ p.does.cmd # "AUTH" /\ session' = session
        /\ Answer(p, p.from, p.sid, "NOTAUTH", NoKey)
    BY <1>4 DEF NotAuthenticated
  <2>2. QED
    BY <1>1, <1>4, <2>1, SessionOf, KeepAnswer
<1>5. CASE p.sid \in SessionId /\ UnknownCommand(p)
  <2>1. /\ p.sid # NoSession /\ session' = session
        /\ Answer(p, p.from, p.sid, "UNKNOWNCMD", NoKey)
    BY <1>5, Sids DEF UnknownCommand
  <2>2. QED
    BY <1>1, <2>1, SessionOf, KeepAnswer
<1>6. ~HandleBeyond(p)
  BY Sids DEF HandleBeyond, GaspInv, Typed
<1>7. p.sid \in SessionId => p.sid # NoSession
  BY Sids
<1>8. QED
  BY <1>1, <1>2, <1>3, <1>4, <1>5, <1>6, <1>7, KeepAuth, KeepDisconnect, KeepExecute
  DEF HandlePacket

LEMMA KeepDown ==
  ASSUME ~Doubled, GaspInv, NEW p \in requests, HandleDown(p)
  PROVE  GaspInv'
<1>1. /\ p.does.cmd = "DOWN" /\ session' = session /\ console' = console
      /\ Answer(p, p.from, p.sid, "OK", NoKey)
  BY DEF HandleDown
<1>2. QED
  BY <1>1, KeepAnswer

-----------------------------------------------------------------------------
(* The consoles *)

\* Steps of one console, and of what can happen to it: the others keep what they
\* have, so it is enough to look at its own datagrams and at itself.
LEMMA KeepConsole ==
  ASSUME GaspInv, NEW c \in Console, session' = session,
         console' \in [Console -> [at : At, sid : Sid, does : Doing, authorised : BOOLEAN]],
         \A d \in Console \ {c} : console'[d] = console[d],
         \A p \in requests' : p \in requests \/ p.from = c,
         \A r \in replies' : r \in replies,
         \A p \in requests' : p.from = c =>
           /\ p.sid \in Sid /\ p.does \in Doing
           /\ console'[c].at # "off"
           /\ Lives(c)' => /\ Waiting(c)' /\ p.does.cmd # "DISCON"
                          /\ p.sid = console'[c].sid /\ p.does = console'[c].does
           /\ p.sid # NoSession => Owns(c, p.sid)
           /\ p.does.cmd = "HELLO" => p.sid = NoSession
           /\ p.does.cmd \notin {"HELLO", "AUTH", "DISCON"} => Authentic(c, p.sid),
         \A p, q \in requests' : p.from = c /\ q.from = c => p = q,
         \A r \in replies' : r.to # c,
         Lives(c)' /\ console'[c].sid # NoSession => Owns(c, console'[c].sid),
         In(c)' => Authentic(c, console'[c].sid),
         console'[c].at = "list" => console'[c].does \in Entry
  PROVE  GaspInv'
<1>1. Typed'
  BY DEF GaspInv, Typed
<1>2. OneDatagram'
  BY DEF GaspInv, OneDatagram
<1>3. RequestsMade'
  <2>1. SUFFICES ASSUME NEW q \in requests'
                 PROVE  (/\ console[q.from].at # "off"
                         /\ Lives(q.from) => /\ Waiting(q.from) /\ q.does.cmd # "DISCON"
                                             /\ q.sid = console[q.from].sid
                                             /\ q.does = console[q.from].does
                         /\ q.sid # NoSession => Owns(q.from, q.sid)
                         /\ q.does.cmd = "HELLO" => q.sid = NoSession
                         /\ q.does.cmd \notin {"HELLO", "AUTH", "DISCON"} =>
                              Authentic(q.from, q.sid))'
    BY DEF RequestsMade
  <2>2. CASE q.from = c
    BY <2>2 DEF Lives, Waiting, Owns, Authentic
  <2>3. CASE q.from # c
    <3>1. q \in requests /\ q.from \in Console /\ console'[q.from] = console[q.from]
      BY <2>3 DEF GaspInv, Typed
    <3>2. QED
      BY <3>1 DEF GaspInv, RequestsMade, Lives, Waiting, Owns, Authentic
  <2>4. QED
    BY <2>2, <2>3
<1>4. RepliesGiven'
  <2>1. ASSUME NEW r \in replies'
        PROVE  r \in replies /\ r.to \in Console /\ console'[r.to] = console[r.to]
    BY DEF GaspInv, Typed
  <2>2. QED
    BY <2>1 DEF GaspInv, RepliesGiven, Waiting, Owns, Authentic
<1>5. ConsolesKnow'
  <2>1. SUFFICES ASSUME NEW d \in Console
                 PROVE  (/\ Lives(d) /\ console[d].sid # NoSession => Owns(d, console[d].sid)
                         /\ In(d) => Authentic(d, console[d].sid)
                         /\ console[d].at = "list" => console[d].does \in Entry)'
    BY DEF ConsolesKnow
  <2>2. CASE d = c
    BY <2>2 DEF Lives, Owns, Authentic
  <2>3. CASE d # c
    BY <2>3 DEF GaspInv, ConsolesKnow, Lives, In, Owns, Authentic
  <2>4. QED
    BY <2>2, <2>3
<1>6. QED
  BY <1>1, <1>2, <1>3, <1>4, <1>5 DEF GaspInv

\* A console sends a request, when nothing of its own is under way.
LEMMA KeepSends ==
  ASSUME GaspInv, NEW c \in Console, NEW at \in {"init", "list", "wait"},
         NEW sid \in Sid, NEW does \in Doing, NEW key, Sends(c, at, sid, does, key),
         session' = session, replies' \subseteq replies,
         \A p \in requests : p.from # c, \A r \in replies' : r.to # c,
         does.cmd # "DISCON", does.cmd = "HELLO" => sid = NoSession,
         sid # NoSession => Owns(c, sid),
         does.cmd \notin {"HELLO", "AUTH"} => Authentic(c, sid),
         at # "init" => Authentic(c, sid),
         at = "list" => does \in Entry
  PROVE  GaspInv'
<1>1. /\ requests' = requests \cup {[from |-> c, sid |-> sid, does |-> does, key |-> key]}
      /\ console' = [console EXCEPT ![c].at = at, ![c].sid = sid, ![c].does = does]
  BY DEF Sends
<1>2. /\ console' \in [Console -> [at : At, sid : Sid, does : Doing, authorised : BOOLEAN]]
      /\ console'[c].at = at /\ console'[c].sid = sid /\ console'[c].does = does
      /\ \A d \in Console \ {c} : console'[d] = console[d]
  <2>1. console \in [Console -> [at : At, sid : Sid, does : Doing, authorised : BOOLEAN]]
    BY DEF GaspInv, Typed
  <2>2. at \in At
    BY DEF At
  <2>3. QED
    BY <1>1, <2>1, <2>2
<1>3. /\ \A p \in requests' : p \in requests \/ p.from = c
      /\ \A p \in requests' : p.from = c =>
           p = [from |-> c, sid |-> sid, does |-> does, key |-> key]
  BY <1>1
<1>4. \A p \in requests' : p.from = c => p.sid = sid /\ p.does = does
  BY <1>3
<1>5. Waiting(c)' /\ (In(c)' => at # "init" \/ does.cmd = "GETINFO")
  BY <1>2 DEF Waiting, In
<1>6. In(c)' => Authentic(c, console'[c].sid)
  BY <1>2, <1>5
<1>7. \A p, q \in requests' : p.from = c /\ q.from = c => p = q
  BY <1>3
<1>8. \A r \in replies' : r \in replies
  OBVIOUS
<1>9. \A p \in requests' : p.from = c =>
        /\ p.sid \in Sid /\ p.does \in Doing
        /\ console'[c].at # "off"
        /\ Lives(c)' => /\ Waiting(c)' /\ p.does.cmd # "DISCON"
                       /\ p.sid = console'[c].sid /\ p.does = console'[c].does
        /\ p.sid # NoSession => Owns(c, p.sid)
        /\ p.does.cmd = "HELLO" => p.sid = NoSession
        /\ p.does.cmd \notin {"HELLO", "AUTH", "DISCON"} => Authentic(c, p.sid)
  BY <1>2, <1>4, <1>5
<1>10. QED
  BY <1>2, <1>3, <1>6, <1>7, <1>8, <1>9, KeepConsole

LEMMA KeepLeaves ==
  ASSUME GaspInv, NEW c \in Console, NEW sid \in Sid, Leaves(c, sid), session' = session,
         \A p \in requests : p.from # c, sid # NoSession => Owns(c, sid)
  PROVE  GaspInv'
<1> DEFINE new == [from |-> c, sid |-> sid, does |-> Does("DISCON"), key |-> NoKey]
<1>1. /\ requests' = requests \cup {new} /\ replies' = {r \in replies : r.to # c}
      /\ console' = [console EXCEPT ![c].at = "gone", ![c].sid = sid]
  BY DEF Leaves
<1>2. new.from = c /\ new.sid = sid /\ new.does \in Doing /\ new.does.cmd = "DISCON"
  BY Commands DEF Plain
<1> HIDE DEF new
<1>3. /\ console' \in [Console -> [at : At, sid : Sid, does : Doing, authorised : BOOLEAN]]
      /\ console'[c].at = "gone"
      /\ \A d \in Console \ {c} : console'[d] = console[d]
  BY <1>1 DEF GaspInv, Typed, At
<1>4. ~Lives(c)' /\ ~In(c)'
  BY <1>3 DEF Lives, In
<1>5. QED
  BY <1>1, <1>2, <1>3, <1>4, KeepConsole

\* A console has its answer, or is killed: nothing new is under way.
LEMMA KeepStops ==
  ASSUME GaspInv, NEW c \in Console, NEW at \in {"ready", "gone"},
         console' = [console EXCEPT ![c].at = at],
         session' = session, requests' = requests, replies' \subseteq replies,
         \A r \in replies' : r.to # c,
         at = "ready" => /\ \A p \in requests : p.from # c
                         /\ In(c),
         console[c].at # "off"
  PROVE  GaspInv'
<1>1. /\ console' \in [Console -> [at : At, sid : Sid, does : Doing, authorised : BOOLEAN]]
      /\ console'[c].at = at /\ console'[c].sid = console[c].sid
      /\ \A d \in Console \ {c} : console'[d] = console[d]
  BY DEF GaspInv, Typed, At
<1>2. In(c)' => Authentic(c, console'[c].sid)
  BY <1>1 DEF In, GaspInv, ConsolesKnow
<1>3. Lives(c)' /\ console'[c].sid # NoSession => Owns(c, console'[c].sid)
  BY <1>1 DEF In, Lives, GaspInv, ConsolesKnow
<1>4. \A p \in requests : p.from = c =>
        /\ p.sid \in Sid /\ p.does \in Doing /\ ~Lives(c)'
        /\ p.sid # NoSession => Owns(c, p.sid)
        /\ p.does.cmd = "HELLO" => p.sid = NoSession
        /\ p.does.cmd \notin {"HELLO", "AUTH", "DISCON"} => Authentic(c, p.sid)
  BY <1>1 DEF Lives, GaspInv, Typed, RequestsMade
<1>5. \A p, q \in requests' : p.from = c /\ q.from = c => p = q
  BY DEF GaspInv, OneDatagram
<1>6. \A p \in requests' : p \in requests
  OBVIOUS
<1>7. \A r \in replies' : r \in replies
  OBVIOUS
<1>8. console'[c].at # "off" /\ console'[c].at # "list"
  BY <1>1
<1>9. QED
  BY <1>1, <1>2, <1>3, <1>4, <1>5, <1>6, <1>7, <1>8, KeepConsole

\* What a console with an answer can rely on.
LEMMA WithReply ==
  ASSUME GaspInv, NEW c \in Console, NEW r \in replies, r.to = c
  PROVE  /\ \A p \in requests : p.from # c
         /\ \A q \in replies : q # r => q.to # c
         /\ r.does = console[c].does /\ Accepted(c, r)
         /\ r.sid \in Sid /\ console[c].sid \in Sid
         /\ r.sid # NoSession => Owns(c, r.sid)
         /\ r.does.cmd # "HELLO" => r.sid = console[c].sid
         /\ r.does.cmd = "AUTH" /\ r.code = "OK" => Authentic(c, r.sid)
         /\ console[c].at # "off"
<1>1. /\ \A p \in requests : p.from # c
      /\ \A q \in replies : q # r => q.to # c
  BY DEF GaspInv, OneDatagram
<1>2. /\ Waiting(c) /\ r.does = console[c].does
      /\ r.sid # NoSession => Owns(c, r.sid)
      /\ IF r.does.cmd = "HELLO" THEN console[c].sid = NoSession ELSE r.sid = console[c].sid
      /\ r.does.cmd = "AUTH" /\ r.code = "OK" => Authentic(c, r.sid)
  BY DEF GaspInv, RepliesGiven
<1>3. r.sid \in Sid /\ console[c].sid \in Sid
  BY DEF GaspInv, Typed
<1>4. QED
  BY <1>1, <1>2, <1>3 DEF Accepted, Waiting

LEMMA KeepInitReply ==
  ASSUME GaspInv, NEW c \in Console, NEW r \in replies, r.to = c, InitReply(c, r),
         session' = session
  PROVE  GaspInv'
<1>1. /\ \A p \in requests : p.from # c
      /\ \A q \in replies : q # r => q.to # c
      /\ r.does = console[c].does /\ Accepted(c, r)
      /\ r.sid \in Sid /\ console[c].sid \in Sid
      /\ r.sid # NoSession => Owns(c, r.sid)
      /\ r.does.cmd # "HELLO" => r.sid = console[c].sid
      /\ r.does.cmd = "AUTH" /\ r.code = "OK" => Authentic(c, r.sid)
      /\ console[c].at # "off"
  BY WithReply
<1>2. CASE /\ r.does.cmd = "HELLO" /\ replies' = replies \ {r}
           /\ \E key \in {r.key, Nobody} : Sends(c, "init", r.sid, Does("AUTH"), key)
  <2>1. Does("AUTH") \in Doing /\ Does("AUTH").cmd = "AUTH"
    BY Commands DEF Plain
  <2>2. replies' \subseteq replies /\ \A q \in replies' : q.to # c
    BY <1>1, <1>2
  <2>3. QED
    BY <1>1, <1>2, <2>1, <2>2, KeepSends
<1>3. CASE /\ r.does.cmd = "AUTH" /\ r.code = "OK" /\ replies' = replies \ {r}
           /\ requests' = requests \cup {[from |-> c, sid |-> r.sid, does |-> Does("GETINFO"),
                                           key |-> NoKey]}
           /\ console' = [console EXCEPT ![c].does = Does("GETINFO"), ![c].authorised = TRUE]
           /\ console[c].at = "init"
  <2> DEFINE new == [from |-> c, sid |-> r.sid, does |-> Does("GETINFO"), key |-> NoKey]
  <2>1. Does("GETINFO") \in Doing /\ Does("GETINFO").cmd = "GETINFO"
    BY Commands DEF Plain
  <2>2. /\ console' \in [Console -> [at : At, sid : Sid, does : Doing, authorised : BOOLEAN]]
        /\ console'[c].at = "init" /\ console'[c].sid = console[c].sid
        /\ console'[c].does = Does("GETINFO")
        /\ \A d \in Console \ {c} : console'[d] = console[d]
    <3>1. console \in [Console -> [at : At, sid : Sid, does : Doing, authorised : BOOLEAN]]
      BY DEF GaspInv, Typed
    <3>2. console' = [console EXCEPT ![c].does = Does("GETINFO"), ![c].authorised = TRUE]
      BY <1>3
    <3>3. console[c].at = "init"
      BY <1>3
    <3>4. QED
      BY <2>1, <3>1, <3>2, <3>3
  <2>3. new.from = c /\ new.sid = r.sid /\ new.does = Does("GETINFO")
    OBVIOUS
  <2>4. requests' = requests \cup {new}
    BY <1>3
  <2> HIDE DEF new
  <2>5. Authentic(c, r.sid) /\ Owns(c, r.sid) /\ r.sid = console[c].sid
    BY <1>1, <1>3 DEF Authentic
  <2>6. /\ \A p \in requests' : p \in requests \/ p = new
        /\ \A q \in replies' : q \in replies /\ q.to # c
    BY <1>1, <1>3, <2>4
  <2>7. Waiting(c)'
    BY <2>2 DEF Waiting
  <2>8. QED
    BY <1>1, <2>1, <2>2, <2>3, <2>5, <2>6, <2>7, KeepConsole
<1>4. CASE /\ r.does.cmd = "GETINFO" /\ replies' = replies \ {r} /\ requests' = requests
           /\ console' = [console EXCEPT ![c].at = "ready"] /\ console[c].at = "init"
  <2>1. In(c)
    BY <1>1, <1>4 DEF In
  <2>2. replies' \subseteq replies /\ \A q \in replies' : q.to # c
    BY <1>1, <1>4
  <2>3. QED
    BY <1>1, <1>4, <2>1, <2>2, KeepStops
<1>5. CASE Leaves(c, r.sid)
  BY <1>1, <1>5, KeepLeaves
<1>6. QED
  BY <1>1, <1>2, <1>3, <1>4, <1>5 DEF InitReply

LEMMA KeepGetReply ==
  ASSUME GaspInv, NEW c \in Console, GetReply(c)
  PROVE  GaspInv'
<1>1. PICK r \in replies : r.to = c /\ (InitReply(c, r) \/ CommandReply(c, r) \/ ListReply(c, r))
  BY DEF GetReply
<1>2. /\ \A p \in requests : p.from # c
      /\ \A q \in replies : q # r => q.to # c
      /\ r.does = console[c].does /\ console[c].sid \in Sid
  BY <1>1, WithReply
<1>3. session' = session
  BY DEF GetReply
<1>4. CASE InitReply(c, r)
  BY <1>1, <1>3, <1>4, KeepInitReply
<1>5. CASE CommandReply(c, r)
  <2>1. /\ console[c].at = "wait" /\ requests' = requests
        /\ replies' \subseteq replies /\ \A q \in replies' : q.to # c
        /\ \E at \in {"ready", "gone"} : console' = [console EXCEPT ![c].at = at]
    BY <1>2, <1>5 DEF CommandReply
  <2>2. In(c)
    BY <2>1 DEF In
  <2>3. QED
    BY <1>2, <1>3, <2>1, <2>2, KeepStops
<1>6. CASE ListReply(c, r)
  <2>1. /\ console[c].at = "list"
        /\ replies' \subseteq replies /\ \A q \in replies' : q.to # c
    BY <1>2, <1>6 DEF ListReply
  <2>2. In(c) /\ console[c].does \in Entry /\ Authentic(c, console[c].sid)
    BY <2>1 DEF In, GaspInv, ConsolesKnow
  <2>3. CASE console' = [console EXCEPT ![c].at = "ready"] /\ requests' = requests
    BY <1>2, <1>3, <2>1, <2>2, <2>3, KeepStops
  <2>4. CASE Sends(c, "list", console[c].sid, [console[c].does EXCEPT !.arg = @ + 1], NoKey)
    <3> DEFINE does == [console[c].does EXCEPT !.arg = @ + 1]
    <3>1. does \in Doing /\ does \in Entry
      BY <2>2, Commands
    <3>2. does.cmd \notin {"HELLO", "AUTH", "DISCON"}
      BY <3>1, Commands DEF Listing
    <3> HIDE DEF does
    <3>3. Owns(c, console[c].sid)
      BY <2>1, <2>2 DEF GaspInv, ConsolesKnow, Lives, Authentic
    <3>4. Sends(c, "list", console[c].sid, does, NoKey)
      BY <2>4 DEF does
    <3>5. QED
      BY <1>2, <1>3, <2>1, <2>2, <3>1, <3>2, <3>3, <3>4, KeepSends
  <2>5. QED
    BY <1>6, <2>3, <2>4 DEF ListReply
<1>7. QED
  BY <1>1, <1>4, <1>5, <1>6

\* A console that is not started, or waits for its operator.
LEMMA NothingUnderWay ==
  ASSUME GaspInv, NEW c \in Console, console[c].at \in {"off", "ready"}
  PROVE  (\A p \in requests : p.from # c) /\ (\A r \in replies : r.to # c)
BY DEF GaspInv, RequestsMade, RepliesGiven, Waiting, Lives

LEMMA KeepConnect ==
  ASSUME GaspInv, NEW c \in Console, Connect(c)
  PROVE  GaspInv'
<1>1. /\ console[c].at = "off" /\ Sends(c, "init", NoSession, Does("HELLO"), NoKey)
      /\ session' = session /\ replies' = replies
  BY DEF Connect
<1>2. Does("HELLO") \in Doing /\ Does("HELLO").cmd = "HELLO"
  BY Commands DEF Plain
<1>3. QED
  BY <1>1, <1>2, NothingUnderWay, Sids, KeepSends

LEMMA KeepEnter ==
  ASSUME GaspInv, NEW c \in Console, Enter(c)
  PROVE  GaspInv'
<1>1. console[c].at = "ready" /\ session' = session /\ replies' = replies
  BY DEF Enter
<1>2. /\ In(c) /\ console[c].sid \in Sid /\ Authentic(c, console[c].sid)
      /\ Owns(c, console[c].sid)
  BY <1>1 DEF In, GaspInv, Typed, ConsolesKnow, Lives, Authentic
<1>3. ASSUME NEW at \in {"list", "wait"}, NEW does \in Doing,
             Sends(c, at, console[c].sid, does, NoKey),
             does.cmd \notin {"HELLO", "AUTH", "DISCON"}, at = "list" => does \in Entry
      PROVE  GaspInv'
  BY <1>1, <1>2, <1>3, NothingUnderWay, KeepSends
<1>4. ASSUME NEW cmd \in {"LENABLE", "LDISABLE", "DOWN"},
             Sends(c, "wait", console[c].sid, Does(cmd), NoKey)
      PROVE  GaspInv'
  <2>1. Does(cmd) \in Doing /\ Does(cmd).cmd = cmd
    BY Commands DEF Plain
  <2>2. QED
    BY <1>3, <1>4, <2>1
<1>5. ASSUME NEW i \in 1..NConns + 1,
             Sends(c, "wait", console[c].sid, [cmd |-> "CLEARCONN", arg |-> i], NoKey)
      PROVE  GaspInv'
  BY <1>3, <1>5, Commands
<1>6. ASSUME NEW m \in Unsent,
             Sends(c, "wait", console[c].sid, [cmd |-> "BROADCAST", arg |-> m], NoKey)
      PROVE  GaspInv'
  <2>1. m \in Message
    BY DEF Unsent
  <2>2. QED
    BY <1>3, <1>6, <2>1, Commands
<1>7. ASSUME NEW cmd \in Listing,
             Sends(c, "list", console[c].sid, [cmd |-> cmd, arg |-> FirstEntry(cmd)], NoKey)
      PROVE  GaspInv'
  <2>1. FirstEntry(cmd) \in Nat
    BY DEF FirstEntry
  <2>2. [cmd |-> cmd, arg |-> FirstEntry(cmd)] \in Doing \cap Entry
    BY <2>1, Commands
  <2>3. [cmd |-> cmd, arg |-> FirstEntry(cmd)].cmd \notin {"HELLO", "AUTH", "DISCON"}
    BY DEF Listing
  <2>4. QED
    BY <1>3, <1>7, <2>2, <2>3
<1>8. QED
  BY <1>4, <1>5, <1>6, <1>7 DEF Enter

LEMMA KeepExit ==
  ASSUME GaspInv, NEW c \in Console, Exit(c)
  PROVE  GaspInv'
<1>1. console[c].at = "ready" /\ Leaves(c, console[c].sid) /\ session' = session
  BY DEF Exit
<1>2. console[c].sid \in Sid /\ (console[c].sid # NoSession => Owns(c, console[c].sid))
  BY <1>1 DEF GaspInv, Typed, ConsolesKnow, Lives
<1>3. QED
  BY <1>1, <1>2, NothingUnderWay, KeepLeaves

LEMMA KeepKill ==
  ASSUME GaspInv, NEW c \in Console, Kill(c)
  PROVE  GaspInv'
<1>1. /\ console[c].at \notin {"off", "gone"} /\ console' = [console EXCEPT ![c].at = "gone"]
      /\ replies' = {r \in replies : r.to # c} /\ session' = session /\ requests' = requests
  BY DEF Kill
<1>2. replies' \subseteq replies /\ \A r \in replies' : r.to # c
  BY <1>1
<1>3. QED
  BY <1>1, <1>2, KeepStops

\* Fewer datagrams.
LEMMA KeepFewer ==
  ASSUME GaspInv, session' = session, console' = console,
         requests' \subseteq requests, replies' \subseteq replies
  PROVE  GaspInv'
<1>1. Typed' /\ OneDatagram'
  BY DEF GaspInv, Typed, OneDatagram
<1>2. RequestsMade' /\ RepliesGiven' /\ ConsolesKnow'
  BY DEF GaspInv, RequestsMade, RepliesGiven, ConsolesKnow, Lives, Waiting, In, Owns, Authentic
<1>3. QED
  BY <1>1, <1>2 DEF GaspInv

LEMMA GaspInvInit ==
  ASSUME Init
  PROVE  GaspInv
<1>1. Does("HELLO") \in Doing
  BY Commands DEF Plain
<1>2. Typed
  BY <1>1, Sids DEF Init, Typed, At, Key
<1>3. OneDatagram /\ RequestsMade /\ RepliesGiven /\ ConsolesKnow
  BY DEF Init, OneDatagram, RequestsMade, RepliesGiven, ConsolesKnow, Lives, In
<1>4. QED
  BY <1>2, <1>3 DEF GaspInv

LEMMA GaspInvNext ==
  ASSUME ~Doubled, GaspInv, [Next]_vars, ~strange'
  PROVE  GaspInv'
<1>1. ASSUME NEW p \in requests, Serve(p) PROVE GaspInv'
  BY <1>1, KeepHandlePacket, KeepDown DEF Serve
<1>2. ASSUME NEW c \in Console,
             Connect(c) \/ GetReply(c) \/ Enter(c) \/ Exit(c) \/ Kill(c)
      PROVE  GaspInv'
  BY <1>2, KeepConnect, KeepGetReply, KeepEnter, KeepExit, KeepKill
<1>3. CASE (up /\ Clients /\ UNCHANGED <<session, up, wire, console, failed, strange>>) \/ UNCHANGED vars
  BY <1>3, KeepFewer DEF wire, vars
<1>4. CASE Lose
  BY <1>4, KeepFewer DEF Lose
<1>5. QED
  BY <1>1, <1>2, <1>3, <1>4 DEF Next

\* What is strange stays so.
LEMMA StrangeStays ==
  ASSUME [Next]_vars, strange
  PROVE  strange'
<1>1. ASSUME NEW c \in Console,
             Connect(c) \/ GetReply(c) \/ Enter(c) \/ Exit(c) \/ Kill(c)
      PROVE  strange'
  BY <1>1 DEF Connect, GetReply, Enter, Exit, Kill
<1>2. QED
  BY <1>1 DEF Next, Lose, vars

LEMMA GaspInvHolds ==
  ASSUME ~Doubled
  PROVE  Spec => [](strange \/ GaspInv)
<1>1. Init => strange \/ GaspInv
  BY GaspInvInit
<1>2. (strange \/ GaspInv) /\ [Next]_vars => (strange \/ GaspInv)'
  BY GaspInvNext, StrangeStays
<1>3. QED
  BY <1>1, <1>2, PTL DEF Spec

\* A console's session is its own until it leaves, as long as what arrives is sent
\* by consoles: gasp_handle_hello gives away only sessions that were ended, and a
\* session is ended by its own console.
THEOREM ConsolesOwnTheirSessions ==
  ASSUME ~Doubled
  PROVE  Spec => []SessionsOwned
<1>1. strange \/ GaspInv => SessionsOwned
  BY DEF GaspInv, ConsolesKnow, SessionsOwned, Lives, Owns
<1>2. QED
  BY <1>1, GaspInvHolds, PTL

\* As long as what arrives is sent by consoles, an answer that reaches a console
\* is one to its last request, and names its session, although gasp datagrams
\* carry no number: a console has never more than one datagram under way.
THEOREM AnswersMatchRequests ==
  ASSUME ~Doubled
  PROVE  Spec => []RepliesAnswer
<1>1. strange \/ GaspInv => RepliesAnswer
  BY DEF GaspInv, RepliesGiven, RepliesAnswer, Accepted
<1>2. QED
  BY <1>1, GaspInvHolds, PTL

-----------------------------------------------------------------------------
(* Sessions are given back *)

InUse == {s \in SessionId : session[s].status # "UNUSED"}

Farewell(p) == p.does.cmd = "DISCON" /\ Authentic(p.from, p.sid)

\* What makes SessionsComeBack inductive: a console greets once, and so has one
\* session; once it is authorised it can always end it; and its farewell is not
\* refused, since it is authorised.
Greets ==
  /\ \A c \in Console : console[c].authorised => console[c].at = "gone" \/ In(c)
  /\ \A p \in requests : p.does.cmd = "HELLO" =>
       /\ ~console[p.from].authorised
       /\ \A s \in SessionId : ~Owns(p.from, s)
  /\ \A s \in InUse : session[s].addr \in Console /\ console[session[s].addr].at # "off"
  /\ \A s, t \in InUse : session[s].addr = session[t].addr => s = t

DownAnswered == \A r \in replies : r.does.cmd = "DOWN" => ~up

Excused(c) ==
  \/ console[c].at # "gone" \/ c \in failed \/ ~console[c].authorised
  \/ \E p \in requests : p.from = c /\ Farewell(p)

ComeBack ==
  /\ Greets /\ DownAnswered
  /\ up => \A s \in InUse : Excused(session[s].addr)

LEMMA FarewellIsIts ==
  ASSUME GaspInv, Greets, NEW p \in requests, Farewell(p),
         NEW s \in InUse, session[s].addr = p.from
  PROVE  p.sid = s
<1>1. Owns(p.from, p.sid) /\ p.sid \in SessionId
  BY Sids DEF Farewell, Authentic, GaspInv, RequestsMade, Typed
<1>2. p.sid \in InUse
  BY <1>1 DEF Owns, InUse
<1>3. QED
  BY <1>1, <1>2 DEF Greets, Owns

\* The server deals with a request p, which takes session n if it is a greeting.
LEMMA BackServer ==
  ASSUME ~Doubled, GaspInv, ComeBack, NEW p \in requests, NEW n,
         requests' = requests \ {p}, console' = console, failed' = failed,
         up' => up,
         \A r \in replies' \ replies : r.does = p.does,
         p.does.cmd = "DOWN" => ~up',
         Farewell(p) => session'[p.sid].status = "UNUSED",
         \A s \in SessionId : session'[s].status # "UNUSED" =>
           \/ /\ session[s].status # "UNUSED" /\ session'[s].addr = session[s].addr
              /\ session[s].status = "AUTH" => session'[s].status = "AUTH"
           \/ p.does.cmd = "HELLO" /\ session'[s].addr = p.from /\ s = n
  PROVE  ComeBack'
<1>1. /\ Greets /\ DownAnswered
      /\ p.from \in Console /\ console[p.from].at # "off"
      /\ \A q \in requests' : q \in requests /\ q # p /\ q.from # p.from
  BY DEF ComeBack, GaspInv, Typed, RequestsMade, OneDatagram
<1>2. ASSUME NEW s \in InUse'
      PROVE  /\ s \in SessionId
             /\ \/ /\ s \in InUse /\ session'[s].addr = session[s].addr
                   /\ session[s].status = "AUTH" => session'[s].status = "AUTH"
                \/ p.does.cmd = "HELLO" /\ session'[s].addr = p.from /\ s = n
  BY <1>2 DEF InUse
<1>3. \A c \in Console : console'[c].authorised => console'[c].at = "gone" \/ In(c)'
  BY <1>1 DEF Greets, In
<1>4. ASSUME NEW q \in requests', q.does.cmd = "HELLO"
      PROVE  /\ ~console'[q.from].authorised
             /\ \A s \in SessionId : ~Owns(q.from, s)'
  <2>1. ~console[q.from].authorised /\ \A s \in SessionId : ~Owns(q.from, s)
    BY <1>1, <1>4 DEF Greets
  <2>2. q.from # p.from
    BY <1>1
  <2>3. ASSUME NEW s \in SessionId, Owns(q.from, s)' PROVE FALSE
    BY <2>1, <2>2, <2>3 DEF Owns
  <2>4. QED
    BY <2>1, <2>3
<1>5. \A s \in InUse' : session'[s].addr \in Console /\ console'[session'[s].addr].at # "off"
  BY <1>1, <1>2 DEF Greets
<1>6. ASSUME NEW s \in InUse', NEW t \in InUse', session'[s].addr = session'[t].addr
      PROVE  s = t
  <2>1. ASSUME p.does.cmd = "HELLO", NEW u \in InUse PROVE session[u].addr # p.from
    BY <1>1, <2>1 DEF Greets, Owns, InUse
  <2>2. QED
    BY <1>1, <1>2, <1>6, <2>1 DEF Greets
<1>7. Greets'
  BY <1>3, <1>4, <1>5, <1>6 DEF Greets
<1>8. DownAnswered'
  BY <1>1 DEF DownAnswered
<1>9. ASSUME up', NEW s \in InUse' PROVE Excused(session[s].addr)'
  <2>1. CASE p.does.cmd = "HELLO" /\ session'[s].addr = p.from
    BY <1>1, <2>1 DEF Greets, Excused
  <2>2. CASE /\ s \in InUse /\ session'[s].addr = session[s].addr
             /\ session[s].status = "AUTH" => session'[s].status = "AUTH"
    <3>1. Excused(session[s].addr)
      BY <1>9, <2>2 DEF ComeBack
    <3>2. CASE \E q \in requests : q.from = session[s].addr /\ Farewell(q)
      <4>1. PICK q \in requests : q.from = session[s].addr /\ Farewell(q)
        BY <3>2
      <4>2. q.sid = s
        BY <1>1, <2>2, <4>1, FarewellIsIts
      <4>3. q # p
        BY <1>9, <4>1, <4>2 DEF InUse
      <4>4. session'[s].status = "AUTH"
        BY <2>2, <4>1, <4>2 DEF Farewell, Authentic
      <4>5. Farewell(q)'
        BY <4>1, <4>2, <4>4 DEF Farewell, Authentic
      <4>6. q \in requests'
        BY <4>3
      <4>7. QED
        BY <2>2, <4>1, <4>5, <4>6 DEF Excused
    <3>3. QED
      BY <2>2, <3>1, <3>2 DEF Excused
  <2>3. QED
    BY <1>2, <2>1, <2>2
<1>10. QED
  BY <1>7, <1>8, <1>9 DEF ComeBack

LEMMA BackAnswer ==
  ASSUME ~Doubled, GaspInv, ComeBack, NEW p \in requests, NEW to, NEW sid, NEW code, NEW key,
         Answer(p, to, sid, code, key), console' = console, failed' = failed,
         up' => up, session' = session, p.does.cmd = "DOWN" => ~up', ~Farewell(p)
  PROVE  ComeBack'
<1>1. requests' = requests \ {p} /\ \A r \in replies' \ replies : r.does = p.does
  BY Answered
<1>2. QED
  BY <1>1, BackServer

LEMMA BackHello ==
  ASSUME ~Doubled, GaspInv, ComeBack, NEW p \in requests, HandleHello(p),
         console' = console, failed' = failed, up' = up
  PROVE  ComeBack'
<1>1. p.sid = NoSession /\ p.does.cmd = "HELLO" /\ ~Farewell(p)
  BY DEF HandleHello, Farewell
<1>2. CASE UnusedSessions = {}
  <2>1. Answer(p, p.from, NoSession, "OUTOFSESS", NoKey) /\ session' = session
    BY <1>2 DEF HandleHello
  <2>2. QED
    BY <1>1, <2>1, BackAnswer
<1>3. CASE UnusedSessions # {}
  <2>1. PICK s \in SessionId : s = FirstOf(UnusedSessions)
    <3>1. UnusedSessions \in SUBSET SessionId
      BY DEF UnusedSessions
    <3>2. FirstOf(UnusedSessions) \in UnusedSessions
      BY <1>3, <3>1, FirstIsThere
    <3>3. QED
      BY <3>2 DEF UnusedSessions
  <2>2. /\ session' = [session EXCEPT ![s] = [status |-> "CONNECTED", addr |-> p.from,
                                              key |-> p.from]]
        /\ Answer(p, p.from, s, "OK", p.from)
    BY <1>3, <2>1 DEF HandleHello
  <2>3. /\ session'[s].addr = p.from
        /\ \A t \in SessionId : t # s => session'[t] = session[t]
    BY <2>1, <2>2 DEF GaspInv, Typed
  <2>4. requests' = requests \ {p} /\ \A r \in replies' \ replies : r.does = p.does
    BY <2>2, Answered
  <2>5. \A t \in SessionId : session'[t].status # "UNUSED" =>
          \/ /\ session[t].status # "UNUSED" /\ session'[t].addr = session[t].addr
             /\ session[t].status = "AUTH" => session'[t].status = "AUTH"
          \/ p.does.cmd = "HELLO" /\ session'[t].addr = p.from /\ t = s
    BY <1>1, <2>3
  <2>6. QED
    BY <1>1, <2>4, <2>5, BackServer
<1>4. QED
  BY <1>2, <1>3

LEMMA BackAuth ==
  ASSUME ~Doubled, GaspInv, ComeBack, NEW p \in requests, p.sid # NoSession, HandleAuth(p),
         console' = console, failed' = failed, up' = up
  PROVE  ComeBack'
<1>1. p.does.cmd = "AUTH" /\ ~Farewell(p) /\ p.sid \in SessionId
  BY SessionOf DEF HandleAuth, Farewell
<1>2. CASE session' = [session EXCEPT ![p.sid].status = "AUTH"] /\ AnswerSession(p, "OK")
  <2>1. requests' = requests \ {p} /\ \A r \in replies' \ replies : r.does = p.does
    BY <1>2, Answered DEF AnswerSession
  <2>2. session[p.sid].status # "UNUSED"
    BY SessionOf
  <2>3. /\ session'[p.sid].addr = session[p.sid].addr /\ session'[p.sid].status = "AUTH"
        /\ \A t \in SessionId : t # p.sid => session'[t] = session[t]
    BY <1>1, <1>2 DEF GaspInv, Typed
  <2>4. QED
    BY <1>1, <2>1, <2>2, <2>3, BackServer
<1>3. CASE AnswerSession(p, "BADAUTH") /\ session' = session
  BY <1>1, <1>3, BackAnswer DEF AnswerSession
<1>4. QED
  BY <1>2, <1>3 DEF HandleAuth

LEMMA BackDisconnect ==
  ASSUME ~Doubled, GaspInv, ComeBack, NEW p \in requests, p.sid # NoSession, Disconnect(p),
         console' = console, failed' = failed, up' = up
  PROVE  ComeBack'
<1>1. /\ p.does.cmd = "DISCON" /\ p.sid \in SessionId
      /\ session' = [session EXCEPT ![p.sid].status = "UNUSED"]
  BY SessionOf DEF Disconnect
<1>2. requests' = requests \ {p} /\ \A r \in replies' \ replies : r.does = p.does
  BY Answered DEF Disconnect
<1>3. /\ session'[p.sid].status = "UNUSED"
      /\ \A t \in SessionId : t # p.sid => session'[t] = session[t]
  BY <1>1 DEF GaspInv, Typed
<1>4. QED
  BY <1>1, <1>2, <1>3, BackServer

LEMMA BackHandlePacket ==
  ASSUME ~Doubled, GaspInv, ComeBack, NEW p \in requests, HandlePacket(p)
  PROVE  ComeBack'
<1>1. console' = console /\ failed' = failed /\ up' = up
  BY DEF HandlePacket
<1>2. \* Only an authorised console shuts the server down.
      p.does.cmd = "DOWN" => p.sid # NoSession /\ session[p.sid].status = "AUTH"
  BY DEF GaspInv, RequestsMade, Authentic
<1>3. CASE BadSession(p)
  <2>1. p.sid = NoSession /\ session' = session /\ Answer(p, p.from, NoSession, "BADSESS", NoKey)
    BY <1>3 DEF BadSession
  <2>2. ~Farewell(p) /\ p.does.cmd # "DOWN"
    BY <1>2, <2>1 DEF Farewell, Authentic
  <2>3. QED
    BY <1>1, <2>1, <2>2, BackAnswer
<1>4. CASE p.sid # NoSession /\ NotAuthenticated(p)
  <2>1. /\ session[p.sid].status = "CONNECTED" /\ session' = session
        /\ Answer(p, p.from, p.sid, "NOTAUTH", NoKey)
    BY <1>4 DEF NotAuthenticated
  <2>2. ~Farewell(p) /\ p.does.cmd # "DOWN"
    BY <1>2, <2>1 DEF Farewell, Authentic
  <2>3. QED
    BY <1>1, <2>1, <2>2, BackAnswer
<1>5. CASE p.sid # NoSession /\ Execute(p)
  <2>1. p.does.cmd \notin {"DISCON", "DOWN"} /\ session' = session
    BY <1>5 DEF Execute
  <2>2. \E to, code : Answer(p, to, p.sid, code, NoKey)
    BY <1>5 DEF Execute, AnswerSession
  <2>3. QED
    BY <1>1, <2>1, <2>2, BackAnswer DEF Farewell
<1>6. CASE p.sid # NoSession /\ UnknownCommand(p)
  <2>1. /\ p.does.cmd \notin {"DISCON", "DOWN"} /\ session' = session
        /\ Answer(p, p.from, p.sid, "UNKNOWNCMD", NoKey)
    BY <1>6 DEF UnknownCommand
  <2>2. QED
    BY <1>1, <2>1, BackAnswer DEF Farewell
<1>7. ~HandleBeyond(p) /\ (p.sid \in SessionId => p.sid # NoSession)
  BY Sids DEF HandleBeyond, GaspInv, Typed
<1>8. QED
  BY <1>1, <1>3, <1>4, <1>5, <1>6, <1>7, BackHello, BackAuth, BackDisconnect DEF HandlePacket

LEMMA BackDown ==
  ASSUME ~Doubled, GaspInv, ComeBack, NEW p \in requests, HandleDown(p)
  PROVE  ComeBack'
<1>1. /\ p.does.cmd = "DOWN" /\ session' = session /\ console' = console
      /\ failed' = failed /\ up' = FALSE /\ Answer(p, p.from, p.sid, "OK", NoKey)
  BY DEF HandleDown
<1>2. QED
  BY <1>1, BackAnswer DEF Farewell

\* A step of one console, or of what happens to it.
LEMMA BackConsole ==
  ASSUME GaspInv, ComeBack, NEW c \in Console, session' = session, up' = up,
         failed \subseteq failed',
         console' \in [Console -> [at : At, sid : Sid, does : Doing, authorised : BOOLEAN]],
         \A d \in Console \ {c} : console'[d] = console[d],
         \A p \in requests : p.from # c => p \in requests',
         \A p \in requests' : p \in requests \/ p.from = c,
         \A r \in replies' : r \in replies,
         console'[c].at # "off",
         console'[c].authorised => console'[c].at = "gone" \/ In(c)',
         \A p \in requests' : p.from = c /\ p.does.cmd = "HELLO" =>
           ~console'[c].authorised /\ (p \in requests \/ console[c].at = "off"),
         up /\ console'[c].at = "gone" /\ console'[c].authorised /\ c \notin failed' =>
           \E p \in requests' : p.from = c /\ Farewell(p)
  PROVE  ComeBack'
<1>1. Greets /\ DownAnswered
  BY DEF ComeBack
<1>2. InUse' = InUse /\ (\A d, s : Owns(d, s)' = Owns(d, s)) /\ \A p : Farewell(p)' = Farewell(p)
  BY DEF InUse, Owns, Farewell, Authentic
<1>3. \A d \in Console : console'[d].authorised => console'[d].at = "gone" \/ In(d)'
  BY <1>1 DEF Greets, In
<1>4. ASSUME NEW p \in requests', p.does.cmd = "HELLO"
      PROVE  ~console'[p.from].authorised /\ \A s \in SessionId : ~Owns(p.from, s)'
  <2>1. CASE p.from = c /\ p \notin requests
    <3>1. console[c].at = "off"
      BY <1>4, <2>1
    <3>2. \A s \in SessionId : ~Owns(c, s)
      BY <1>1, <3>1 DEF Greets, InUse, Owns
    <3>3. QED
      BY <1>2, <1>4, <2>1, <3>2
  <2>2. CASE p \in requests
    <3>1. p.from \in Console /\ ~console[p.from].authorised /\ \A s \in SessionId : ~Owns(p.from, s)
      BY <1>1, <1>4, <2>2 DEF Greets, GaspInv, Typed
    <3>2. ~console'[p.from].authorised
      BY <1>4, <3>1
    <3>3. QED
      BY <1>2, <3>1, <3>2
  <2>3. QED
    BY <2>1, <2>2
<1>5. \A s \in InUse' : session'[s].addr \in Console /\ console'[session'[s].addr].at # "off"
  BY <1>1, <1>2 DEF Greets
<1>6. Greets'
  BY <1>1, <1>2, <1>3, <1>4, <1>5 DEF Greets
<1>7. DownAnswered'
  BY <1>1 DEF DownAnswered
<1>8. ASSUME up', NEW s \in InUse' PROVE Excused(session[s].addr)'
  <2>1. Excused(session[s].addr) /\ session[s].addr \in Console
    BY <1>1, <1>2, <1>8 DEF ComeBack, Greets
  <2>2. CASE session[s].addr = c
    BY <1>2, <1>8, <2>2 DEF Excused
  <2>3. CASE session[s].addr # c
    BY <1>2, <2>1, <2>3 DEF Excused
  <2>4. QED
    BY <2>2, <2>3
<1>9. QED
  BY <1>6, <1>7, <1>8 DEF ComeBack

LEMMA BackSends ==
  ASSUME GaspInv, ComeBack, NEW c \in Console, NEW at \in {"init", "list", "wait"},
         NEW sid \in Sid, NEW does \in Doing, NEW key, Sends(c, at, sid, does, key),
         session' = session, up' = up, failed' = failed, replies' \subseteq replies,
         \A p \in requests : p.from # c,
         does.cmd = "HELLO" => console[c].at = "off",
         at = "init" => ~console[c].authorised
  PROVE  ComeBack'
<1>1. /\ requests' = requests \cup {[from |-> c, sid |-> sid, does |-> does, key |-> key]}
      /\ console' = [console EXCEPT ![c].at = at, ![c].sid = sid, ![c].does = does]
  BY DEF Sends
<1>2. /\ console' \in [Console -> [at : At, sid : Sid, does : Doing, authorised : BOOLEAN]]
      /\ console'[c].at = at /\ console'[c].sid = sid /\ console'[c].does = does
      /\ \A d \in Console \ {c} : console'[d] = console[d]
  <2>1. console \in [Console -> [at : At, sid : Sid, does : Doing, authorised : BOOLEAN]]
    BY DEF GaspInv, Typed
  <2>2. at \in At
    BY DEF At
  <2>3. QED
    BY <1>1, <2>1, <2>2
<1>3. console'[c].authorised = console[c].authorised
  BY <1>1 DEF GaspInv, Typed
<1>4. /\ \A p \in requests : p \in requests'
      /\ \A p \in requests' : p \in requests \/ (p.from = c /\ p.does = does)
  BY <1>1
<1>5. console'[c].authorised => In(c)'
  BY <1>2, <1>3 DEF In
<1>6. console[c].at = "off" => ~console[c].authorised
  BY DEF ComeBack, Greets, In
<1>7. \A p \in requests' : p.from = c /\ p.does.cmd = "HELLO" =>
        ~console'[c].authorised /\ console[c].at = "off"
  BY <1>3, <1>4, <1>6
<1>8. console'[c].at # "off" /\ console'[c].at # "gone"
  BY <1>2
<1>9. \A r \in replies' : r \in replies
  OBVIOUS
<1>10. \A p \in requests' : p \in requests \/ p.from = c
  BY <1>4
<1>11. QED
  BY <1>2, <1>4, <1>5, <1>7, <1>8, <1>9, <1>10, BackConsole

LEMMA BackLeaves ==
  ASSUME GaspInv, ComeBack, NEW c \in Console, NEW sid \in Sid, Leaves(c, sid),
         session' = session, up' = up, failed' = failed,
         \A p \in requests : p.from # c,
         console[c].authorised => Authentic(c, sid)
  PROVE  ComeBack'
<1> DEFINE new == [from |-> c, sid |-> sid, does |-> Does("DISCON"), key |-> NoKey]
<1>1. /\ requests' = requests \cup {new} /\ replies' = {r \in replies : r.to # c}
      /\ console' = [console EXCEPT ![c].at = "gone", ![c].sid = sid]
  BY DEF Leaves
<1>2. new.from = c /\ new.sid = sid /\ new.does.cmd = "DISCON"
  BY Commands DEF Plain
<1> HIDE DEF new
<1>3. /\ console' \in [Console -> [at : At, sid : Sid, does : Doing, authorised : BOOLEAN]]
      /\ console'[c].at = "gone"
      /\ \A d \in Console \ {c} : console'[d] = console[d]
  BY <1>1 DEF GaspInv, Typed, At
<1>4. console'[c].authorised = console[c].authorised
  BY <1>1 DEF GaspInv, Typed
<1>5. console[c].authorised => Farewell(new)
  BY <1>2 DEF Farewell, Authentic
<1>6. /\ \A p \in requests : p \in requests'
      /\ \A p \in requests' : p \in requests \/ p = new
      /\ new \in requests' /\ \A r \in replies' : r \in replies
  BY <1>1
<1>7. QED
  BY <1>2, <1>3, <1>4, <1>5, <1>6, BackConsole

LEMMA BackStops ==
  ASSUME GaspInv, ComeBack, NEW c \in Console, NEW at \in {"ready", "gone"},
         console' = [console EXCEPT ![c].at = at], console[c].at # "off",
         session' = session, up' = up, requests' = requests, replies' \subseteq replies,
         failed \subseteq failed',
         at = "gone" => ~up \/ c \in failed'
  PROVE  ComeBack'
<1>1. /\ console' \in [Console -> [at : At, sid : Sid, does : Doing, authorised : BOOLEAN]]
      /\ console'[c].at = at
      /\ \A d \in Console \ {c} : console'[d] = console[d]
  BY DEF GaspInv, Typed, At
<1>2. console'[c].authorised = console[c].authorised
  BY DEF GaspInv, Typed
<1>3. console'[c].authorised => console'[c].at = "gone" \/ In(c)'
  BY <1>1 DEF In
<1>4. \A p \in requests' : p.from = c /\ p.does.cmd = "HELLO" =>
        ~console'[c].authorised /\ p \in requests
  BY <1>2 DEF ComeBack, Greets
<1>5. \A r \in replies' : r \in replies
  OBVIOUS
<1>6. \A p \in requests : p \in requests'
  OBVIOUS
<1>7. \A p \in requests' : p \in requests
  OBVIOUS
<1>8. QED
  BY <1>1, <1>3, <1>4, <1>5, <1>6, <1>7, BackConsole

LEMMA BackInitReply ==
  ASSUME GaspInv, ComeBack, NEW c \in Console, NEW r \in replies, r.to = c, InitReply(c, r),
         session' = session, up' = up, failed' = failed
  PROVE  ComeBack'
<1>1. /\ \A p \in requests : p.from # c
      /\ r.does = console[c].does /\ Accepted(c, r)
      /\ r.sid \in Sid /\ console[c].sid \in Sid
      /\ r.does.cmd # "HELLO" => r.sid = console[c].sid
      /\ console[c].at # "off"
  BY WithReply
<1>2. /\ console[c].at = "init"
      /\ console[c].authorised => r.does.cmd = "GETINFO" /\ Authentic(c, r.sid)
  <2>1. console[c].at = "init"
    BY DEF InitReply
  <2>2. ASSUME console[c].authorised PROVE r.does.cmd = "GETINFO" /\ In(c)
    BY <1>1, <2>1, <2>2 DEF ComeBack, Greets, In
  <2>3. QED
    BY <1>1, <2>1, <2>2 DEF GaspInv, ConsolesKnow
<1>3. CASE /\ r.does.cmd = "HELLO" /\ replies' = replies \ {r}
           /\ \E key \in {r.key, Nobody} : Sends(c, "init", r.sid, Does("AUTH"), key)
  <2>1. Does("AUTH") \in Doing /\ Does("AUTH").cmd = "AUTH"
    BY Commands DEF Plain
  <2>2. replies' \subseteq replies /\ ~console[c].authorised
    BY <1>2, <1>3
  <2>3. QED
    BY <1>1, <1>3, <2>1, <2>2, BackSends
<1>4. CASE /\ r.does.cmd = "AUTH" /\ r.code = "OK" /\ replies' = replies \ {r}
           /\ requests' = requests \cup {[from |-> c, sid |-> r.sid, does |-> Does("GETINFO"),
                                           key |-> NoKey]}
           /\ console' = [console EXCEPT ![c].does = Does("GETINFO"), ![c].authorised = TRUE]
  <2>1. Does("GETINFO") \in Doing /\ Does("GETINFO").cmd = "GETINFO"
    BY Commands DEF Plain
  <2>2. /\ console' \in [Console -> [at : At, sid : Sid, does : Doing, authorised : BOOLEAN]]
        /\ console'[c].at = "init" /\ console'[c].does = Does("GETINFO")
        /\ \A d \in Console \ {c} : console'[d] = console[d]
    BY <1>2, <1>4, <2>1 DEF GaspInv, Typed, At
  <2>3. /\ \A p \in requests : p \in requests'
        /\ \A p \in requests' : p \in requests \/ (p.from = c /\ p.does = Does("GETINFO"))
        /\ \A q \in replies' : q \in replies
    BY <1>4
  <2>4. In(c)'
    BY <2>1, <2>2 DEF In
  <2>5. QED
    BY <1>1, <2>1, <2>2, <2>3, <2>4, BackConsole
<1>5. CASE /\ replies' = replies \ {r} /\ requests' = requests
           /\ console' = [console EXCEPT ![c].at = "ready"]
  <2>1. replies' \subseteq replies
    BY <1>5
  <2>2. QED
    BY <1>1, <1>5, <2>1, BackStops
<1>6. CASE Leaves(c, r.sid)
  BY <1>1, <1>2, <1>6, BackLeaves
<1>7. QED
  BY <1>1, <1>3, <1>4, <1>5, <1>6 DEF InitReply

LEMMA BackGetReply ==
  ASSUME GaspInv, ComeBack, NEW c \in Console, GetReply(c)
  PROVE  ComeBack'
<1>1. PICK r \in replies : r.to = c /\ (InitReply(c, r) \/ CommandReply(c, r) \/ ListReply(c, r))
  BY DEF GetReply
<1>2. /\ \A p \in requests : p.from # c
      /\ r.does = console[c].does /\ console[c].sid \in Sid
  BY <1>1, WithReply
<1>3. session' = session /\ up' = up /\ failed' = failed
  BY DEF GetReply
<1>4. CASE InitReply(c, r)
  BY <1>1, <1>3, <1>4, BackInitReply
<1>5. CASE CommandReply(c, r)
  <2>1. console[c].at = "wait" /\ requests' = requests /\ replies' \subseteq replies
    BY <1>5 DEF CommandReply
  <2>2. CASE console[c].does.cmd = "DOWN"
    <3>1. ~up
      BY <1>2, <2>2 DEF ComeBack, DownAnswered
    <3>2. console' = [console EXCEPT ![c].at = "gone"]
      BY <1>5, <2>2 DEF CommandReply
    <3>3. QED
      BY <1>3, <2>1, <3>1, <3>2, BackStops
  <2>3. CASE console[c].does.cmd # "DOWN"
    <3>1. console' = [console EXCEPT ![c].at = "ready"]
      BY <1>5, <2>3 DEF CommandReply
    <3>2. QED
      BY <1>3, <2>1, <3>1, BackStops
  <2>4. QED
    BY <2>2, <2>3
<1>6. CASE ListReply(c, r)
  <2>1. console[c].at = "list" /\ replies' \subseteq replies
    BY <1>6 DEF ListReply
  <2>2. CASE console' = [console EXCEPT ![c].at = "ready"] /\ requests' = requests
    BY <1>3, <2>1, <2>2, BackStops
  <2>3. CASE Sends(c, "list", console[c].sid, [console[c].does EXCEPT !.arg = @ + 1], NoKey)
    <3> DEFINE does == [console[c].does EXCEPT !.arg = @ + 1]
    <3>1. does \in Doing /\ does \in Entry
      BY <2>1, Commands DEF GaspInv, ConsolesKnow
    <3>2. does.cmd # "HELLO"
      BY <3>1, Commands DEF Listing
    <3> HIDE DEF does
    <3>3. Sends(c, "list", console[c].sid, does, NoKey)
      BY <2>3 DEF does
    <3>4. QED
      BY <1>2, <1>3, <2>1, <3>1, <3>2, <3>3, BackSends
  <2>4. QED
    BY <1>6, <2>2, <2>3 DEF ListReply
<1>7. QED
  BY <1>1, <1>4, <1>5, <1>6

LEMMA BackConnect ==
  ASSUME GaspInv, ComeBack, NEW c \in Console, Connect(c)
  PROVE  ComeBack'
<1>1. /\ console[c].at = "off" /\ Sends(c, "init", NoSession, Does("HELLO"), NoKey)
      /\ session' = session /\ replies' = replies /\ up' = up /\ failed' = failed
  BY DEF Connect
<1>2. Does("HELLO") \in Doing
  BY Commands DEF Plain
<1>3. ~console[c].authorised
  BY <1>1 DEF ComeBack, Greets, In
<1>4. QED
  BY <1>1, <1>2, <1>3, NothingUnderWay, Sids, BackSends

LEMMA BackEnter ==
  ASSUME GaspInv, ComeBack, NEW c \in Console, Enter(c)
  PROVE  ComeBack'
<1>1. /\ console[c].at = "ready" /\ console[c].sid \in Sid
      /\ session' = session /\ replies' = replies /\ up' = up /\ failed' = failed
  BY DEF Enter, GaspInv, Typed
<1>2. ASSUME NEW at \in {"list", "wait"}, NEW does \in Doing,
             Sends(c, at, console[c].sid, does, NoKey), does.cmd # "HELLO"
      PROVE  ComeBack'
  BY <1>1, <1>2, NothingUnderWay, BackSends
<1>3. ASSUME NEW cmd \in {"LENABLE", "LDISABLE", "DOWN"},
             Sends(c, "wait", console[c].sid, Does(cmd), NoKey)
      PROVE  ComeBack'
  <2>1. Does(cmd) \in Doing /\ Does(cmd).cmd = cmd
    BY Commands DEF Plain
  <2>2. QED
    BY <1>2, <1>3, <2>1
<1>4. ASSUME NEW i \in 1..NConns + 1,
             Sends(c, "wait", console[c].sid, [cmd |-> "CLEARCONN", arg |-> i], NoKey)
      PROVE  ComeBack'
  BY <1>2, <1>4, Commands
<1>5. ASSUME NEW m \in Unsent,
             Sends(c, "wait", console[c].sid, [cmd |-> "BROADCAST", arg |-> m], NoKey)
      PROVE  ComeBack'
  <2>1. m \in Message
    BY DEF Unsent
  <2>2. QED
    BY <1>2, <1>5, <2>1, Commands
<1>6. ASSUME NEW cmd \in Listing,
             Sends(c, "list", console[c].sid, [cmd |-> cmd, arg |-> FirstEntry(cmd)], NoKey)
      PROVE  ComeBack'
  <2>1. FirstEntry(cmd) \in Nat
    BY DEF FirstEntry
  <2>2. [cmd |-> cmd, arg |-> FirstEntry(cmd)] \in Doing
    BY <2>1, Commands
  <2>3. [cmd |-> cmd, arg |-> FirstEntry(cmd)].cmd # "HELLO"
    BY DEF Listing
  <2>4. QED
    BY <1>2, <1>6, <2>2, <2>3
<1>7. QED
  BY <1>3, <1>4, <1>5, <1>6 DEF Enter

LEMMA BackExit ==
  ASSUME GaspInv, ComeBack, NEW c \in Console, Exit(c)
  PROVE  ComeBack'
<1>1. /\ console[c].at = "ready" /\ Leaves(c, console[c].sid)
      /\ session' = session /\ up' = up /\ failed' = failed
  BY DEF Exit
<1>2. console[c].sid \in Sid /\ Authentic(c, console[c].sid)
  BY <1>1 DEF GaspInv, Typed, ConsolesKnow, In
<1>3. QED
  BY <1>1, <1>2, NothingUnderWay, BackLeaves

LEMMA BackKill ==
  ASSUME GaspInv, ComeBack, NEW c \in Console, Kill(c)
  PROVE  ComeBack'
<1>1. /\ console[c].at # "off" /\ console' = [console EXCEPT ![c].at = "gone"]
      /\ session' = session /\ requests' = requests /\ up' = up
      /\ failed' = failed \cup {c} /\ replies' \subseteq replies
  BY DEF Kill
<1>2. QED
  BY <1>1, BackStops

LEMMA BackLose ==
  ASSUME GaspInv, ComeBack, Lose
  PROVE  ComeBack'
<1>1. /\ session' = session /\ console' = console /\ up' = up
      /\ \A p \in requests' : p \in requests
      /\ \A r \in replies' : r \in replies
      /\ failed \subseteq failed'
      /\ \A p \in requests : p \in requests' \/ p.from \in failed'
  BY DEF Lose
<1>2. InUse' = InUse /\ (\A d, s : Owns(d, s)' = Owns(d, s)) /\ \A p : Farewell(p)' = Farewell(p)
  BY <1>1 DEF InUse, Owns, Farewell, Authentic
<1>3. Greets'
  BY <1>1, <1>2 DEF ComeBack, Greets, In
<1>4. DownAnswered'
  BY <1>1 DEF ComeBack, DownAnswered
<1>5. ASSUME NEW c, Excused(c) PROVE Excused(c)'
  BY <1>1, <1>2, <1>5 DEF Excused
<1>6. QED
  BY <1>1, <1>2, <1>3, <1>4, <1>5 DEF ComeBack

LEMMA BackSame ==
  ASSUME ComeBack, UNCHANGED <<session, up, wire, console, failed, strange>>
  PROVE  ComeBack'
BY DEF ComeBack, Greets, DownAnswered, Excused, Farewell, InUse, Owns, Authentic, In, wire

LEMMA ComeBackNext ==
  ASSUME ~Doubled, GaspInv, ComeBack, [Next]_vars, ~strange'
  PROVE  ComeBack'
<1>1. ASSUME NEW p \in requests, Serve(p) PROVE ComeBack'
  BY <1>1, BackHandlePacket, BackDown DEF Serve
<1>2. ASSUME NEW c \in Console,
             Connect(c) \/ GetReply(c) \/ Enter(c) \/ Exit(c) \/ Kill(c)
      PROVE  ComeBack'
  BY <1>2, BackConnect, BackGetReply, BackEnter, BackExit, BackKill
<1>3. QED
  BY <1>1, <1>2, BackLose, BackSame DEF Next, vars

\* As long as what arrives is sent by consoles, a session whose console logged in
\* is freed when the console leaves, unless it was killed or a datagram of
\* its was lost: gasp_handle_packet
\* never refuses the farewell of con_done, and nothing is left over when the
\* console leaves without one, since con_cmd_down does so only after the server
\* said it goes down.
THEOREM SessionsAreGivenBack ==
  ASSUME ~Doubled
  PROVE  Spec => []SessionsComeBack
<1>1. Init => strange \/ ComeBack
  BY DEF Init, ComeBack, Greets, DownAnswered, InUse
<1>2. (strange \/ GaspInv) /\ (strange \/ ComeBack) /\ [Next]_vars => (strange \/ ComeBack)'
  BY ComeBackNext, StrangeStays
<1>3. strange \/ ComeBack => SessionsComeBack
  BY DEF ComeBack, SessionsComeBack, Excused, InUse
<1>4. QED
  BY <1>1, <1>2, <1>3, GaspInvHolds, PTL DEF Spec

-----------------------------------------------------------------------------
(* Messages *)

MailInv ==
  /\ DOMAIN status = Conn /\ DOMAIN message = Conn /\ DOMAIN due = Conn
  /\ MailIsDue

LEMMA KeepMailSame ==
  ASSUME MailInv, UNCHANGED mail
  PROVE  MailInv'
BY DEF MailInv, MailIsDue, Used, mail

LEMMA KeepStored ==
  ASSUME MailInv, NEW m, NEW S, Stored(m, S)
  PROVE  MailInv'
BY DEF Stored, MailInv, MailIsDue, Used

LEMMA KeepWipe ==
  ASSUME MailInv, NEW c \in Conn, Wipe(c)
  PROVE  MailInv'
BY DEF Wipe, MailInv, MailIsDue, Used

LEMMA KeepClients ==
  ASSUME MailInv, Clients
  PROVE  MailInv'
<1>1. ASSUME NEW c \in Conn, Attach(c) PROVE MailInv'
  BY <1>1 DEF Attach, Fresh, MailInv, MailIsDue, Used
<1>2. ASSUME NEW c \in Conn, GetMsg(c) PROVE MailInv'
  BY <1>2 DEF GetMsg, MailInv, MailIsDue, Used
<1>3. ASSUME NEW c \in Conn, DisableBcast(c) \/ EnableBcast(c) PROVE MailInv'
  BY <1>3 DEF DisableBcast, EnableBcast, MailInv, MailIsDue, Used
<1>4. ASSUME NEW c \in Conn, NEW m \in Unsent, NEW S \in SUBSET Conn,
             SendBcastOld(c, S, m) \/ BroadcastOld(c, S, m)
      PROVE  MailInv'
  BY <1>4, KeepStored DEF SendBcastOld, BroadcastOld
<1>5. ASSUME NEW c \in Conn, ConsoleBcast(c) PROVE MailInv'
  BY <1>5, KeepMailSame DEF ConsoleBcast
<1>6. QED
  BY <1>1, <1>2, <1>3, <1>4, <1>5, KeepWipe DEF Clients

LEMMA KeepEffect ==
  ASSUME MailInv, NEW d, InRange(d), Effect(d)
  PROVE  MailInv'
<1>1. CASE d.cmd \notin {"BROADCAST", "CLEARCONN"}
  BY <1>1, KeepMailSame DEF Effect
<1>2. CASE d.cmd = "BROADCAST"
  BY <1>2, KeepStored DEF Effect, Broadcast
<1>3. CASE d.cmd = "CLEARCONN"
  BY <1>3, KeepWipe DEF Effect, InRange
<1>4. QED
  BY <1>1, <1>2, <1>3

LEMMA MailInvNext ==
  ASSUME MailInv, [Next]_vars
  PROVE  MailInv'
<1>1. ASSUME NEW p, HandlePacket(p) PROVE MailInv'
  <2>1. UNCHANGED mail \/ (InRange(p.does) /\ Effect(p.does))
    BY <1>1 DEF HandlePacket, HandleHello, BadSession, NotAuthenticated, HandleAuth, Disconnect,
                UnknownCommand, HandleBeyond, Execute
  <2>2. QED
    BY <2>1, KeepMailSame, KeepEffect
<1>2. ASSUME NEW p, HandleDown(p) PROVE MailInv'
  BY <1>2, KeepMailSame DEF HandleDown
<1>3. ASSUME NEW c \in Console,
             Connect(c) \/ GetReply(c) \/ Enter(c) \/ Exit(c) \/ Kill(c)
      PROVE  MailInv'
  BY <1>3, KeepMailSame DEF Connect, GetReply, Enter, Exit, Kill
<1>4. CASE Lose \/ UNCHANGED vars
  BY <1>4, KeepMailSame DEF Lose, vars
<1>5. QED
  BY <1>1, <1>2, <1>3, <1>4, KeepClients DEF Next, Serve

\* Nobody finds a message that was sent to the client before, or finds one
\* twice: conn_attach_client empties the buffer of a slot it gives away, in
\* which broadcasts to free slots may stand.  This holds with datagrams doubled,
\* and whatever arrives that no console sent.
THEOREM MessagesAreDue == Spec => []MailIsDue
<1>1. Init => MailInv
  BY DEF Init, MailInit, MailInv, MailIsDue, Used
<1>2. MailInv /\ [Next]_vars => MailInv'
  BY MailInvNext
<1>3. MailInv => MailIsDue
  BY DEF MailInv
<1>4. QED
  BY <1>1, <1>2, <1>3, PTL DEF Spec
=============================================================================
