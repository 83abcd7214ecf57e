------------------------------ MODULE FrommelFiles ------------------------------
(***************************************************************************)
(* Files, and the requests for them: create, open, read, write, close,     *)
(* erase and rename (ncp.c, fs.c), of clients that send a request again    *)
(* until they have its answer.  The server puts a request's number into    *)
(* the answer and does not compare it with the one before, so a request    *)
(* that is sent twice is carried out twice.                                *)
(*                                                                         *)
(* Rights, and what the file system may refuse, are a choice: every call   *)
(* may fail.  Reading and writing are of whole files; the connection       *)
(* itself is the matter of FrommelConn.  Clients use handles they were     *)
(* given: the server compares a handle's number with nothing, and what     *)
(* stands behind the table is not modelled.                                *)
(***************************************************************************)
EXTENDS Integers, FiniteSets, SequencesExt

CONSTANTS
  Client,     \* connections
  Name,       \* file names, in one directory
  NFiles,     \* bound: files of the file system
  NHandles,   \* CONN_FH_PER_CONN
  NFds,       \* descriptors a process may have
  Value,      \* contents of files
  NSeq,       \* sequence numbers, 256
  MaxCopies,  \* bound: datagrams on the way to the server
  MaxAnswers, \* bound: datagrams on the way back
  Ordered     \* whether a client's datagrams arrive in the order they were sent in

ASSUME FilesAssumption ==
  /\ NFiles \in Nat \ {0} /\ NHandles \in Nat \ {0} /\ NFds \in Nat \ {0}
  /\ NSeq \in Nat \ {0, 1} /\ MaxCopies \in Nat \ {0} /\ MaxAnswers \in Nat \ {0}
  /\ Ordered \in BOOLEAN
  /\ "" \notin Value

File   == 1..NFiles
NoFile == 0
Handle == 0..NHandles-1
Seqno  == 0..NSeq-1

\* Requests; writing "" is a write of no bytes, which truncates, and "other" is
\* a datagram whose type is not that of a request.
Op ==
  [do : {"create", "open"}, name : Name] \cup [do : {"erase"}, names : SUBSET Name \ {{}}]
    \cup [do : {"rename"}, from : Name, to : Name]
    \cup [do : {"read", "close"}, handle : Handle]
    \cup [do : {"write"}, handle : Handle, value : Value \cup {""}]
    \cup [do : {"logout", "other"}]

Request == [seq : Seqno, op : Op]

Does == {op.do : op \in Op}

VARIABLES
  named,     \* the file of each name
  data,      \* its contents
  fh,        \* conn[c]->fh[h].fd, as the file that is open
  dirs,      \* directories that were opened to erase files
  requests,  \* datagrams to the server ...
  replies,   \* ... and from it, with what was asked for as history
  client,    \* what a client knows, and waits for
  up         \* the server runs

files == <<named, data, fh, dirs>>
vars  == <<files, requests, replies, client, up>>

Reply == [seq : Seqno, ok : BOOLEAN, handle : Handle, file : File \cup {NoFile}, do : Does]

TypeOK ==
  /\ named \in [Name -> File \cup {NoFile}]
  /\ data \in [File -> Value \cup {""}]
  /\ fh \in [Client -> [Handle -> File \cup {NoFile}]]
  /\ dirs \in 0..NFds
  /\ requests \in [Client -> Seq(Request)]
  /\ replies \in [Client -> Seq(Reply)]
  /\ client \in [Client -> [seq : Seqno, waiting : BOOLEAN, op : Op,
                            has : [Handle -> File \cup {NoFile}]]]
  /\ up \in BOOLEAN

NoHandles == [h \in Handle |-> NoFile]

Init ==
  /\ named = [n \in Name |-> NoFile]
  /\ data = [f \in File |-> ""]
  /\ fh = [c \in Client |-> NoHandles]
  /\ dirs = 0
  /\ requests = [c \in Client |-> <<>>]
  /\ replies = [c \in Client |-> <<>>]
  /\ client = [c \in Client |-> [seq |-> 0, waiting |-> FALSE, op |-> [do |-> "logout"],
                                 has |-> NoHandles]]
  /\ up = TRUE

-----------------------------------------------------------------------------
(* The server *)

IsOpen(f)   == \E c \in Client, h \in Handle : fh[c][h] = f
Unused      == {f \in File : ~IsOpen(f) /\ \A n \in Name : named[n] # f}
FreeHandles(c) == {h \in Handle : fh[c][h] = NoFile}
FdsUsed     == dirs + Cardinality({p \in Client \X Handle : fh[p[1]][p[2]] # NoFile})

\* Mutant: the first handle, free or not.
FindFirstFh(c) == 0

\* fs_con_find_free_fh
FindFreeFh(c) == CHOOSE h \in FreeHandles(c) : \A g \in FreeHandles(c) : h <= g

\* Mutant: the answer has the number of the client's last request.
AnswerLast(c, r, ok, h, f) ==
  replies' = [replies EXCEPT ![c] = Append(@, [seq |-> client[c].seq, ok |-> ok, handle |-> h,
                                               file |-> f, do |-> r.op.do])]

\* ncp_send_reply
Answer(c, r, ok, h, f) ==
  replies' = [replies EXCEPT ![c] = Append(@, [seq |-> r.seq, ok |-> ok, handle |-> h,
                                               file |-> f, do |-> r.op.do])]

Done(c, r) == Answer(c, r, TRUE, 0, NoFile)

\* An error, before anything was changed.
Fail(c, r) == Answer(c, r, FALSE, 0, NoFile) /\ UNCHANGED files

\* fs_open_file found the file f for client c.
Opened(c, r, f) ==
  /\ FreeHandles(c) # {} /\ FdsUsed < NFds
  /\ fh' = [fh EXCEPT ![c][FindFreeFh(c)] = f]
  /\ Answer(c, r, TRUE, FindFreeFh(c), f)
  /\ UNCHANGED dirs

\* NCP 67: O_CREAT | O_TRUNC
Create(c, r) ==
  /\ r.op.do = "create"
  /\ \E f \in IF named[r.op.name] # NoFile THEN {named[r.op.name]} ELSE Unused :
       /\ Opened(c, r, f)
       /\ named' = [named EXCEPT ![r.op.name] = f]
       /\ data' = [data EXCEPT ![f] = ""]

\* NCP 76
Open(c, r) ==
  /\ r.op.do = "open" /\ named[r.op.name] # NoFile
  /\ Opened(c, r, named[r.op.name])
  /\ UNCHANGED <<named, data>>

\* NCP 72, and NCP 71
Read(c, r) ==
  /\ r.op.do = "read" /\ fh[c][r.op.handle] # NoFile
  /\ Answer(c, r, TRUE, r.op.handle, fh[c][r.op.handle])
  /\ UNCHANGED files

\* NCP 73
Write(c, r) ==
  /\ r.op.do = "write" /\ fh[c][r.op.handle] # NoFile
  /\ data' = [data EXCEPT ![fh[c][r.op.handle]] = r.op.value]
  /\ Answer(c, r, TRUE, r.op.handle, fh[c][r.op.handle])
  /\ UNCHANGED <<named, fh, dirs>>

\* NCP 66
Close(c, r) ==
  /\ r.op.do = "close" /\ fh[c][r.op.handle] # NoFile
  /\ fh' = [fh EXCEPT ![c][r.op.handle] = NoFile]
  /\ Done(c, r)
  /\ UNCHANGED <<named, data, dirs>>

\* NCP 68, of the names that match a pattern; an error ends it half-way.  The
\* directory is not closed.
Erase(c, r) ==
  LET there == {n \in r.op.names : named[n] # NoFile}
  IN  /\ r.op.do = "erase" /\ FdsUsed < NFds
      /\ dirs' = dirs + 1
      /\ \E gone \in SUBSET there :
           /\ named' = [n \in Name |-> IF n \in gone THEN NoFile ELSE named[n]]
           /\ Answer(c, r, gone = there /\ there # {}, 0, NoFile)
      /\ UNCHANGED <<data, fh>>

\* NCP 69: a file of the new name is lost.
Rename(c, r) ==
  /\ r.op.do = "rename" /\ named[r.op.from] # NoFile
  /\ named' = [named EXCEPT ![r.op.from] = IF r.op.from = r.op.to THEN @ ELSE NoFile,
                            ![r.op.to] = named[r.op.from]]
  /\ Done(c, r)
  /\ UNCHANGED <<data, fh, dirs>>

\* NCP 25, and the other ways a connection is logged out.
Logout(c, r) ==
  /\ r.op.do = "logout"
  /\ fh' = [fh EXCEPT ![c] = NoHandles]
  /\ Done(c, r)
  /\ UNCHANGED <<named, data, dirs>>

\* Mutant: a call that fails is not answered.
HandleSilent(c, r) ==
  \/ Create(c, r) \/ Open(c, r) \/ Read(c, r) \/ Write(c, r)
  \/ Close(c, r) \/ Erase(c, r) \/ Rename(c, r) \/ Logout(c, r)
  \/ UNCHANGED <<files, replies>>

\* ncp_handle_request: whatever a request is about, it is answered.
HandleRequest(c, r) ==
  \/ Create(c, r) \/ Open(c, r) \/ Read(c, r) \/ Write(c, r)
  \/ Close(c, r) \/ Erase(c, r) \/ Rename(c, r) \/ Logout(c, r)
  \/ Fail(c, r)

\* "unknown request type": there is no answer.
UnknownType(r) == r.op.do = "other" /\ UNCHANGED <<files, replies>>

\* ncp_handle_packet
HandlePacket(c) ==
  /\ up /\ Len(replies[c]) < MaxAnswers
  /\ \E i \in DOMAIN requests[c] :
       /\ Ordered => i = 1
       /\ requests' = [requests EXCEPT ![c] = RemoveAt(@, i)]
       /\ LET r == requests[c][i]
          IN  UnknownType(r) \/ (r.op.do # "other" /\ HandleRequest(c, r))
  /\ UNCHANGED <<client, up>>

\* A datagram too short for a request, from anywhere: exit (1).
TooSmall ==
  /\ up' = FALSE
  /\ UNCHANGED <<files, requests, replies, client>>

-----------------------------------------------------------------------------
(* Clients *)

Copies(c, r) ==
  /\ Len(requests[c]) < MaxCopies
  /\ requests' = [requests EXCEPT ![c] = Append(@, r)]
  /\ UNCHANGED <<files, replies, up>>

\* What a client may ask for: it uses handles that it has been given.
Asks(c, op) == "handle" \in DOMAIN op => client[c].has[op.handle] # NoFile

\* The handles a client has when it has asked for op.
Gives(c, op) ==
  CASE op.do = "close"  -> [client[c].has EXCEPT ![op.handle] = NoFile]
    [] op.do = "logout" -> NoHandles
    [] OTHER -> client[c].has

Send(c) ==
  /\ ~client[c].waiting
  /\ \E op \in {o \in Op : Asks(c, o)} :
       LET seq == (client[c].seq + 1) % NSeq
       IN  /\ Copies(c, [seq |-> seq, op |-> op])
           /\ client' = [client EXCEPT ![c] = [seq |-> seq, waiting |-> TRUE, op |-> op,
                                               has |-> Gives(c, op)]]

\* The answer takes too long.
Retry(c) ==
  /\ client[c].waiting
  /\ Copies(c, [seq |-> client[c].seq, op |-> client[c].op])
  /\ UNCHANGED client

\* An answer with another number is to a request that was answered before.
Receive(c) ==
  /\ replies[c] # <<>>
  /\ LET r == Head(replies[c])
     IN  IF client[c].waiting /\ r.seq = client[c].seq
         THEN client' = [client EXCEPT
                ![c].waiting = FALSE,
                ![c].has = IF r.ok /\ r.do \in {"create", "open"}
                           THEN [@ EXCEPT ![r.handle] = r.file] ELSE @]
         ELSE UNCHANGED client
  /\ replies' = [replies EXCEPT ![c] = Tail(@)]
  /\ UNCHANGED <<files, requests, up>>

Lose(c) ==
  \/ /\ \E i \in DOMAIN requests[c] : requests' = [requests EXCEPT ![c] = RemoveAt(@, i)]
     /\ UNCHANGED <<files, replies, client, up>>
  \/ /\ \E i \in DOMAIN replies[c] : replies' = [replies EXCEPT ![c] = RemoveAt(@, i)]
     /\ UNCHANGED <<files, requests, client, up>>

\* The runs do not follow the clients of a server that has ended.
Running == up

Next ==
  \/ \E c \in Client : HandlePacket(c) \/ Send(c) \/ Retry(c) \/ Receive(c) \/ Lose(c)
  \/ up /\ TooSmall

\* Clients repeat their requests, and what is sent over and over arrives.
Fairness ==
  \A c \in Client : WF_vars(Retry(c)) /\ SF_vars(HandlePacket(c)) /\ SF_vars(Receive(c))

Spec == Init /\ [][Next]_vars /\ Fairness

-----------------------------------------------------------------------------
(* Properties *)

\* The answer a client takes is one to its request, although requests and
\* answers are lost and repeated.
AnswersAreOwn ==
  \A c \in Client : replies[c] # <<>> =>
    LET r == Head(replies[c])
    IN  client[c].waiting /\ r.seq = client[c].seq => r.do = client[c].op.do

\* A handle stays with the file it was given for until its client closes it,
\* whatever is erased, renamed, created or closed meanwhile, and though every
\* request may be carried out twice.  It fails where a close can be overtaken.
HandlesStay ==
  \A c \in Client, h \in Handle : client[c].has[h] # NoFile => fh[c][h] = client[c].has[h]

\* A request that is repeated until it is answered comes to an end, also one that
\* fails, as long as the server runs.
AnswersCome ==
  \A c \in Client : client[c].waiting ~> ~client[c].waiting \/ client[c].op.do = "other" \/ ~up

\* Whatever a client sends is answered.  It fails: a type that ncp_handle_packet
\* does not know is not, and a datagram that is too short ends the server.
AllIsAnswered == \A c \in Client : client[c].waiting ~> ~client[c].waiting

\* No handle is in use that its client does not know of.  It fails: an open
\* that is repeated takes two.
HandlesAreKnown ==
  \A c \in Client, h \in Handle : ~client[c].waiting /\ requests[c] = <<>> /\ fh[c][h] # NoFile
                                    => client[c].has[h] # NoFile

\* A request that was answered is not carried out again to any effect.  It fails:
\* a write comes back after somebody else's.
RepeatsChangeNothing ==
  [][\A c \in Client :
       HandlePacket(c) /\ ~(client[c].waiting /\ Head(requests[c]).seq = client[c].seq)
         => UNCHANGED data]_vars

\* A file that is gone has left its name behind: only erasing ends a file.  It
\* fails: rename () replaces.
RenameLosesNothing ==
  [][\A n \in Name : named[n] # NoFile /\ (\A m \in Name : named'[m] # named[n])
       => named'[n] = NoFile]_vars

\* With nothing open there are descriptors left.  It fails: erasing takes one
\* each time.
ErasesGiveBack == (\A f \in File : ~IsOpen(f)) => dirs < NFds
=============================================================================
