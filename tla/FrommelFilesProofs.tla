---------------------------- MODULE FrommelFilesProofs ----------------------------
(***************************************************************************)
(* What holds of clients that repeat their requests, for every number of   *)
(* clients, names, files and handles and every range of sequence numbers,  *)
(* where a client's datagrams may be lost, but arrive in the order in      *)
(* which they were sent.                                                   *)
(***************************************************************************)
EXTENDS FrommelFiles, SequenceTheorems, WellFoundedInduction, TLAPS

FileOrNone == File \cup {NoFile}

Types ==
  /\ named \in [Name -> FileOrNone]
  /\ fh \in [Client -> [Handle -> FileOrNone]]
  /\ requests \in [Client -> Seq(Request)]
  /\ replies \in [Client -> Seq(Reply)]
  /\ client \in [Client -> [seq : Seqno, waiting : BOOLEAN, op : Op,
                            has : [Handle -> FileOrNone]]]

\* A datagram of the client's last request, or of the one before it.
Follows(m, n) == (m + 1) % NSeq = n

Latest(c, r) == r.seq = client[c].seq
Before(c, r) == client[c].waiting /\ Follows(r.seq, client[c].seq)

\* No datagram of the request before comes after one of the last request.
InOrder(c, q) == \A i, j \in DOMAIN q : i < j /\ Latest(c, q[i]) => Latest(c, q[j])

\* What a handle was opened for is still open when the client hears of it.
Gave(r) == r.ok /\ r.do \in {"create", "open"}

RequestsKnown(c) ==
  \A i \in DOMAIN requests[c] :
    LET r == requests[c][i]
    IN  /\ Before(c, r) \/ (Latest(c, r) /\ r.op = client[c].op)
        /\ r.op.do = "close" => client[c].has[r.op.handle] = NoFile
        /\ r.op.do = "logout" => client[c].has = NoHandles

RepliesKnown(c) ==
  \A i \in DOMAIN replies[c] :
    LET r == replies[c][i]
    IN  /\ Before(c, r) \/ (Latest(c, r) /\ r.do = client[c].op.do)
        /\ Latest(c, r) => \A j \in DOMAIN requests[c] : Latest(c, requests[c][j])
        /\ Latest(c, r) /\ client[c].waiting /\ Gave(r)
             => r.file # NoFile /\ fh[c][r.handle] = r.file

HandlesOf(c) ==
  \A h \in Handle : client[c].has[h] # NoFile => fh[c][h] = client[c].has[h]

AskedKnown(c) ==
  LET op == client[c].op
  IN  /\ op.do = "close" => client[c].has[op.handle] = NoFile
      /\ op.do = "logout" => client[c].has = NoHandles

ClientInv(c) ==
  /\ InOrder(c, requests[c]) /\ InOrder(c, replies[c])
  /\ RequestsKnown(c) /\ RepliesKnown(c)
  /\ AskedKnown(c) /\ HandlesOf(c)

FilesInv == Types /\ \A c \in Client : ClientInv(c)

-----------------------------------------------------------------------------
LEMMA Sizes ==
  NFiles \in Nat \ {0} /\ NHandles \in Nat \ {0} /\ NSeq \in Nat \ {0, 1}
BY FilesAssumption

LEMMA NextSeq ==
  ASSUME NEW s \in Seqno
  PROVE  (s + 1) % NSeq \in Seqno /\ (s + 1) % NSeq # s
<1>1. NSeq \in Nat \ {0, 1}
  BY Sizes
<1>2. CASE s = NSeq - 1
  BY <1>1, <1>2 DEF Seqno
<1>3. CASE s < NSeq - 1
  BY <1>1, <1>3 DEF Seqno
<1>4. QED
  BY <1>1, <1>2, <1>3 DEF Seqno

LEMMA NotFollows ==
  ASSUME NEW s \in Seqno
  PROVE  ~Follows(s, s)
BY NextSeq DEF Follows

LEMMA Removed ==
  ASSUME NEW T, NEW s \in Seq(T), NEW i \in DOMAIN s
  PROVE  /\ RemoveAt(s, i) \in Seq(T) /\ Len(RemoveAt(s, i)) = Len(s) - 1
         /\ \A k \in 1..Len(s)-1 : RemoveAt(s, i)[k] = s[IF k < i THEN k ELSE k + 1]
<1> DEFINE a == SubSeq(s, 1, i - 1)
           b == SubSeq(s, i + 1, Len(s))
<1>1. a \in Seq(T) /\ Len(a) = i - 1 /\ \A k \in 1..i-1 : a[k] = s[k]
  BY SMTT(30)
<1>2. b \in Seq(T) /\ Len(b) = Len(s) - i /\ \A k \in 1..Len(s)-i : b[k] = s[k + i]
  BY SMTT(30)
<1>3. RemoveAt(s, i) = a \o b
  BY DEF RemoveAt
<1>4. Len(s) \in Nat /\ i \in 1..Len(s)
  OBVIOUS
<1> HIDE DEF a, b
<1>5. a \o b \in Seq(T) /\ Len(a \o b) = Len(s) - 1
  BY <1>1, <1>2, <1>4, SMTT(30)
<1>6. ASSUME NEW k \in 1..Len(s)-1 PROVE (a \o b)[k] = s[IF k < i THEN k ELSE k + 1]
  <2>1. CASE k < i
    BY <1>1, <1>2, <1>4, <2>1
  <2>2. CASE k >= i
    <3>1. (a \o b)[k] = b[k - (i - 1)] /\ k - (i - 1) \in 1..Len(s)-i
      BY <1>1, <1>2, <1>4, <2>2
    <3>2. b[k - (i - 1)] = s[k - (i - 1) + i]
      BY <1>2, <3>1
    <3>3. QED
      BY <1>4, <2>2, <3>1, <3>2
  <2>3. k < i \/ k >= i
    BY <1>4
  <2>4. QED
    BY <2>1, <2>2, <2>3, Zenon
<1>7. QED
  BY <1>3, <1>5, <1>6

\* The entries of a queue that one was taken from, and where they were.
LEMMA Shorter ==
  ASSUME NEW T, NEW s \in Seq(T), NEW i \in DOMAIN s, NEW t, t = RemoveAt(s, i)
  PROVE  /\ t \in Seq(T)
         /\ \A k \in DOMAIN t : \E m \in DOMAIN s : t[k] = s[m]
         /\ \A j, k \in DOMAIN t : j < k => \E m, n \in DOMAIN s : m < n /\ t[j] = s[m] /\ t[k] = s[n]
<1> DEFINE at(k) == IF k < i THEN k ELSE k + 1
<1>1. t \in Seq(T) /\ Len(t) = Len(s) - 1 /\ i \in 1..Len(s)
  BY Removed
<1>2. DOMAIN t = 1..Len(s)-1 /\ DOMAIN s = 1..Len(s) /\ Len(s) \in Nat
  BY <1>1
<1>3. \A k \in DOMAIN t : t[k] = s[at(k)]
  BY <1>2, Removed
<1>4. \A k \in DOMAIN t : at(k) \in DOMAIN s
  BY <1>1, <1>2
<1>5. \A j, k \in DOMAIN t : j < k => at(j) < at(k)
  BY <1>1, <1>2
<1> HIDE DEF at
<1>6. QED
  BY <1>1, <1>3, <1>4, <1>5

LEMMA OpParts ==
  ASSUME NEW op \in Op
  PROVE  /\ op.do \in Does
         /\ op.do \in {"read", "close", "write"} => op.handle \in Handle
         /\ op.do \in {"create", "open"} => op.name \in Name
         /\ op.do = "rename" => op.from \in Name /\ op.to \in Name
<1>1. op.do \in Does
  BY DEF Does
<1>2. op.do \in {"read", "close", "write"} => op.handle \in Handle
  BY DEF Op
<1>3. op.do \in {"create", "open"} => op.name \in Name
  BY DEF Op
<1>4. op.do = "rename" => op.from \in Name /\ op.to \in Name
  BY DEF Op
<1>5. QED
  BY <1>1, <1>2, <1>3, <1>4

LEMMA FreeFh ==
  ASSUME NEW c \in Client, FreeHandles(c) # {}
  PROVE  FindFreeFh(c) \in FreeHandles(c)
<1> DEFINE S == FreeHandles(c)
<1>1. S \in SUBSET Nat
  BY Sizes DEF FreeHandles, Handle
<1>2. PICK i \in S : \A j \in S : <<j, i>> \notin OpToRel(<, Nat)
  <2> HIDE DEF S
  <2>1. \E i \in S : \A j \in S : <<j, i>> \notin OpToRel(<, Nat)
    <3>1. S # {}
      BY DEF S
    <3>2. QED
      BY <1>1, <3>1, NatLessThanWellFounded, WFMin
  <2>2. QED
    BY <2>1
<1>3. ASSUME NEW j \in S PROVE i <= j
  <2>1. i \in Nat /\ j \in Nat
    BY <1>1
  <2>2. ASSUME j < i PROVE FALSE
    <3>1. <<j, i>> \in Nat \X Nat /\ <<j, i>>[1] < <<j, i>>[2]
      BY <2>1, <2>2
    <3>2. <<j, i>> \in OpToRel(<, Nat)
      BY <3>1, Zenon DEF OpToRel
    <3>3. QED
      BY <1>2, <3>2
  <2>3. QED
    BY <2>1, <2>2
<1>4. QED
  BY <1>2, <1>3 DEF FindFreeFh

LEMMA Answered ==
  ASSUME NEW r \in [seq : Seqno, waiting : BOOLEAN, op : Op, has : [Handle -> FileOrNone]],
         NEW has
  PROVE  [r EXCEPT !.waiting = FALSE, !.has = has]
           = [seq |-> r.seq, waiting |-> FALSE, op |-> r.op, has |-> has]
<1>1. ASSUME NEW w
      PROVE  [r EXCEPT !.waiting = w, !.has = has]
               = [seq |-> r.seq, waiting |-> w, op |-> r.op, has |-> has]
  <2>1. [r EXCEPT !.waiting = w] = [seq |-> r.seq, waiting |-> w, op |-> r.op, has |-> r.has]
    OBVIOUS
  <2>2. ASSUME NEW q, q = [seq |-> r.seq, waiting |-> w, op |-> r.op, has |-> r.has]
        PROVE  [q EXCEPT !.has = has] = [seq |-> r.seq, waiting |-> w, op |-> r.op, has |-> has]
    BY <2>2
  <2>3. QED
    BY <2>1, <2>2, Zenon
<1>2. QED
  BY <1>1, Zenon

\* Clients that a step is not about.
LEMMA OthersKeep ==
  ASSUME FilesInv, NEW d \in Client,
         requests'[d] = requests[d], replies'[d] = replies[d], fh'[d] = fh[d],
         client'[d] = client[d]
  PROVE  ClientInv(d)'
BY DEF FilesInv, ClientInv, InOrder, RequestsKnown, RepliesKnown, AskedKnown, HandlesOf,
       Latest, Before, Gave

-----------------------------------------------------------------------------
(* Clients and the network *)

\* What is in a queue from which a datagram is taken was in it before, in the
\* same order.
Dropped(c, i) ==
  /\ requests' = [requests EXCEPT ![c] = RemoveAt(@, i)]
  /\ UNCHANGED <<files, replies, client>>

LEMMA KeepDropped ==
  ASSUME FilesInv, NEW c \in Client, NEW i \in DOMAIN requests[c], Dropped(c, i)
  PROVE  FilesInv'
<1> DEFINE s == requests[c]
           t == requests'[c]
<1>1. s \in Seq(Request) /\ t = RemoveAt(s, i) /\ i \in DOMAIN s
  BY DEF FilesInv, Types, Dropped
<1>2. /\ t \in Seq(Request)
      /\ \A k \in DOMAIN t : \E m \in DOMAIN s : t[k] = s[m]
      /\ \A j, k \in DOMAIN t : j < k => \E m, n \in DOMAIN s : m < n /\ t[j] = s[m] /\ t[k] = s[n]
  <2> HIDE DEF s, t
  <2>1. QED
    BY <1>1, Shorter
<1>3. UNCHANGED <<named, fh, replies, client>>
  BY DEF files, Dropped
<1>4. Types'
  BY <1>2, <1>3 DEF FilesInv, Types, Dropped
<1>5. ASSUME NEW d \in Client, d # c PROVE ClientInv(d)'
  <2>1. requests'[d] = requests[d]
    BY <1>5 DEF FilesInv, Types, Dropped
  <2>2. QED
    BY <1>3, <2>1, OthersKeep
<1>6. ClientInv(c)
  BY DEF FilesInv
<1>7. InOrder(c, requests[c])'
  BY <1>2, <1>3, <1>6 DEF ClientInv, InOrder, Latest
<1>8. InOrder(c, replies[c])'
  BY <1>3, <1>6 DEF ClientInv, InOrder, Latest
<1>9. RequestsKnown(c)'
  BY <1>2, <1>3, <1>6 DEF ClientInv, RequestsKnown, Latest, Before
<1>10. RepliesKnown(c)'
  BY <1>2, <1>3, <1>6 DEF ClientInv, RepliesKnown, Latest, Before, Gave
<1>11. HandlesOf(c)'
  BY <1>3, <1>6 DEF ClientInv, HandlesOf
<1>12. AskedKnown(c)'
  BY <1>3, <1>6 DEF ClientInv, AskedKnown
<1>13. ClientInv(c)'
  BY <1>7, <1>8, <1>9, <1>10, <1>11, <1>12 DEF ClientInv
<1>14. QED
  BY <1>4, <1>5, <1>13 DEF FilesInv

LEMMA KeepLose ==
  ASSUME FilesInv, NEW c \in Client, Lose(c)
  PROVE  FilesInv'
<1>1. ASSUME NEW i \in DOMAIN requests[c], requests' = [requests EXCEPT ![c] = RemoveAt(@, i)],
             UNCHANGED <<files, replies, client>>
      PROVE  FilesInv'
  BY <1>1, KeepDropped DEF Dropped
<1>2. ASSUME NEW i \in DOMAIN replies[c], replies' = [replies EXCEPT ![c] = RemoveAt(@, i)],
             UNCHANGED <<files, requests, client>>
      PROVE  FilesInv'
  <2> DEFINE s == replies[c]
             t == replies'[c]
  <2>1. s \in Seq(Reply) /\ t = RemoveAt(s, i) /\ i \in DOMAIN s
    BY <1>2 DEF FilesInv, Types
  <2>2. /\ t \in Seq(Reply)
        /\ \A k \in DOMAIN t : \E m \in DOMAIN s : t[k] = s[m]
        /\ \A j, k \in DOMAIN t : j < k => \E m, n \in DOMAIN s : m < n /\ t[j] = s[m] /\ t[k] = s[n]
    <3> HIDE DEF s, t
    <3>1. QED
      BY <2>1, Shorter
  <2>3. UNCHANGED <<named, fh, requests, client>>
    BY <1>2 DEF files
  <2>4. Types'
    BY <1>2, <2>2, <2>3 DEF FilesInv, Types
  <2>5. ASSUME NEW d \in Client, d # c PROVE ClientInv(d)'
    <3>1. replies'[d] = replies[d]
      BY <1>2, <2>5 DEF FilesInv, Types
    <3>2. QED
      BY <2>3, <3>1, OthersKeep
  <2>6. ClientInv(c)
    BY DEF FilesInv
  <2>7. InOrder(c, requests[c])'
    BY <2>3, <2>6 DEF ClientInv, InOrder, Latest
  <2>8. InOrder(c, replies[c])'
    BY <2>2, <2>3, <2>6 DEF ClientInv, InOrder, Latest
  <2>9. RequestsKnown(c)'
    BY <2>3, <2>6 DEF ClientInv, RequestsKnown, Latest, Before
  <2>10. RepliesKnown(c)'
    BY <2>2, <2>3, <2>6 DEF ClientInv, RepliesKnown, Latest, Before, Gave
  <2>11. HandlesOf(c)'
    BY <2>3, <2>6 DEF ClientInv, HandlesOf
  <2>12. AskedKnown(c)'
    BY <2>3, <2>6 DEF ClientInv, AskedKnown
  <2>13. ClientInv(c)'
    BY <2>7, <2>8, <2>9, <2>10, <2>11, <2>12 DEF ClientInv
  <2>14. QED
    BY <2>4, <2>5, <2>13 DEF FilesInv
<1>3. QED
  BY <1>1, <1>2 DEF Lose

\* A copy of the last request comes after everything that is under way.
LEMMA KeepRetry ==
  ASSUME FilesInv, NEW c \in Client, Retry(c)
  PROVE  FilesInv'
<1> DEFINE s == requests[c]
           t == requests'[c]
           r == [seq |-> client[c].seq, op |-> client[c].op]
<1>1. s \in Seq(Request) /\ client[c].seq \in Seqno /\ client[c].op \in Op
  BY DEF FilesInv, Types
<1>2. r \in Request
  BY <1>1 DEF Request
<1>3. requests' = [requests EXCEPT ![c] = Append(s, r)] /\ UNCHANGED <<named, fh, replies, client>>
  BY DEF Retry, Copies, files
<1>4. t = Append(s, r)
  BY <1>3 DEF FilesInv, Types
<1>5. r.seq = client[c].seq /\ r.op = client[c].op
  OBVIOUS
<1>6. /\ t \in Seq(Request) /\ Len(t) = Len(s) + 1 /\ t[Len(s) + 1] = r
      /\ \A k \in DOMAIN s : t[k] = s[k]
      /\ DOMAIN s = 1..Len(s) /\ DOMAIN t = 1..Len(s)+1 /\ Len(s) \in Nat
  <2> HIDE DEF r, s, t
  <2>1. QED
    BY <1>1, <1>2, <1>4
<1>7. Types'
  <2>1. requests' = [requests EXCEPT ![c] = t]
    BY <1>3, <1>4
  <2> HIDE DEF r, s, t
  <2>2. QED
    BY <1>3, <1>6, <2>1 DEF FilesInv, Types
<1>8. ASSUME NEW d \in Client, d # c PROVE ClientInv(d)'
  <2>1. requests'[d] = requests[d]
    BY <1>3, <1>8 DEF FilesInv, Types
  <2>2. QED
    BY <1>3, <2>1, OthersKeep
<1>9. ClientInv(c)
  BY DEF FilesInv
<1> HIDE DEF r
<1>10. InOrder(c, requests[c])'
  BY <1>3, <1>5, <1>6, <1>9 DEF ClientInv, InOrder, Latest
<1>11. RequestsKnown(c)'
  <2>1. ASSUME NEW k \in DOMAIN t
        PROVE  (k \in DOMAIN s /\ t[k] = s[k]) \/ t[k] = r
    BY <1>6, <2>1
  <2>2. QED
    BY <1>3, <1>5, <1>9, <2>1 DEF ClientInv, RequestsKnown, AskedKnown, Latest, Before
<1>12. RepliesKnown(c)'
  <2>1. ASSUME NEW k \in DOMAIN t
        PROVE  (k \in DOMAIN s /\ t[k] = s[k]) \/ t[k] = r
    BY <1>6, <2>1
  <2>2. QED
    BY <1>3, <1>5, <1>9, <2>1 DEF ClientInv, RepliesKnown, Latest, Before, Gave
<1>13. /\ InOrder(c, replies[c])' /\ AskedKnown(c)' /\ HandlesOf(c)'
  BY <1>3, <1>9 DEF ClientInv, InOrder, Latest, AskedKnown, HandlesOf
<1>14. ClientInv(c)'
  BY <1>10, <1>11, <1>12, <1>13 DEF ClientInv
<1>15. QED
  BY <1>7, <1>8, <1>14 DEF FilesInv

\* A new request makes all that is under way a matter of the one before.
LEMMA KeepSend ==
  ASSUME FilesInv, NEW c \in Client, Send(c)
  PROVE  FilesInv'
<1> DEFINE s == requests[c]
           t == requests'[c]
           seq == (client[c].seq + 1) % NSeq
<1>1. PICK op \in Op :
        /\ requests' = [requests EXCEPT ![c] = Append(s, [seq |-> seq, op |-> op])]
        /\ client' = [client EXCEPT ![c] = [seq |-> seq, waiting |-> TRUE, op |-> op,
                                            has |-> Gives(c, op)]]
        /\ UNCHANGED <<named, fh, replies>> /\ ~client[c].waiting
  BY DEF Send, Copies, files
<1> DEFINE r == [seq |-> seq, op |-> op]
           new == [seq |-> seq, waiting |-> TRUE, op |-> op, has |-> Gives(c, op)]
<1>2. s \in Seq(Request) /\ client[c].seq \in Seqno /\ client[c].has \in [Handle -> FileOrNone]
  BY DEF FilesInv, Types
<1>3. seq \in Seqno /\ seq # client[c].seq
  BY <1>2, NextSeq
<1>4. /\ Gives(c, op) \in [Handle -> FileOrNone]
      /\ \A h \in Handle : Gives(c, op)[h] \in {client[c].has[h], NoFile}
      /\ op.do = "close" => Gives(c, op)[op.handle] = NoFile
      /\ op.do = "logout" => Gives(c, op) = NoHandles
  <2>1. CASE op.do = "close"
    <3>1. op.handle \in Handle
      BY <2>1, OpParts
    <3>2. QED
      BY <1>2, <2>1, <3>1 DEF Gives, FileOrNone
  <2>2. CASE op.do = "logout"
    BY <2>2 DEF Gives, FileOrNone, NoHandles
  <2>3. CASE op.do \notin {"close", "logout"}
    BY <1>2, <2>3 DEF Gives
  <2>4. QED
    BY <2>1, <2>2, <2>3
<1>5. /\ client'[c].seq = seq /\ client'[c].waiting /\ client'[c].op = op
      /\ client'[c].has = Gives(c, op)
      /\ \A d \in Client : d # c => client'[d] = client[d] /\ requests'[d] = requests[d]
      /\ t = Append(s, r) /\ r.seq = seq /\ r.op = op
  BY <1>1 DEF FilesInv, Types
<1>6. r \in Request
  BY <1>3 DEF Request
<1> HIDE DEF seq
<1>7. new \in [seq : Seqno, waiting : BOOLEAN, op : Op, has : [Handle -> FileOrNone]]
  BY <1>3, <1>4
<1> HIDE DEF r, new
<1>8. /\ t \in Seq(Request)
      /\ DOMAIN s = 1..Len(s) /\ DOMAIN t = 1..Len(s)+1 /\ Len(s) \in Nat
      /\ t[Len(s) + 1] = r /\ \A k \in DOMAIN s : t[k] = s[k]
  <2> HIDE DEF s, t
  <2>1. QED
    BY <1>2, <1>5, <1>6
<1>9. Types'
  <2>1. requests' = [requests EXCEPT ![c] = t] /\ client' = [client EXCEPT ![c] = new]
    BY <1>1, <1>5 DEF r, new
  <2> HIDE DEF s, t
  <2>2. requests' \in [Client -> Seq(Request)]
    BY <1>8, <2>1 DEF FilesInv, Types
  <2>3. client' \in [Client -> [seq : Seqno, waiting : BOOLEAN, op : Op, has : [Handle -> FileOrNone]]]
    BY <1>7, <2>1 DEF FilesInv, Types
  <2>4. QED
    BY <1>1, <2>2, <2>3 DEF FilesInv, Types
<1>10. ASSUME NEW d \in Client, d # c PROVE ClientInv(d)'
  BY <1>1, <1>5, <1>10, OthersKeep
<1>11. ClientInv(c)
  BY DEF FilesInv
<1>12. \A k \in DOMAIN s : s[k].seq = client[c].seq
  BY <1>1, <1>11 DEF ClientInv, RequestsKnown, Latest, Before
<1>13. \A k \in DOMAIN replies[c] : replies[c][k].seq = client[c].seq
  BY <1>1, <1>11 DEF ClientInv, RepliesKnown, Latest, Before
<1>14. InOrder(c, requests[c])'
  BY <1>3, <1>5, <1>8, <1>12 DEF InOrder, Latest
<1>15. RequestsKnown(c)'
  <2>1. ASSUME NEW k \in DOMAIN t
        PROVE  (k \in DOMAIN s /\ t[k] = s[k]) \/ t[k] = r
    BY <1>8, <2>1
  <2>2. ASSUME NEW k \in DOMAIN s
        PROVE  /\ Follows(s[k].seq, client'[c].seq)
               /\ s[k].op.do = "close" => client'[c].has[s[k].op.handle] = NoFile
               /\ s[k].op.do = "logout" => client'[c].has = NoHandles
    <3>1. Follows(s[k].seq, client'[c].seq)
      BY <1>5, <1>12 DEF seq, Follows
    <3>2. s[k].op \in Op
      <4> HIDE DEF s
      <4>1. s[k] \in Request
        BY <1>2
      <4>2. QED
        BY <4>1 DEF Request
    <3>3. CASE s[k].op.do = "close"
      <4>1. s[k].op.handle \in Handle
        BY <3>2, <3>3, OpParts
      <4>2. client[c].has[s[k].op.handle] = NoFile
        BY <1>11, <3>3 DEF ClientInv, RequestsKnown
      <4>3. QED
        BY <1>4, <1>5, <3>1, <3>3, <4>1, <4>2
    <3>4. CASE s[k].op.do = "logout"
      <4>1. client[c].has = NoHandles
        BY <1>11, <3>4 DEF ClientInv, RequestsKnown
      <4>2. \A h \in Handle : Gives(c, op)[h] = NoFile
        BY <1>4, <4>1 DEF NoHandles
      <4>3. Gives(c, op) = NoHandles
        BY <1>4, <4>2 DEF NoHandles
      <4>4. QED
        BY <1>5, <3>1, <3>4, <4>3
    <3>5. QED
      BY <3>1, <3>3, <3>4
  <2>3. ASSUME NEW k \in DOMAIN t
        PROVE  /\ \/ client'[c].waiting /\ Follows(t[k].seq, client'[c].seq)
                  \/ t[k].seq = client'[c].seq /\ t[k].op = client'[c].op
               /\ t[k].op.do = "close" => client'[c].has[t[k].op.handle] = NoFile
               /\ t[k].op.do = "logout" => client'[c].has = NoHandles
    <3>1. CASE k \in DOMAIN s /\ t[k] = s[k]
      <4> HIDE DEF s, t
      <4>1. QED
        BY <1>5, <2>2, <3>1
    <3>2. CASE t[k] = r
      <4> HIDE DEF s, t
      <4>1. QED
        BY <1>4, <1>5, <3>2
    <3>3. QED
      BY <2>1, <3>1, <3>2
  <2>4. QED
    BY <2>3 DEF RequestsKnown, Latest, Before
<1>16. RepliesKnown(c)'
  <2>1. \A k \in DOMAIN replies[c] : Follows(replies[c][k].seq, client'[c].seq)
    BY <1>5, <1>13 DEF seq, Follows
  <2>2. \A k \in DOMAIN replies[c] : replies[c][k].seq # client'[c].seq
    BY <1>3, <1>5, <1>13
  <2>3. QED
    BY <1>1, <1>5, <2>1, <2>2 DEF RepliesKnown, Latest, Before
<1>17. InOrder(c, replies[c])'
  BY <1>1, <1>3, <1>5, <1>13 DEF InOrder, Latest
<1>18. AskedKnown(c)' /\ HandlesOf(c)'
  BY <1>1, <1>4, <1>5, <1>11 DEF ClientInv, AskedKnown, HandlesOf
<1>19. ClientInv(c)'
  BY <1>14, <1>15, <1>16, <1>17, <1>18 DEF ClientInv
<1>20. QED
  BY <1>9, <1>10, <1>19 DEF FilesInv

\* An answer to the last request comes when no other request is under way, and
\* one to the request before is dropped.
LEMMA KeepReceive ==
  ASSUME FilesInv, NEW c \in Client, Receive(c)
  PROVE  FilesInv'
<1> DEFINE s == replies[c]
           t == replies'[c]
           r == Head(s)
<1>1. /\ s # <<>> /\ replies' = [replies EXCEPT ![c] = Tail(s)]
      /\ UNCHANGED <<named, fh, requests>>
  BY DEF Receive, files
<1>2. s \in Seq(Reply) /\ t = Tail(s)
  BY <1>1 DEF FilesInv, Types
<1>3. /\ t \in Seq(Reply) /\ r \in Reply /\ r = s[1] /\ Len(s) \in Nat \ {0}
      /\ DOMAIN s = 1..Len(s) /\ DOMAIN t = 1..Len(s)-1
      /\ \A k \in DOMAIN t : t[k] = s[k + 1]
  <2> HIDE DEF s, t
  <2>1. QED
    BY <1>1, <1>2 DEF r
<1>4. ClientInv(c)
  BY DEF FilesInv
<1>5. CASE UNCHANGED client
  <2>1. Types'
    <3>1. replies' = [replies EXCEPT ![c] = t]
      BY <1>1, <1>2
    <3> HIDE DEF s, t
    <3>2. QED
      BY <1>1, <1>3, <1>5, <3>1 DEF FilesInv, Types
  <2>2. ASSUME NEW d \in Client, d # c PROVE ClientInv(d)'
    <3>1. replies'[d] = replies[d]
      BY <1>1, <2>2 DEF FilesInv, Types
    <3>2. QED
      BY <1>1, <1>5, <3>1, OthersKeep
  <2>3. \A k \in DOMAIN t : k + 1 \in DOMAIN s
    BY <1>3
  <2>4. InOrder(c, replies[c])'
    <3>1. ASSUME NEW j \in DOMAIN t, NEW k \in DOMAIN t, j < k, t[j].seq = client[c].seq
          PROVE  t[k].seq = client[c].seq
      <4>1. j + 1 \in DOMAIN s /\ k + 1 \in DOMAIN s /\ j + 1 < k + 1
        BY <1>3, <3>1
      <4>2. s[j + 1].seq = client[c].seq
        BY <1>3, <3>1
      <4>3. s[k + 1].seq = client[c].seq
        BY <1>4, <4>1, <4>2 DEF ClientInv, InOrder, Latest
      <4>4. QED
        BY <1>3, <4>3
    <3>2. QED
      BY <1>5, <3>1 DEF InOrder, Latest
  <2>5. RepliesKnown(c)'
    BY <1>1, <1>3, <1>4, <1>5, <2>3 DEF ClientInv, RepliesKnown, Latest, Before, Gave
  <2>6. InOrder(c, requests[c])' /\ RequestsKnown(c)' /\ AskedKnown(c)' /\ HandlesOf(c)'
    BY <1>1, <1>4, <1>5 DEF ClientInv, InOrder, RequestsKnown, AskedKnown, HandlesOf, Latest, Before
  <2>7. QED
    BY <2>1, <2>2, <2>4, <2>5, <2>6 DEF FilesInv, ClientInv
<1>6. CASE client[c].waiting /\ r.seq = client[c].seq
  <2> DEFINE has == IF Gave(r) THEN [client[c].has EXCEPT ![r.handle] = r.file] ELSE client[c].has
             new == [seq |-> client[c].seq, waiting |-> FALSE, op |-> client[c].op, has |-> has]
  <2>1. client[c] \in [seq : Seqno, waiting : BOOLEAN, op : Op, has : [Handle -> FileOrNone]]
    BY DEF FilesInv, Types
  <2>2. client' = [client EXCEPT ![c].waiting = FALSE,
                                 ![c].has = IF r.ok /\ r.do \in {"create", "open"}
                                            THEN [@ EXCEPT ![r.handle] = r.file] ELSE @]
    BY <1>6 DEF Receive
  <2>3. client' = [client EXCEPT ![c] = new]
    <3>1. client' = [client EXCEPT ![c] = [client[c] EXCEPT !.waiting = FALSE, !.has = has]]
      BY <2>2 DEF Gave
    <3>2. [client[c] EXCEPT !.waiting = FALSE, !.has = has] = new
      BY <2>1, Answered
    <3>3. QED
      BY <3>1, <3>2
  <2>4. r.handle \in Handle /\ r.file \in FileOrNone
    BY <1>3 DEF Reply, FileOrNone
  <2>5. has \in [Handle -> FileOrNone]
    BY <2>1, <2>4
  <2>6. /\ \A k \in DOMAIN requests[c] : Latest(c, requests[c][k])
        /\ r.do = client[c].op.do
        /\ Gave(r) => r.file # NoFile /\ fh[c][r.handle] = r.file
    <3>1. 1 \in DOMAIN s /\ Latest(c, s[1]) /\ ~Before(c, s[1])
      <4>1. r.seq \in Seqno
        BY <1>3 DEF Reply
      <4>2. QED
        BY <1>3, <1>6, <4>1, NotFollows DEF Latest, Before
    <3>2. QED
      BY <1>3, <1>4, <1>6, <3>1 DEF ClientInv, RepliesKnown
  <2>7. \A k \in DOMAIN s : Latest(c, s[k])
    <3>1. \A k \in DOMAIN s : 1 < k \/ k = 1
      BY <1>3
    <3>2. 1 \in DOMAIN s /\ Latest(c, s[1])
      BY <1>3, <1>6 DEF Latest
    <3>3. QED
      BY <1>4, <3>1, <3>2 DEF ClientInv, InOrder
  <2>8. \A k \in DOMAIN requests[c] : ~Before(c, requests[c][k])
    <3>1. ASSUME NEW k \in DOMAIN requests[c] PROVE ~Before(c, requests[c][k])
      <4>1. requests[c] \in Seq(Request)
        BY DEF FilesInv, Types
      <4>2. requests[c][k] \in Request
        BY <4>1
      <4>3. requests[c][k].seq \in Seqno
        BY <4>2 DEF Request
      <4>4. QED
        BY <2>6, <4>3, NotFollows DEF Latest, Before
    <3>2. QED
      BY <3>1
  <2>9. \A k \in DOMAIN s : s[k].do = client[c].op.do
    <3>1. ASSUME NEW k \in DOMAIN s PROVE ~Before(c, s[k])
      <4>1. s[k] \in Reply
        <5> HIDE DEF s
        <5>1. QED
          BY <1>2
      <4>2. s[k].seq \in Seqno
        BY <4>1 DEF Reply
      <4>3. QED
        BY <2>7, <4>2, NotFollows DEF Latest, Before
    <3>2. QED
      BY <1>4, <3>1 DEF ClientInv, RepliesKnown
  <2>10. /\ client'[c].seq = client[c].seq /\ client'[c].waiting = FALSE
         /\ client'[c].op = client[c].op /\ client'[c].has = has
         /\ \A d \in Client : d # c => client'[d] = client[d] /\ replies'[d] = replies[d]
    BY <1>1, <2>3 DEF FilesInv, Types
  <2>11. new \in [seq : Seqno, waiting : BOOLEAN, op : Op, has : [Handle -> FileOrNone]]
    BY <2>1, <2>5
  <2>12. /\ client[c].op.do \in {"close", "logout"} => has = client[c].has
         /\ \A h \in Handle : has[h] # NoFile => fh[c][h] = has[h]
    <3>1. CASE Gave(r)
      <4>1. client[c].op.do \notin {"close", "logout"}
        BY <2>6, <3>1 DEF Gave
      <4>2. has = [client[c].has EXCEPT ![r.handle] = r.file]
        BY <3>1
      <4>3. QED
        BY <1>4, <2>1, <2>4, <2>6, <3>1, <4>1, <4>2 DEF ClientInv, HandlesOf
    <3>2. CASE ~Gave(r)
      BY <1>4, <3>2 DEF ClientInv, HandlesOf
    <3>3. QED
      BY <3>1, <3>2
  <2> HIDE DEF has, new
  <2>13. Types'
    <3>1. replies' = [replies EXCEPT ![c] = t]
      BY <1>1, <1>2
    <3> HIDE DEF s, t
    <3>2. QED
      BY <1>1, <1>3, <2>3, <2>11, <3>1 DEF FilesInv, Types
  <2>14. ASSUME NEW d \in Client, d # c PROVE ClientInv(d)'
    BY <1>1, <2>10, <2>14, OthersKeep
  <2>15. RequestsKnown(c)'
    BY <1>1, <1>4, <2>6, <2>8, <2>10, <2>12 DEF ClientInv, RequestsKnown, Latest
  <2>16. InOrder(c, requests[c])' /\ AskedKnown(c)' /\ HandlesOf(c)'
    <3>1. InOrder(c, requests[c])'
      BY <1>1, <1>4, <2>10 DEF ClientInv, InOrder, Latest
    <3>2. AskedKnown(c)'
      BY <1>4, <2>10, <2>12 DEF ClientInv, AskedKnown
    <3>3. HandlesOf(c)'
      BY <1>1, <2>10, <2>12 DEF HandlesOf
    <3>4. QED
      BY <3>1, <3>2, <3>3
  <2>17. \A k \in DOMAIN t : t[k].seq = client[c].seq /\ t[k].do = client[c].op.do
    <3>1. \A k \in DOMAIN t : k + 1 \in DOMAIN s
      BY <1>3
    <3>2. QED
      BY <1>3, <2>7, <2>9, <3>1 DEF Latest
  <2>18. InOrder(c, replies[c])' /\ RepliesKnown(c)'
    BY <1>1, <2>6, <2>10, <2>17 DEF InOrder, RepliesKnown, Latest
  <2>19. QED
    BY <2>13, <2>14, <2>15, <2>16, <2>18 DEF FilesInv, ClientInv
<1>7. QED
  BY <1>5, <1>6 DEF Receive

-----------------------------------------------------------------------------
(* The server *)

\* What carrying out the request q does to the handles of c: an answer ok that
\* gives the handle h for the file f, or none.
Effect(c, q, ok, h, f) ==
  \/ fh' = fh /\ ~(ok /\ q.op.do \in {"create", "open"})
  \/ /\ q.op.do \in {"create", "open"} /\ f \in File /\ h \in FreeHandles(c)
     /\ fh' = [fh EXCEPT ![c][h] = f]
  \/ q.op.do = "close" /\ fh' = [fh EXCEPT ![c][q.op.handle] = NoFile]
  \/ q.op.do = "logout" /\ fh' = [fh EXCEPT ![c] = NoHandles]

LEMMA HandledIs ==
  ASSUME Types, NEW c \in Client, NEW q \in Request, HandleRequest(c, q)
  PROVE  /\ named' \in [Name -> FileOrNone]
         /\ \E ok \in BOOLEAN, h \in Handle, f \in FileOrNone :
              Answer(c, q, ok, h, f) /\ Effect(c, q, ok, h, f)
<1>1. q.op \in Op /\ 0 \in Handle /\ NoFile \in FileOrNone /\ File \subseteq FileOrNone
  BY Sizes DEF Request, Handle, FileOrNone
<1>2. named \in [Name -> FileOrNone] /\ fh \in [Client -> [Handle -> FileOrNone]]
  BY DEF Types
<1>3. CASE Fail(c, q)
  BY <1>1, <1>2, <1>3 DEF Fail, files, Effect
<1>4. ASSUME NEW f \in File, Opened(c, q, f), q.op.do \in {"create", "open"}
      PROVE  \E ok \in BOOLEAN, h \in Handle, g \in FileOrNone :
               Answer(c, q, ok, h, g) /\ Effect(c, q, ok, h, g)
  <2>1. FindFreeFh(c) \in FreeHandles(c) /\ FindFreeFh(c) \in Handle
    BY <1>4, FreeFh DEF Opened, FreeHandles
  <2>2. Answer(c, q, TRUE, FindFreeFh(c), f) /\ Effect(c, q, TRUE, FindFreeFh(c), f)
    BY <1>4, <2>1 DEF Opened, Effect
  <2>3. QED
    BY <1>1, <2>1, <2>2
<1>5. CASE Create(c, q)
  <2>1. PICK f \in IF named[q.op.name] # NoFile THEN {named[q.op.name]} ELSE Unused :
               Opened(c, q, f) /\ named' = [named EXCEPT ![q.op.name] = f]
    BY <1>5 DEF Create
  <2>2. q.op.do = "create" /\ q.op.name \in Name
    BY <1>1, <1>5, OpParts DEF Create
  <2>3. f \in File
    BY <1>2, <2>1, <2>2 DEF Unused, FileOrNone
  <2>4. named' \in [Name -> FileOrNone]
    BY <1>1, <1>2, <2>1, <2>3
  <2>5. QED
    BY <1>4, <2>1, <2>2, <2>3, <2>4
<1>6. CASE Open(c, q)
  <2>1. /\ q.op.do = "open" /\ named[q.op.name] # NoFile
        /\ Opened(c, q, named[q.op.name]) /\ named' = named
    BY <1>6 DEF Open
  <2>2. q.op.name \in Name
    BY <1>1, <2>1, OpParts
  <2>3. named[q.op.name] \in File
    BY <1>2, <2>1, <2>2 DEF FileOrNone
  <2>4. QED
    BY <1>2, <1>4, <2>1, <2>3
<1>7. CASE Read(c, q) \/ Write(c, q)
  <2>1. q.op.do \in {"read", "write"} /\ named' = named /\ fh' = fh
    BY <1>7 DEF Read, Write, files
  <2>2. q.op.handle \in Handle
    BY <1>1, <2>1, OpParts
  <2>3. fh[c][q.op.handle] \in FileOrNone
    BY <1>2, <2>2
  <2>4. Answer(c, q, TRUE, q.op.handle, fh[c][q.op.handle])
    BY <1>7 DEF Read, Write
  <2>5. Effect(c, q, TRUE, q.op.handle, fh[c][q.op.handle])
    BY <2>1 DEF Effect
  <2>6. QED
    BY <1>2, <2>1, <2>2, <2>3, <2>4, <2>5
<1>8. CASE Close(c, q)
  BY <1>1, <1>2, <1>8 DEF Close, Done, Effect
<1>9. CASE Logout(c, q)
  BY <1>1, <1>2, <1>9 DEF Logout, Done, Effect
<1>10. CASE Rename(c, q)
  <2>1. /\ q.op.do = "rename" /\ fh' = fh /\ Answer(c, q, TRUE, 0, NoFile)
        /\ named' = [named EXCEPT ![q.op.from] = IF q.op.from = q.op.to THEN @ ELSE NoFile,
                                  ![q.op.to] = named[q.op.from]]
    BY <1>10 DEF Rename, Done
  <2>2. q.op.from \in Name /\ q.op.to \in Name
    BY <1>1, <2>1, OpParts
  <2>3. named' \in [Name -> FileOrNone]
    BY <1>1, <1>2, <2>1, <2>2
  <2>4. QED
    BY <1>1, <2>1, <2>3 DEF Effect
<1>11. CASE Erase(c, q)
  <2>1. PICK gone \in SUBSET Name, ok \in BOOLEAN :
          /\ named' = [n \in Name |-> IF n \in gone THEN NoFile ELSE named[n]]
          /\ Answer(c, q, ok, 0, NoFile)
    <3> DEFINE there == {n \in q.op.names : named[n] # NoFile}
    <3>1. PICK gone \in SUBSET there :
            /\ named' = [n \in Name |-> IF n \in gone THEN NoFile ELSE named[n]]
            /\ Answer(c, q, gone = there /\ there # {}, 0, NoFile)
      BY <1>11 DEF Erase
    <3>2. q.op.do = "erase" /\ q.op.names \subseteq Name
      BY <1>1, <1>11 DEF Erase, Op
    <3>3. gone \in SUBSET Name /\ (gone = there /\ there # {}) \in BOOLEAN
      BY <3>1, <3>2
    <3>4. QED
      BY <3>1, <3>3
  <2>2. q.op.do = "erase" /\ fh' = fh
    BY <1>11 DEF Erase
  <2>3. named' \in [Name -> FileOrNone]
    BY <1>1, <1>2, <2>1
  <2>4. QED
    BY <1>1, <2>1, <2>2, <2>3 DEF Effect
<1>12. QED
  BY <1>3, <1>5, <1>6, <1>7, <1>8, <1>9, <1>10, <1>11 DEF HandleRequest

\* The first request is carried out and its answer put behind the others.
LEMMA KeepRequest ==
  ASSUME FilesInv, NEW c \in Client,
         1 \in DOMAIN requests[c], requests' = [requests EXCEPT ![c] = RemoveAt(@, 1)],
         HandleRequest(c, requests[c][1]), client' = client
  PROVE  FilesInv'
<1> DEFINE s == requests[c]
           t == requests'[c]
           q == s[1]
           a == replies[c]
           b == replies'[c]
<1>1. /\ 1 \in DOMAIN s /\ requests' = [requests EXCEPT ![c] = RemoveAt(s, 1)]
      /\ HandleRequest(c, q) /\ client' = client
  OBVIOUS
<1>2. s \in Seq(Request) /\ t = RemoveAt(s, 1) /\ a \in Seq(Reply) /\ ClientInv(c) /\ Types
  BY <1>1 DEF FilesInv, Types
<1>3. /\ t \in Seq(Request) /\ q \in Request
      /\ \A k \in DOMAIN t : \E m \in DOMAIN s : t[k] = s[m]
      /\ \A j, k \in DOMAIN t : j < k => \E m, n \in DOMAIN s : m < n /\ t[j] = s[m] /\ t[k] = s[n]
  <2> HIDE DEF s, t
  <2>1. QED
    BY <1>1, <1>2, Shorter DEF q
<1>4. PICK ok \in BOOLEAN, h \in Handle, f \in FileOrNone :
        Answer(c, q, ok, h, f) /\ Effect(c, q, ok, h, f)
  <2> HIDE DEF q
  <2>1. QED
    BY <1>1, <1>2, <1>3, HandledIs
<1>5. named' \in [Name -> FileOrNone]
  <2> HIDE DEF q
  <2>1. QED
    BY <1>1, <1>2, <1>3, HandledIs
<1> DEFINE p == [seq |-> q.seq, ok |-> ok, handle |-> h, file |-> f, do |-> q.op.do]
<1>6. replies' = [replies EXCEPT ![c] = Append(a, p)] /\ b = Append(a, p)
  BY <1>4 DEF Answer, FilesInv, Types
<1>7. /\ p.seq = q.seq /\ p.ok = ok /\ p.handle = h /\ p.file = f /\ p.do = q.op.do
      /\ p \in Reply
  <2>1. q.seq \in Seqno /\ q.op \in Op
    <3> HIDE DEF q
    <3>1. QED
      BY <1>3 DEF Request
  <2>2. q.op.do \in Does
    BY <2>1, OpParts
  <2> HIDE DEF q
  <2>3. QED
    BY <2>1, <2>2 DEF Reply, FileOrNone
<1> HIDE DEF p
<1>8. /\ b \in Seq(Reply) /\ DOMAIN a = 1..Len(a) /\ DOMAIN b = 1..Len(a)+1 /\ Len(a) \in Nat
      /\ b[Len(a) + 1] = p /\ \A k \in DOMAIN a : b[k] = a[k]
  <2> HIDE DEF a, b
  <2>1. QED
    BY <1>2, <1>6, <1>7
<1>9. \A k \in DOMAIN b : (k \in DOMAIN a /\ b[k] = a[k]) \/ b[k] = p
  BY <1>8
<1>10. /\ Before(c, q) \/ (Latest(c, q) /\ q.op = client[c].op)
       /\ q.op.do = "close" => client[c].has[q.op.handle] = NoFile
       /\ q.op.do = "logout" => client[c].has = NoHandles
  BY <1>1, <1>2 DEF ClientInv, RequestsKnown
<1>11. /\ fh \in [Client -> [Handle -> FileOrNone]]
       /\ \A g \in Handle : fh[c][g] # NoFile => g \notin FreeHandles(c)
  BY <1>2 DEF Types, FreeHandles
<1>12. /\ fh' \in [Client -> [Handle -> FileOrNone]]
       /\ \A d \in Client : d # c => fh'[d] = fh[d]
  <2>1. NoHandles \in [Handle -> FileOrNone] /\ NoFile \in FileOrNone
    BY DEF NoHandles, FileOrNone
  <2> DEFINE Kept == /\ fh' \in [Client -> [Handle -> FileOrNone]]
                     /\ \A d \in Client : d # c => fh'[d] = fh[d]
  <2>2. ASSUME NEW g, NEW v \in FileOrNone, fh' = [fh EXCEPT ![c][g] = v] PROVE Kept
    BY <1>11, <2>2
  <2>3. fh' = [fh EXCEPT ![c] = NoHandles] => Kept
    BY <1>11, <2>1
  <2>4. fh' = fh => Kept
    BY <1>11
  <2> HIDE DEF Kept, q
  <2>5. Kept
    BY <1>4, <2>1, <2>2, <2>3, <2>4 DEF Effect
  <2>6. QED
    BY <2>5 DEF Kept
<1>13. Types'
  <2>1. /\ requests' = [requests EXCEPT ![c] = t]
        /\ replies' = [replies EXCEPT ![c] = b]
    BY <1>1, <1>2, <1>6
  <2> HIDE DEF t, b
  <2>2. requests' \in [Client -> Seq(Request)]
    BY <1>2, <1>3, <2>1 DEF Types
  <2>3. replies' \in [Client -> Seq(Reply)]
    BY <1>2, <1>8, <2>1 DEF Types
  <2>4. QED
    BY <1>1, <1>2, <1>5, <1>12, <2>2, <2>3 DEF Types
<1>14. ASSUME NEW d \in Client, d # c PROVE ClientInv(d)'
  <2>1. requests'[d] = requests[d] /\ replies'[d] = replies[d]
    BY <1>1, <1>2, <1>6, <1>14 DEF Types
  <2>2. QED
    BY <1>1, <1>12, <1>14, <2>1, OthersKeep
\* A request of the last kind leaves no other before or behind it.
<1>15. Latest(c, q) => \A k \in DOMAIN s : Latest(c, s[k])
  <2>1. \A k \in DOMAIN s : 1 < k \/ k = 1
    BY <1>2
  <2>2. QED
    BY <1>1, <1>2, <2>1 DEF ClientInv, InOrder
<1>16. \A k \in DOMAIN a : Latest(c, a[k]) => Latest(c, q)
  BY <1>1, <1>2 DEF ClientInv, RepliesKnown
<1>17. InOrder(c, requests[c])'
  <2>1. ASSUME NEW j \in DOMAIN t, NEW k \in DOMAIN t, j < k, t[j].seq = client[c].seq
        PROVE  t[k].seq = client[c].seq
    <3>1. PICK m, n \in DOMAIN s : m < n /\ t[j] = s[m] /\ t[k] = s[n]
      BY <1>3, <2>1
    <3>2. QED
      BY <1>2, <2>1, <3>1 DEF ClientInv, InOrder, Latest
  <2>2. QED
    BY <1>1, <2>1 DEF InOrder, Latest
<1>18. RequestsKnown(c)'
  BY <1>1, <1>2, <1>3 DEF ClientInv, RequestsKnown, Latest, Before
<1>19. InOrder(c, replies[c])'
  <2>1. ASSUME NEW j \in DOMAIN b, NEW k \in DOMAIN b, j < k, b[j].seq = client[c].seq
        PROVE  b[k].seq = client[c].seq
    <3>1. j \in DOMAIN a /\ b[j] = a[j]
      BY <1>8, <2>1
    <3>2. CASE k \in DOMAIN a /\ b[k] = a[k]
      BY <1>2, <2>1, <3>1, <3>2 DEF ClientInv, InOrder, Latest
    <3>3. CASE b[k] = p
      BY <1>7, <1>16, <2>1, <3>1, <3>3 DEF Latest
    <3>4. QED
      BY <1>9, <3>2, <3>3
  <2>2. QED
    BY <1>1, <2>1 DEF InOrder, Latest
<1>20. HandlesOf(c)'
  <2>1. ASSUME NEW g \in Handle, client[c].has[g] # NoFile
        PROVE  fh'[c][g] = client[c].has[g]
    <3>1. fh[c][g] = client[c].has[g] /\ g \notin FreeHandles(c)
      BY <1>2, <1>11, <2>1 DEF ClientInv, HandlesOf
    <3>2. q.op.do # "logout"
      BY <1>10, <2>1 DEF NoHandles
    <3>3. q.op.do = "close" => g # q.op.handle
      BY <1>10, <2>1
    <3>4. QED
      BY <1>4, <1>11, <3>1, <3>2, <3>3 DEF Effect
  <2>2. QED
    BY <1>1, <2>1 DEF HandlesOf
<1>21. RepliesKnown(c)'
  <2>1. ASSUME NEW k \in DOMAIN b
        PROVE  /\ Before(c, b[k]) \/ (Latest(c, b[k]) /\ b[k].do = client[c].op.do)
               /\ Latest(c, b[k]) => \A j \in DOMAIN t : Latest(c, t[j])
               /\ Latest(c, b[k]) /\ client[c].waiting /\ Gave(b[k])
                    => b[k].file # NoFile /\ fh'[c][b[k].handle] = b[k].file
    <3>1. CASE b[k] = p
      <4>1. Before(c, p) \/ (Latest(c, p) /\ p.do = client[c].op.do)
        BY <1>7, <1>10 DEF Before, Latest
      <4>2. Latest(c, p) => \A j \in DOMAIN t : Latest(c, t[j])
        BY <1>3, <1>7, <1>15 DEF Latest
      <4>3. Gave(p) => p.file # NoFile /\ fh'[c][p.handle] = p.file
        BY <1>4, <1>7, <1>11 DEF Gave, Effect, File, NoFile
      <4>4. QED
        BY <3>1, <4>1, <4>2, <4>3
    <3>2. CASE k \in DOMAIN a /\ b[k] = a[k]
      <4>1. /\ Before(c, a[k]) \/ (Latest(c, a[k]) /\ a[k].do = client[c].op.do)
            /\ Latest(c, a[k]) /\ client[c].waiting /\ Gave(a[k])
                 => a[k].file # NoFile /\ fh[c][a[k].handle] = a[k].file
        BY <1>2, <3>2 DEF ClientInv, RepliesKnown
      <4>2. Latest(c, a[k]) => \A j \in DOMAIN t : Latest(c, t[j])
        BY <1>3, <1>15, <1>16, <3>2
      <4>3. ASSUME Latest(c, a[k]), client[c].waiting, Gave(a[k])
            PROVE  fh'[c][a[k].handle] = a[k].file
        <5>1. a[k].handle \in Handle
          <6> HIDE DEF a
          <6>1. a[k] \in Reply
            BY <1>2, <3>2
          <6>2. QED
            BY <6>1 DEF Reply
        <5>2. fh[c][a[k].handle] = a[k].file /\ a[k].handle \notin FreeHandles(c)
          BY <1>11, <4>1, <4>3, <5>1
        <5>3. q.seq \in Seqno
          <6> HIDE DEF q
          <6>1. QED
            BY <1>3 DEF Request
        <5>4. Latest(c, q) /\ ~Before(c, q)
          BY <1>16, <3>2, <4>3, <5>3, NotFollows DEF Latest, Before
        <5>5. ~Before(c, a[k])
          BY <5>3, <5>4, <4>3, NotFollows DEF Latest, Before
        <5>6. q.op.do = a[k].do /\ q.op.do \in {"create", "open"}
          BY <1>10, <4>1, <4>3, <5>4, <5>5 DEF Gave
        <5>7. QED
          BY <1>4, <1>11, <5>1, <5>2, <5>6 DEF Effect
      <4>4. QED
        BY <3>2, <4>1, <4>2, <4>3
    <3>3. QED
      BY <1>9, <3>1, <3>2
  <2>2. QED
    BY <1>1, <2>1 DEF RepliesKnown, Before, Latest
<1>22. AskedKnown(c)'
  BY <1>1, <1>2 DEF ClientInv, AskedKnown
<1>23. QED
  BY <1>13, <1>14, <1>17, <1>18, <1>19, <1>20, <1>21, <1>22 DEF FilesInv, ClientInv

LEMMA KeepHandle ==
  ASSUME Ordered, FilesInv, NEW c \in Client, HandlePacket(c)
  PROVE  FilesInv'
<1>1. /\ 1 \in DOMAIN requests[c] /\ requests' = [requests EXCEPT ![c] = RemoveAt(@, 1)]
      /\ UnknownType(requests[c][1]) \/ HandleRequest(c, requests[c][1])
      /\ client' = client
  BY DEF HandlePacket
<1>2. CASE UnknownType(requests[c][1])
  BY <1>1, <1>2, KeepDropped DEF UnknownType, Dropped
<1>3. CASE HandleRequest(c, requests[c][1])
  BY <1>1, <1>3, KeepRequest
<1>4. QED
  BY <1>1, <1>2, <1>3

-----------------------------------------------------------------------------
(* The whole *)

LEMMA FilesInvInit ==
  ASSUME Init
  PROVE  FilesInv
<1> DEFINE new == [seq |-> 0, waiting |-> FALSE, op |-> [do |-> "logout"], has |-> NoHandles]
<1>1. /\ named = [n \in Name |-> NoFile] /\ fh = [c \in Client |-> NoHandles]
      /\ requests = [c \in Client |-> <<>>] /\ replies = [c \in Client |-> <<>>]
      /\ client = [c \in Client |-> new]
  BY DEF Init
<1>2. NoHandles \in [Handle -> FileOrNone] /\ NoFile \in FileOrNone /\ 0 \in Seqno
  BY Sizes DEF NoHandles, FileOrNone, Seqno
<1>3. [do |-> "logout"] \in Op
  BY DEF Op
<1>4. /\ new \in [seq : Seqno, waiting : BOOLEAN, op : Op, has : [Handle -> FileOrNone]]
      /\ new.op.do = "logout" /\ new.has = NoHandles
  BY <1>2, <1>3
<1> HIDE DEF new
<1>5. Types
  BY <1>1, <1>2, <1>4 DEF Types
<1>6. ASSUME NEW c \in Client PROVE ClientInv(c)
  <2>1. requests[c] = <<>> /\ replies[c] = <<>> /\ client[c] = new /\ fh[c] = NoHandles
    BY <1>1
  <2>2. InOrder(c, requests[c]) /\ InOrder(c, replies[c]) /\ RequestsKnown(c) /\ RepliesKnown(c)
    BY <2>1 DEF InOrder, RequestsKnown, RepliesKnown
  <2>3. AskedKnown(c) /\ HandlesOf(c)
    BY <1>4, <2>1 DEF AskedKnown, HandlesOf
  <2>4. QED
    BY <2>2, <2>3 DEF ClientInv
<1>7. QED
  BY <1>5, <1>6 DEF FilesInv

LEMMA FilesInvNext ==
  ASSUME Ordered, FilesInv, [Next]_vars
  PROVE  FilesInv'
<1>1. CASE UNCHANGED vars \/ TooSmall
  <2>1. UNCHANGED <<named, fh, requests, replies, client>>
    BY <1>1 DEF vars, files, TooSmall
  <2>2. ASSUME NEW d \in Client PROVE ClientInv(d)'
    BY <2>1, OthersKeep
  <2>3. QED
    BY <2>1, <2>2 DEF FilesInv, Types
<1>2. QED
  BY <1>1, KeepHandle, KeepSend, KeepRetry, KeepReceive, KeepLose DEF Next

LEMMA FilesInvHolds ==
  ASSUME Ordered
  PROVE  Spec => []FilesInv
<1>1. Init => FilesInv
  BY FilesInvInit
<1>2. FilesInv /\ [Next]_vars => FilesInv'
  BY FilesInvNext
<1>3. QED
  BY <1>1, <1>2, PTL DEF Spec

\* A client that takes the answer of its number takes one to its request: ncp.c
\* sends back the number it was sent, and two numbers are enough, as nothing
\* overtakes what was sent before.
THEOREM AnswersAreTheirs ==
  ASSUME Ordered
  PROVE  Spec => []AnswersAreOwn
<1>1. ASSUME FilesInv, NEW c \in Client, replies[c] # <<>>, client[c].waiting,
             Head(replies[c]).seq = client[c].seq
      PROVE  Head(replies[c]).do = client[c].op.do
  <2> DEFINE s == replies[c]
  <2>1. s \in Seq(Reply) /\ s # <<>> /\ ClientInv(c)
    BY <1>1 DEF FilesInv, Types
  <2>2. Head(s) = s[1] /\ 1 \in DOMAIN s /\ s[1] \in Reply
    <3> HIDE DEF s
    <3>1. QED
      BY <2>1
  <2>3. s[1].seq \in Seqno
    <3> HIDE DEF s
    <3>1. QED
      BY <2>2 DEF Reply
  <2>4. ~Before(c, s[1])
    BY <1>1, <2>2, <2>3, NotFollows DEF Before
  <2>5. QED
    BY <2>1, <2>2, <2>4 DEF ClientInv, RepliesKnown
<1>2. FilesInv => AnswersAreOwn
  BY <1>1 DEF AnswersAreOwn
<1>3. QED
  BY <1>2, FilesInvHolds, PTL

\* A file handle stays with the file that fs_open_file gave it for until its
\* client asks for it to be closed, though any request may be carried out twice:
\* the second copy of a close or of an open comes before anything that follows.
THEOREM HandlesStayOpen ==
  ASSUME Ordered
  PROVE  Spec => []HandlesStay
<1>1. FilesInv => HandlesStay
  BY DEF FilesInv, ClientInv, HandlesOf, HandlesStay
<1>2. QED
  BY <1>1, FilesInvHolds, PTL

=============================================================================
