------------------------ MODULE FrommelDirectoryProofs ------------------------
(***************************************************************************)
(* Directory and search handles, volumes, and the trustees of directories, *)
(* for every number of clients, handles, volumes, directories, objects and *)
(* records, and every set of paths that clients may send.                  *)
(***************************************************************************)
EXTENDS FrommelHandles, FrommelTrustee, SequenceTheorems, WellFoundedInduction, TLAPS

\* The types of what the argument is about; search handles are no part of it.
DirsOK ==
  /\ used \subseteq Client
  /\ dh \in [Client -> [Dir -> DirHandle]]
  /\ mounted \subseteq Volume
  /\ strayed \in BOOLEAN

\* SYS is never dismounted, and a connection that is not in use, which
\* fs_volume_inuse does not look at, has no handles unless one strayed there.
SysMounted  == 0 \in mounted
UnusedEmpty == ~strayed => \A c \in Client \ used, h \in Dir : ~InUse(c, h)

HandleInv == DirsOK /\ SysMounted /\ UnusedEmpty /\ HandlesOnMountedVolumes

-----------------------------------------------------------------------------
(* Handles the actions write *)

LEMMA FixedHandles ==
  /\ 0 \in Volume /\ Volume \subseteq Volno
  /\ Unused \in DirHandle /\ LoginHandle \in DirHandle
  /\ Unused.flags = "unused" /\ LoginHandle.volno = 0
<1>1. 0 \in Volume /\ Volume \subseteq Volno
  BY HandlesAssumption DEF Volume, Volno
<1>2. <<Empty>> \in Seq(Part) /\ <<Login>> \in Seq(Part)
  BY HandlesAssumption DEF Part
<1>3. QED
  BY <1>1, <1>2 DEF Unused, LoginHandle, DirHandle

\* A handle that is allocated is a handle, and its volume is mounted: the
\* volume before the first colon was looked up, and without one it is SYS.
LEMMA SplitMounted ==
  ASSUME NEW p \in Input, DirsOK, SysMounted, Buildable(p)
  PROVE  Split(p).volno \in mounted /\ Split(p).path \in Seq(Part)
<1>1. p \in Seq(Part) /\ p # <<>>
  BY InputAssumption
<1>2. CASE 1 \in Colons(p)
  <2>1. 1 \in DOMAIN p /\ p[1] \in Part /\ p[1] \notin Name
    BY <1>1, <1>2 DEF Colons
  <2>2. p[1].vol \in Volume /\ p[1].name \in Name
    BY <2>1 DEF Part
  <2>3. First(1, Colons(p))
    <3>1. \A i \in Colons(p) : i \in Nat /\ 1 <= i
      BY <1>1 DEF Colons
    <3>2. QED
      BY <1>2, <3>1 DEF First
  <2>4. p[1].vol \in mounted
    BY <1>2, <2>3 DEF Buildable
  <2>5. p[1].name \in Part
    BY <2>2 DEF Part
  <2>6. [p EXCEPT ![1] = p[1].name] \in Seq(Part)
    BY <1>1, <2>1, <2>5, ExceptSeq
  <2>7. QED
    BY <1>2, <2>4, <2>6 DEF Split
<1>3. CASE 1 \notin Colons(p)
  BY <1>1, <1>3 DEF Split, SysMounted
<1>4. QED
  BY <1>2, <1>3

-----------------------------------------------------------------------------
(* Steps *)

\* What every action but a dismount does: it replaces handles of one client
\* by handles on mounted volumes.
LEMMA Replaced ==
  ASSUME HandleInv, NEW c \in Client, NEW t \in [Dir -> DirHandle],
         dh' = [dh EXCEPT ![c] = t], used' \subseteq Client, used \ {c} \subseteq used',
         mounted' = mounted, strayed' = strayed,
         ~strayed => \A h \in Dir : t[h].flags # "unused" => c \in used' /\ t[h].volno \in mounted
  PROVE  HandleInv'
<1>1. dh' \in [Client -> [Dir -> DirHandle]] /\ DirsOK'
  BY DEF HandleInv, DirsOK
<1>2. \A d \in Client : dh'[d] = IF d = c THEN t ELSE dh[d]
  BY DEF HandleInv, DirsOK
<1>3. UnusedEmpty'
  BY <1>2 DEF HandleInv, UnusedEmpty, InUse
<1>4. HandlesOnMountedVolumes'
  BY <1>2 DEF HandleInv, HandlesOnMountedVolumes, EveryHandleOnMountedVolume, InUse
<1>5. QED
  BY <1>1, <1>3, <1>4 DEF HandleInv, SysMounted

\* The same for one handle of a client that is connected.
LEMMA ReplacedOne ==
  ASSUME HandleInv, NEW c \in used, NEW h \in Dir, NEW r \in DirHandle,
         dh' = [dh EXCEPT ![c][h] = r], UNCHANGED <<used, mounted, strayed>>,
         ~strayed /\ r.flags # "unused" => r.volno \in mounted
  PROVE  HandleInv'
<1> DEFINE t == [dh[c] EXCEPT ![h] = r]
<1>1. c \in Client /\ t \in [Dir -> DirHandle] /\ dh' = [dh EXCEPT ![c] = t]
  BY DEF HandleInv, DirsOK
<1>2. \A g \in Dir : t[g] = IF g = h THEN r ELSE dh[c][g]
  BY DEF HandleInv, DirsOK
<1>3. ~strayed => \A g \in Dir : t[g].flags # "unused"
                                 => c \in used' /\ t[g].volno \in mounted
  BY <1>1, <1>2 DEF HandleInv, HandlesOnMountedVolumes, EveryHandleOnMountedVolume, InUse
<1>4. /\ used' \subseteq Client /\ used \ {c} \subseteq used'
      /\ mounted' = mounted /\ strayed' = strayed
  BY DEF HandleInv, DirsOK
<1> HIDE DEF t
<1>5. QED
  BY <1>1, <1>3, <1>4, Replaced

LEMMA HandlesInit == Init => HandleInv
<1> SUFFICES ASSUME Init PROVE HandleInv
  OBVIOUS
<1>1. DirsOK /\ SysMounted
  BY FixedHandles DEF Init, DirsOK, SysMounted
<1>2. \A c \in Client, h \in Dir : ~InUse(c, h)
  BY FixedHandles DEF Init, InUse
<1>3. QED
  BY <1>1, <1>2 DEF HandleInv, UnusedEmpty, HandlesOnMountedVolumes, EveryHandleOnMountedVolume

LEMMA HandlesStep == HandleInv /\ [Next]_vars => HandleInv'
<1> SUFFICES ASSUME HandleInv, [Next]_vars PROVE HandleInv'
  OBVIOUS
<1>0. DirsOK /\ SysMounted
  BY DEF HandleInv
<1>1. ASSUME NEW c \in Client, LogOut(c) PROVE HandleInv'
  <2>1. PICK first \in {LoginHandle, Unused} : dh' = [dh EXCEPT ![c] = Fresh(first)]
    BY <1>1 DEF LogOut
  <2>2. Fresh(first) \in [Dir -> DirHandle]
    BY FixedHandles DEF Fresh
  <2>3. /\ used' = used \cup {c} /\ used' \subseteq Client /\ used \ {c} \subseteq used'
        /\ mounted' = mounted /\ strayed' = strayed
    BY <1>0, <1>1 DEF LogOut, DirsOK
  <2>4. \A h \in Dir : Fresh(first)[h].flags # "unused"
                         => c \in used' /\ Fresh(first)[h].volno \in mounted
    BY <1>0, <2>3, FixedHandles DEF Fresh, SysMounted
  <2>5. QED
    BY <2>1, <2>2, <2>3, <2>4, Replaced
<1>2. ASSUME NEW c \in Client, Wipe(c) PROVE HandleInv'
  <2>1. [h \in Dir |-> Unused] \in [Dir -> DirHandle]
    BY FixedHandles
  <2>2. \A h \in Dir : [g \in Dir |-> Unused][h].flags = "unused"
    BY FixedHandles
  <2>3. /\ used' \subseteq Client /\ used \ {c} \subseteq used'
        /\ mounted' = mounted /\ strayed' = strayed
    BY <1>0, <1>2 DEF Wipe, DirsOK
  <2>4. dh' = [dh EXCEPT ![c] = [h \in Dir |-> Unused]]
    BY <1>2 DEF Wipe
  <2>5. QED
    BY <2>1, <2>2, <2>3, <2>4, Replaced
<1>3. ASSUME NEW c \in Client, EndOfJob(c) PROVE HandleInv'
  BY <1>3 DEF EndOfJob, HandleInv, DirsOK, SysMounted, UnusedEmpty,
              HandlesOnMountedVolumes, EveryHandleOnMountedVolume, InUse
<1>4. ASSUME NEW c \in Client, AllocDirFails(c) PROVE HandleInv'
  <2>1. PICK h \in Dir : dh' = [dh EXCEPT ![c][h] = Unused]
    BY <1>4 DEF AllocDirFails
  <2>2. c \in used /\ UNCHANGED <<used, mounted, strayed>>
    BY <1>4 DEF AllocDirFails
  <2>3. QED
    BY <2>1, <2>2, FixedHandles, ReplacedOne
<1>5. ASSUME NEW c \in Client, NEW flags \in {"perm", "temp"}, NEW p \in Input,
             AllocDir(c, flags, p)
      PROVE  HandleInv'
  <2> DEFINE r == [flags |-> flags, volno |-> Split(p).volno, path |-> Split(p).path]
  <2>1. PICK h \in Dir : dh' = [dh EXCEPT ![c][h] = r]
    BY <1>5 DEF AllocDir
  <2>2. c \in used /\ Buildable(p) /\ UNCHANGED <<used, mounted, strayed>>
    BY <1>5 DEF AllocDir
  <2>3. Split(p).volno \in mounted /\ Split(p).path \in Seq(Part)
    BY <1>0, <2>2, SplitMounted
  <2>4. r \in DirHandle /\ r.volno \in mounted
    BY <1>0, <2>3 DEF DirHandle, DirsOK, Volno
  <2> HIDE DEF r
  <2>5. QED
    BY <2>1, <2>2, <2>4, ReplacedOne
<1>6. ASSUME NEW c \in Client, NEW h \in 0..NDirs, DeallocDir(c, h) PROVE HandleInv'
  <2>1. CASE h = NDirs
    BY <1>6, <2>1 DEF DeallocDir, HandleInv, DirsOK, SysMounted, UnusedEmpty,
                      HandlesOnMountedVolumes, EveryHandleOnMountedVolume, InUse
  <2>2. CASE h # NDirs
    <3>1. h \in Dir
      BY <2>2, HandlesAssumption DEF Dir
    <3>2. c \in used /\ dh' = [dh EXCEPT ![c][h] = Unused] /\ UNCHANGED <<used, mounted, strayed>>
      BY <1>6, <2>2 DEF DeallocDir
    <3>3. QED
      BY <3>1, <3>2, FixedHandles, ReplacedOne
  <2>3. QED
    BY <2>1, <2>2
<1>7. ASSUME NEW c \in used, NEW dest \in Dir, NEW src \in Dir, NEW p \in Seq(Part),
             dh' = [dh EXCEPT ![c][dest] = [dh[c][src] EXCEPT !.path = p]],
             UNCHANGED <<used, mounted, strayed>>
      PROVE  HandleInv'
  <2> DEFINE r == [dh[c][src] EXCEPT !.path = p]
  <2>1. dh[c][src] \in DirHandle
    BY <1>0 DEF DirsOK
  <2>2. r \in DirHandle /\ r.flags = dh[c][src].flags /\ r.volno = dh[c][src].volno
    BY <2>1 DEF DirHandle
  <2>3. ~strayed /\ r.flags # "unused" => r.volno \in mounted
    BY <1>0, <2>2 DEF HandleInv, HandlesOnMountedVolumes, EveryHandleOnMountedVolume,
                      InUse, DirsOK
  <2>4. dh' = [dh EXCEPT ![c][dest] = r]
    BY <1>7
  <2> HIDE DEF r
  <2>5. QED
    BY <1>7, <2>2, <2>3, <2>4, ReplacedOne
<1>8. ASSUME NEW c \in Client, NEW dest \in Dir, NEW src \in Dir, SetDirUp(c, dest, src)
      PROVE  HandleInv'
  <2> DEFINE q == dh[c][src].path
             p == IF Len(q) > 1 THEN SubSeq(q, 1, Len(q) - 1) ELSE q
  <2>1. q \in Seq(Part)
    BY <1>0 DEF DirsOK, DirHandle
  <2>2. p \in Seq(Part)
    BY <2>1, SubSeqProperties
  <2>3. /\ c \in used /\ UNCHANGED <<used, mounted, strayed>>
        /\ dh' = [dh EXCEPT ![c][dest] = [dh[c][src] EXCEPT !.path = p]]
    BY <1>8 DEF SetDirUp
  <2> HIDE DEF p
  <2>4. QED
    BY <1>7, <2>2, <2>3
<1>9. ASSUME NEW c \in Client, NEW dest \in Dir, NEW src \in Dir, NEW q \in Input,
             SetDirPath(c, dest, src, q)
      PROVE  HandleInv'
  <2>1. dh[c][src].path \in Seq(Part) /\ q \in Seq(Part) /\ <<Empty>> \in Seq(Part)
    BY <1>0, InputAssumption, HandlesAssumption DEF DirsOK, DirHandle, Part
  <2>2. PICK p \in Appended(dh[c][src].path, q) :
          dh' = [dh EXCEPT ![c][dest] = [dh[c][src] EXCEPT !.path = p]]
    BY <1>9 DEF SetDirPath
  <2>3. p \in Seq(Part)
    <3>1. \A a, b \in Seq(Part) : a \o b \in Seq(Part)
      BY ConcatProperties
    <3>2. QED
      BY <2>1, <2>2, <3>1 DEF Appended
  <2>4. c \in used /\ UNCHANGED <<used, mounted, strayed>>
    BY <1>9 DEF SetDirPath
  <2>5. QED
    BY <1>7, <2>2, <2>3, <2>4
<1>10. ASSUME NEW c \in Client, NEW h \in Dir, NEW q \in Input, InitSearch(c, h, q)
       PROVE  HandleInv'
  BY <1>10 DEF InitSearch, HandleInv, DirsOK, SysMounted, UnusedEmpty,
               HandlesOnMountedVolumes, EveryHandleOnMountedVolume, InUse
<1>11. ASSUME NEW v \in Volume, Dismount(v) PROVE HandleInv'
  <2>1. \A c \in used, h \in Dir : InUse(c, h) => dh[c][h].volno # v
    BY <1>11 DEF Dismount, VolumeInUse
  <2>2. ~strayed => \A c \in Client, h \in Dir :
                      InUse(c, h) => dh[c][h].volno \in mounted \ {v}
    BY <2>1 DEF HandleInv, UnusedEmpty, HandlesOnMountedVolumes, EveryHandleOnMountedVolume
  <2>3. v # 0 /\ mounted' = mounted \ {v} /\ UNCHANGED <<used, dh, strayed>>
    BY <1>11 DEF Dismount
  <2>4. QED
    BY <2>2, <2>3 DEF HandleInv, DirsOK, SysMounted, UnusedEmpty,
                      HandlesOnMountedVolumes, EveryHandleOnMountedVolume, InUse
<1>12. ASSUME DirsOK', mounted' = mounted, strayed' PROVE HandleInv'
  BY <1>0, <1>12 DEF HandleInv, SysMounted, UnusedEmpty, HandlesOnMountedVolumes
<1>13. ASSUME NEW d \in Client, NEW h \in Dir, NEW r \in Stray, dh' = [dh EXCEPT ![d][h] = r],
              UNCHANGED <<used, mounted>>, strayed'
       PROVE  HandleInv'
  <2>1. r \in DirHandle
    BY StrayAssumption
  <2>2. DirsOK'
    BY <1>0, <1>13, <2>1 DEF DirsOK
  <2>3. QED
    BY <1>12, <1>13, <2>2
<1>14. ASSUME NEW c \in Client, NEW dest \in Dir, SetDirFromBehind(c, dest) PROVE HandleInv'
  BY <1>13, <1>14 DEF SetDirFromBehind
<1>15. ASSUME NEW c \in Client, SetDirBehind(c) PROVE HandleInv'
  <2>1. PICK d \in Client :
          \/ dh' = dh /\ used' = used
          \/ \E h \in Dir, r \in Stray : dh' = [dh EXCEPT ![d][h] = r] /\ used' = used
          \/ used' \in {used \cup {d}, used \ {d}, used} /\ dh' = dh
    BY <1>15 DEF SetDirBehind
  <2>2. strayed' = TRUE /\ mounted' = mounted
    BY <1>15 DEF SetDirBehind
  <2>3. CASE dh' = dh /\ used' \in {used \cup {d}, used \ {d}, used}
    <3>1. DirsOK'
      BY <1>0, <2>2, <2>3 DEF DirsOK
    <3>2. QED
      BY <1>12, <2>2, <3>1
  <2>4. QED
    BY <1>13, <2>1, <2>2, <2>3
<1>16. ASSUME NEW c \in Client, NEW h \in DirNo \ Dir, NEW q \in Input, InitSearchBehind(c, h, q)
       PROVE  HandleInv'
  BY <1>16 DEF InitSearchBehind, HandleInv, DirsOK, SysMounted, UnusedEmpty,
               HandlesOnMountedVolumes, EveryHandleOnMountedVolume, InUse
<1>17. CASE UNCHANGED vars
  BY <1>17 DEF vars, HandleInv, DirsOK, SysMounted, UnusedEmpty,
               HandlesOnMountedVolumes, EveryHandleOnMountedVolume, InUse
<1>18. QED
  BY <1>1, <1>2, <1>3, <1>4, <1>5, <1>6, <1>8, <1>9, <1>10, <1>11, <1>14, <1>15,
     <1>16, <1>17 DEF Next

\* No directory handle in use is on a volume that has been dismounted, unless
\* a request has set a handle from or to a number behind the table: until
\* then, what fs_build_path reads from the volume table is a volume's path.
THEOREM DirHandlesMounted == Spec => []HandlesOnMountedVolumes
<1>1. HandleInv => HandlesOnMountedVolumes
  BY DEF HandleInv
<1>2. QED
  BY <1>1, HandlesInit, HandlesStep, PTL DEF Spec

-----------------------------------------------------------------------------
(* The types of search handles, which rest on what fs_build_path returns *)

\* The least number of a set of numbers.
LEMMA LeastOfSet ==
  ASSUME NEW T, T \subseteq Nat, T # {}
  PROVE  \E n \in T : \A m \in T : n <= m
<1> DEFINE R == OpToRel(<, Nat)
<1>1. \A m, n \in Nat : m < n => <<m, n>> \in R
  BY DEF OpToRel
<1>2. IsWellFoundedOn(R, Nat)
  BY NatLessThanWellFounded
<1> HIDE DEF R
<1>3. PICK n \in T : \A m \in T : <<m, n>> \notin R
  BY <1>2, WFMin
<1>4. \A m \in T : n <= m
  <2>1. ASSUME NEW m \in T PROVE n <= m
    <3>1. m \in Nat /\ n \in Nat /\ ~(m < n)
      BY <1>1, <1>3
    <3>2. QED
      BY <3>1
  <2>2. QED
    BY <2>1
<1>5. QED
  BY <1>4

\* Induction up to a number, over what holds of the members of a set.
LEMMA Climb ==
  ASSUME NEW n \in Nat, NEW S, 0 \in S, \A i \in 1..n : i - 1 \in S => i \in S
  PROVE  0..n \subseteq S
<1> DEFINE T == (0..n) \ S
<1>1. SUFFICES ASSUME T # {} PROVE FALSE
  OBVIOUS
<1>2. PICK i \in T : \A j \in T : i <= j
  <2>1. T \subseteq Nat
    OBVIOUS
  <2> HIDE DEF T
  <2>2. QED
    BY <1>1, <2>1, LeastOfSet
<1>3. i \in 1..n /\ i - 1 \notin T
  BY <1>2
<1>4. QED
  BY <1>2, <1>3

LEMMA NonEmptyType ==
  ASSUME NEW p \in Seq(Part)
  PROVE  NonEmpty(p) \in Seq(Part)
<1> DEFINE longer(s, i) == IF p[i] = Empty THEN s ELSE Append(s, p[i])
           step(g, i) == IF i = 0 THEN <<>> ELSE longer(g[i - 1], i)
           kept == CHOOSE g : g = [i \in 0..Len(p) |-> step(g, i)]
           Starts(n, g) == \A i \in 0..n : g[i] = step(g, i)
           Started == {n \in Nat : \E g \in [0..n -> Seq(Part)] : Starts(n, g)}
           Typed == {n \in Nat : kept[n] \in Seq(Part)}
<1>1. NonEmpty(p) = kept[Len(p)]
  BY DEF NonEmpty
<1>2. Len(p) \in Nat
  OBVIOUS
<1>3. \A i \in 1..Len(p), s \in Seq(Part) : longer(s, i) \in Seq(Part)
  OBVIOUS
<1> HIDE DEF longer
<1>4. 0 \in Started
  <2>1. [i \in 0..0 |-> <<>>] \in [0..0 -> Seq(Part)] /\ Starts(0, [i \in 0..0 |-> <<>>])
    OBVIOUS
  <2>2. QED
    BY <2>1
<1>5. ASSUME NEW n \in 1..Len(p), n - 1 \in Started PROVE n \in Started
  <2>1. PICK g \in [0..n-1 -> Seq(Part)] : Starts(n - 1, g)
    BY <1>5
  <2> DEFINE h == [i \in 0..n |-> IF i = n THEN longer(g[n - 1], n) ELSE g[i]]
  <2>2. g[n - 1] \in Seq(Part)
    BY <2>1
  <2>3. h \in [0..n -> Seq(Part)]
    BY <1>3, <2>2
  <2>4. ASSUME NEW i \in 0..n PROVE h[i] = step(h, i)
    <3>1. CASE i = n
      BY <3>1
    <3>2. CASE i # n
      <4>1. g[i] = step(g, i) /\ h[i] = g[i]
        BY <2>1, <3>2
      <4>2. i # 0 => h[i - 1] = g[i - 1]
        BY <3>2
      <4>3. QED
        BY <4>1, <4>2
    <3>3. QED
      BY <3>1, <3>2
  <2> HIDE DEF h
  <2>5. Starts(n, h)
    BY <2>4
  <2> HIDE DEF Starts
  <2>6. QED
    BY <2>3, <2>5
<1>6. PICK g \in [0..Len(p) -> Seq(Part)] : Starts(Len(p), g)
  <2> HIDE DEF Starts, Started
  <2>1. 0..Len(p) \subseteq Started
    BY <1>2, <1>4, <1>5, Climb
  <2>2. Len(p) \in Started
    BY <1>2, <2>1
  <2>3. QED
    BY <2>2 DEF Started
<1>7. kept = [i \in 0..Len(p) |-> step(kept, i)]
  <2>1. g = [i \in 0..Len(p) |-> step(g, i)]
    BY <1>6
  <2> HIDE DEF step
  <2>2. QED
    BY <2>1
<1> HIDE DEF kept
<1>8. 0 \in Typed
  BY <1>2, <1>7
<1>9. ASSUME NEW n \in 1..Len(p), n - 1 \in Typed PROVE n \in Typed
  <2>1. kept[n] = longer(kept[n - 1], n)
    BY <1>7
  <2>2. QED
    BY <1>3, <1>9, <2>1
<1>10. Len(p) \in Typed
  <2> HIDE DEF Typed
  <2>1. 0..Len(p) \subseteq Typed
    BY <1>2, <1>8, <1>9, Climb
  <2>2. QED
    BY <1>2, <2>1
<1>11. QED
  BY <1>1, <1>10

\* A place is one that can be looked up: the path of the handle is joined with
\* what the client sent, and what follows the first volume is taken.
LEMMA ResolveType ==
  ASSUME NEW v \in Volno, NEW p \in Seq(Part)
  PROVE  Resolve(v, p) \in Place
<1>1. CASE Colons(p) = {}
  BY <1>1, NonEmptyType DEF Resolve, Place
<1>2. CASE Colons(p) # {}
  <2>1. Colons(p) \subseteq Nat
    BY DEF Colons
  <2>2. PICK j \in Colons(p) : First(j, Colons(p))
    BY <1>2, <2>1, LeastOfSet DEF First
  <2> DEFINE i == CHOOSE k \in Colons(p) : First(k, Colons(p))
             rest == <<p[i].name>> \o SubSeq(p, i + 1, Len(p))
  <2>3. i \in Colons(p)
    BY <2>2
  <2>4. i \in 1..Len(p) /\ p[i] \in [vol : Volume, name : Name]
    BY <2>3 DEF Colons, Part
  <2>5. Resolve(v, p) = [vol |-> p[i].vol, path |-> NonEmpty(rest)]
    BY <1>2 DEF Resolve
  <2> HIDE DEF i
  <2>6. p[i].vol \in Volno /\ p[i].name \in Part
    BY <2>4 DEF Part, Volno
  <2>7. SubSeq(p, i + 1, Len(p)) \in Seq(Part)
    BY <2>4, SubSeqProperties
  <2>8. <<p[i].name>> \in Seq(Part)
    BY <2>6
  <2>9. rest \in Seq(Part)
    BY <2>7, <2>8, ConcatProperties
  <2> HIDE DEF rest
  <2>10. QED
    BY <2>5, <2>6, <2>9, NonEmptyType DEF Place
<1>3. QED
  BY <1>1, <1>2

SearchesOK == sh \in [Client -> [Search -> SearchHandle \cup {FreeSearch, LostSearch}]]

LEMMA SearchesStep == HandleInv /\ SearchesOK /\ [Next]_vars => SearchesOK'
<1> SUFFICES ASSUME HandleInv, SearchesOK, [Next]_vars PROVE SearchesOK'
  OBVIOUS
<1> DEFINE Kept == SearchHandle \cup {FreeSearch, LostSearch}
<1>1. ASSUME NEW c \in Client, NEW t \in [Search -> Kept], sh' = [sh EXCEPT ![c] = t]
      PROVE  SearchesOK'
  BY <1>1 DEF SearchesOK
<1>2. [s \in Search |-> FreeSearch] \in [Search -> Kept]
  OBVIOUS
<1>3. ASSUME NEW c \in Client, LogOut(c) \/ Wipe(c) \/ EndOfJob(c) PROVE SearchesOK'
  <2>1. sh' = [sh EXCEPT ![c] = [s \in Search |-> FreeSearch]]
    BY <1>3 DEF LogOut, Wipe, EndOfJob
  <2>2. QED
    BY <1>1, <1>2, <2>1
<1>4. ASSUME NEW c \in Client, NEW h \in 0..NDirs, DeallocDir(c, h) PROVE SearchesOK'
  <2> DEFINE t == [s \in Search |-> IF s = 0 THEN FreeSearch ELSE sh[c][s]]
  <2>1. CASE h = NDirs
    <3>1. sh' = [sh EXCEPT ![c] = t]
      BY <1>4, <2>1 DEF DeallocDir, SearchesOK
    <3>2. t \in [Search -> Kept]
      BY DEF SearchesOK
    <3> HIDE DEF t
    <3>3. QED
      BY <1>1, <3>1, <3>2
  <2>2. CASE h # NDirs
    BY <1>4, <2>2 DEF DeallocDir, SearchesOK
  <2>3. QED
    BY <2>1, <2>2
<1>5. ASSUME NEW c \in Client, NEW h \in DirNo, NEW q \in Input, NEW d \in DirHandle,
             NEW s \in Search,
             sh' = [sh EXCEPT ![c][s] =
               IF Buildable(d.path \o q)
               THEN [at |-> "open", place |-> Resolve(d.volno, d.path \o q), rel |-> q, dh |-> h]
               ELSE LostSearch]
      PROVE  SearchesOK'
  <2> DEFINE p == d.path \o q
             r == IF Buildable(p)
                  THEN [at |-> "open", place |-> Resolve(d.volno, p), rel |-> q, dh |-> h]
                  ELSE LostSearch
  <2>1. q \in Seq(Part)
    BY InputAssumption
  <2>2. d.volno \in Volno /\ p \in Seq(Part)
    BY <2>1, ConcatProperties DEF DirHandle
  <2>3. Resolve(d.volno, p) \in Place
    <3> HIDE DEF p
    <3>1. QED
      BY <2>2, ResolveType
  <2>4. r \in Kept
    BY <2>1, <2>3 DEF SearchHandle
  <2>5. sh' = [sh EXCEPT ![c][s] = r]
    BY <1>5
  <2> HIDE DEF r
  <2>6. QED
    BY <2>4, <2>5 DEF SearchesOK
<1>6. ASSUME NEW c \in Client, NEW h \in Dir, NEW q \in Input, InitSearch(c, h, q)
      PROVE  SearchesOK'
  <2>1. h \in DirNo /\ dh[c][h] \in DirHandle
    BY HandlesAssumption DEF HandleInv, DirsOK, Dir, DirNo
  <2>2. QED
    BY <1>5, <1>6, <2>1 DEF InitSearch
<1>7. ASSUME NEW c \in Client, NEW h \in DirNo, NEW q \in Input, InitSearchBehind(c, h, q)
      PROVE  SearchesOK'
  BY <1>5, <1>7, StrayAssumption DEF InitSearchBehind
<1>8. ASSUME NEW c \in Client, SetDirBehind(c) PROVE SearchesOK'
  <2>1. CASE sh' = sh
    BY <2>1 DEF SearchesOK
  <2>2. ASSUME NEW d \in Client, NEW s \in Search, NEW r \in {FreeSearch, LostSearch},
               sh' = [sh EXCEPT ![d][s] = r]
        PROVE  SearchesOK'
    BY <2>2 DEF SearchesOK
  <2>3. QED
    BY <1>8, <2>1, <2>2 DEF SetDirBehind
<1>9. CASE UNCHANGED sh
  BY <1>9 DEF SearchesOK
<1>10. QED
  BY <1>3, <1>4, <1>6, <1>7, <1>8, <1>9
     DEF Next, vars, AllocDirFails, AllocDir, SetDirUp, SetDirPath, SetDirFromBehind, Dismount

\* Whatever paths and handle numbers clients send, every search handle that is
\* open has a path, and a place whose volume is one of the table or, if the
\* memory behind a table was read as a handle, one of those found there.
THEOREM HandleTypeCorrect == Spec => []TypeOK
<1>1. Init => SearchesOK
  BY DEF Init, SearchesOK
<1>2. HandleInv /\ SearchesOK => TypeOK
  BY DEF HandleInv, DirsOK, SearchesOK, TypeOK
<1>3. QED
  BY <1>1, <1>2, HandlesInit, HandlesStep, SearchesStep, PTL DEF Spec

-----------------------------------------------------------------------------
\* A file with one record per object, which is what every proof below needs:
\* then the first record that is found is the only one.
Single(f) == \A i, j \in DOMAIN f : f[i].id = f[j].id => i = j

File == {f \in Seq(Record) : Single(f)}

Names(f, o) == \E i \in DOMAIN f : f[i].id = o

FilesInv == file \in [Directory -> File]

-----------------------------------------------------------------------------
(* Looking up *)

LEMMA OnlyRecord ==
  ASSUME NEW f \in File, NEW i \in DOMAIN f, NEW o, f[i].id = o
  PROVE  Of(f, o) = {i} /\ Least(Of(f, o)) = i /\ Grab(f, o) = f[i].rights
<1>1. Of(f, o) = {i}
  BY DEF Of, File, Single
<1>2. i <= i
  BY DEF File
<1>3. Least({i}) = i
  BY <1>2 DEF Least
<1>4. QED
  BY <1>1, <1>3 DEF Grab

LEMMA NoRecord ==
  ASSUME NEW f, NEW o
  PROVE  /\ Names(f, o) <=> Of(f, o) # {}
         /\ ~Names(f, o) => Grab(f, o) = None
BY DEF Names, Of, Grab

\* Files with the same records of an object give it the same rights.
LEMMA SameRights ==
  ASSUME NEW f \in File, NEW g \in File, NEW o,
         \A i \in DOMAIN f : f[i].id = o => \E j \in DOMAIN g : g[j] = f[i],
         Names(g, o) => Names(f, o)
  PROVE  Grab(g, o) = Grab(f, o)
<1>1. CASE Names(f, o)
  <2>1. PICK i \in DOMAIN f : f[i].id = o
    BY <1>1 DEF Names
  <2>2. PICK j \in DOMAIN g : g[j] = f[i]
    BY <2>1
  <2>3. QED
    BY <2>1, <2>2, OnlyRecord
<1>2. CASE ~Names(f, o)
  BY <1>2, NoRecord
<1>3. QED
  BY <1>1, <1>2

-----------------------------------------------------------------------------
(* trust_grant_right and trust_remove_right *)

LEMMA GrantedFile ==
  ASSUME NEW f \in File, NEW o \in Object, NEW r \in Rights
  PROVE  /\ Granted(f, o, r) \in File
         /\ Grab(Granted(f, o, r), o) = r
         /\ \A p \in Object \ {o} : Grab(Granted(f, o, r), p) = Grab(f, p)
<1> DEFINE g == Granted(f, o, r)
           new == [id |-> o, rights |-> r]
<1>1. f \in Seq(Record) /\ Single(f) /\ new \in Record
  BY DEF File, Record
<1>2. CASE Names(f, o)
  <2>1. PICK k \in DOMAIN f : f[k].id = o
    BY <1>2 DEF Names
  <2>2. g = [f EXCEPT ![k].rights = r]
    <3>1. Of(f, o) # {} /\ Least(Of(f, o)) = k
      BY <2>1, OnlyRecord
    <3>2. QED
      BY <3>1 DEF Granted
  <2>3. [f[k] EXCEPT !.rights = r] = new
    <3>1. f[k] \in [id : Object, rights : Rights]
      <4>1. f[k] \in Record
        BY <1>1, <2>1
      <4>2. QED
        BY <4>1 DEF Record
    <3>2. f[k] = [id |-> o, rights |-> f[k].rights]
      BY <2>1, <3>1
    <3>3. QED
      BY <3>2
  <2>4. g = [f EXCEPT ![k] = new]
    BY <2>2, <2>3
  <2>5. /\ g \in Seq(Record) /\ DOMAIN g = DOMAIN f
        /\ \A i \in DOMAIN f : g[i] = IF i = k THEN new ELSE f[i]
    BY <1>1, <2>1, <2>4, ExceptSeq
  <2> HIDE DEF g
  <2>6. g \in File
    BY <1>1, <2>1, <2>5 DEF File, Single
  <2>7. Grab(g, o) = r
    BY <2>1, <2>5, <2>6, OnlyRecord
  <2>8. ASSUME NEW p \in Object \ {o}
        PROVE  Grab(g, p) = Grab(f, p)
    <3>1. \A i \in DOMAIN f : f[i].id = p => \E j \in DOMAIN g : g[j] = f[i]
      BY <2>1, <2>5
    <3>2. Names(g, p) => Names(f, p)
      BY <2>5 DEF Names
    <3>3. QED
      BY <2>6, <3>1, <3>2, SameRights
  <2>9. QED
    BY <2>6, <2>7, <2>8 DEF g
<1>3. CASE ~Names(f, o)
  <2>1. g = Append(f, new)
    BY <1>3, NoRecord DEF Granted
  <2>2. /\ g \in Seq(Record) /\ DOMAIN g = DOMAIN f \cup {Len(f) + 1}
        /\ \A i \in DOMAIN f : g[i] = f[i]
        /\ g[Len(f) + 1] = new /\ Len(f) + 1 \notin DOMAIN f
    BY <1>1, <2>1, AppendProperties
  <2> HIDE DEF g
  <2>3. g \in File
    BY <1>1, <1>3, <2>2 DEF File, Single, Names
  <2>4. Grab(g, o) = r
    BY <2>2, <2>3, OnlyRecord
  <2>5. ASSUME NEW p \in Object \ {o}
        PROVE  Grab(g, p) = Grab(f, p)
    <3>1. \A i \in DOMAIN f : f[i].id = p => \E j \in DOMAIN g : g[j] = f[i]
      BY <2>2
    <3>2. Names(g, p) => Names(f, p)
      BY <2>2 DEF Names
    <3>3. QED
      BY <2>3, <3>1, <3>2, SameRights
  <2>6. QED
    BY <2>3, <2>4, <2>5 DEF g
<1>4. QED
  BY <1>2, <1>3

\* The record that moves is the last one, and the place it moves to is the
\* one that is freed.
LEMMA RemovedFile ==
  ASSUME NEW f \in File, NEW o \in Object, Names(f, o)
  PROVE  /\ Removed(f, o) \in File
         /\ Grab(Removed(f, o), o) = None
         /\ \A p \in Object \ {o} : Grab(Removed(f, o), p) = Grab(f, p)
<1> DEFINE g == Removed(f, o)
           n == Len(f)
<1>1. f \in Seq(Record) /\ Single(f) /\ n \in Nat /\ DOMAIN f = 1..n
  BY DEF File
<1>2. PICK k \in DOMAIN f : f[k].id = o
  BY DEF Names
<1>3. k \in 1..n /\ n \in DOMAIN f /\ n - 1 \in Nat /\ f[n] \in Record
  BY <1>1, <1>2
<1>4. Overwritten(f, o) = [f EXCEPT ![k] = f[n]]
  BY <1>2, OnlyRecord DEF Overwritten
<1> DEFINE h == [f EXCEPT ![k] = f[n]]
<1>5. /\ h \in Seq(Record) /\ Len(h) = n
      /\ \A i \in 1..n : h[i] = IF i = k THEN f[n] ELSE f[i]
  BY <1>1, <1>2, <1>3, ExceptSeq
<1>6. g = SubSeq(h, 1, n - 1)
  BY <1>4 DEF Removed
<1> HIDE DEF g, h, n
<1>7. /\ g \in Seq(Record) /\ DOMAIN g = 1..n - 1
      /\ \A i \in 1..n - 1 : g[i] = IF i = k THEN f[n] ELSE f[i]
  <2>1. Len(g) = n - 1 /\ g \in Seq(Record) /\ \A i \in 1..n - 1 : g[i] = h[i]
    BY <1>3, <1>5, <1>6, SubSeqProperties
  <2>2. QED
    BY <1>3, <1>5, <2>1
<1>8. g \in File
  <2>1. ASSUME NEW i \in 1..n - 1, NEW j \in 1..n - 1, g[i].id = g[j].id
        PROVE  i = j
    <3>1. i \in 1..n /\ j \in 1..n /\ i # n /\ j # n
      BY <1>1
    <3>2. QED
      BY <1>1, <1>3, <1>7, <2>1, <3>1 DEF Single
  <2>2. QED
    BY <1>7, <2>1 DEF File, Single
<1>9. ~Names(g, o)
  <2>1. ASSUME NEW i \in 1..n - 1
        PROVE  g[i].id # o
    <3>1. i \in 1..n /\ i # n
      BY <1>1
    <3>2. QED
      BY <1>1, <1>2, <1>3, <1>7, <3>1 DEF Single
  <2>2. QED
    BY <1>7, <2>1 DEF Names
<1>10. ASSUME NEW p \in Object \ {o}
       PROVE  Grab(g, p) = Grab(f, p)
  <2>1. ASSUME NEW i \in DOMAIN f, f[i].id = p
        PROVE  \E j \in DOMAIN g : g[j] = f[i]
    <3>1. i # k /\ i \in 1..n
      BY <1>1, <1>2, <2>1
    <3>2. CASE i = n
      <4>1. k \in 1..n - 1
        BY <1>1, <1>3, <3>1, <3>2
      <4>2. QED
        BY <1>7, <3>2, <4>1
    <3>3. CASE i # n
      <4>1. i \in 1..n - 1
        BY <1>1, <3>1, <3>3
      <4>2. QED
        BY <1>7, <3>1, <4>1
    <3>4. QED
      BY <3>2, <3>3
  <2>2. Names(g, p) => Names(f, p)
    <3>1. \A i \in 1..n - 1 : i \in DOMAIN f
      BY <1>1
    <3>2. QED
      BY <1>3, <1>7, <3>1 DEF Names
  <2>3. QED
    BY <1>8, <2>1, <2>2, SameRights
<1>11. QED
  BY <1>8, <1>9, <1>10, NoRecord DEF g

-----------------------------------------------------------------------------
(* Steps *)

\* One file is replaced by another one that differs in the rights of one
\* object: an entry of the map is set.
Sets(d, o, f, r) ==
  /\ f \in File
  /\ file' = [file EXCEPT ![d] = f]
  /\ Grab(f, o) = r
  /\ \A p \in Object \ {o} : Grab(f, p) = Grab(file[d], p)

LEMMA ChangeSets ==
  ASSUME FilesInv, Change
  PROVE  \E d \in Directory, o \in Object, f \in File, r \in Rights \cup {None} :
           Sets(d, o, f, r)
<1>1. PICK d \in Directory, o \in Object :
        \/ \E mask \in Byte : AddTrustee(d, o, mask)
        \/ \E r \in Rights : AddExtTrustee(d, o, r)
        \/ RemoveTrustee(d, o)
  BY DEF Change
<1>2. file[d] \in File
  BY DEF FilesInv
<1>3. ASSUME NEW r \in Rights, Grant(d, o, r)
      PROVE  Sets(d, o, Granted(file[d], o, r), r) /\ Granted(file[d], o, r) \in File
  BY <1>2, <1>3, GrantedFile DEF Grant, Sets, FilesInv
<1>4. CASE \E mask \in Byte : AddTrustee(d, o, mask)
  <2>1. PICK mask \in Byte : Grant(d, o, [hi |-> {}, lo |-> mask])
    BY <1>4 DEF AddTrustee
  <2>2. [hi |-> {}, lo |-> mask] \in Rights
    BY DEF Rights, Byte
  <2>3. QED
    BY <1>3, <2>1, <2>2
<1>5. CASE \E r \in Rights : AddExtTrustee(d, o, r)
  BY <1>3, <1>5 DEF AddExtTrustee
<1>6. CASE RemoveTrustee(d, o)
  <2>1. Names(file[d], o)
    BY <1>6, NoRecord DEF RemoveTrustee
  <2>2. Sets(d, o, Removed(file[d], o), None) /\ Removed(file[d], o) \in File
    BY <1>2, <1>6, <2>1, RemovedFile DEF RemoveTrustee, Sets, FilesInv
  <2>3. QED
    BY <2>2
<1>7. QED
  BY <1>1, <1>4, <1>5, <1>6

LEMMA FilesInit == TrusteeInit => FilesInv
<1>1. << >> \in File
  BY DEF File, Single
<1>2. QED
  BY <1>1 DEF TrusteeInit, FilesInv

LEMMA FilesStep == FilesInv /\ [Change]_file => FilesInv'
<1> SUFFICES ASSUME FilesInv, [Change]_file
             PROVE  FilesInv'
  OBVIOUS
<1>1. CASE Change
  BY <1>1, ChangeSets DEF Sets, FilesInv
<1>2. CASE UNCHANGED file
  BY <1>2 DEF FilesInv
<1>3. QED
  BY <1>1, <1>2

-----------------------------------------------------------------------------
(* Theorems *)

\* trust_grant_right and trust_remove_right, run to their end in any order,
\* leave every file a sequence of records with no object in it twice, so a
\* removal always takes away all the rights that were granted.
THEOREM RecordsAreUnique == TrusteeSpec => [](TrusteeTypeOK /\ OneRecordPerTrustee)
<1>1. FilesInv => TrusteeTypeOK /\ OneRecordPerTrustee
  BY DEF FilesInv, File, Single, TrusteeTypeOK, OneRecordPerTrustee
<1>2. QED
  BY <1>1, FilesInit, FilesStep, PTL DEF TrusteeSpec

Entries == [d \in Directory |-> [o \in Object |-> Grab(file[d], o)]]

LEMMA MapInit == TrusteeInit => Map!Init
<1>1. \A o : Grab(<< >>, o) = None
  BY DEF Grab, Of
<1>2. QED
  BY <1>1 DEF TrusteeInit, Map!Init

LEMMA MapStep == FilesInv /\ [Change]_file => [Map!Next]_Entries
<1> SUFFICES ASSUME FilesInv, [Change]_file
             PROVE  [Map!Next]_Entries
  OBVIOUS
<1>1. CASE Change
  <2>1. PICK d \in Directory, o \in Object, f \in File, r \in Rights \cup {None} :
          Sets(d, o, f, r)
    BY <1>1, ChangeSets
  <2>2. \A e \in Directory : file'[e] = IF e = d THEN f ELSE file[e]
    BY <2>1 DEF Sets, FilesInv
  <2>3. \A e \in Directory, p \in Object :
          Grab(file'[e], p) = IF e = d /\ p = o THEN r ELSE Grab(file[e], p)
    BY <2>1, <2>2 DEF Sets
  <2>4. Entries' = [Entries EXCEPT ![d][o] = r]
    BY <2>3 DEF Entries
  <2>5. Map!Set(d, o, r)
    BY <2>4 DEF Map!Set, Entries
  <2>6. QED
    BY <2>5 DEF Map!Next
<1>2. CASE UNCHANGED file
  BY <1>2 DEF Entries
<1>3. QED
  BY <1>1, <1>2

\* The trustee files implement the map from directories and objects to
\* rights: a grant or a removal changes the entry it names and no other,
\* although a removal moves the record of another object.
THEOREM TrusteesImplemented == TrusteeSpec => ImplementsTrustees
<1>1. TrusteeSpec => TrusteeInit /\ [][Change]_file /\ []FilesInv
  BY FilesInit, FilesStep, PTL DEF TrusteeSpec
<1>2. Map!Spec <=> Map!Init /\ [][Map!Next]_Entries
  BY DEF Map!Spec, Entries
<1>3. QED
  BY <1>1, <1>2, MapInit, MapStep, PTL DEF ImplementsTrustees

-----------------------------------------------------------------------------
(* Removals that are cut short *)

LEMMA LeastIs ==
  ASSUME NEW S \in SUBSET Nat, S # {}
  PROVE  Least(S) \in S /\ \A j \in S : Least(S) <= j
<1>1. \E i \in S : \A j \in S : <<j, i>> \notin OpToRel(<, Nat)
  BY NatLessThanWellFounded, WFMin
<1>2. PICK i \in S : \A j \in S : <<j, i>> \notin OpToRel(<, Nat)
  BY <1>1
<1>3. ASSUME NEW j \in S PROVE i <= j
  <2>1. i \in Nat /\ j \in Nat
    OBVIOUS
  <2>2. ASSUME j < i PROVE FALSE
    <3>1. <<j, i>> \in Nat \X Nat /\ <<j, i>>[1] < <<j, i>>[2]
      BY <2>1, <2>2
    <3>2. <<j, i>> \in OpToRel(<, Nat)
      BY <3>1, Zenon DEF OpToRel
    <3>3. QED
      BY <1>2, <3>2
  <2>3. QED
    BY <2>1, <2>2
<1>4. QED
  BY <1>3 DEF Least

\* The first record of an object, in a file that may name objects twice.
LEMMA FirstOf ==
  ASSUME NEW f \in Seq(Record), NEW o, Of(f, o) # {}
  PROVE  /\ Least(Of(f, o)) \in DOMAIN f
         /\ f[Least(Of(f, o))].id = o
         /\ \A j \in Of(f, o) : Least(Of(f, o)) <= j
<1>1. Of(f, o) \in SUBSET Nat
  BY DEF Of
<1>2. Least(Of(f, o)) \in Of(f, o) /\ \A j \in Of(f, o) : Least(Of(f, o)) <= j
  BY <1>1, LeastIs
<1>3. QED
  BY <1>2 DEF Of

\* Files that name an object in the same records have the same first one.
LEMMA GrantedSeq ==
  ASSUME NEW f \in Seq(Record), NEW o \in Object, NEW r \in Rights
  PROVE  /\ Granted(f, o, r) \in Seq(Record)
         /\ Of(Granted(f, o, r), o) # {}
         /\ Grab(Granted(f, o, r), o) = r
<1> DEFINE g == Granted(f, o, r)
           new == [id |-> o, rights |-> r]
<1>1. new \in Record
  BY DEF Record
<1>2. CASE Of(f, o) = {}
  <2>1. g = Append(f, new)
    BY <1>2 DEF Granted
  <2>2. /\ g \in Seq(Record) /\ DOMAIN g = DOMAIN f \cup {Len(f) + 1}
        /\ \A i \in DOMAIN f : g[i] = f[i]
        /\ g[Len(f) + 1] = new /\ Len(f) + 1 \notin DOMAIN f
    BY <1>1, <2>1, AppendProperties
  <2> HIDE DEF g
  <2>3. Of(g, o) = {Len(f) + 1}
    BY <1>2, <2>2 DEF Of
  <2>4. Least({Len(f) + 1}) = Len(f) + 1
    BY DEF Least
  <2>5. Grab(g, o) = r
    BY <2>2, <2>3, <2>4 DEF Grab
  <2>6. QED
    BY <2>2, <2>3, <2>5 DEF g
<1>3. CASE Of(f, o) # {}
  <2> DEFINE k == Least(Of(f, o))
  <2>1. k \in DOMAIN f /\ f[k].id = o
    BY <1>3, FirstOf
  <2>2. [f[k] EXCEPT !.rights = r] = new
    <3> HIDE DEF k
    <3>1. f[k] \in Record
      BY <2>1
    <3>2. f[k] \in [id : Object, rights : Rights]
      BY <3>1 DEF Record
    <3>3. f[k] = [id |-> o, rights |-> f[k].rights]
      BY <2>1, <3>2
    <3>4. QED
      BY <3>3
  <2>3. g = [f EXCEPT ![k] = new]
    BY <1>3, <2>2 DEF Granted
  <2> HIDE DEF k
  <2>4. /\ g \in Seq(Record) /\ DOMAIN g = DOMAIN f
        /\ \A i \in DOMAIN f : g[i] = IF i = k THEN new ELSE f[i]
    BY <1>1, <2>1, <2>3, ExceptSeq
  <2> HIDE DEF g
  <2>5. Of(g, o) = Of(f, o)
    BY <2>1, <2>4 DEF Of
  <2>6. Grab(g, o) = r
    BY <1>3, <2>1, <2>4, <2>5 DEF Grab, k
  <2>7. QED
    BY <1>3, <2>4, <2>5, <2>6 DEF g
<1>4. QED
  BY <1>2, <1>3

LEMMA OverwrittenSeq ==
  ASSUME NEW f \in Seq(Record), NEW o, Of(f, o) # {}
  PROVE  /\ Overwritten(f, o) \in Seq(Record) /\ Len(Overwritten(f, o)) = Len(f)
         /\ Removed(f, o) \in Seq(Record)
<1> DEFINE k == Least(Of(f, o))
           g == Overwritten(f, o)
           n == Len(f)
<1>1. k \in DOMAIN f
  BY FirstOf
<1>2. n \in Nat /\ n \in DOMAIN f /\ f[n] \in Record
  BY <1>1
<1>3. g = [f EXCEPT ![k] = f[n]]
  BY DEF Overwritten
<1> HIDE DEF k, n, g
<1>4. g \in Seq(Record) /\ Len(g) = Len(f)
  BY <1>1, <1>2, <1>3, ExceptSeq
<1>5. SubSeq(g, 1, n - 1) \in Seq(Record)
  BY <1>2, <1>4, SubSeqProperties DEF n
<1>6. QED
  BY <1>4, <1>5 DEF Removed, g, n

LEMMA CrashTypeStep == TrusteeTypeOK /\ [Change \/ Cut]_file => TrusteeTypeOK'
<1> SUFFICES ASSUME TrusteeTypeOK, [Change \/ Cut]_file PROVE TrusteeTypeOK'
  OBVIOUS
<1>1. ASSUME NEW d \in Directory, NEW o \in Object, NEW r \in Rights, Grant(d, o, r)
      PROVE  TrusteeTypeOK'
  BY <1>1, GrantedSeq DEF Grant, TrusteeTypeOK
<1>2. ASSUME NEW mask \in Byte PROVE [hi |-> {}, lo |-> mask] \in Rights
  BY DEF Rights, Byte
<1>3. ASSUME NEW d \in Directory, NEW o \in Object, RemoveTrustee(d, o) PROVE TrusteeTypeOK'
  BY <1>3, OverwrittenSeq DEF RemoveTrustee, TrusteeTypeOK
<1>4. ASSUME NEW d \in Directory, NEW o \in Object, RemoveCutShort(d, o) PROVE TrusteeTypeOK'
  BY <1>4, OverwrittenSeq DEF RemoveCutShort, TrusteeTypeOK
<1>5. CASE UNCHANGED file
  BY <1>5 DEF TrusteeTypeOK
<1>6. QED
  BY <1>1, <1>2, <1>3, <1>4, <1>5 DEF Change, Cut, AddTrustee, AddExtTrustee

\* A trustee file is a sequence of whole records also when removals end between
\* their two writes: the first one replaces a record by another.
THEOREM CrashTypeCorrect == CrashSpec => []TrusteeTypeOK
<1>1. TrusteeInit => TrusteeTypeOK
  BY DEF TrusteeInit, TrusteeTypeOK
<1>2. QED
  BY <1>1, CrashTypeStep, PTL DEF CrashSpec

\* A right that is in a record is not the answer for no record.
LEMMA RightsNotNone == ASSUME NEW r \in Rights PROVE r # None
<1>1. DOMAIN r = {"hi", "lo"} /\ DOMAIN None = {"hi"}
  BY DEF Rights, None
<1>2. QED
  BY <1>1

\* trust_scan_rights over any state of the files.
With(F, d, o)   == {e \in 0..d : Of(F[e], o) # {}}
Highest(S)      == CHOOSE e \in S : \A g \in S : g <= e
ScanIn(F, d, o) == IF With(F, d, o) = {} THEN None ELSE Grab(F[Highest(With(F, d, o))], o)

LEMMA ScanIs ==
  ASSUME NEW d, NEW o
  PROVE  Scan(d, o) = ScanIn(file, d, o) /\ Scan(d, o)' = ScanIn(file', d, o)
BY DEF Scan, ScanIn, With, Highest

\* The scan ends where it begins if there is a record there, ...
LEMMA ScanHere ==
  ASSUME NEW F, NEW d \in Directory, NEW o, Of(F[d], o) # {}
  PROVE  ScanIn(F, d, o) = Grab(F[d], o)
<1>1. d \in With(F, d, o) /\ \A e \in With(F, d, o) : e <= d
  BY TrusteeAssumption DEF With, Directory
<1>2. \A e \in With(F, d, o) : e \in Int /\ d \in Int
  BY TrusteeAssumption DEF With, Directory
<1>3. Highest(With(F, d, o)) = d
  BY <1>1, <1>2 DEF Highest
<1>4. QED
  BY <1>1, <1>3 DEF ScanIn

\* ... goes on above it if there is none, ...
LEMMA ScanAbove ==
  ASSUME NEW F, NEW d \in Directory, NEW o, Of(F[d], o) = {}
  PROVE  ScanIn(F, d, o) = IF d = 0 THEN None ELSE ScanIn(F, d - 1, o)
<1>1. d \in Nat
  BY TrusteeAssumption DEF Directory
<1>2. CASE d = 0
  <2>1. With(F, d, o) = {}
    BY <1>2 DEF With
  <2>2. QED
    BY <1>2, <2>1 DEF ScanIn
<1>3. CASE d # 0
  <2>1. With(F, d, o) = With(F, d - 1, o)
    BY <1>1, <1>3 DEF With
  <2>2. QED
    BY <1>3, <2>1 DEF ScanIn
<1>4. QED
  BY <1>2, <1>3

\* ... and depends on nothing but what is found in each file.
LEMMA ScanSame ==
  ASSUME NEW F, NEW G, NEW d \in Directory, NEW o,
         \A e \in 0..d : /\ Of(F[e], o) = {} <=> Of(G[e], o) = {}
                         /\ Grab(F[e], o) = Grab(G[e], o)
  PROVE  ScanIn(F, d, o) = ScanIn(G, d, o)
<1>1. With(F, d, o) = With(G, d, o)
  BY DEF With
<1>2. CASE With(F, d, o) = {}
  BY <1>1, <1>2 DEF ScanIn
<1>3. CASE With(F, d, o) # {}
  <2> DEFINE S == {d - e : e \in With(F, d, o)}
  <2>1. d \in Nat
    BY TrusteeAssumption DEF Directory
  <2>2. S \in SUBSET Nat /\ S # {}
    BY <1>3, <2>1 DEF With
  <2>3. Least(S) \in S /\ \A j \in S : Least(S) <= j
    BY <2>2, LeastIs
  <2>4. PICK e \in With(F, d, o) : Least(S) = d - e
    BY <2>3
  <2>5. \A g \in With(F, d, o) : g <= e
    <3>1. ASSUME NEW g \in With(F, d, o) PROVE g <= e
      <4>1. d - g \in S
        OBVIOUS
      <4>2. d - e <= d - g
        BY <2>3, <2>4, <4>1
      <4>3. QED
        BY <2>1, <4>2 DEF With
    <3>2. QED
      BY <3>1
  <2>6. Highest(With(F, d, o)) \in With(F, d, o)
    BY <2>5 DEF Highest
  <2>7. QED
    BY <1>1, <1>3, <2>6 DEF ScanIn, With
<1>4. QED
  BY <1>2, <1>3

\* NCP 22 39: the record that is written is the first one the scan comes to,
\* also in a file that an interrupted removal has left with two records of an
\* object, whose other record is not looked at.
THEOREM ExtGrantsTakeEffect == CrashSpec => ExtGrantTakesEffect
<1>1. ASSUME TrusteeTypeOK, NEW d \in Directory, NEW o \in Object, NEW r \in Rights,
             AddExtTrustee(d, o, r)
      PROVE  HasRights(d, o, r.hi)'
  <2>1. file[d] \in Seq(Record) /\ file' = [file EXCEPT ![d] = Granted(@, o, r)]
    BY <1>1 DEF TrusteeTypeOK, AddExtTrustee, Grant
  <2>2. file'[d] = Granted(file[d], o, r)
    BY <1>1, <2>1 DEF TrusteeTypeOK
  <2>3. Of(file'[d], o) # {} /\ Grab(file'[d], o) = r
    <3>1. ASSUME NEW f \in Seq(Record), NEW g, g = Granted(f, o, r)
          PROVE  Of(g, o) # {} /\ Grab(g, o) = r
      BY <3>1, GrantedSeq
    <3>2. QED
      BY <2>1, <2>2, <3>1
  <2>4. Scan(d, o)' = r
    BY <2>3, ScanIs, ScanHere
  <2>5. GetRights(d, o)' = r
    BY <2>4, RightsNotNone DEF GetRights
  <2>6. QED
    BY <2>5 DEF HasRights
<1>2. TrusteeTypeOK /\ [Change \/ Cut]_file =>
        [\A d \in Directory, o \in Object, r \in Rights :
           AddExtTrustee(d, o, r) => HasRights(d, o, r.hi)']_file
  BY <1>1
<1>3. TrusteeInit => TrusteeTypeOK
  BY DEF TrusteeInit, TrusteeTypeOK
<1>4. QED
  BY <1>2, <1>3, CrashTypeStep, PTL DEF CrashSpec, ExtGrantTakesEffect

\* The first half of a removal leaves every other object a record if it had one,
\* with the same rights: the one that was overwritten was not its own, and what
\* was written over it is a copy.
LEMMA OverwrittenOthers ==
  ASSUME NEW f \in File, NEW o \in Object, Of(f, o) # {}, NEW p \in Object \ {o}
  PROVE  /\ Of(Overwritten(f, o), p) = {} <=> Of(f, p) = {}
         /\ Grab(Overwritten(f, o), p) = Grab(f, p)
<1> DEFINE k == Least(Of(f, o))
           n == Len(f)
           g == Overwritten(f, o)
<1>0. f \in Seq(Record) /\ Single(f)
  BY DEF File
<1>1. k \in DOMAIN f /\ f[k].id = o
  BY <1>0, FirstOf
<1>2. n \in Nat /\ n \in DOMAIN f /\ DOMAIN f = 1..n /\ f[n] \in Record
  BY <1>0, <1>1
<1>3. g = [f EXCEPT ![k] = f[n]]
  BY DEF Overwritten
<1> HIDE DEF k, n, g
<1>4. /\ DOMAIN g = DOMAIN f /\ g \in Seq(Record)
      /\ \A i \in DOMAIN f : g[i] = IF i = k THEN f[n] ELSE f[i]
  BY <1>0, <1>1, <1>2, <1>3, ExceptSeq
<1>5. CASE Of(f, p) = {}
  <2>1. \A i \in DOMAIN f : f[i].id # p
    BY <1>5 DEF Of
  <2>2. Of(g, p) = {}
    BY <1>2, <1>4, <2>1 DEF Of
  <2>3. QED
    BY <1>5, <2>2 DEF Grab, g
<1>6. CASE Of(f, p) # {}
  <2>1. PICK i \in DOMAIN f : f[i].id = p
    BY <1>6 DEF Of
  <2>2. Grab(f, p) = f[i].rights
    BY <2>1, OnlyRecord
  <2>3. i # k /\ i \in Of(g, p)
    BY <1>1, <1>4, <2>1 DEF Of
  <2>4. \A j \in Of(g, p) : g[j] = f[i]
    <3>1. ASSUME NEW j \in Of(g, p) PROVE g[j] = f[i]
      <4>1. j \in DOMAIN f /\ g[j].id = p
        BY <1>4 DEF Of
      <4>2. CASE j = k
        <5>1. g[j] = f[n] /\ f[n].id = p
          BY <1>4, <4>1, <4>2
        <5>2. n = i
          BY <1>0, <1>2, <2>1, <5>1 DEF Single
        <5>3. QED
          BY <5>1, <5>2
      <4>3. CASE j # k
        <5>1. g[j] = f[j] /\ f[j].id = p
          BY <1>4, <4>1, <4>3
        <5>2. j = i
          BY <1>0, <2>1, <4>1, <5>1 DEF Single
        <5>3. QED
          BY <5>1, <5>2
      <4>4. QED
        BY <4>2, <4>3
    <3>2. QED
      BY <3>1
  <2>5. Of(g, p) # {} /\ Of(g, p) \in SUBSET Nat
    BY <1>2, <1>4, <2>3 DEF Of
  <2>6. Least(Of(g, p)) \in Of(g, p)
    BY <2>5, LeastIs
  <2>7. Grab(g, p) = f[i].rights
    BY <2>4, <2>5, <2>6 DEF Grab
  <2>8. QED
    BY <1>6, <2>2, <2>5, <2>7 DEF g
<1>7. QED
  BY <1>5, <1>6

\* A removal cut short, by ftruncate or by the end of the server, is harmless to
\* everybody but the object it was about, if it is the first one in its files.
THEOREM FirstCutsHarmNobodyElse == CrashSpec => FirstCutHarmsNobodyElse
<1>1. ASSUME TrusteeTypeOK, OneRecordPerTrustee, NEW d \in Directory, NEW o \in Object,
             RemoveCutShort(d, o), NEW p \in Object \ {o}
      PROVE  Scan(d, p)' = Scan(d, p)
  <2>1. file[d] \in File /\ Of(file[d], o) # {}
    BY <1>1 DEF TrusteeTypeOK, OneRecordPerTrustee, File, Single, RemoveCutShort
  <2>2. \A e \in Directory : file'[e] = IF e = d THEN Overwritten(file[d], o) ELSE file[e]
    BY <1>1 DEF RemoveCutShort, TrusteeTypeOK
  <2>3. ASSUME NEW e \in 0..d
        PROVE  /\ Of(file'[e], p) = {} <=> Of(file[e], p) = {}
               /\ Grab(file'[e], p) = Grab(file[e], p)
    <3>1. e \in Directory
      BY TrusteeAssumption DEF Directory
    <3>2. CASE e = d
      BY <2>1, <2>2, <3>1, <3>2, OverwrittenOthers
    <3>3. CASE e # d
      BY <2>2, <3>1, <3>3
    <3>4. QED
      BY <3>2, <3>3
  <2>4. ScanIn(file', d, p) = ScanIn(file, d, p)
    BY <2>3, ScanSame
  <2>5. QED
    BY <2>4, ScanIs
<1>2. TrusteeTypeOK /\ [Change \/ Cut]_file =>
        [OneRecordPerTrustee =>
           \A d \in Directory, o \in Object :
             RemoveCutShort(d, o) => \A p \in Object \ {o} : Scan(d, p)' = Scan(d, p)]_file
  BY <1>1
<1>3. TrusteeInit => TrusteeTypeOK
  BY DEF TrusteeInit, TrusteeTypeOK
<1>4. QED
  BY <1>2, <1>3, CrashTypeStep, PTL DEF CrashSpec, FirstCutHarmsNobodyElse

\* "If no valid entries are found, it will go one level down": as long as
\* removals run to their end, the object a record was removed of is back to what
\* the parent directory gives it.
THEOREM RemovalsRestoreParent == TrusteeSpec => RemovalRestoresParent
<1>1. ASSUME FilesInv, NEW d \in Directory, NEW o \in Object, RemoveTrustee(d, o)
      PROVE  Scan(d, o)' = IF d = 0 THEN None ELSE Scan(d - 1, o)'
  <2>1. file[d] \in File /\ Names(file[d], o)
    BY <1>1, NoRecord DEF FilesInv, RemoveTrustee
  <2>2. \A e \in Directory : file'[e] = IF e = d THEN Removed(file[d], o) ELSE file[e]
    BY <1>1 DEF RemoveTrustee, FilesInv
  <2>3. file'[d] \in File /\ Grab(file'[d], o) = None
    BY <2>1, <2>2, RemovedFile
  <2>4. Of(file'[d], o) = {}
    <3>1. ASSUME NEW i \in DOMAIN file'[d], file'[d][i].id = o PROVE FALSE
      <4>1. Grab(file'[d], o) = file'[d][i].rights
        BY <2>3, <3>1, OnlyRecord
      <4>2. file'[d][i] \in Record
        BY <2>3 DEF File
      <4>3. file'[d][i].rights \in Rights
        BY <4>2 DEF Record
      <4>4. QED
        BY <2>3, <4>1, <4>3, RightsNotNone
    <3>2. QED
      BY <3>1 DEF Of
  <2>5. ScanIn(file', d, o) = IF d = 0 THEN None ELSE ScanIn(file', d - 1, o)
    BY <2>4, ScanAbove
  <2>6. QED
    BY <2>5, ScanIs
<1>2. FilesInv /\ [Change]_file =>
        [\A d \in Directory, o \in Object :
           RemoveTrustee(d, o) =>
             Scan(d, o)' = IF d = 0 THEN None ELSE Scan(d - 1, o)']_file
  BY <1>1
<1>3. QED
  BY <1>2, FilesInit, FilesStep, PTL DEF TrusteeSpec, RemovalRestoresParent
=============================================================================
