---------------------------- MODULE FrommelHandles ----------------------------
(***************************************************************************)
(* The directory and search handles of the connections (fs.c, the NCP 22   *)
(* calls of ncp_22.c, NCP 62 and 24 of ncp.c) and the volumes they name    *)
(* (volume.c, dismounted from the web interface).                          *)
(*                                                                         *)
(* A path is the sequence of its parts between slashes, the empty path the *)
(* sequence of one empty part; a part that starts with "VOLUME:" is the    *)
(* record of that volume's number and of the name after the colon.         *)
(* Whether a directory exists is the file system's business: a call that   *)
(* needs one may succeed or fail.                                          *)
(***************************************************************************)
EXTENDS Integers, Sequences

CONSTANTS
  Client,     \* connections
  NDirs,      \* CONN_DH_PER_CONN
  NSearches,  \* CONN_SH_PER_CONN
  MaxDirNo,   \* greatest handle number a request can name: a byte
  NVolumes,   \* volumes of the configuration file; SYS is number 0
  Strange,    \* numbers of no volume that memory behind a table may hold
  Stray,      \* what that memory may be when it is read as a handle
  Name,       \* names of directories, among them
  Login,      \* "login"
  Empty,      \* and the empty name
  Input,      \* paths that clients send
  MaxParts    \* bound on the parts of the path of a handle

ASSUME HandlesAssumption ==
  /\ NDirs \in Nat \ {0, 1} /\ NSearches \in Nat /\ NVolumes \in Nat \ {0}
  /\ MaxDirNo \in Nat /\ NDirs <= MaxDirNo /\ Strange \subseteq Int \ 0..NVolumes-1
  /\ MaxParts \in Nat \ {0} /\ {Login, Empty} \subseteq Name

Dir    == 0..NDirs-1
Search == 0..NSearches-1
Volume == 0..NVolumes-1
DirNo  == 0..MaxDirNo
Volno  == Volume \cup Strange
Part   == Name \cup [vol : Volume, name : Name]

ASSUME InputAssumption == Input \subseteq Seq(Part) \ {<<>>}

VARIABLES
  used,     \* clients whose connection is not CONN_STATUS_UNUSED
  dh,       \* DIRHANDLE tables
  sh,       \* SEARCHHANDLE tables
  mounted,  \* volumes with VOL_FLAG_USED
  strayed   \* (history) NCP 22 0 has named a handle behind the table

vars == <<used, dh, sh, mounted, strayed>>

DirHandle == [flags : {"unused", "perm", "temp"}, volno : Volno, path : Seq(Part)]
Unused    == [flags |-> "unused", volno |-> 0, path |-> <<Empty>>]

\* What fs_build_path makes of a path: a place below the root of a volume.
Place        == [vol : Volno, path : Seq(Part)]
SearchHandle == [at : {"open"}, place : Place, rel : Seq(Part), dh : DirNo]
FreeSearch   == [at |-> "free"]
\* fs_build_path failed halfway: the handle has a path, and it is no place.
LostSearch   == [at |-> "lost"]

ASSUME StrayAssumption == Stray \subseteq DirHandle

TypeOK ==
  /\ used \subseteq Client
  /\ dh \in [Client -> [Dir -> DirHandle]]
  /\ sh \in [Client -> [Search -> SearchHandle \cup {FreeSearch, LostSearch}]]
  /\ mounted \subseteq Volume
  /\ strayed \in BOOLEAN

-----------------------------------------------------------------------------
(* State functions *)

InUse(c, h) == dh[c][h].flags # "unused"

\* Two slashes in a row count as one.
NonEmpty(p) ==
  LET kept[i \in 0..Len(p)] ==
        IF i = 0 THEN <<>>
        ELSE IF p[i] = Empty THEN kept[i - 1]
        ELSE Append(kept[i - 1], p[i])
  IN  kept[Len(p)]

First(h, S) == h \in S /\ \A g \in S : h <= g

FreeDirs(c) == {h \in Dir : ~InUse(c, h)}

FreeSearches(c) == {s \in Search : sh[c][s] = FreeSearch}

\* The parts of a path that name a volume.
Colons(p) == {i \in DOMAIN p : p[i] \notin Name}

\* fs_build_path: the path below the root of the handle's volume, or below
\* that of the first volume the path names, which must exist.
Buildable(p) == \A i \in Colons(p) : First(i, Colons(p)) => p[i].vol \in mounted

Resolve(volno, p) ==
  IF Colons(p) = {} THEN [vol |-> volno, path |-> NonEmpty(p)]
  ELSE LET i == CHOOSE j \in Colons(p) : First(j, Colons(p))
       IN  [vol |-> p[i].vol,
            path |-> NonEmpty(<<p[i].name>> \o SubSeq(p, i + 1, Len(p)))]

\* Mutant: the volume after the one that was found.
SplitNext(p) == IF 1 \in Colons(p)
                THEN [volno |-> p[1].vol + 1, path |-> [p EXCEPT ![1] = p[1].name]]
                ELSE [volno |-> 0, path |-> p]

\* What fs_con_alloc_dh stores: a volume at the very beginning of the path
\* becomes the volume of the handle, any other stays in the path.
Split(p) == IF 1 \in Colons(p)
            THEN [volno |-> p[1].vol, path |-> [p EXCEPT ![1] = p[1].name]]
            ELSE [volno |-> 0, path |-> p]

\* Mutant: only the handles of the first kind are looked at.
InUseByPermOnly(v) == \E c \in used : \E h \in Dir :
                        dh[c][h].flags = "perm" /\ dh[c][h].volno = v

\* fs_volume_inuse
VolumeInUse(v) == \E c \in used : \E h \in Dir :
                    InUse(c, h) /\ dh[c][h].volno = v

\* The tables as conn_logout leaves them: handles 0 and 1 are SYS:LOGIN, or
\* nothing if there is no such directory.
Fresh(h) == [i \in Dir |-> IF i \in {0, 1} THEN h ELSE Unused]

LoginHandle == [flags |-> "perm", volno |-> 0, path |-> <<Login>>]

-----------------------------------------------------------------------------
(* Actions *)

Init ==
  /\ used = {}
  /\ dh = [c \in Client |-> [h \in Dir |-> Unused]]
  /\ sh = [c \in Client |-> [s \in Search |-> FreeSearch]]
  /\ mounted = Volume
  /\ strayed = FALSE

\* A create, or a logout of a used connection: conn_logout.
LogOut(c) ==
  /\ used' = used \cup {c}
  /\ \E first \in {LoginHandle, Unused} : dh' = [dh EXCEPT ![c] = Fresh(first)]
  /\ sh' = [sh EXCEPT ![c] = [s \in Search |-> FreeSearch]]
  /\ UNCHANGED <<mounted, strayed>>

\* A destroy, a clear, or a drop by the watchdog: the record is wiped.
Wipe(c) ==
  /\ used' = used \ {c}
  /\ dh' = [dh EXCEPT ![c] = [h \in Dir |-> Unused]]
  /\ sh' = [sh EXCEPT ![c] = [s \in Search |-> FreeSearch]]
  /\ UNCHANGED <<mounted, strayed>>

\* NCP 22 18 and 19: fs_con_alloc_dh with volume 0 unless the path names one.
AllocDir(c, flags, p) ==
  /\ c \in used
  /\ Buildable(p) /\ Buildable(Split(p).path)
  /\ \E h \in Dir :
       /\ First(h, FreeDirs(c))
       /\ dh' = [dh EXCEPT ![c][h] =
                   [flags |-> flags, volno |-> Split(p).volno, path |-> Split(p).path]]
  /\ UNCHANGED <<used, sh, mounted, strayed>>

\* The same when there is no such volume or directory: the handle is wiped
\* again, with what a copy of an unused handle may have left in it.
AllocDirFails(c) ==
  /\ c \in used
  /\ \E h \in Dir : First(h, FreeDirs(c)) /\ dh' = [dh EXCEPT ![c][h] = Unused]
  /\ UNCHANGED <<used, sh, mounted, strayed>>

\* NCP 22 20: the range test lets NDirs pass, one more than there are
\* handles; what is wiped then is the search handle that follows them.
DeallocDir(c, h) ==
  /\ c \in used
  /\ h <= NDirs
  /\ IF h = NDirs
     THEN sh' = [sh EXCEPT ![c] = [s \in Search |-> IF s = 0 THEN FreeSearch ELSE @[s]]]
          /\ UNCHANGED dh
     ELSE dh' = [dh EXCEPT ![c][h] = Unused] /\ UNCHANGED sh
  /\ UNCHANGED <<used, mounted, strayed>>

\* Appending a path: snprintf from a buffer onto itself, which the C library
\* may do as meant or after emptying the buffer.
Appended(p, q) == {p \o q, <<Empty>> \o q}

\* NCP 22 0 with a path: the source handle, used or not, is copied to the
\* destination and the path appended; it need not exist.
SetDirPath(c, dest, src, q) ==
  /\ c \in used
  /\ \E p \in Appended(dh[c][src].path, q) :
       /\ Len(p) <= MaxParts
       /\ dh' = [dh EXCEPT ![c][dest] = [dh[c][src] EXCEPT !.path = p]]
  /\ UNCHANGED <<used, sh, mounted, strayed>>

\* NCP 22 0 with "..": what follows the last slash goes, if there is one.
SetDirUp(c, dest, src) ==
  /\ c \in used
  /\ LET p == dh[c][src].path
     IN  dh' = [dh EXCEPT ![c][dest] = [dh[c][src] EXCEPT !.path =
                  IF Len(p) > 1 THEN SubSeq(p, 1, Len(p) - 1) ELSE p]]
  /\ UNCHANGED <<used, sh, mounted, strayed>>

\* NCP 22 0 with the number of a source that is no handle: whatever lies
\* behind the table is copied to the destination.
SetDirFromBehind(c, dest) ==
  /\ c \in used
  /\ \E r \in Stray : dh' = [dh EXCEPT ![c][dest] = r]
  /\ strayed' = TRUE
  /\ UNCHANGED <<used, sh, mounted>>

\* NCP 22 0 with the number of a destination that is no handle: what lies
\* behind the table is overwritten, which is search handles, a part of
\* another connection's record, or nothing that is modelled here.
SetDirBehind(c) ==
  /\ c \in used
  /\ \E d \in Client :
       \/ \E s \in Search, r \in {FreeSearch, LostSearch} :
            sh' = [sh EXCEPT ![d][s] = r] /\ UNCHANGED <<used, dh>>
       \/ \E h \in Dir, r \in Stray :
            dh' = [dh EXCEPT ![d][h] = r] /\ UNCHANGED <<used, sh>>
       \/ used' \in {used \cup {d}, used \ {d}, used} /\ UNCHANGED <<dh, sh>>
  /\ strayed' = TRUE
  /\ UNCHANGED mounted

\* NCP 62: fs_con_alloc_sh has the path built in the search handle itself.
InitSearch(c, h, q) ==
  /\ c \in used
  /\ InUse(c, h)
  /\ \E s \in Search :
       /\ First(s, FreeSearches(c))
       /\ LET p == dh[c][h].path \o q
          IN  sh' = [sh EXCEPT ![c][s] =
                IF Buildable(p)
                THEN [at |-> "open", place |-> Resolve(dh[c][h].volno, p),
                      rel |-> q, dh |-> h]
                ELSE LostSearch]
  /\ UNCHANGED <<used, dh, mounted, strayed>>

\* The same from a number behind the table: the memory there is the handle.
InitSearchBehind(c, h, q) ==
  /\ c \in used
  /\ \E s \in Search, r \in Stray :
       /\ First(s, FreeSearches(c)) /\ r.flags # "unused"
       /\ LET p == r.path \o q
          IN  sh' = [sh EXCEPT ![c][s] =
                IF Buildable(p)
                THEN [at |-> "open", place |-> Resolve(r.volno, p), rel |-> q, dh |-> h]
                ELSE LostSearch]
  /\ UNCHANGED <<used, dh, mounted, strayed>>

\* NCP 24: end of job frees the search handles.
EndOfJob(c) ==
  /\ c \in used
  /\ sh' = [sh EXCEPT ![c] = [s \in Search |-> FreeSearch]]
  /\ UNCHANGED <<used, dh, mounted, strayed>>

\* The web interface dismounts any volume but SYS that is not in use.
Dismount(v) ==
  /\ v \in mounted \ {0}
  /\ ~VolumeInUse(v)
  /\ mounted' = mounted \ {v}
  /\ UNCHANGED <<used, dh, sh, strayed>>

Next ==
  \/ \E c \in Client :
       \/ LogOut(c) \/ Wipe(c) \/ EndOfJob(c) \/ AllocDirFails(c)
       \/ \E flags \in {"perm", "temp"}, p \in Input : AllocDir(c, flags, p)
       \/ \E h \in 0..NDirs : DeallocDir(c, h)
       \/ \E dest, src \in Dir : SetDirUp(c, dest, src)
       \/ \E dest, src \in Dir, q \in Input : SetDirPath(c, dest, src, q)
       \/ \E dest \in Dir : SetDirFromBehind(c, dest)
       \/ SetDirBehind(c)
       \/ \E h \in Dir, q \in Input : InitSearch(c, h, q)
       \/ \E h \in DirNo \ Dir, q \in Input : InitSearchBehind(c, h, q)
  \/ \E v \in Volume : Dismount(v)

Spec == Init /\ [][Next]_vars

-----------------------------------------------------------------------------
(* Properties *)

\* No handle names a volume that has been dismounted, whoever allocated,
\* copied, logged out or was cleared meanwhile: fs_build_path takes the path
\* of volume[volno] without asking whether that volume is there.  It fails
\* where "XXX: check dh range!" (ncp_22.c:364) says what is missing.
EveryHandleOnMountedVolume ==
  \A c \in Client, h \in Dir : InUse(c, h) => dh[c][h].volno \in mounted

\* That holds as long as no NCP 22 0 has named a number behind the table.
HandlesOnMountedVolumes == ~strayed => EveryHandleOnMountedVolume

\* "This will check whether volume [no] is in use": the same for searches.
\* It fails, since fs_volume_inuse looks at directory handles only and the
\* handle a search was started from may be gone.
SearchesOnMountedVolumes ==
  \A c \in Client, s \in Search :
    sh[c][s].at = "open" => sh[c][s].place.vol \in mounted

\* "Do we have rights in this directory?": NCP 63 asks for the rights below
\* the directory handle the search was started from, which must then be where
\* the search is.  It fails, since the handle may be changed or freed.
RightsAreOfTheSearchedPlace ==
  \A c \in Client, s \in Search :
    sh[c][s].at = "open" =>
      LET d == IF sh[c][s].dh \in Dir THEN dh[c][sh[c][s].dh] ELSE Unused
      IN  /\ d.flags # "unused"
          /\ Resolve(d.volno, d.path \o sh[c][s].rel) = sh[c][s].place

\* A search handle is only taken by a search that was started: it fails when
\* the path names a volume that does not exist.
SearchesWereStarted ==
  \A c \in Client, s \in Search : sh[c][s] # LostSearch

\* Freeing a directory handle leaves the searches alone: it fails for the
\* number after the last, which the range test lets pass.
DeallocLeavesSearches ==
  [][\A c \in Client, h \in 0..NDirs : DeallocDir(c, h) => UNCHANGED sh]_vars

\* Setting a path appends it to that of the source handle: it fails where the
\* library empties the buffer before it reads it.
SetDirPathAppends ==
  [][\A c \in Client, dest, src \in Dir, q \in Input :
       SetDirPath(c, dest, src, q) =>
         dh'[c][dest].path = dh[c][src].path \o q]_vars
=============================================================================
