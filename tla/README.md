# TLA+ models of the frommel NetWare server

frommel (`src/`) is a NetWare 3.x file server for Unix: IPX workstations send it NCP
requests, it answers with files, directories, rights and bindery objects. This directory
holds TLA+ modules that model its stateful parts, TLC configurations that check them on small
instances, and TLAPS proofs of the properties that matter most, for every size of the tables.

File names below are relative to `src/src/src/server/`, unless they begin with `lib/`
(`src/src/src/lib/`), `include/` or `doc/` (`src/src/include/`, `src/src/doc/`).

## 1. Inventory

The server is one process with one thread. `main.c`'s `poll()` waits in `select` and runs the
handler of each socket that has data to its end. The only concurrency inside the process is
`SIGALRM`: `sap_init` installs `sap_event`, which broadcasts the server's identity, cleans up
the table of services and, since "this doesn't belong here", the connection table. Nothing
blocks the signal, so it comes between any two statements of a handler.

| Component | State | Operations | Correct if |
|---|---|---|---|
| Connection table, `conn.c` | `conn[1..nofconns]`: status, address, times, user, handles, message | attach, logout, clear, cleanup | a node has one slot; a free slot keeps nothing; a slot is reclaimed when its client is gone |
| NCP dispatch, `ncp.c` | a packet | create, request, destroy; open, close, search, end of job, read, write | a request is served for the slot of its sender only |
| Watchdog, `wdog.c` | `wdog_time`, datagrams in flight | query, answer | who answers keeps the slot, who is silent loses it |
| Handles, `fs.c`, `ncp_22.c` | 32 directory, 16 search and 64 file handles per slot | allocate, set, free, search, open, close | a handle stays what its owner made it and refers to something that exists |
| Volumes, `lib/volume.c` | name, path, flags of 16 volumes | add, find, dismount | a volume in use is not dismounted |
| Trustees, `trustee.c` | one `$TRUSTEE.SYS` file per directory | grant, remove, look up | the files are a map from objects to rights; rights are inherited; equivalents count |
| Bindery logic, `bindery.c` | values of set properties | add, delete, member test; access, passwords | a set property is a set |
| Bindery files, `binderyio.c` | three files: objects, properties chained from objects, values | add, delete, change, read, write, scan | chains are acyclic and complete; a deletion removes what it names; crashes leave no dangling records |
| SQL binderies, `binderyio_mysql.c`, `binderyio_pgsql.c` | the same in tables | the same | the same abstract bindery |
| NCP 21, `ncp_21.c` | message buffer and switch per slot | send, fetch, enable, disable | a message reaches the one it is for, once |
| NCP 23, `ncp_23.c` | (bindery, connections) | logins, bindery calls, clear, down | calls change what their rights allow |
| SAP, `sap.c` | 16 services with the time of their last announcement | response, request, cleanup | announced services are listed once, dead ones go |
| GASP, `gasp_server.c` | 8 operator sessions | hello, auth, commands, disconnect | commands need authentication; sessions are given back |
| Web, `web.c` | page state, HTTP sockets | clear a connection, dismount, send a message | as the operations it calls |
| Link, `link.c` | 8 linked servers | greeting only | unfinished in this version |
| Start-up and rest | `lib/config.c`, `lib/net.c`, `net_linux.c`, `lib/crypt.c`, `lib/misc.c`, `ncp_34.c`, `ncp_87.c` | parsing, sockets, formats, stubs | no state that a later step depends on |
| Console programs | `console/console.c`, `lib/gasp_client.c`; `fconsole.c`, `rconsole*.c` (not built) | GASP client, bindery editor, terminal relay | |

How they interact: NCP handlers call the handle, trustee and bindery functions on the slot the
packet names; `trustee.c` builds its path through `fs.c` and reads the bindery for equivalents;
`sap.c` registers servers in the bindery; `web.c` and `gasp_server.c` clear connections and
dismount volumes; `sap_event` calls the connection cleanup, which sends watchdog queries.

What is hard: the alarm inside a handler; clients that vanish, repeat or change their mind in the
middle of a protocol (create, search, grant); datagrams that are lost, late or doubled; tables
that are full; records that are wiped to zero where zero means something; files rewritten in
several steps; loops over bytes that should be loops over entries; requests that are
carried out twice; numbers in requests that no table has; statements of a database that fail
between others. `PROJECT.json` lists the
hazards at their lines with the properties that cover them, or why none does.

## 2. Modules

| Module | Models | Composes / refines |
|---|---|---|
| `FrommelSessions` | abstract: who has which slot, who is logged in | |
| `FrommelConn` | connection table, file handles, watchdog, operator | implements `FrommelSessions` |
| `FrommelAlarm` | the same with SIGALRM between the statements of an attach or a request | extends `FrommelConn` |
| `FrommelConnProofs` | proofs about `FrommelConn` and `FrommelAlarm` | `FrommelAlarm` without alarms implements `FrommelConn` |
| `FrommelHandles` | directory and search handles, volumes | |
| `FrommelTrustees` | abstract: rights of objects in directories | |
| `FrommelTrustee` | trustee files, lookup, interrupted removal | implements `FrommelTrustees` |
| `FrommelDirectoryProofs` | proofs about `FrommelHandles` and `FrommelTrustee` | |
| `FrommelMembers` | abstract: a set of object numbers | |
| `FrommelSets` | the value of a set property, byte by byte | implements `FrommelMembers` for numbers that are `Apart` |
| `FrommelSap` | service table, statement by statement under SIGALRM | |
| `FrommelSapProofs` | proofs about `FrommelSap` | |
| `FrommelObjects` | abstract: objects, their properties, their values | |
| `FrommelBindery` | the three bindery files, failing writes, crashes | implements `FrommelObjects` until a write fails or the server is killed |
| `FrommelBinderyProofs` | proofs about `FrommelBindery` and `FrommelSets` | |
| `FrommelSql` | the bindery's tables, statement by statement | |
| `FrommelMysql`, `FrommelPgsql` | what each database does with values, transactions and failures | extend `FrommelSql` |
| `FrommelDatabases` | the server built with one or the other | implements `FrommelObjects` |
| `FrommelDatabasesProofs` | proofs about it, and about the tables below it | |
| `FrommelMessages` | message buffers and switches, NCP 21, broadcasts | |
| `FrommelGasp` | operator sessions, consoles, their datagrams | extends `FrommelMessages` |
| `FrommelGaspProofs` | proofs about both | |
| `FrommelLogins` | who a connection is, what it may do in the bindery | |
| `FrommelLoginsProofs` | proofs about `FrommelLogins` | |
| `FrommelFiles` | file calls of clients that repeat requests | |
| `FrommelFilesProofs` | proofs about `FrommelFiles` | |
| `MC*` | values of the constants for TLC; `MCSap.cfg`, `MCGasp.cfg` and `MCFiles.cfg` need none but model values and run the modules as they are | |

### FrommelConn

`conn` is the table; a record has the fields the properties depend on: status, address (network
and host are one `node`, the socket is `port`), the age of `last_time`, whether `wdog_time` is
set, the user and the file handles. `fdt` is the kernel's table of descriptors, which makes
`close(0)` and forgotten descriptors visible. `wire` holds watchdog queries that may still be
answered; it is a set from which an answer may or may not remove its query, so answers may be
lost, late, doubled and reordered. `silent` are nodes that have stopped sending.

One action is one handler: `CreateConn`, `DestroyConn`, `Request` (any call that changes nothing
else, failing ones included), `KeyedLogin`, `Logout`, `OpenFile`, `CloseFile`, `ClearConn`,
`OperatorClear`, `WatchdogAnswer`, `ConnCleanup`. `conn_logout` and `conn_clear` are the
operators `LoggedOut`, `Closed` and `Blank`: a wiped record has all-zero handles, as in the code,
and the first logout on it closes descriptor 0. `CloseFile` takes the handles of the table;
neither `ncp.c:530` nor `fs.c:471` asks whether a number is one, and what memory behind the
handles would be taken for one is left out.

### FrommelAlarm

Cuts an attach into scan, closing of files, logout, address, times, and a request into the test
of its address and its execution; `Amid` is `conn_cleanup` between two of these. One alarm at
most falls into one handler (the interval is at least a second). `OneSlotPerNode` and
`HandlesOwnTheirFiles` survive this; `ReturnedSlotIsFresh` does not.

### FrommelHandles

A path is the sequence of its parts; the interesting form, `VOLUME:rest`, is a record. `Resolve`
and `Buildable` are `fs_build_path`, `Split` the volume handling of `fs_con_alloc_dh`. Whether a
directory exists is the file system's affair, so a call that needs one may succeed or fail. The
tables keep what the code leaves in them: a search handle whose path was half built
(`LostSearch`), an unused directory handle with a path copied into it. NCP 22 0 does not compare
the numbers of its handles with the size of the table ("XXX: check dh range!",
`ncp_22.c:364`), and NCP 62 does not either: what lies behind the table is copied
(`SetDirFromBehind`), overwritten (`SetDirBehind`) or searched through (`InitSearchBehind`).
`Stray` is what that memory may be when it is read as a handle, volume numbers that do not exist
included; `strayed` remembers that NCP 22 0 has named a number behind the table. `snprintf` onto its own
source is undefined in C; the model takes either of two outcomes, the old path kept or lost.

### FrommelTrustee

One volume path of nested directories, one file each, a file the sequence of its records. Rights
are the two bytes of the word, as sets of bits. `RemoveCutShort` is a removal whose `ftruncate`
fails or never happens; it is part of `CrashSpec` only. `Consulted` is the loop over
SECURITY_EQUALS as it is, with its overwritten counter. Supervisors and SYS:LOGIN are decided
before the files are looked at and are left out.

### FrommelSets

The 128 bytes of a value with windows at every byte offset. `Id` is the set of object numbers in
use. `Apart` says which numbers the loops can tell apart: none ends in a zero byte, and what is read
across two entries is not one of them. Numbers below 256 are, and so are most that `random()`
yields; the module shows what holds for these and what fails for the rest.

### FrommelSap

The table with ages; a response is handled entry by entry and field by field, `step` being the
next statement, and the alarm comes between any two of them. `cleaned` remembers that it came
during the response at hand: `AnnouncedIsListed` is about responses without one. `Blank` is what an
unused slot has for a name and a type.

### FrommelBindery

`obj`, `prop` and `val` are the sequences of records of the three files. A name stands for a
name with its type, a value for 128 bytes; numbers are drawn in order, where `random()` draws
them without order, since the code only compares them. `Seeded` says whether the build calls
`srandomdev`, which it does on FreeBSD only (`main.c:261`): a server that does not draws the numbers
of its last run again after a restart (`Restart`).
`Chain` follows `next` links, so a chain may loop or lead nowhere. A call that is refused for
lack of access only reads (`Look`).

`disk` is what a killed server leaves. The last write to a file stays in stdio's buffer until
the file is next sought in, and every write comes after a seek, so at most one record per file
is pending; a C library that writes earlier leaves a state that a `Look` leaves too. A deletion
sets lengths between its writes, so a server that is killed there may leave something else:
`CrashInDeleteProp` (the value is cut off, the property is not) and `CrashInEndDelete` (the last
object is in the file twice, or the deleted one not replaced yet). The library
is taken to forget what it read when it seeks in a file opened for reading and writing, as those
of the BSDs do; otherwise reads after an `ftruncate` could find
the records that were cut off.

A deletion goes property by property (`job`). Three things in it are modelled as they are:
`bindio_dump` leaves the property file at its end, so the last record is cut off, whichever was
meant; a value that is not the last is overwritten by the last one without cutting that off; and
the record that is written over the predecessor, or over the object, was never read
(`StackProps`, `StackObjects`: records the stack may hold from earlier calls, or zeros).
`CrashSpec` has the deletions that come out right in spite of this (objects without properties,
or with one that was added last of all), writes that fail and a server that is killed; `harmed`
remembers that one of the latter happened. `Spec` has all deletions.

### FrommelSql, FrommelMysql, FrommelPgsql, FrommelDatabases

Tables are sets of rows, and a step is one SQL statement, which may fail; the server may be
killed between two. `call` is the call that is going on, with the rows it is about. `One` is the
condition every query of the code asks for: exactly one row. A query that fails is the same to the
code as one that finds none, so an add may go on to its INSERT although the row is there
(`NotFound`); `blind` remembers the objects to which that happened. Numbers come from
AUTO_INCREMENT or a sequence and never come back.

MySQL keeps a value in its row, and every statement commits. PostgreSQL keeps the number of a
large object there: `large` is what the session sees, `kept` what is committed, `tx` the
transaction, whose BEGIN and COMMIT may fail unnoticed. A statement that fails in a transaction
aborts it, and since the calls then return without COMMIT the session answers nothing any more
(`Idle`) until `Restart`. `Recreate` is `bind_init` with `-r`; it is in `DbRecreateSpec` only.
`backend` chooses between the two as `configure` does. `Directory` is what clients find by name:
of PostgreSQL, what they find after a restart.

### FrommelMessages

Status, message and switch of each connection; `due` is history: what was sent during the
session and not fetched since. Sending to a list of stations stores the message with the sender
(`SendBcastOld`), and the switch that a broadcast by NCP 23 asks is the sender's, as in the code.
Station numbers that no slot has (`ncp_23.c:1316`) and messages longer than the buffer
(`gasp_server.c:289`) are left out.

### FrommelGasp

`session` is the server's table, `console` what each run of the console program does and waits
for, `requests` and `replies` the datagrams in between: sets, so they overtake each other;
`Lose` loses one, `Doubled` delivers them again. The server answers every request in one step. A
console sends once and waits; an answer names a session and no request. `failed` remembers whose
datagrams were lost and who was killed, because the properties promise nothing more to these.
A key is known by the console it was made for. Commands change connections through
`FrommelMessages`.

Nothing obliges a datagram to come from a console, and the server does not compare its sender
with the session it names: `Stray` are requests of the kinds in `Foreign`, with any sender, session and
key, which may arrive at any time and are served as they are (`strange` remembers it). `Beyond` is
a number behind the table of sessions, which nothing tests; what is overwritten there is left out, as
are datagrams shorter than a request's head and commands whose data have the wrong size
(`BADCMD`), which change nothing.

### FrommelLogins

The calls of NCP 23 that change who may do what: logins, objects, properties, the lists of
members and supervisors, writing their values, passwords. The levels a client creates objects and
properties with are its own choice (`Access`), and so is what it writes into a list (`Raw`). A property is a set of members, or a password; how these
are stored is the matter of the modules above. `Granted` is `bind_check_access` level by level,
with the level for the operating system granted, as it is. `login` and `given` are history, and so
is `lent`: the objects that a supervisor, or a supervisor of theirs, has created with another level
for writing than 3, or whose rights it has put into a property with such a level. What
a client can send for a password is that password or `"wrong"`, since keys are random; what is
stored for one that was decrypted with anything but the right key is `"scrambled"`.

### FrommelFiles

Names refer to files, handles to open files, `data` to their contents. A request is answered in
one step, may fail for any reason the file system or the rights give, and is not remembered: a
repeated request is carried out again. A request of a type that `ncp_handle_packet` does not
know (`"other"`) is not answered, and a datagram that is too short for its head ends the server
(`TooSmall`, `up`), whoever sent it. A create that is refused is not answered either (`ncp.c:65`);
creates are in `FrommelConn`, and clients here are connected. Handles in requests are those of the
table, which `ncp.c:1060` and `ncp.c:1209` do not test. `client` is what a client knows (its handles) and waits
for; it repeats a request until it has an answer with the request's number. `Ordered` says
whether one client's datagrams may overtake each other. `dirs` counts the directories that
erasing opened.

## 3. Runs and what they show

| Run | Instance | Result |
|---|---|---|
| `conn_sessions` | 2 slots, 2 nodes of 2 ports, timeout 1, fair clock and alarm | whole slots; implements `FrommelSessions`; a silent node's slot becomes free |
| `alarm_anywhere` | 2 slots, 2 nodes, 1 file handle, 3 descriptors, alarm inside handlers | types; one slot per node and file ownership hold all the same |
| `handles_one_client` | 2 directory handles, 1 search handle, 2 volumes, 5 forms of path | no handle on a dismounted volume, unless a handle was copied from or to behind the table |
| `trustee_files` | 2 directories, 3 objects, 3 records | implements `FrommelTrustees`, with one record per object |
| `trustee_interrupted` | 1 directory, 3 objects, 4 records, cuts | grants still take effect; the first cut harms nobody else |
| `sets_apart` | 20 entries, 4 numbers of one, two and four bytes | implements `FrommelMembers`; what is deleted is gone, also if it was there twice |
| `sap_alarm` | 2 slots, 3 services, packets of 2, alarm anywhere, fair | no service twice; what a response announced is listed; dead ones go |
| `bindery_files` | 2 objects, 3 properties, 8 numbers, failing writes and crashes, seeded | implements `FrommelObjects` until then; writes are read back; afterwards chains still end, stay with their object and have no property twice |
| `databases` | 2 objects, 2 properties, up to 3 rows, 2 large objects | rows have owners; nothing is shared; values are read back; rows come once, and it implements `FrommelObjects`, but for objects that were added again after a failed query |
| `gasp_consoles` | 1 session, 2 consoles, 2 connections, lost datagrams, a password or broadcast from anywhere | until the latter arrives, sessions and answers belong to one console and come back; messages do not outlive sessions; no console waits for ever |
| `logins` | 2 connections, 2 names, 3 numbers, 3 properties, two levels for SECURITY_EQUALS | names stay with who logged in; reported levels are granted; only supervisors make supervisors, until one leaves that to others |
| `files` | 1 client, 2 names, 2 files, 2 handles, 2 descriptors | answers are the client's own; handles stay with their files; every request of a known type is answered while the server runs |

A run checks at most the properties that say something of their own; the type invariant of each
module is a conjunct of what the proofs rest on.

### More counterexamples

`MC*Refuted.cfg` beside the runs have properties that a comment or a document suggests, or that
one would like to have, and that the code does not have. TLC stops at the first one it meets;
each of them fails alone, too.

| Configuration | Refutes | What the code does |
|---|---|---|
| `MCConnRefuted` | `NoFileLeaks` | a destroyed connection's open files are forgotten, not closed (`ncp.c:101`) |
| | `ZeroIsOwnedToo` | a wiped slot has descriptor 0 in every file handle, so the next logout on it closes descriptor 0 (`conn.c:153`) |
| | `WatchdogIsCurrent` | a request resets `last_time` but not `wdog_time`, so a later silence is cut off without a query (`ncp.c:1389`) |
| | `AnswerCounts`, with `Cids` below the number of slots | watchdog packets carry one byte of the slot number (`wdog.c:55`) |
| `MCAlarmRefuted` | `ReturnedSlotIsFresh` | the alarm wipes the slot that an attach is about to return (`conn.c:124`) |
| `MCHandlesRefuted` | `EveryHandleOnMountedVolume` | memory behind the table is copied into a handle (`ncp_22.c:337`, "XXX: check dh range!" at 364) |
| | `SearchesOnMountedVolumes` | only directory handles keep a volume (`fs.c:505`) |
| | `RightsAreOfTheSearchedPlace` | NCP 63 asks for rights through a handle that may have changed (`ncp.c:343`) |
| | `SearchesWereStarted` | a search that fails halfway keeps its handle (`fs.c:306`) |
| | `DeallocLeavesSearches` | the number after the last directory handle passes the range test (`fs.c:251`) |
| | `SetDirPathAppends` | `snprintf` from a buffer into itself (`ncp_22.c:350`) |
| `MCTrusteeRefuted` | `RemovalRestoresParent`, with cuts | an interrupted removal leaves a record twice, a later removal takes one (`trustee.c:398`) |
| | `GrantTakesEffect` | NCP 22 13 stores its mask in the byte that is not consulted (`ncp_22.c:529`) |
| | `EquivalentsAllCount` | the loop over equivalents ends after the first (`trustee.c:225`) |
| `MCSetsRefuted` | `OnlyAddedJoin` | a window across two entries reads as a member (`bindery.c:312`) |
| | `AddKeepsMembers` | the blank found may begin with the last byte of a member (`bindery.c:219`) |
| | `MembersAddedOnce` | a blank before the member is filled first (`bindery.c:214`) |
| | `BlankEntriesCount` | the loops see 35 of 128 bytes (`bindery.c:194`) |
| `MCSapRefuted` | `AnnouncedSurvives` | the alarm takes a half-written service for a dead one (`sap.c:169`) |
| | `KnownIsUpdated` | a full table ends the reading of a response (`sap.c:159`) |
| `MCBinderyRefuted` | `DeleteSparesOthers` | deleting an object cuts off the last property of the file, whoever owns it (`binderyio.c:859`) |
| | `ServerStarts`, with any deletion | the record written over a predecessor may be a copy of its successor, which then links to itself: `bindio_dump` never returns (`binderyio.c:932`) |
| `MCDatabasesRefuted` | `EveryRowOnce` | an add whose query fails inserts a row that is there (`binderyio_mysql.c:352`, `binderyio_pgsql.c:413`) |
| | `FoundIsReadable` | a property that cannot be taken back is found and has no value (`binderyio_mysql.c:438`) |
| | `TransactionsEnd` | creating or writing a large object fails without COMMIT (`binderyio_pgsql.c:525`) |
| | `SupervisorIsOne` | a bindery that is created again goes on with its counters (`bindery.c:63`) |
| `MCGaspRefuted` | `DoneCloses` | a console that gave a wrong password is not authenticated, so its farewell is refused and the session stays taken (`gasp_server.c:417`) |
| | `CommandsInSession` | the sender of a command is not compared with the session's client, and an unused session needs no password: after a restart a console goes on in a session that is not its own (`gasp_server.c:417`) |
| | `SessionsOwned`, `RepliesAnswer`, with doubled datagrams or a restart | neither requests nor answers are numbered (`gasp_server.c:405`) |
| | `SwitchIsObeyed` | an operator, and NCP 21 0, do not ask the switch (`gasp_server.c:289`) |
| | `StationsAreTold` | NCP 21 0 stores the message with its sender (`ncp_21.c:171`) |
| `MCLoginsRefuted` | `LevelIsAll` | an object that supervises itself is told the lower level (`ncp_23.c:675`) |
| | `SupervisorIsCurrent` | the flag is set at the login and kept (`ncp_23.c:278`) |
| | `RefusedChangesNothing` | a password change with a wrong key reports the error and goes on (`ncp_23.c:819`) |
| | `FirstPasswordsAreChosen` | the first password is decrypted with an old one that was never read (`ncp_23.c:833`) |
| | `ManagersAreListed` | the user's own MANAGERS property is asked for the supervisor (`conn.c:262`) |
| | `ConnListIsOfConns` | the list of connections repeats the object's number (`ncp_23.c:1365`) |
| `MCFilesRefuted` | `HandlesStay`, where datagrams overtake each other | a close that arrives late closes what its handle names by then |
| | `HandlesAreKnown` | an open that is repeated takes two handles (`ncp.c:1386`) |
| | `RepeatsChangeNothing` | a repeated write comes back after somebody else's (`ncp.c:1386`) |
| | `ErasesGiveBack` | erasing opens a directory and does not close it (`ncp.c:1155`) |
| | `AllIsAnswered` | a request of an unknown type is not answered (`ncp.c:1403`), and a datagram that is too short ends the server (`ncp.c:1342`) |
| | `RenameLosesNothing` | renaming replaces a file of the new name (`ncp.c:1036`) |

One constant decides more than a size. With `Seeded = FALSE` in `MCBindery.cfg`, which is the server
on any system but FreeBSD, a restart draws numbers again that records in the files have, and all
of `FilesAreSound` fails, as does `WritesReadBack`: a new property may be linked to a chain of
another object, and a value be written that is two properties'. `ChainsComplete` and
`ImplementsObjects` hold then, too, since they are about servers that were never killed.

The bounds are chosen so that the interesting cases meet: two slots and two nodes make a full
table with somebody returning from another port (that a third node finds no room is covered by
the proofs, which hold for any number); descriptor 0 is one of three; one more tick
than the timeout is all an age can matter for; three records are the removed one, the moved one
and one that stays; the loops see five of a set's 20 entries, room for every number and a blank; a service table of
two is full while a third service is announced. Eight numbers make an object with three
properties, or two objects with three between them. Three rows of properties, with numbers that
never come back, are two properties and one more after a deletion or a failure. One GASP session
makes the second console wait for the first one's to come back; two connections are one whose
message is overwritten and one that was cleared. Three numbers let an object be deleted and made
again under its name, and three properties let it have two lists and somebody else one; four
properties were checked as well, but take longer than a run should. A client that repeats requests needs two copies under way and two sequence
numbers to take an old answer for a new one, and two handles, files and names to confuse them.

Bounds in guards are `MaxParts` (`FrommelHandles`), `MaxRecords` (`FrommelTrustee`), `MaxPacket`
(`FrommelSap`), `MaxDrawn` (`FrommelBindery`), `Limit` (`FrommelSql`), `NIds` and `MaxProps`
(`FrommelLogins`), `NFiles`, `MaxCopies` and `MaxAnswers` (`FrommelFiles`); ages stop at
the first value that counts as expired, and a console is started once.

Two runs have a constraint. `MCGasp.cfg` looks no further than a datagram that no console sent
(`Regular`), because the properties promise nothing then; `MCFiles.cfg` no further than the end of
the server (`Running`).

Symmetry is used for nodes, clients, objects and names, which the code compares for equality only, and
never in a liveness run. `MCGasp.cfg` turns the deadlock check off: with the server down and all
consoles gone nothing is left to do. No other run does.

Fairness: `FairSpec` of `FrommelConn` assumes that the clock ticks and that `conn_cleanup` runs
again and again, which real time and `setitimer` provide; nothing is assumed of clients or of
the network. `FairSpec` of `FrommelSap` assumes the same, and that the process goes on with the
handler it is in, which never blocks. `Spec` of `FrommelGasp` assumes that the server and the
consoles read what has arrived, which their loops do; a datagram may be lost, and a console that
lost one is promised nothing. `Spec` of `FrommelFiles` assumes that clients repeat requests, as
NetWare shells do, and, with strong fairness, that what is sent over and over is received in the
end.

## 4. Proofs

`FrommelConnProofs` proves, for every number of slots, handles and descriptors and every
timeout, from the named assumptions of `FrommelConn` (sizes are numbers, null values are no
nodes, users or owners):

- `TypeCorrect`, the type invariant, action by action; all others rest on it.
- `HandlesOwned`: with `TypeOK` the property is inductive as it stands. The argument is that a
  descriptor above 0 that is closed was, by the invariant, owned by the handle that is reset in
  the same step, and that one that is opened was free.
- `NodeHasOneSlot` and `WholeSlots`: together they are inductive (`SlotInv`): a slot that is
  used has an address, so the scan by address sees every used slot, and a free slot has none.
- `SessionsImplemented`: the refinement, step by step, from the invariants above.

Of `FrommelAlarm`, where `conn_cleanup` may run between any two statements of an attach or a
request, it proves:

- `AlarmTypeCorrect`, `AlarmNodeHasOneSlot` and `AlarmHandlesOwned`. One slot per node is not
  inductive here, since an attach writes the address some statements after its scan. `AlarmInv`
  adds `PlacedAlone`: as long as an attach goes on, no slot but the one it has chosen has an address
  at the sender's node. The alarm only takes addresses away, so it cannot break this.
- `UndisturbedAttachIsFresh`: if no alarm fell into the attach, the slot it returns has the address
  of the sender, nobody logged in and no files (`Undisturbed` says after each statement what it has
  left). `MCAlarmRefuted.cfg` shows that an alarm takes this away.
- `QuietHandlersAreWhole`: the statements of a handler, without an alarm between them, implement
  the one step that `FrommelConn` makes of it. The step of an attach is the scan that chooses the
  slot, and the mapping shows the slot from then on as it is going to be (`Coming`). This is what
  justifies a handler that is one action. Clients fall silent only between handlers there
  (`Quiet`), because `FrommelConn` has no state in between in which they could.

`FrommelDirectoryProofs` proves, for any number of clients, handles, volumes and any set of paths:

- `DirHandlesMounted`. `HandlesOnMountedVolumes` is not inductive: `fs_volume_inuse` looks at the
  handles of connections in use only, and a path without a volume is taken on SYS. `HandleInv` adds
  `UnusedEmpty` (a connection that is not in use has no handles) and `SysMounted` (volume 0 is
  never dismounted), and the types of the directory handles. The argument is that every action but
  `Dismount` replaces handles of one client by handles on mounted volumes (lemmas `Replaced` and
  `ReplacedOne`; `SplitMounted` for the one that is allocated), as long as NCP 22 0 has named no
  number behind the table. It is assumed of the paths that
  clients send that they are non-empty sequences of names and `VOLUME:name` parts.
- `HandleTypeCorrect`: the types of both tables (`SearchesOK`), whatever numbers NCP 22 0 and
  NCP 62 name; of what lies behind the table it is assumed that it can be read as a handle, with any
  volume number (`StrayAssumption`).
  What is left of a path when its empty parts are dropped is a function on the path's length; that
  it is a path again is an induction over the length.

and, for any directories, objects and number of records:

- `RecordsAreUnique`, the type invariant and `OneRecordPerTrustee`. They are inductive together
  (`FilesInv`): with one record per object the first one found is the only one.
- `TrusteesImplemented`, the refinement of `FrommelTrustees`. Lemmas `GrantedFile` and
  `RemovedFile` say what the two functions do to a file and to what is looked up in it;
  `ChangeSets` makes of each call the setting of one entry of the map.
- `RemovalsRestoreParent`: after a removal the object has what the parent directory gives it.

These are about calls that run to their end (`TrusteeSpec`). With removals that are cut short
(`CrashSpec`) a record may stand in a file twice, and the last of the three fails
(`MCTrusteeRefuted.cfg`). What remains, and is proved:

- `CrashTypeCorrect`: files are sequences of whole records.
- `ExtGrantsTakeEffect`: a grant writes the first record of the object, which is the one a check
  looks at, so it takes effect in any file.
- `FirstCutsHarmNobodyElse`: the first cut leaves a second copy of the last record where the
  removed one was; what is found for every other object stays the same. It needs
  `OneRecordPerTrustee` before the step, which is why only the first cut is harmless.

`FrommelSapProofs` proves, for a table of any size, packets of any length and the alarm between
any two statements:

- `SapListedOnce`. While a slot is written it may show any service, or half of one, so
  `ServicesListedOnce` is not inductive. `SapInv` has `OnceButSlot` instead: the *other* slots
  hold each service once, and none of them the one that is being written; the alarm only takes
  services away.
- `SapAnnouncedIsListed`. `ReadIsListed` says the same of the entries read so far; the argument
  is that a slot is taken for a new service only when it is free, and that without an alarm none
  becomes free.

`FrommelBinderyProofs` proves about the three files of `FrommelBindery`, of any length, with
numbers up to any bound, under `CrashSpec`, that is, with writes that fail and a server that may be
killed anywhere, also between the writes of a deletion:

- `BinderyTypeCorrect` and `FilesStaySound`, for a seeded server (`ASSUME Seeded`). That no chain has a loop is not inductive: it depends
  on how links are made. `BinderyInv` says of each pair of an object and a property file that the
  disk and the server's buffers may combine (`AllSound`) that links lead upward (from a record to
  one behind it, or to itself where a record was written over), that a record is linked
  to at most once, and only from its own object (`Sound`); that all numbers in the files were drawn
  (`AllOld`), which makes the next one new; and what a deletion that goes on has left
  (`JobReady`: the property to be deleted is the last of the file). A chain that starts
  from an object never reaches a record that links to itself, so each link of it leads further up
  the file, which ends: an induction over the links (lemma `ChainClimbs`).
- `ChainsAreComplete`. As long as nothing was harmed, `Complete` holds besides: every link of a
  chain leads to a record or is Nil, and every property but the first of an object is linked from
  another one of it.
- `FilesImplementObjects`: the refinement of `FrommelObjects`, until a write fails or the server is
  killed. A property that is added is the only one of its name with its object's number; an object
  that is deleted is gone from the directory when its deletion begins, and the records that are
  cut off after that are its own, or copies of ones that were moved.
- `FilesWritesReadBack`, for a seeded server: a value that is written is read back, in files that
  were harmed, too, since a number stands for one value even there.

`ChainsAreComplete` and `FilesImplementObjects` need no seed: a server that was never killed draws no
number twice.

`CrashSpec` has only the deletions that come out right; with those it leaves out,
a chain may loop and other objects lose properties (`MCBinderyRefuted.cfg`).

About `FrommelSets` it proves, for numbers of any length, any number of entries and any bytes, as
long as object numbers are `Apart`:

- `SetsImplementMembers`, the refinement of `FrommelMembers`, and `DeletedMembersAreGone`. The code
  compares at every byte offset, so the invariant is `Structured`: every entry is a number
  or blank. Then a window that reads as a number is an entry, and the first blank window
  found is an entry, too (`BlankIsEntry`). The deletion's loop over offsets is a function on
  the offset; that it leaves no window with the number is an induction over it. Numbers that are
  not `Apart` can be misread and overwritten (`MCSetsRefuted.cfg`).

`FrommelDatabasesProofs` proves, for any names, rows, large objects and bounds, wherever a statement
fails or the server is killed:

- `DbRowsOnce`, `DbRowsHaveOwners`, `DbNothingShared` and the types, `DbTypeCorrect`. The invariant
  of the tables, `TablesInv`, says of each statement what those before it have left
  (`CallReady`: the property that is inserted is new, unless its object is `blind`, the object that
  is deleted has no rows left) and that numbers in use were given before (`NumbersGiven`), which makes the next one new.
  `LargeInv` says the same of PostgreSQL's large objects, of what the session sees and of what is
  committed, so that it holds after any COMMIT, abort or restart, noticed or not.
- `DbImplementsObjects` and `DbWritesReadBack`. `DirInv` adds that a number and a name determine a
  row (`IdsOnce`) and that the rows a call is about are still those it found (`MysqlReady`,
  `PgsqlReady`). For PostgreSQL, `Sync` says that outside a transaction the session sees what is
  committed. The directory of clients changes at one statement of each call only: the
  one that inserts the value, deletes the object, or, in PostgreSQL, commits. An object that was
  added again after a failed query is excepted from `DbRowsOnce` and may change as it likes in
  `DbImplementsObjects`; that all other objects keep their rows and entries is what these say of it
  (`MCDatabasesRefuted.cfg` shows the duplicate).

`FrommelGaspProofs` proves `ConsolesOwnTheirSessions` and `AnswersMatchRequests` for any number of consoles and sessions, whatever datagrams are lost or
overtaken, under the assumption `~Doubled`: no datagram is delivered twice
(`MCGaspRefuted.cfg` shows what happens if one is), and until something arrives that no console
sent. `GaspInv` rests on `OneDatagram`: a console
never has more than one datagram under way, request or answer, so that an answer without a number
can only be one to its last request; `ConsolesKnow` ties what a console believes to the session
the server has for it. `SessionsAreGivenBack` adds `ComeBack`: a console greets once and so
has one session, once it is authorised it can always end it, and its farewell is then not refused;
only consoles that were killed, lost a datagram or were never authorised leave one behind.
`MessagesAreDue` (`MailInv`) needs no assumption on datagrams: it holds whatever arrives, from
whomever.

`FrommelLoginsProofs` proves, for any connections, names, properties and passwords:

- `StationsAreTrue` and `LevelsAreGranted`, from `LoginsInv`: numbers are given once, and a
  connection keeps a number that was given, of an object of the name it logged in with, or of
  none any more.
- `OnlySupervisorsPromote`, whatever levels clients choose and whatever they write into lists.
  `Guarded` says that an object that is not `lent` was created with level 3 for writing, and so were
  its lists of equivalents and supervisors; what is granted at that level is granted to those
  whom the object trusts (lemma `GrantedThree`).

`FrommelFilesProofs` proves `AnswersAreTheirs` and `HandlesStayOpen`, for any number of clients,
names, files, handles and copies and any range of sequence numbers of at least two, under the
assumption `Ordered`. `FilesInv` is that of an alternating-bit protocol: what is under way
belongs to the client's last request or to the one before, the earlier ones come first
(`InOrder`), and once there is an answer to the last request no earlier request is left. To this
it adds that a client has no handle that a request under way may close, and that a handle in an
answer it waits for is open. Without `Ordered`
`HandlesStay` fails (`MCFilesRefuted.cfg`).

The induction over positions and lengths uses that every non-empty set of numbers has a least
element (lemmas `LeastOfSet` and `Climb`), from the library's theorem that `<` on the natural
numbers is well-founded. The loops it is about are written as functions, not as `RECURSIVE`
operators, which the prover does not accept.

Only model-checked are the liveness properties, since liveness under fairness and `ENABLED` are
beyond the prover: `SilentLosesSlot` of `FrommelConn`, `DeadServicesGo` of `FrommelSap`,
`ConsolesGoOn` of `FrommelGasp` and `AnswersCome` of `FrommelFiles`. Every other property of a run
is stated by a theorem. That the configurations in section 3 refute what they refute is shown by
TLC's counterexamples.

## 5. Not modelled

- Listings (NCP 22 30, NCP 62 to 64 beyond the search handle, the wildcard scans of the
  binderies) only read; what a client sees of a directory that changes under it depends on the
  order in which the host's file system returns names.
- DOS names, file attributes, dates, the formats of packets, HTTP and its templates, the screen of
  the console, the configuration file: text and formats, of which no later step depends on more
  than the models have as constants and choices.
- Sockets and the discovery of IPX interfaces: the network is an environment that loses, delays
  and doubles datagrams.
- The NetWare password encryption is a fixed function of bytes; here a password is the one that
  is stored or another.
- NCP 34 and NCP 87 answer with constants; the link between servers is unfinished; the remote
  console and the configurator are not built.

## 6. Plan

What could follow, in this order:

1. Trustees and handles together, over two volumes (`trustee.c:143`: a path that names another
   volume than its directory handle).
2. Rights in `FrommelFiles`, which are a choice there.
3. `FrommelListing`: NCP 62 and 63 over a directory that changes between two calls.
4. Liveness of the abstract specifications, from which that of the detailed ones would follow by
   the refinements that are proved, without fairness, so far.
5. The deletions that `CrashSpec` of `FrommelBindery` leaves out: what is the most that holds after
   one, for chains that do not end.
