------------------------------ MODULE Registry ------------------------------
(***************************************************************************)
(* How a client finds a server: the registry of names, the path a server   *)
(* listens on and the shared-memory segment it offers, all of them names   *)
(* that every process of the machine can replace.  Source:                 *)
(* src/src/registry_posix.c, registry_win32.c, the paths and segments of   *)
(* platform_posix.c and platform_win32.c, and the functions of session.c   *)
(* that start and destroy a server and connect a client.                   *)
(*                                                                         *)
(* A process may hold several servers, and the pid of a process that died  *)
(* may be given to another.  The registry is a file of entries behind an   *)
(* exclusive lock.  On POSIX it is written by ftruncate and then write, on *)
(* Win32 entry by entry in a mapped view: between the two steps the writer *)
(* may die.  The write of POSIX may also stop short: what is read of the   *)
(* entries it did not get to is what the reader's stack happened to hold.  *)
(***************************************************************************)
EXTENDS Integers, Sequences

CONSTANTS
    Server,       \* texlink_server_t objects
    Client,       \* texlink_client_t objects
    Pid,          \* process identifiers
    Name,         \* server names: the parts of the name between its dots
    Desc,         \* what servers and clients are created with: a name, a path or both
    NoOne,        \* no name, no path, no entry, no server, no segment
    Unwritten,    \* an entry of the file that a write did not get to
    Junk,         \* what a reader may take for such an entry
    MaxSessions,  \* TEXLINK_MAX_SESSIONS
    Win32         \* which of the two platform layers is built

(* The default path of a name: a directory and the parts of the name of the file. *)
DefaultPath(n) ==
    IF Win32 THEN [dir |-> "pipe", base |-> n]
    ELSE [dir |-> "texlink", base |-> Append(n, "sock")]
Path == {DefaultPath(n) : n \in Name} \cup ({d.path : d \in Desc} \ {NoOne})

(* The segment is named after the file of the path: its directory, the last dot
   and what follows it are cut off.                                             *)
ShmName(path) ==
    IF Len(path.base) > 1 THEN SubSeq(path.base, 1, Len(path.base) - 1) ELSE path.base
Shm == {ShmName(p) : p \in Path}

(* texlink_registry_entry_t *)
Entry == [name : Name, pid : Pid, path : Path]

ASSUME RegistryAssumption ==
    /\ NoOne \notin Server \cup Pid \cup Name \cup Entry
    /\ Unwritten \notin Entry \cup {NoOne}
    /\ Junk \subseteq Entry \cup {NoOne}
    /\ Name \subseteq Seq(STRING) \ {<<>>}
    /\ Desc \subseteq [name : Name \cup {NoOne},
                       path : [dir : STRING, base : Seq(STRING) \ {<<>>}] \cup {NoOne}]
    /\ \A d \in Desc : d.name # NoOne \/ d.path # NoOne
    /\ MaxSessions \in Nat \ {0}
    /\ Win32 \in BOOLEAN

Index == 1..MaxSessions
Table == [Index -> Entry \cup {NoOne}]
EmptyTable == [i \in Index |-> NoOne]

VARIABLES
    nameOf,      \* server->name, server->path and the process that holds the server
    pathOf,
    pidOf,
    running,     \* the processes kill(pid, 0) finds
    spc,         \* where each server's thread is
    table,       \* the registry file
    lock,        \* the server that holds it, and how far it has come
    phase,
    copy,        \* its local reg, to be written; empty when it is out of scope
    listener,    \* the servers a connect to a path may reach
    seg,         \* the segment a name is linked to, called by its creator
    shmOf,       \* server->shm
    cpc,         \* the client's progress in texlink_client_connect
    cname,       \* client->name and client->path
    cpath,
    conn,        \* the server at the other end of sock_fd
    cseg,        \* session->shm
    overlapped,  \* ghost: servers that ran beside one of the same place
    lost,        \* ghost: servers whose entry was not made, not removed, torn or taken
    replaced,    \* ghost: the segment a server's start found under its name
    garbled      \* ghost: a write of the registry has stopped among its entries

created == <<nameOf, pathOf, pidOf>>
serverVars == <<created, running, spc>>
tableVars == <<table, lock, phase, copy>>
placeVars == <<listener, seg, shmOf>>
clientVars == <<cpc, cname, cpath, conn, cseg>>
ghostVars == <<overlapped, lost, replaced, garbled>>
vars == <<serverVars, tableVars, placeVars, clientVars, ghostVars>>

-----------------------------------------------------------------------------
ShmOf(s) == ShmName(pathOf[s])
Named(s) == nameOf[s] # NoOne
EntryOfNoPid(s) == [name |-> nameOf[s], pid |-> NoOne, path |-> pathOf[s]]
EntryOf(s) == [name |-> nameOf[s], pid |-> pidOf[s], path |-> pathOf[s]]
Gone == {"none", "closed", "crashed"}
Live(s) == spc[s] \notin Gone

(* Two servers whose paths lead to one segment: those of one path, and on POSIX
   of one file name in two directories, or with two extensions.  A pipe path has
   no extension, so on Win32 names that differ after their last dot are enough.   *)
SamePlace(s, t) == ShmOf(s) = ShmOf(t)
Beside(s) ==
    LET there == {t \in Server : Live(t) /\ SamePlace(s, t)}
    IN IF there = {} THEN {} ELSE there \cup {s}

(* texlink_server_create and texlink_client_create: a path that is given goes
   before the default path of the name, and before the registry.             *)
PathGiven(d) == IF d.path # NoOne THEN d.path ELSE DefaultPath(d.name)

Init ==
    /\ \E d \in [Server -> Desc] :
          /\ nameOf = [s \in Server |-> d[s].name]
          /\ pathOf = [s \in Server |-> PathGiven(d[s])]
    /\ pidOf \in [Server -> Pid]
    /\ running = Pid
    /\ spc = [s \in Server |-> "none"]
    /\ table = EmptyTable
    /\ lock = NoOne
    /\ phase = "free"
    /\ copy = EmptyTable
    /\ listener = [p \in Path |-> {}]
    /\ seg = [n \in Shm |-> NoOne]
    /\ shmOf = [s \in Server |-> NoOne]
    /\ cpc = [c \in Client |-> "created"]
    /\ \E d \in [Client -> Desc] :
          /\ cname = [c \in Client |-> d[c].name]
          /\ cpath = [c \in Client |-> d[c].path]
    /\ conn = [c \in Client |-> NoOne]
    /\ cseg = [c \in Client |-> NoOne]
    /\ overlapped = {} /\ lost = {}
    /\ replaced = [s \in Server |-> NoOne]
    /\ garbled = FALSE

Goto(s, label) == spc' = [spc EXCEPT ![s] = label]

-----------------------------------------------------------------------------
(* texlink_server_start *)

(* A segment that a dead server may have left is unlinked. *)
StartServerKeepsShm(s) ==
    /\ spc[s] = "none"
    /\ pidOf[s] \in running
    /\ Goto(s, "bind")
    /\ overlapped' = overlapped \cup Beside(s)
    /\ replaced' = [replaced EXCEPT ![s] = seg[ShmOf(s)]]
    /\ UNCHANGED <<created, running, tableVars, placeVars, clientVars, lost, garbled>>

StartServer(s) ==
    /\ spc[s] = "none"
    /\ pidOf[s] \in running
    /\ Goto(s, "bind")
    /\ seg' = IF Win32 THEN seg ELSE [seg EXCEPT ![ShmOf(s)] = NoOne]
    /\ overlapped' = overlapped \cup Beside(s)
    /\ replaced' = [replaced EXCEPT ![s] = IF Win32 THEN NoOne ELSE seg[ShmOf(s)]]
    /\ UNCHANGED <<created, running, tableVars, listener, shmOf, clientVars, lost, garbled>>

(* unlink and bind replace the socket of a path; CreateNamedPipe adds an
   instance to the pipe of that path.                                       *)
Bind(s) ==
    /\ spc[s] = "bind"
    /\ listener' = [listener EXCEPT ![pathOf[s]] =
                        IF Win32 THEN @ \cup {s} ELSE {s}]
    /\ Goto(s, "shm")
    /\ UNCHANGED <<created, running, tableVars, seg, shmOf, clientVars, ghostVars>>

(* Without a socket the path is not even unlinked. *)
BindFails(s) ==
    /\ spc[s] = "bind"
    /\ \/ UNCHANGED listener
       \/ ~Win32 /\ listener' = [listener EXCEPT ![pathOf[s]] = {}]
    /\ Goto(s, "error")
    /\ UNCHANGED <<created, running, tableVars, seg, shmOf, clientVars, ghostVars>>

(* shm_open without O_EXCL and CreateFileMapping open a segment that is there.
   The map, the reset of its counters and its metadata belong to this step.  A
   server without a name is not announced.                                    *)
CreateShm(s) ==
    LET here == IF seg[ShmOf(s)] = NoOne THEN s ELSE seg[ShmOf(s)] IN
    /\ spc[s] = "shm"
    /\ seg' = [seg EXCEPT ![ShmOf(s)] = here]
    /\ shmOf' = [shmOf EXCEPT ![s] = here]
    /\ Goto(s, IF Named(s) THEN "announce" ELSE "listening")
    /\ UNCHANGED <<created, running, tableVars, listener, clientVars, ghostVars>>

(* The segment cannot be created, sized or mapped; in the second case its name
   stays although destroy does not know of it.  The listener is kept till then. *)
CreateShmFails(s) ==
    LET here == IF seg[ShmOf(s)] = NoOne THEN s ELSE seg[ShmOf(s)] IN
    /\ spc[s] = "shm"
    /\ \/ UNCHANGED <<seg, shmOf>>
       \/ ~Win32 /\ seg' = [seg EXCEPT ![ShmOf(s)] = here] /\ UNCHANGED shmOf
       \/ /\ seg' = [seg EXCEPT ![ShmOf(s)] = here]
          /\ shmOf' = [shmOf EXCEPT ![s] = here]
    /\ Goto(s, "error")
    /\ UNCHANGED <<created, running, tableVars, listener, clientVars, ghostVars>>

-----------------------------------------------------------------------------
(* texlink_registry_announce and texlink_registry_unregister *)

Slots(t, e) == {i \in Index : t[i] = e}
First(I) == CHOOSE i \in I : \A j \in I : i <= j

(* entry_alive *)
Alive(e) == e # NoOne /\ e.pid \in running

Evicted(t, s) ==
    [i \in Index |-> IF Alive(t[i]) /\ t[i].name # nameOf[s] THEN t[i] ELSE NoOne]

(* The table with the entry of s in the first inactive slot, if there is one. *)
AddedNoEvict(t, s) ==
    IF Slots(t, NoOne) = {} THEN t
    ELSE [t EXCEPT ![First(Slots(t, NoOne))] = EntryOf(s)]

Added(t, s) ==
    IF Slots(Evicted(t, s), NoOne) = {} THEN t
    ELSE [Evicted(t, s) EXCEPT ![First(Slots(Evicted(t, s), NoOne))] = EntryOf(s)]

RemovedByPid(t, s) == [i \in Index |->
    IF t[i] # NoOne /\ t[i].pid = pidOf[s] THEN NoOne ELSE t[i]]

Of(t, s) == {i \in Index : t[i] # NoOne /\ t[i].name = nameOf[s] /\ t[i].pid = pidOf[s]}

(* The table without the first entry of this name and this process. *)
Removed(t, s) ==
    IF Of(t, s) = {} THEN t ELSE [t EXCEPT ![First(Of(t, s))] = NoOne]

(* registry_read: what the file holds; of entries that it does not hold the reader
   finds what its own memory held before.                                         *)
Readings(t) ==
    {[i \in Index |-> IF t[i] = Unwritten THEN memory[i] ELSE t[i]] :
        memory \in [Index -> Junk]}

(* What may be left of a table whose write stops: nothing that is long enough to be
   read, or its first entries.                                                      *)
Torn(t) ==
    {EmptyTable} \cup {[i \in Index |-> IF i <= n THEN t[i] ELSE Unwritten] :
                          n \in 0..(MaxSessions - 1)}

Register == {"announce", "unregister"}
AfterRegister(s) == IF spc[s] = "announce" THEN "listening" ELSE "close"

(* The listening servers that have no entry in t. *)
Missing(t) ==
    {s \in Server : Named(s) /\ spc[s] = "listening" /\ EntryOf(s) \notin {t[i] : i \in Index}}

(* flock LOCK_EX, or the mutex; the result of the wait is not looked at, and a
   mutex whose owner died is entered like any other.                          *)
TakeLock(s) ==
    /\ spc[s] \in Register
    /\ lock = NoOne
    /\ lock' = s
    /\ phase' = "read"
    /\ UNCHANGED <<serverVars, table, copy, placeVars, clientVars, ghostVars>>

Unlock(s) ==
    /\ lock' = NoOne
    /\ phase' = "free"
    /\ Goto(s, AfterRegister(s))

(* The file cannot be opened or locked, or there is no mutex; or, with the lock held,
   it cannot be truncated, or mapped.  The old file stays and nobody is told.        *)
RegisterFails(s) ==
    /\ spc[s] \in Register
    /\ \/ lock # s /\ Goto(s, AfterRegister(s)) /\ UNCHANGED <<lock, phase>>
       \/ lock = s /\ phase = "read" /\ Unlock(s)
    /\ lost' = lost \cup {s}
    /\ UNCHANGED <<created, running, table, copy, placeVars, clientVars, overlapped,
                   replaced, garbled>>

(* No slot is inactive: nothing is written and nobody is told. *)
AnnounceFullKeepsLock(s) ==
    /\ lock = s /\ phase = "read" /\ spc[s] = "announce"
    /\ \E t \in Readings(table) : Slots(Evicted(t, s), NoOne) = {}
    /\ phase' = "free"
    /\ Goto(s, "listening")
    /\ lost' = lost \cup {s}
    /\ UNCHANGED <<created, running, table, lock, copy, placeVars, clientVars, overlapped,
                   replaced, garbled>>

AnnounceFull(s) ==
    /\ lock = s /\ phase = "read" /\ spc[s] = "announce"
    /\ \E t \in Readings(table) : Slots(Evicted(t, s), NoOne) = {}
    /\ Unlock(s)
    /\ lost' = lost \cup {s}
    /\ UNCHANGED <<created, running, table, copy, placeVars, clientVars, overlapped,
                   replaced, garbled>>

(* Who listens under the name that s announces, or unregisters for its own process. *)
Taken(s) ==
    {r \in Server : /\ spc[r] = "listening" /\ nameOf[r] = nameOf[s]
                    /\ spc[s] = "unregister" => pidOf[r] = pidOf[s]}

(* registry_read into copy, the change to it, and the first half of the write:
   ftruncate, or the entries that are cleared in place.                           *)
BeginWrite(s) ==
    /\ lock = s /\ phase = "read"
    /\ phase' = "write"
    /\ \E t \in Readings(table) :
          /\ spc[s] = "announce" => Slots(Evicted(t, s), NoOne) # {}
          /\ copy' = IF spc[s] = "announce" THEN Added(t, s) ELSE Removed(t, s)
          /\ table' = IF ~Win32 THEN EmptyTable
                      ELSE IF spc[s] = "announce" THEN Evicted(t, s)
                      ELSE Removed(t, s)
    /\ lost' = lost \cup Taken(s)
    /\ UNCHANGED <<serverVars, lock, placeVars, clientVars, overlapped, replaced, garbled>>

EndWrite(s) ==
    /\ lock = s /\ phase = "write"
    /\ table' = copy
    /\ copy' = EmptyTable
    /\ Unlock(s)
    /\ UNCHANGED <<created, running, placeVars, clientVars, ghostVars>>

(* The write stops before its end, as on a full disk; its result is ignored. *)
WriteFails(s) ==
    /\ ~Win32
    /\ lock = s /\ phase = "write"
    /\ table' \in Torn(copy)
    /\ copy' = EmptyTable
    /\ Unlock(s)
    /\ lost' = lost \cup Missing(table') \cup {t \in {s} : spc[t] = "announce"}
    /\ garbled' = (garbled \/ \E i \in Index : table'[i] = Unwritten)
    /\ UNCHANGED <<created, running, placeVars, clientVars, overlapped, replaced>>

-----------------------------------------------------------------------------
(* texlink_server_destroy *)

(* A server that was not started runs through it as well, and one that is not
   registered does not unregister.                                            *)
DestroyServer(s) ==
    /\ spc[s] \in {"none", "listening", "error"}
    /\ pidOf[s] \in running
    /\ Goto(s, IF spc[s] = "listening" /\ Named(s) THEN "unregister" ELSE "close")
    /\ overlapped' = IF spc[s] = "none" THEN overlapped \cup Beside(s) ELSE overlapped
    /\ lost' = lost \ {s}
    /\ UNCHANGED <<created, running, tableVars, placeVars, clientVars, replaced, garbled>>

(* Without holders a Win32 segment and its name are gone. *)
Holders(n, servers, clients) ==
    {s \in servers : shmOf[s] # NoOne /\ shmOf[s] = seg[n]}
        \cup {c \in clients : cseg[c] # NoOne /\ cseg[c] = seg[n]}
HeldSegs(servers, clients) ==
    [n \in Shm |-> IF Holders(n, servers, clients) = {} THEN NoOne ELSE seg[n]]
Mapping == {s \in Server : Live(s) /\ spc[s] # "unlinkpath"}
Mapped == {c \in Client : cpc[c] = "connected"}


CloseListener(s) ==
    /\ spc[s] = "close"
    /\ listener' = [listener EXCEPT ![pathOf[s]] =
                        IF Win32 THEN @ \ {s} ELSE @]
    /\ Goto(s, "unlinkshm")
    /\ UNCHANGED <<created, running, tableVars, seg, shmOf, clientVars, ghostVars>>

UnlinkShmKept(s) ==
    /\ spc[s] = "unlinkshm"
    /\ Goto(s, "unlinkpath")
    /\ UNCHANGED <<created, running, tableVars, placeVars, clientVars, ghostVars>>

UnlinkShm(s) ==
    /\ spc[s] = "unlinkshm"
    /\ seg' = IF Win32
              THEN HeldSegs(Mapping \ {s}, Mapped)
              ELSE IF shmOf[s] = NoOne THEN seg
              ELSE [seg EXCEPT ![ShmOf(s)] = NoOne]
    /\ Goto(s, "unlinkpath")
    /\ UNCHANGED <<created, running, tableVars, listener, shmOf, clientVars, ghostVars>>

(* texlink_cleanup_socket_path: the path is unlinked whoever listens there. *)
UnlinkPath(s) ==
    /\ spc[s] = "unlinkpath"
    /\ listener' = IF Win32 THEN listener ELSE [listener EXCEPT ![pathOf[s]] = {}]
    /\ Goto(s, "closed")
    /\ UNCHANGED <<created, running, tableVars, seg, shmOf, clientVars, ghostVars>>

-----------------------------------------------------------------------------
(* texlink_client_connect *)

(* texlink_registry_resolve: the entries are read under the lock; the first one
   of the name whose process runs gives the path.                              *)
Found(t, c) == {i \in Index : Alive(t[i]) /\ t[i].name = cname[c]}

Resolve(c) ==
    /\ cpc[c] = "created" /\ cpath[c] = NoOne
    /\ lock = NoOne
    /\ \E t \in Readings(table) :
          /\ Found(t, c) # {}
          /\ cpath' = [cpath EXCEPT ![c] = t[First(Found(t, c))].path]
    /\ cpc' = [cpc EXCEPT ![c] = "resolved"]
    /\ UNCHANGED <<serverVars, tableVars, placeVars, cname, conn, cseg, ghostVars>>

(* There is no such entry, or no registry to be opened and locked. *)
ResolveFails(c) ==
    /\ cpc[c] = "created" /\ cpath[c] = NoOne
    /\ cpc' = [cpc EXCEPT ![c] = "error"]
    /\ UNCHANGED <<serverVars, tableVars, placeVars, cname, cpath, conn, cseg, ghostVars>>

(* A bound socket queues connections until it is closed, that of a server whose start
   failed afterwards as well.                                                        *)
Accepting(s) == spc[s] \in {"shm", "announce", "listening", "error", "unregister", "close"}

(* A client that was given a path does not ask the registry. *)
Connects(c) == cpc[c] \in {"created", "resolved"} /\ cpath[c] # NoOne

Connect(c) ==
    /\ Connects(c)
    /\ \E s \in listener[cpath[c]] :
        /\ Accepting(s)
        /\ conn' = [conn EXCEPT ![c] = s]
    /\ cpc' = [cpc EXCEPT ![c] = "waiting"]
    /\ UNCHANGED <<serverVars, tableVars, placeVars, cname, cpath, cseg, ghostVars>>

ConnectRefused(c) ==
    /\ Connects(c)
    /\ ~ \E s \in listener[cpath[c]] : Accepting(s)
    /\ cpc' = [cpc EXCEPT ![c] = "error"]
    /\ UNCHANGED <<serverVars, tableVars, placeVars, cname, cpath, conn, cseg, ghostVars>>

(* A server polls once it has started; the handshake names its segment. *)
Handshake(c) ==
    /\ cpc[c] = "waiting"
    /\ spc[conn[c]] = "listening"
    /\ cpc' = [cpc EXCEPT ![c] = "accepted"]
    /\ UNCHANGED <<serverVars, tableVars, placeVars, cname, cpath, conn, cseg, ghostVars>>

(* The server closes or dies before it has answered. *)
HandshakeLost(c) ==
    /\ cpc[c] = "waiting"
    /\ ~Accepting(conn[c])
    /\ cpc' = [cpc EXCEPT ![c] = "error"]
    /\ UNCHANGED <<serverVars, tableVars, placeVars, cname, cpath, conn, cseg, ghostVars>>

(* shm_open of the name in the handshake: whatever it is linked to by now. *)
OpenShm(c) ==
    LET here == seg[ShmOf(conn[c])] IN
    /\ cpc[c] = "accepted"
    /\ cseg' = [cseg EXCEPT ![c] = here]
    /\ cpc' = [cpc EXCEPT ![c] = IF here = NoOne THEN "error" ELSE "connected"]
    /\ UNCHANGED <<serverVars, tableVars, placeVars, cname, cpath, conn, ghostVars>>

(* session_close, or the end of the client's process. *)
Disconnect(c) ==
    /\ cpc[c] = "connected"
    /\ cpc' = [cpc EXCEPT ![c] = "closed"]
    /\ seg' = IF Win32
              THEN HeldSegs(Mapping, Mapped \ {c})
              ELSE seg
    /\ UNCHANGED <<serverVars, tableVars, listener, shmOf, cname, cpath, conn, cseg, ghostVars>>

-----------------------------------------------------------------------------
(* A process ends without destroying its servers: what it had open is closed by
   the kernel, what it has linked stays.  The end of a process that holds no
   server changes nothing here.                                                *)
ProcessCrash(p) ==
    LET mine == {s \in Server : pidOf[s] = p /\ Live(s)}
        held == lock \in mine
        torn == held /\ phase = "write" /\ ~Win32 IN
    /\ p \in running
    /\ mine # {}
    /\ running' = running \ {p}
    /\ spc' = [s \in Server |-> IF s \in mine THEN "crashed" ELSE spc[s]]
    /\ lock' = IF held THEN NoOne ELSE lock
    /\ phase' = IF held THEN "free" ELSE phase
    /\ shmOf' = [s \in Server |-> IF s \in mine THEN NoOne ELSE shmOf[s]]
    /\ table' \in IF torn THEN Torn(copy) ELSE {table}
    /\ copy' = IF held THEN EmptyTable ELSE copy
    /\ lost' = (IF torn THEN lost \cup Missing(table') ELSE lost) \ mine
    /\ garbled' = (garbled \/ (torn /\ \E i \in Index : table'[i] = Unwritten))
    /\ listener' = IF Win32 THEN [x \in Path |-> listener[x] \ mine] ELSE listener
    /\ seg' = IF Win32
              THEN HeldSegs(Mapping \ mine, Mapped)
              ELSE seg
    /\ UNCHANGED <<created, clientVars, overlapped, replaced>>

(* Another process gets the pid. *)
ProcessStart(p) ==
    /\ p \notin running
    /\ running' = running \cup {p}
    /\ UNCHANGED <<created, spc, tableVars, placeVars, clientVars, ghostVars>>

Start(s) ==
    \/ StartServer(s)
    \/ Bind(s) \/ BindFails(s)
    \/ CreateShm(s) \/ CreateShmFails(s)

Registering(s) ==
    \/ TakeLock(s) \/ AnnounceFull(s)
    \/ BeginWrite(s) \/ EndWrite(s) \/ WriteFails(s)

Registration(s) == Registering(s) \/ RegisterFails(s)

Destroy(s) ==
    \/ DestroyServer(s)
    \/ CloseListener(s) \/ UnlinkShm(s) \/ UnlinkPath(s)

ClientConnect(c) ==
    \/ Resolve(c) \/ ResolveFails(c) \/ Connect(c) \/ ConnectRefused(c)
    \/ Handshake(c) \/ HandshakeLost(c) \/ OpenShm(c) \/ Disconnect(c)

Process(p) == ProcessCrash(p) \/ ProcessStart(p)

Next ==
    \/ \E s \in Server : Start(s) \/ Registration(s) \/ Destroy(s)
    \/ \E c \in Client : ClientConnect(c)
    \/ \E p \in Pid : Process(p)

(* A call that has been entered runs on: nothing in it waits for anything but
   the lock, which is held for a bounded number of steps.  No call counts on it
   that the registry cannot be opened.                                         *)
CallRuns(s) ==
    /\ WF_vars(Bind(s) \/ CreateShm(s) \/ Registering(s))
    /\ WF_vars(CloseListener(s) \/ UnlinkShm(s) \/ UnlinkPath(s))
Fairness == \A s \in Server : CallRuns(s)

Spec == Init /\ [][Next]_vars /\ Fairness
=============================================================================
