--------------------------- MODULE RegistryProofs ---------------------------
(***************************************************************************)
(* The safety properties of RegistryProperties hold, and the registry      *)
(* implements NameService, for every number of servers, clients, processes *)
(* and names, for every size of the table and on either platform.          *)
(***************************************************************************)
EXTENDS RegistryProperties, SequenceTheorems, WellFoundedInduction, TLAPS

(* Who holds the lock is announcing or unregistering a name, and only a writer has a copy.
   Servers run in processes that run.                                                     *)
LockInv ==
    /\ phase = "free" <=> lock = NoOne
    /\ lock # NoOne => spc[lock] \in Register
    /\ phase # "write" => copy = EmptyTable
    /\ \A s \in Server : spc[s] \in Register => Named(s)
    /\ \A s \in Server : Live(s) => pidOf[s] \in running

(* A name has one entry, until a write stops among the entries, which no write of Win32
   does.  A writer's copy is what the file will be, and until then the file is empty, or
   on Win32 lacks the writer's entry.                                                     *)
UniqueNames(t) ==
    \A i, j \in Index : t[i] # NoOne /\ t[j] # NoOne /\ t[i].name = t[j].name => i = j

TableInv ==
    /\ ~garbled => table \in Table /\ UniqueNames(table) /\ UniqueNames(copy)
    /\ Win32 => ~garbled
    /\ phase = "write" =>
          /\ spc[lock] = "announce" => EntryOf(lock) \in Bindings(copy)
          /\ spc[lock] = "unregister" => garbled \/ EntryOf(lock) \notin Bindings(copy)
          /\ ~Win32 => table = EmptyTable
          /\ Win32 => Bindings(table) = Bindings(copy) \ {EntryOf(lock)}

(* Servers that exist side by side at one place know of each other as overlapped. *)
OverlapInv ==
    \A s, t \in Server : s # t /\ Live(s) /\ Live(t) /\ SamePlace(s, t) => s \in overlapped

(* A server that announced is in what the table is or will be; a server that did not, or
   that unregistered, is in it only on behalf of another one, or because the registry could
   not be written for it.                                                                  *)
Leaving == {"close", "unlinkshm", "unlinkpath", "closed"}
Unannounced == {"none", "bind", "shm", "error"} \cup Leaving

Excused(s) ==
    \/ garbled
    \/ s \in lost /\ spc[s] \in Leaving
    \/ \E t \in Server \ {s} : EntryOf(t) = EntryOf(s) /\ spc[t] # "none"

FoundInv ==
    /\ \A s \in Server : Named(s) /\ spc[s] = "listening" /\ s \notin lost =>
          EntryOf(s) \in Bindings(Content)
    /\ \A s \in Server :
          spc[s] \in Unannounced /\ EntryOf(s) \in Bindings(table) \cup Bindings(copy) => Excused(s)

(* The listeners of a path are servers of that path; of one that is not disturbed it is
   the only one from bind until it closes.                                              *)
ListenerInv ==
    /\ \A p \in Path : \A s \in listener[p] :
          /\ p = pathOf[s] /\ spc[s] \notin {"none", "bind", "closed"}
          /\ Win32 => spc[s] \in {"shm", "announce", "listening", "error", "unregister", "close"}
    /\ \A s \in Server : spc[s] \in {"shm", "announce", "listening", "unregister"}
          /\ s \notin overlapped => listener[pathOf[s]] = {s}

(* A segment is linked to the name of its creator, which has created it.  On Win32 somebody
   holds it; on POSIX a server that is destroyed has unlinked it.                          *)
Uncreated == {"none", "bind", "shm"}

SegInv ==
    /\ \A n \in Shm : seg[n] # NoOne => n = ShmOf(seg[n]) /\ spc[seg[n]] \notin Uncreated
    /\ Win32 => \A n \in Shm : seg[n] # NoOne => Holders(n, Mapping, Mapped) # {}
    /\ \A s \in Server :
          /\ spc[s] \in {"announce", "listening", "unregister"} => shmOf[s] # NoOne
          /\ spc[s] \in Uncreated => shmOf[s] = NoOne
          /\ ~Win32 /\ spc[s] \in {"unlinkpath", "closed"} /\ shmOf[s] # NoOne => seg[ShmOf(s)] # s

(* The segment that a start has unlinked is never linked to the name again: its creator
   creates no other.                                                                     *)
ReplacedInv ==
    \A s \in Server : replaced[s] # NoOne =>
        spc[replaced[s]] \notin Uncreated /\ seg[ShmOf(s)] # replaced[s]

(* What the name of a server's segment is linked to, while nobody disturbs the server. *)
LinkedInv ==
    \A s \in Server \ overlapped :
        /\ ~Win32 /\ spc[s] \in {"bind", "shm"} => seg[ShmOf(s)] = NoOne
        /\ ~Win32 /\ Live(s) => shmOf[s] \in {NoOne, s}
        /\ shmOf[s] # NoOne /\ Live(s) =>
              \/ seg[ShmOf(s)] = shmOf[s]
              \/ spc[s] = "unlinkpath" /\ seg[ShmOf(s)] = NoOne

(* A client is connected to a server that runs or ran, and was accepted by one that had
   started.                                                                             *)
ClientInv ==
    /\ \A c \in Client : cpc[c] \in {"waiting", "accepted", "connected"} =>
          conn[c] \in Server /\ spc[conn[c]] # "none"
    /\ \A c \in Client : cpc[c] \in {"accepted", "connected"} /\ Live(conn[c]) =>
          /\ spc[conn[c]] \in {"listening", "unregister", "close", "unlinkshm", "unlinkpath"}
          /\ shmOf[conn[c]] # NoOne
    /\ ClientMapsItsServer

RegistryInv ==
    /\ TypeOK /\ LockInv /\ TableInv /\ OverlapInv /\ FoundInv
    /\ ListenerInv /\ SegInv /\ ReplacedInv /\ LinkedInv /\ ClientInv

-----------------------------------------------------------------------------
LEMMA GivenPath == ASSUME NEW d \in Desc PROVE PathGiven(d) \in Path
  <1>1. CASE d.path # NoOne
    BY <1>1 DEF PathGiven, Path
  <1>2. CASE d.path = NoOne
    <2>1. d.name \in Name
      BY <1>2, RegistryAssumption
    <2> QED
      BY <1>2, <2>1 DEF PathGiven, Path
  <1> QED
    BY <1>1, <1>2

LEMMA Places ==
    ASSUME TypeOK, NEW s \in Server
    PROVE  pathOf[s] \in Path /\ ShmOf(s) \in Shm
  BY DEF TypeOK, ShmOf, Shm

(* Names, paths and processes of the servers stay what they are. *)
LEMMA NamesKept == [Next]_vars => nameOf' = nameOf /\ pathOf' = pathOf /\ pidOf' = pidOf
  <1> SUFFICES ASSUME [Next]_vars PROVE UNCHANGED created
    BY DEF created
  <1> USE DEF serverVars, vars
  <1>1. ASSUME NEW s \in Server, Start(s) PROVE UNCHANGED created
    BY <1>1 DEF Start, StartServer, Bind, BindFails, CreateShm, CreateShmFails
  <1>2. ASSUME NEW s \in Server, Registration(s) PROVE UNCHANGED created
    BY <1>2 DEF Registration, Registering, RegisterFails, TakeLock, AnnounceFull, BeginWrite,
                EndWrite, WriteFails
  <1>3. ASSUME NEW s \in Server, Destroy(s) PROVE UNCHANGED created
    BY <1>3 DEF Destroy, DestroyServer, CloseListener, UnlinkShm, UnlinkPath
  <1>4. ASSUME NEW c \in Client, ClientConnect(c) PROVE UNCHANGED created
    BY <1>4 DEF ClientConnect, Resolve, ResolveFails, Connect, ConnectRefused, Handshake,
                HandshakeLost, OpenShm, Disconnect
  <1>5. ASSUME NEW p \in Pid, Process(p) PROVE UNCHANGED created
    BY <1>5 DEF Process, ProcessCrash, ProcessStart
  <1> QED
    BY <1>1, <1>2, <1>3, <1>4, <1>5 DEF Next

-----------------------------------------------------------------------------
(* The table *)

LEMMA FirstIn == ASSUME NEW I \in SUBSET Index, I # {} PROVE First(I) \in I
  <1>1. I \in SUBSET Nat
    BY RegistryAssumption DEF Index
  <1>2. PICK n \in I : \A m \in I : ~ (<<m, n>> \in OpToRel(<, Nat))
    BY <1>1, WFMin, NatLessThanWellFounded, Zenon
  <1>3. \A m \in I : ~(m < n)
    BY <1>1, <1>2 DEF OpToRel
  <1>4. \A m \in I : n <= m
    BY <1>1, <1>3
  <1> QED
    BY <1>4 DEF First

(* Entries, slots without one and slots without anything are different things. *)
LEMMA Slot == NoOne # Unwritten /\ \A e \in Entry : e # NoOne /\ e # Unwritten
  BY RegistryAssumption

LEMMA EntryType ==
    ASSUME TypeOK, NEW s \in Server
    PROVE  /\ EntryOf(s).name = nameOf[s] /\ EntryOf(s).pid = pidOf[s]
           /\ Named(s) => EntryOf(s) \in Entry
           /\ EntryOf(s) \in Entry => Named(s)
  <1>1. Named(s) => EntryOf(s) \in Entry
    BY DEF TypeOK, EntryOf, Entry, Named
  <1>2. EntryOf(s) \in Entry => Named(s)
    <2>1. EntryOf(s) \in Entry => EntryOf(s).name \in Name
      BY DEF Entry
    <2> QED
      BY <2>1, RegistryAssumption DEF EntryOf, Named
  <1> QED
    BY <1>1, <1>2 DEF EntryOf

LEMMA BindingsType ==
    ASSUME NEW t \in [Index -> Entry \cup {NoOne, Unwritten}]
    PROVE  Bindings(t) \subseteq Entry
  BY DEF Bindings

(* What is read of a file: what was written, and anything for what was not. *)
LEMMA ReadingFacts ==
    ASSUME NEW t \in [Index -> Entry \cup {NoOne, Unwritten}], NEW r \in Readings(t)
    PROVE  r \in Table /\ Bindings(t) \subseteq Bindings(r) /\ (t \in Table => r = t)
  <1>1. PICK memory \in [Index -> Junk] :
            r = [i \in Index |-> IF t[i] = Unwritten THEN memory[i] ELSE t[i]]
    BY DEF Readings
  <1>2. Junk \subseteq Entry \cup {NoOne}
    BY RegistryAssumption
  <1>3. r \in Table
    BY <1>1, <1>2 DEF Table
  <1>4. Bindings(t) \subseteq Bindings(r)
    BY <1>1, Slot DEF Bindings
  <1>5. ASSUME t \in Table PROVE r = t
    <2>1. \A i \in Index : t[i] # Unwritten
      BY <1>5, Slot DEF Table
    <2> QED
      BY <1>1, <1>5, <2>1 DEF Table
  <1> QED
    BY <1>3, <1>4, <1>5

LEMMA EmptyTableFacts ==
    EmptyTable \in Table /\ UniqueNames(EmptyTable) /\ Bindings(EmptyTable) = {}
  BY DEF EmptyTable, Table, UniqueNames, Bindings

LEMMA TableType == Table \subseteq [Index -> Entry \cup {NoOne, Unwritten}]
  BY DEF Table

(* What is left of a table whose write stops. *)
LEMMA TornFacts ==
    ASSUME NEW t \in Table, NEW r \in Torn(t)
    PROVE  /\ r \in [Index -> Entry \cup {NoOne, Unwritten}] /\ Bindings(r) \subseteq Bindings(t)
           /\ r = EmptyTable \/ \E i \in Index : r[i] = Unwritten
  <1>1. CASE r = EmptyTable
    BY <1>1, EmptyTableFacts, TableType
  <1>2. CASE r # EmptyTable
    <2>1. PICK n \in 0..(MaxSessions - 1) :
              r = [i \in Index |-> IF i <= n THEN t[i] ELSE Unwritten]
      BY <1>2 DEF Torn
    <2>2. r \in [Index -> Entry \cup {NoOne, Unwritten}]
      BY <2>1 DEF Table
    <2>3. Bindings(r) \subseteq Bindings(t)
      BY <2>1 DEF Bindings
    <2>4. MaxSessions \in Index /\ ~(MaxSessions <= n)
      BY RegistryAssumption DEF Index
    <2>5. r[MaxSessions] = Unwritten
      BY <2>1, <2>4
    <2> QED
      BY <2>2, <2>3, <2>4, <2>5
  <1> QED
    BY <1>1, <1>2

(* What announce and unregister make of a table. *)
LEMMA EvictedFacts ==
    ASSUME NEW t \in Table, NEW s \in Server
    PROVE  /\ Evicted(t, s) \in Table
           /\ UniqueNames(t) => UniqueNames(Evicted(t, s))
           /\ Bindings(Evicted(t, s)) =
                 {e \in Bindings(t) : e.name # nameOf[s] /\ e.pid \in running}
  <1>1. Evicted(t, s) \in Table
    BY DEF Evicted, Table
  <1>2. UniqueNames(t) => UniqueNames(Evicted(t, s))
    BY DEF Evicted, UniqueNames
  <1>3. Bindings(Evicted(t, s)) =
           {e \in Bindings(t) : e.name # nameOf[s] /\ e.pid \in running}
    BY Slot DEF Evicted, Bindings, Alive, Table
  <1> QED
    BY <1>1, <1>2, <1>3

LEMMA AddedFacts ==
    ASSUME TypeOK, NEW t \in Table, NEW s \in Server, Named(s),
           Slots(Evicted(t, s), NoOne) # {}
    PROVE  /\ Added(t, s) \in Table
           /\ UniqueNames(t) => UniqueNames(Added(t, s))
           /\ Bindings(Added(t, s)) = Bindings(Evicted(t, s)) \cup {EntryOf(s)}
           /\ EntryOf(s) \notin Bindings(Evicted(t, s))
  <1>1. PICK ev : ev = Evicted(t, s)
    OBVIOUS
  <1>2. PICK k \in Index : k = First(Slots(ev, NoOne)) /\ ev[k] = NoOne
    BY <1>1, FirstIn DEF Slots
  <1>3. Added(t, s) = [ev EXCEPT ![k] = EntryOf(s)]
    BY <1>1, <1>2 DEF Added
  <1>4. /\ ev \in Table
        /\ UniqueNames(t) => UniqueNames(ev)
        /\ \A e \in Bindings(ev) : e.name # nameOf[s]
    BY <1>1, EvictedFacts
  <1>5. /\ EntryOf(s) \in Entry /\ EntryOf(s).name = nameOf[s]
        /\ EntryOf(s) # NoOne /\ EntryOf(s) # Unwritten
    BY EntryType, Slot
  <1>6. \A i \in Index : Added(t, s)[i] = IF i = k THEN EntryOf(s) ELSE ev[i]
    BY <1>3, <1>4 DEF Table
  <1>7. Added(t, s) \in Table
    BY <1>3, <1>4, <1>5 DEF Table
  <1>8. \A i \in Index : ev[i] # NoOne => ev[i].name # nameOf[s]
    BY <1>4, Slot DEF Bindings, Table
  <1>9. UniqueNames(t) => UniqueNames(Added(t, s))
    BY <1>4, <1>5, <1>6, <1>8 DEF UniqueNames
  <1>10. Bindings(Added(t, s)) = Bindings(ev) \cup {EntryOf(s)}
    BY <1>2, <1>5, <1>6 DEF Bindings
  <1> QED
    BY <1>1, <1>4, <1>5, <1>7, <1>9, <1>10

LEMMA RemovedFacts ==
    ASSUME NEW t \in Table, NEW s \in Server
    PROVE  /\ Removed(t, s) \in Table
           /\ UniqueNames(t) => UniqueNames(Removed(t, s))
           /\ Bindings(Removed(t, s)) \subseteq Bindings(t)
           /\ \A e \in Bindings(t) : e.name # nameOf[s] \/ e.pid # pidOf[s]
                  => e \in Bindings(Removed(t, s))
           /\ UniqueNames(t) => \A e \in Bindings(Removed(t, s)) :
                  e.name # nameOf[s] \/ e.pid # pidOf[s]
  <1>1. CASE Of(t, s) = {}
    <2>1. Removed(t, s) = t
      BY <1>1 DEF Removed
    <2>2. \A e \in Bindings(t) : e.name # nameOf[s] \/ e.pid # pidOf[s]
      BY <1>1 DEF Of, Bindings
    <2> QED
      BY <2>1, <2>2
  <1>2. CASE Of(t, s) # {}
    <2>1. PICK k \in Index : /\ k = First(Of(t, s)) /\ t[k] # NoOne
                             /\ t[k].name = nameOf[s] /\ t[k].pid = pidOf[s]
      BY <1>2, FirstIn DEF Of
    <2>2. Removed(t, s) = [t EXCEPT ![k] = NoOne]
      BY <1>2, <2>1 DEF Removed
    <2>3. \A i \in Index : Removed(t, s)[i] = IF i = k THEN NoOne ELSE t[i]
      BY <2>2 DEF Table
    <2>4. Removed(t, s) \in Table
      BY <2>2 DEF Table
    <2>5. UniqueNames(t) => UniqueNames(Removed(t, s))
      BY <2>3 DEF UniqueNames
    <2>6. Bindings(Removed(t, s)) \subseteq Bindings(t)
      BY <2>3 DEF Bindings
    <2>7. ASSUME NEW e \in Bindings(t), e.name # nameOf[s] \/ e.pid # pidOf[s]
          PROVE  e \in Bindings(Removed(t, s))
      <3>1. PICK i \in Index : e = t[i] /\ e # NoOne /\ e # Unwritten
        BY DEF Bindings
      <3>2. i # k
        BY <2>1, <2>7, <3>1
      <3> QED
        BY <2>3, <3>1, <3>2 DEF Bindings
    <2>8. ASSUME UniqueNames(t), NEW e \in Bindings(Removed(t, s))
          PROVE  e.name # nameOf[s] \/ e.pid # pidOf[s]
      <3>1. PICK i \in Index : e = Removed(t, s)[i] /\ e # NoOne
        BY DEF Bindings
      <3>2. i # k /\ e = t[i]
        BY <2>3, <3>1
      <3> QED
        BY <2>1, <2>8, <3>1, <3>2 DEF UniqueNames
    <2> QED
      BY <2>4, <2>5, <2>6, <2>7, <2>8
  <1> QED
    BY <1>1, <1>2

(* Every part of the first half of a write is a table. *)
LEMMA WriteTypes ==
    ASSUME TypeOK, LockInv, NEW s \in Server, BeginWrite(s)
    PROVE  \E r \in Readings(table) :
              /\ r \in Table /\ Bindings(table) \subseteq Bindings(r) /\ (table \in Table => r = table)
              /\ copy' \in Table /\ table' \in Table
              /\ spc[s] = "announce" =>
                    /\ Slots(Evicted(r, s), NoOne) # {} /\ copy' = Added(r, s)
                    /\ table' = IF Win32 THEN Evicted(r, s) ELSE EmptyTable
              /\ spc[s] = "unregister" =>
                    /\ copy' = Removed(r, s)
                    /\ table' = IF Win32 THEN Removed(r, s) ELSE EmptyTable
  <1>1. PICK r \in Readings(table) :
            /\ spc[s] = "announce" => Slots(Evicted(r, s), NoOne) # {}
            /\ copy' = IF spc[s] = "announce" THEN Added(r, s) ELSE Removed(r, s)
            /\ table' = IF ~Win32 THEN EmptyTable
                        ELSE IF spc[s] = "announce" THEN Evicted(r, s)
                        ELSE Removed(r, s)
    BY DEF BeginWrite
  <1>2. r \in Table /\ Bindings(table) \subseteq Bindings(r) /\ (table \in Table => r = table)
    BY ReadingFacts DEF TypeOK
  <1>3. Named(s)
    BY RegistryAssumption DEF BeginWrite, LockInv
  <1>4. /\ Evicted(r, s) \in Table /\ Removed(r, s) \in Table
        /\ spc[s] = "announce" => Added(r, s) \in Table
    BY <1>1, <1>2, <1>3, AddedFacts, EvictedFacts, RemovedFacts
  <1>5. copy' \in Table /\ table' \in Table
    BY <1>1, <1>4, EmptyTableFacts
  <1> QED
    BY <1>1, <1>2, <1>5

-----------------------------------------------------------------------------
LEMMA RegistryInit == Init => RegistryInv
  <1> SUFFICES ASSUME Init PROVE RegistryInv
    OBVIOUS
  <1> USE RegistryAssumption, EmptyTableFacts, TableType DEF Init
  <1>1. TypeOK
    <2>1. listener \in [Path -> SUBSET Server] /\ seg \in [Shm -> Server \cup {NoOne}]
      OBVIOUS
    <2>2. nameOf \in [Server -> Name \cup {NoOne}] /\ pathOf \in [Server -> Path]
      BY GivenPath
    <2>3. cname \in [Client -> Name \cup {NoOne}] /\ cpath \in [Client -> Path \cup {NoOne}]
      BY DEF Path
    <2> QED
      BY <2>1, <2>2, <2>3 DEF TypeOK, Gone, Register
  <1>2. LockInv
    BY DEF LockInv, Live, Gone, Register
  <1>3. TableInv
    BY DEF TableInv
  <1>4. OverlapInv
    BY DEF OverlapInv, Live, Gone
  <1>5. FoundInv
    BY DEF FoundInv
  <1>6. ListenerInv
    BY DEF ListenerInv
  <1>7. SegInv
    BY DEF SegInv
  <1>8. LinkedInv
    BY <1>1, Places DEF LinkedInv, Live, Gone
  <1>9. ReplacedInv
    BY DEF ReplacedInv
  <1>10. ClientInv
    BY DEF ClientInv, ClientMapsItsServer
  <1> QED
    BY <1>1, <1>2, <1>3, <1>4, <1>5, <1>6, <1>7, <1>8, <1>9, <1>10 DEF RegistryInv

LEMMA HeldSegsType ==
    ASSUME TypeOK, NEW servers, NEW clients
    PROVE  HeldSegs(servers, clients) \in [Shm -> Server \cup {NoOne}]
  BY DEF HeldSegs, TypeOK

LEMMA TypeStep == RegistryInv /\ [Next]_vars => TypeOK'
  <1> SUFFICES ASSUME RegistryInv, [Next]_vars PROVE TypeOK'
    OBVIOUS
  <1> USE DEF RegistryInv, created, serverVars, tableVars, placeVars, clientVars, ghostVars, Goto,
              Gone, Register
  <1>1. ASSUME NEW s \in Server, Start(s) PROVE TypeOK'
    <2>1. pathOf[s] \in Path /\ ShmOf(s) \in Shm
      BY Places
    <2>2. CASE StartServer(s)
      <3>1. seg[ShmOf(s)] \in Server \cup {NoOne}
        BY <2>1 DEF TypeOK
      <3> QED
        BY <2>1, <2>2, <3>1 DEF StartServer, TypeOK, Beside
    <2>3. CASE Bind(s)
      BY <2>1, <2>3 DEF Bind, TypeOK
    <2>4. CASE BindFails(s)
      BY <2>1, <2>4 DEF BindFails, TypeOK
    <2>5. PICK here : /\ here = IF seg[ShmOf(s)] = NoOne THEN s ELSE seg[ShmOf(s)]
                      /\ here \in Server
      BY <2>1 DEF TypeOK
    <2>6. CASE CreateShm(s)
      BY <2>1, <2>5, <2>6 DEF CreateShm, TypeOK
    <2>7. CASE CreateShmFails(s)
      BY <2>1, <2>5, <2>7 DEF CreateShmFails, TypeOK
    <2> QED
      BY <1>1, <2>2, <2>3, <2>4, <2>6, <2>7 DEF Start
  <1>2. ASSUME NEW s \in Server, Registration(s) PROVE TypeOK'
    <2>1. CASE TakeLock(s)
      BY <2>1 DEF TakeLock, TypeOK
    <2>2. CASE AnnounceFull(s)
      BY <2>2 DEF AnnounceFull, Unlock, AfterRegister, TypeOK
    <2>3. CASE BeginWrite(s)
      <3>1. /\ table' \in [Index -> Entry \cup {NoOne, Unwritten}] /\ copy' \in Table
            /\ Taken(s) \subseteq Server
        BY <2>3, WriteTypes, TableType DEF Taken
      <3> QED
        BY <2>3, <3>1 DEF BeginWrite, TypeOK
    <2>4. CASE EndWrite(s)
      BY <2>4, EmptyTableFacts, TableType DEF EndWrite, Unlock, AfterRegister, TypeOK
    <2>5. CASE WriteFails(s)
      <3>1. table' \in [Index -> Entry \cup {NoOne, Unwritten}]
        BY <2>5, TornFacts DEF WriteFails, TypeOK
      <3>2. Missing(table') \subseteq Server /\ {t \in {s} : spc[t] = "announce"} \subseteq Server
        BY DEF Missing
      <3> QED
        BY <2>5, <3>1, <3>2, EmptyTableFacts DEF WriteFails, Unlock, AfterRegister, TypeOK
    <2>6. CASE RegisterFails(s)
      BY <2>6 DEF RegisterFails, Unlock, AfterRegister, TypeOK
    <2> QED
      BY <1>2, <2>1, <2>2, <2>3, <2>4, <2>5, <2>6 DEF Registration, Registering
  <1>3. ASSUME NEW s \in Server, Destroy(s) PROVE TypeOK'
    <2>1. pathOf[s] \in Path /\ ShmOf(s) \in Shm
      BY Places
    <2>2. CASE DestroyServer(s)
      BY <2>2 DEF DestroyServer, TypeOK, Beside
    <2>3. CASE CloseListener(s)
      BY <2>1, <2>3 DEF CloseListener, TypeOK
    <2>4. CASE UnlinkShm(s)
      <3>1. seg' \in [Shm -> Server \cup {NoOne}]
        BY <2>1, <2>4, HeldSegsType DEF UnlinkShm, TypeOK
      <3> QED
        BY <2>4, <3>1 DEF UnlinkShm, TypeOK
    <2>5. CASE UnlinkPath(s)
      BY <2>1, <2>5 DEF UnlinkPath, TypeOK
    <2> QED
      BY <1>3, <2>2, <2>3, <2>4, <2>5 DEF Destroy
  <1>4. ASSUME NEW c \in Client, ClientConnect(c) PROVE TypeOK'
    <2>1. CASE Resolve(c)
      <3>1. PICK t \in Readings(table) :
                Found(t, c) # {} /\ cpath' = [cpath EXCEPT ![c] = t[First(Found(t, c))].path]
        BY <2>1 DEF Resolve
      <3>2. t \in Table
        BY <3>1, ReadingFacts DEF TypeOK
      <3>3. PICK i \in Index : i = First(Found(t, c)) /\ t[i] # NoOne
        BY <3>1, FirstIn DEF Found, Alive
      <3>4. t[i].path \in Path
        BY <3>2, <3>3 DEF Table, Entry
      <3> QED
        BY <2>1, <3>1, <3>3, <3>4 DEF Resolve, TypeOK
    <2>2. CASE Connect(c)
      <3>1. PICK s \in listener[cpath[c]] : conn' = [conn EXCEPT ![c] = s]
        BY <2>2 DEF Connect
      <3>2. s \in Server
        BY <2>2, <3>1 DEF Connect, Connects, TypeOK
      <3> QED
        BY <2>2, <3>1, <3>2 DEF Connect, TypeOK
    <2>3. CASE ConnectRefused(c)
      BY <2>3 DEF ConnectRefused, TypeOK
    <2>4. CASE ResolveFails(c) \/ Handshake(c) \/ HandshakeLost(c)
      BY <2>4 DEF ResolveFails, Handshake, HandshakeLost, TypeOK
    <2>5. CASE OpenShm(c)
      <3>1. seg[ShmOf(conn[c])] \in Server \cup {NoOne}
        BY <2>5, Places DEF OpenShm, ClientInv, TypeOK
      <3> QED
        BY <2>5, <3>1 DEF OpenShm, TypeOK
    <2>6. CASE Disconnect(c)
      <3>1. seg' \in [Shm -> Server \cup {NoOne}]
        BY <2>6, HeldSegsType DEF Disconnect, TypeOK
      <3> QED
        BY <2>6, <3>1 DEF Disconnect, TypeOK
    <2> QED
      BY <1>4, <2>1, <2>2, <2>3, <2>4, <2>5, <2>6 DEF ClientConnect
  <1>5. ASSUME NEW p \in Pid, Process(p) PROVE TypeOK'
    <2>1. CASE ProcessCrash(p)
      <3>1. seg' \in [Shm -> Server \cup {NoOne}]
        BY <2>1, HeldSegsType DEF ProcessCrash, TypeOK
      <3>2. /\ listener' \in [Path -> SUBSET Server]
            /\ spc' \in [Server -> Gone \cup Register \cup
                 {"bind", "shm", "listening", "error", "close", "unlinkshm", "unlinkpath"}]
            /\ shmOf' \in [Server -> Server \cup {NoOne}]
        BY <2>1 DEF ProcessCrash, TypeOK
      <3>3. /\ lock' \in Server \cup {NoOne} /\ phase' \in {"free", "read", "write"}
            /\ copy' \in Table
        BY <2>1, EmptyTableFacts DEF ProcessCrash, TypeOK
      <3>4. table' \in [Index -> Entry \cup {NoOne, Unwritten}]
        BY <2>1, TornFacts DEF ProcessCrash, TypeOK
      <3>5. lost' \subseteq Server /\ running' \subseteq Pid /\ garbled' \in BOOLEAN
        BY <2>1 DEF ProcessCrash, TypeOK, Missing
      <3> QED
        BY <2>1, <3>1, <3>2, <3>3, <3>4, <3>5 DEF ProcessCrash, TypeOK
    <2>2. CASE ProcessStart(p)
      BY <2>2 DEF ProcessStart, TypeOK
    <2> QED
      BY <1>5, <2>1, <2>2 DEF Process
  <1>6. CASE UNCHANGED vars
    BY <1>6 DEF vars, TypeOK
  <1> QED
    BY <1>1, <1>2, <1>3, <1>4, <1>5, <1>6 DEF Next

LEMMA LockStep == RegistryInv /\ [Next]_vars => LockInv'
  <1> SUFFICES ASSUME RegistryInv, [Next]_vars PROVE LockInv'
    OBVIOUS
  <1> USE RegistryAssumption
          DEF RegistryInv, TypeOK, created, serverVars, tableVars, placeVars, clientVars, ghostVars,
              Goto, Gone, Register, LockInv, Live, Named
  <1>1. ASSUME NEW s \in Server, Start(s) PROVE LockInv'
    <2>1. lock' = lock /\ phase' = phase /\ copy' = copy /\ running' = running /\ pidOf' = pidOf
      BY <1>1 DEF Start, StartServer, Bind, BindFails, CreateShm, CreateShmFails
    <2>2. /\ spc[s] \in {"none", "bind", "shm"} /\ \A t \in Server \ {s} : spc'[t] = spc[t]
          /\ spc[s] = "none" => pidOf[s] \in running
          /\ spc'[s] = "announce" => Named(s)
          /\ spc'[s] # "unregister"
          /\ nameOf' = nameOf
      BY <1>1 DEF Start, StartServer, Bind, BindFails, CreateShm, CreateShmFails
    <2> QED
      BY <2>1, <2>2
  <1>2. ASSUME NEW s \in Server, Registration(s) PROVE LockInv'
    <2>1. CASE TakeLock(s)
      BY <2>1 DEF TakeLock
    <2>2. CASE AnnounceFull(s)
      BY <2>2 DEF AnnounceFull, Unlock, AfterRegister
    <2>3. CASE BeginWrite(s)
      BY <2>3 DEF BeginWrite
    <2>4. CASE EndWrite(s)
      BY <2>4 DEF EndWrite, Unlock, AfterRegister
    <2>5. CASE WriteFails(s)
      BY <2>5 DEF WriteFails, Unlock, AfterRegister
    <2>6. CASE RegisterFails(s)
      BY <2>6 DEF RegisterFails, Unlock, AfterRegister
    <2> QED
      BY <1>2, <2>1, <2>2, <2>3, <2>4, <2>5, <2>6 DEF Registration, Registering
  <1>3. ASSUME NEW s \in Server, Destroy(s) PROVE LockInv'
    <2>1. lock' = lock /\ phase' = phase /\ copy' = copy /\ running' = running /\ pidOf' = pidOf
      BY <1>3 DEF Destroy, DestroyServer, CloseListener, UnlinkShm, UnlinkPath
    <2>2. /\ spc[s] \in {"none", "listening", "error", "close", "unlinkshm", "unlinkpath"}
          /\ spc[s] = "none" => pidOf[s] \in running
          /\ spc'[s] \in Register => Named(s)
          /\ nameOf' = nameOf
          /\ \A t \in Server \ {s} : spc'[t] = spc[t]
      BY <1>3 DEF Destroy, DestroyServer, CloseListener, UnlinkShm, UnlinkPath
    <2> QED
      BY <2>1, <2>2
  <1>4. ASSUME NEW c \in Client, ClientConnect(c) PROVE LockInv'
    BY <1>4 DEF ClientConnect, Resolve, ResolveFails, Connect, ConnectRefused, Handshake, HandshakeLost,
                OpenShm, Disconnect
  <1>5. ASSUME NEW p \in Pid, Process(p) PROVE LockInv'
    BY <1>5 DEF Process, ProcessCrash, ProcessStart
  <1>6. CASE UNCHANGED vars
    BY <1>6 DEF vars
  <1> QED
    BY <1>1, <1>2, <1>3, <1>4, <1>5, <1>6 DEF Next

(* Only its start, or a destroy before that, makes a server live; no server that started is
   a new one again, or creates its segment twice, and a disturbed one stays known as that.  *)
DestroyUnstarted(t) == spc[t] = "none" /\ DestroyServer(t)

LEMMA ServerStep ==
    ASSUME TypeOK, LockInv, [Next]_vars, NEW t \in Server
    PROVE  /\ Live(t)' => Live(t) \/ StartServer(t) \/ DestroyUnstarted(t)
           /\ spc[t] # "none" => spc'[t] # "none"
           /\ spc[t] \notin Uncreated => spc'[t] \notin Uncreated
           /\ t \in overlapped => t \in overlapped'
  <1> DEFINE Goal == /\ Live(t)' => Live(t) \/ StartServer(t) \/ DestroyUnstarted(t)
                     /\ spc[t] # "none" => spc'[t] # "none"
                     /\ spc[t] \notin Uncreated => spc'[t] \notin Uncreated
                     /\ t \in overlapped => t \in overlapped'
  <1> USE DEF TypeOK, created, serverVars, tableVars, placeVars, clientVars, ghostVars, Goto,
              Gone, Live, Uncreated, DestroyUnstarted
  <1>1. ASSUME NEW s \in Server, StartServer(s) PROVE Goal
    BY <1>1 DEF StartServer
  <1>2. ASSUME NEW s \in Server, Start(s), ~StartServer(s) PROVE Goal
    BY <1>2 DEF Start, Bind, BindFails, CreateShm, CreateShmFails
  <1>3. ASSUME NEW s \in Server, Registration(s) PROVE Goal
    BY <1>3, RegistryAssumption
       DEF Registration, Registering, RegisterFails, TakeLock, AnnounceFull, BeginWrite, EndWrite,
           WriteFails, Unlock, AfterRegister, LockInv, Register
  <1>4. ASSUME NEW s \in Server, Destroy(s) PROVE Goal
    BY <1>4 DEF Destroy, DestroyServer, CloseListener, UnlinkShm, UnlinkPath
  <1>5. ASSUME NEW c \in Client, ClientConnect(c) PROVE Goal
    BY <1>5 DEF ClientConnect, Resolve, ResolveFails, Connect, ConnectRefused, Handshake,
                HandshakeLost, OpenShm, Disconnect
  <1>6. ASSUME NEW p \in Pid, Process(p) PROVE Goal
    BY <1>6 DEF Process, ProcessCrash, ProcessStart
  <1>7. CASE UNCHANGED vars
    BY <1>7 DEF vars
  <1> QED
    BY <1>1, <1>2, <1>3, <1>4, <1>5, <1>6, <1>7 DEF Next

LEMMA OverlapStep == RegistryInv /\ [Next]_vars => OverlapInv'
  <1> SUFFICES ASSUME RegistryInv, [Next]_vars,
                      NEW s \in Server, NEW t \in Server, s # t,
                      Live(s)', Live(t)', SamePlace(s, t)'
               PROVE  s \in overlapped'
    BY DEF OverlapInv
  <1> USE DEF RegistryInv
  <1>1. SamePlace(s, t) /\ SamePlace(t, s)
    BY NamesKept DEF SamePlace, ShmOf
  <1>2. CASE Live(s) /\ Live(t)
    BY <1>1, <1>2, ServerStep DEF OverlapInv
  <1>3. CASE StartServer(s) \/ DestroyUnstarted(s)
    <2>1. Live(t)
      BY <1>3 DEF StartServer, DestroyUnstarted, DestroyServer, Goto, Live, TypeOK
    <2> QED
      BY <1>1, <1>3, <2>1 DEF StartServer, DestroyUnstarted, DestroyServer, Beside
  <1>4. CASE StartServer(t) \/ DestroyUnstarted(t)
    <2>1. Live(s)
      BY <1>4 DEF StartServer, DestroyUnstarted, DestroyServer, Goto, Live, TypeOK
    <2> QED
      BY <1>1, <1>4, <2>1 DEF StartServer, DestroyUnstarted, DestroyServer, Beside
  <1> QED
    BY <1>2, <1>3, <1>4, ServerStep

(* Live servers that are not disturbed have their places for themselves. *)
LEMMA Apart ==
    ASSUME TypeOK, OverlapInv, NEW s \in Server, NEW t \in Server, s # t,
           Live(s), Live(t), s \notin overlapped \/ t \notin overlapped
    PROVE  pathOf[s] # pathOf[t] /\ ShmOf(s) # ShmOf(t)
  <1>1. ShmOf(s) # ShmOf(t)
    BY DEF OverlapInv, SamePlace
  <1> QED
    BY <1>1 DEF ShmOf

(* A server changes its own state only. *)
LEMMA OwnState ==
    ASSUME TypeOK, NEW s \in Server, Start(s) \/ Registration(s) \/ Destroy(s)
    PROVE  \A t \in Server \ {s} : spc'[t] = spc[t] /\ shmOf'[t] = shmOf[t]
  <1> USE DEF TypeOK, created, serverVars, placeVars, Goto, Unlock
  <1>1. CASE Start(s)
    BY <1>1 DEF Start, StartServer, Bind, BindFails, CreateShm, CreateShmFails
  <1>2. CASE Registration(s)
    BY <1>2 DEF Registration, Registering, RegisterFails, TakeLock, AnnounceFull, BeginWrite, EndWrite, WriteFails
  <1>3. CASE Destroy(s)
    BY <1>3 DEF Destroy, DestroyServer, CloseListener, UnlinkShm, UnlinkPath
  <1> QED
    BY <1>1, <1>2, <1>3

LEMMA TableStep == RegistryInv /\ [Next]_vars => TableInv'
  <1> SUFFICES ASSUME RegistryInv, [Next]_vars PROVE TableInv'
    OBVIOUS
  <1> USE RegistryAssumption
          DEF RegistryInv, created, serverVars, tableVars, placeVars, clientVars, ghostVars
  <1>1. \A s \in Server : EntryOf(s)' = EntryOf(s)
    BY NamesKept DEF EntryOf
  <1>2. phase = "write" => lock \in Server /\ spc[lock] \in Register
    BY DEF LockInv, TypeOK
  <1>3. ASSUME UNCHANGED <<tableVars, garbled>>, phase = "write" => spc'[lock] = spc[lock]
        PROVE  TableInv'
    <2>1. phase = "write" => EntryOf(lock)' = EntryOf(lock)
      BY <1>3, NamesKept DEF EntryOf
    <2> QED
      BY <1>3, <2>1 DEF TableInv, UniqueNames, Bindings
  <1>4. ASSUME phase' # "write", garbled' = FALSE => garbled = FALSE,
               copy' = EmptyTable, table' \in {table, copy, EmptyTable}, Win32 => garbled' = garbled
        PROVE  TableInv'
    <2>1. ~garbled' => table' \in Table /\ (table' = table \/ table' = copy \/ table' = EmptyTable)
      BY <1>4, EmptyTableFacts DEF TableInv, TypeOK
    <2> QED
      BY <1>4, <2>1, EmptyTableFacts DEF TableInv, UniqueNames
  <1>5. ASSUME NEW s \in Server, Start(s) \/ Destroy(s) PROVE TableInv'
    <2>1. UNCHANGED <<tableVars, garbled>> /\ spc[s] \notin Register
      BY <1>5 DEF Start, StartServer, Bind, BindFails, CreateShm, CreateShmFails, Destroy,
                  DestroyServer, CloseListener, UnlinkShm, UnlinkPath, Register
    <2>2. \A t \in Server \ {s} : spc'[t] = spc[t]
      BY <1>5, OwnState
    <2> QED
      BY <1>2, <1>3, <2>1, <2>2
  <1>6. ASSUME NEW s \in Server, Registration(s) PROVE TableInv'
    <2>1. CASE TakeLock(s)
      BY <2>1 DEF TakeLock, TableInv, UniqueNames
    <2>2. CASE AnnounceFull(s)
      <3>1. phase' = "free" /\ UNCHANGED <<table, copy, garbled>> /\ copy = EmptyTable
        BY <2>2 DEF AnnounceFull, Unlock, LockInv
      <3> QED
        BY <1>4, <3>1
    <2>3. CASE RegisterFails(s)
      <3>1. CASE lock # s /\ UNCHANGED <<lock, phase>>
        <4>1. UNCHANGED <<tableVars, garbled>>
          BY <2>3, <3>1 DEF RegisterFails
        <4>2. \A t \in Server \ {s} : spc'[t] = spc[t]
          BY <1>6, OwnState
        <4> QED
          BY <1>2, <1>3, <3>1, <4>1, <4>2
      <3>2. CASE lock = s /\ phase = "read" /\ Unlock(s)
        <4>1. phase' = "free" /\ UNCHANGED <<table, copy, garbled>> /\ copy = EmptyTable
          BY <2>3, <3>2 DEF RegisterFails, Unlock, LockInv
        <4> QED
          BY <1>4, <4>1
      <3> QED
        BY <2>3, <3>1, <3>2 DEF RegisterFails
    <2>4. CASE BeginWrite(s)
      <3>1. PICK r \in Readings(table) :
              /\ r \in Table /\ Bindings(table) \subseteq Bindings(r) /\ (table \in Table => r = table)
              /\ copy' \in Table /\ table' \in Table
              /\ spc[s] = "announce" =>
                    /\ Slots(Evicted(r, s), NoOne) # {} /\ copy' = Added(r, s)
                    /\ table' = IF Win32 THEN Evicted(r, s) ELSE EmptyTable
              /\ spc[s] = "unregister" =>
                    /\ copy' = Removed(r, s)
                    /\ table' = IF Win32 THEN Removed(r, s) ELSE EmptyTable
        BY <2>4, WriteTypes
      <3>2. /\ lock' = s /\ spc' = spc /\ garbled' = garbled
            /\ spc[s] \in Register /\ Named(s) /\ EntryOf(s)' = EntryOf(s)
        BY <1>1, <2>4 DEF BeginWrite, LockInv
      <3>3. ~garbled => UniqueNames(r)
        BY <3>1 DEF TableInv
      <3>4. CASE spc[s] = "announce"
        <4>1. PICK a, e : a = Added(r, s) /\ e = Evicted(r, s)
          OBVIOUS
        <4>2. /\ ~garbled => UniqueNames(a) /\ UniqueNames(e)
              /\ Bindings(a) = Bindings(e) \cup {EntryOf(s)}
              /\ EntryOf(s) \notin Bindings(e)
          BY <3>1, <3>2, <3>3, <3>4, <4>1, AddedFacts, EvictedFacts
        <4>3. copy' = a /\ table' = (IF Win32 THEN e ELSE EmptyTable)
          BY <3>1, <3>4, <4>1
        <4>4. ~garbled => UniqueNames(copy') /\ UniqueNames(table')
          BY <4>2, <4>3, EmptyTableFacts
        <4>5. ~garbled => UniqueNames(copy)' /\ UniqueNames(table)'
          BY <4>4 DEF UniqueNames
        <4>6. /\ Bindings(copy)' = Bindings(e) \cup {EntryOf(s)}
              /\ Win32 => Bindings(table)' = Bindings(e)
          BY <4>2, <4>3 DEF Bindings
        <4> QED
          BY <3>1, <3>2, <3>4, <4>2, <4>3, <4>5, <4>6 DEF TableInv
      <3>5. CASE spc[s] = "unregister"
        <4>1. PICK a : a = Removed(r, s)
          OBVIOUS
        <4>2. /\ ~garbled => UniqueNames(a)
              /\ ~garbled => \A e \in Bindings(a) : e.name # nameOf[s] \/ e.pid # pidOf[s]
          BY <3>1, <3>3, <4>1, RemovedFacts
        <4>3. ~garbled => EntryOf(s) \notin Bindings(a)
          BY <4>2, EntryType
        <4>4. copy' = a /\ table' = (IF Win32 THEN a ELSE EmptyTable)
          BY <3>1, <3>5, <4>1
        <4>5. ~garbled => UniqueNames(copy') /\ UniqueNames(table')
          BY <4>2, <4>4, EmptyTableFacts
        <4>6. ~garbled => UniqueNames(copy)' /\ UniqueNames(table)'
          BY <4>5 DEF UniqueNames
        <4>7. Bindings(copy)' = Bindings(a) /\ Bindings(table)' = Bindings(table')
          BY <4>4 DEF Bindings
        <4> QED
          BY <3>1, <3>2, <3>5, <4>3, <4>4, <4>6, <4>7 DEF TableInv
      <3> QED
        BY <3>2, <3>4, <3>5 DEF Register
    <2>5. CASE EndWrite(s)
      <3>1. phase' = "free" /\ table' = copy /\ copy' = EmptyTable /\ garbled' = garbled
        BY <2>5 DEF EndWrite, Unlock
      <3> QED
        BY <1>4, <3>1
    <2>6. CASE WriteFails(s)
      <3>1. /\ phase' = "free" /\ copy' = EmptyTable /\ table' \in Torn(copy) /\ ~Win32
            /\ garbled' = (garbled \/ \E i \in Index : table'[i] = Unwritten)
        BY <2>6 DEF WriteFails, Unlock
      <3>2. table' = EmptyTable \/ garbled'
        BY <3>1, TornFacts DEF TypeOK
      <3> QED
        BY <3>1, <3>2, EmptyTableFacts DEF TableInv, UniqueNames
    <2> QED
      BY <1>6, <2>1, <2>2, <2>3, <2>4, <2>5, <2>6 DEF Registration, Registering
  <1>7. ASSUME NEW c \in Client, ClientConnect(c) PROVE TableInv'
    BY <1>3, <1>7 DEF ClientConnect, Resolve, ResolveFails, Connect, ConnectRefused, Handshake,
                      HandshakeLost, OpenShm, Disconnect
  <1>8. ASSUME NEW p \in Pid, Process(p) PROVE TableInv'
    <2>1. CASE ProcessStart(p)
      BY <1>3, <2>1 DEF ProcessStart
    <2>2. CASE ProcessCrash(p)
      <3>1. PICK mine \in SUBSET Server, torn \in BOOLEAN :
               /\ mine = {s \in Server : pidOf[s] = p /\ Live(s)}
               /\ torn = (lock \in mine /\ phase = "write" /\ ~Win32)
               /\ spc' = [s \in Server |-> IF s \in mine THEN "crashed" ELSE spc[s]]
               /\ lock' = IF lock \in mine THEN NoOne ELSE lock
               /\ phase' = IF lock \in mine THEN "free" ELSE phase
               /\ table' \in IF torn THEN Torn(copy) ELSE {table}
               /\ copy' = IF lock \in mine THEN EmptyTable ELSE copy
               /\ garbled' = (garbled \/ (torn /\ \E i \in Index : table'[i] = Unwritten))
        BY <2>2 DEF ProcessCrash
      <3>2. CASE lock \notin mine
        <4>1. UNCHANGED <<tableVars, garbled>>
          BY <3>1, <3>2 DEF TypeOK
        <4> QED
          BY <1>2, <1>3, <3>1, <3>2, <4>1
      <3>3. CASE lock \in mine /\ ~torn
        <4>1. phase' = "free" /\ table' = table /\ copy' = EmptyTable /\ garbled' = garbled
          BY <3>1, <3>3 DEF TypeOK
        <4> QED
          BY <1>4, <4>1
      <3>4. CASE lock \in mine /\ torn
        <4>1. table' = EmptyTable \/ garbled'
          BY <3>1, <3>4, TornFacts DEF TypeOK
        <4> QED
          BY <3>1, <3>4, <4>1, EmptyTableFacts DEF TableInv, UniqueNames
      <3> QED
        BY <3>2, <3>3, <3>4
    <2> QED
      BY <1>8, <2>1, <2>2 DEF Process
  <1>9. CASE UNCHANGED vars
    BY <1>3, <1>9 DEF vars
  <1> QED
    BY <1>5, <1>6, <1>7, <1>8, <1>9 DEF Next

(* A server that announced is in the table, whatever its neighbours and the deaths of
   processes do to the file.                                                          *)
FoundEntry(s) ==
    Named(s) /\ spc[s] = "listening" /\ s \notin lost => EntryOf(s) \in Bindings(Content)

LEMMA AnnouncedStep ==
    ASSUME RegistryInv, [Next]_vars, NEW s \in Server PROVE FoundEntry(s)'
  <1> USE DEF RegistryInv, created, serverVars, tableVars, placeVars, clientVars, ghostVars
  <1>1. EntryOf(s)' = EntryOf(s) /\ (Named(s)' <=> Named(s))
    BY NamesKept DEF EntryOf, Named
  <1>2. FoundEntry(s)
    BY DEF FoundInv, FoundEntry
  <1>3. ASSUME UNCHANGED <<table, copy>>, phase' = "write" <=> phase = "write",
               Named(s) /\ spc'[s] = "listening" /\ s \notin lost' =>
                   spc[s] = "listening" /\ s \notin lost
        PROVE  FoundEntry(s)'
    BY <1>1, <1>2, <1>3 DEF FoundEntry, Bindings, Content
  <1>4. ASSUME Named(s), s # NoOne, spc[s] = "listening", NEW t \in [Index -> Entry \cup {NoOne, Unwritten}],
               s \notin Missing(t)
        PROVE  EntryOf(s) \in Bindings(t)
    <2>1. EntryOf(s) \in {t[i] : i \in Index} /\ EntryOf(s) \in Entry
      BY <1>4, EntryType DEF Missing
    <2> QED
      BY <2>1, Slot DEF Bindings
  <1>5. ASSUME NEW t \in Server, Start(t) PROVE FoundEntry(s)'
    <2>1. /\ UNCHANGED <<tableVars, lost>>
          /\ spc'[t] = "listening" => ~Named(t)
      BY <1>5 DEF Start, StartServer, Bind, BindFails, CreateShm, CreateShmFails, Goto, TypeOK
    <2> QED
      BY <1>3, <1>5, <2>1, OwnState
  <1>6. ASSUME NEW t \in Server, Registration(t) PROVE FoundEntry(s)'
    <2>1. s # t => spc'[s] = spc[s]
      BY <1>6, OwnState
    <2>2. CASE TakeLock(t)
      BY <1>3, <2>2 DEF TakeLock, LockInv
    <2>3. CASE AnnounceFull(t)
      BY <1>3, <2>1, <2>3 DEF AnnounceFull, Unlock
    <2>4. CASE RegisterFails(t)
      <3>1. /\ UNCHANGED <<table, copy>> /\ lost' = lost \cup {t}
            /\ phase' = "write" <=> phase = "write"
        BY <2>4 DEF RegisterFails, Unlock
      <3> QED
        BY <1>3, <2>1, <3>1
    <2>5. CASE BeginWrite(t)
      <3>1. /\ spc' = spc /\ lost' = lost \cup Taken(t) /\ phase = "read" /\ phase' = "write"
            /\ Content = table /\ lock = t /\ spc[t] \in Register /\ Named(t)
        BY <2>5, RegistryAssumption DEF BeginWrite, Content, LockInv
      <3> SUFFICES ASSUME Named(s), spc[s] = "listening", s \notin lost \cup Taken(t)
                   PROVE  EntryOf(s) \in Bindings(copy')
        BY <1>1, <3>1 DEF FoundEntry, Content, Bindings
      <3>2. PICK r \in Readings(table) :
              /\ r \in Table /\ Bindings(table) \subseteq Bindings(r)
              /\ spc[t] = "announce" =>
                    Slots(Evicted(r, t), NoOne) # {} /\ copy' = Added(r, t)
              /\ spc[t] = "unregister" => copy' = Removed(r, t)
        BY <2>5, WriteTypes
      <3>3. EntryOf(s) \in Bindings(r)
        BY <1>2, <3>1, <3>2 DEF FoundEntry
      <3>4. /\ EntryOf(s).name = nameOf[s] /\ EntryOf(s).pid = pidOf[s]
            /\ pidOf[s] \in running
        BY EntryType DEF LockInv, Live, Gone
      <3>5. CASE spc[t] = "announce"
        <4>1. nameOf[s] # nameOf[t]
          BY <3>5 DEF Taken
        <4> QED
          BY <3>1, <3>2, <3>3, <3>4, <3>5, <4>1, AddedFacts, EvictedFacts
      <3>6. CASE spc[t] = "unregister"
        <4>1. nameOf[s] # nameOf[t] \/ pidOf[s] # pidOf[t]
          BY <3>6 DEF Taken
        <4> QED
          BY <3>2, <3>3, <3>4, <3>6, <4>1, RemovedFacts
      <3> QED
        BY <3>1, <3>5, <3>6 DEF Register
    <2>6. CASE EndWrite(t)
      <3>1. Content' = Content /\ lost' = lost
        BY <2>6 DEF EndWrite, Unlock, Content
      <3>2. s = t /\ spc'[s] = "listening" => EntryOf(s) \in Bindings(Content)
        BY <2>6 DEF EndWrite, Unlock, Goto, AfterRegister, TableInv, Content, TypeOK
      <3> QED
        BY <1>1, <1>2, <2>1, <3>1, <3>2 DEF FoundEntry, Bindings
    <2>7. CASE WriteFails(t)
      <3>1. /\ table' \in [Index -> Entry \cup {NoOne, Unwritten}] /\ Content' = table'
            /\ Missing(table') \subseteq lost'
            /\ spc[t] = "announce" => t \in lost'
        BY <2>7, TornFacts DEF WriteFails, Unlock, Content, TypeOK
      <3>2. s = t /\ spc'[s] = "listening" => spc[t] = "announce"
        BY <2>7 DEF WriteFails, Unlock, Goto, AfterRegister, TypeOK
      <3>3. Named(s) /\ spc'[s] = "listening" /\ s \notin lost' => EntryOf(s) \in Bindings(table')
        BY <1>4, <2>1, <3>1, <3>2, RegistryAssumption
      <3> QED
        BY <1>1, <3>1, <3>3 DEF FoundEntry, Bindings
    <2> QED
      BY <1>6, <2>2, <2>3, <2>4, <2>5, <2>6, <2>7 DEF Registration, Registering
  <1>7. ASSUME NEW t \in Server, Destroy(t) PROVE FoundEntry(s)'
    <2>1. /\ UNCHANGED tableVars /\ lost \ {t} \subseteq lost'
          /\ spc'[t] # "listening"
      BY <1>7 DEF Destroy, DestroyServer, CloseListener, UnlinkShm, UnlinkPath, Goto, TypeOK
    <2> QED
      BY <1>3, <1>7, <2>1, OwnState
  <1>8. ASSUME NEW c \in Client, ClientConnect(c) PROVE FoundEntry(s)'
    BY <1>3, <1>8 DEF ClientConnect, Resolve, ResolveFails, Connect, ConnectRefused, Handshake,
                      HandshakeLost, OpenShm, Disconnect
  <1>9. ASSUME NEW p \in Pid, Process(p) PROVE FoundEntry(s)'
    <2>1. CASE ProcessStart(p)
      BY <1>3, <2>1 DEF ProcessStart
    <2>2. CASE ProcessCrash(p)
      <3>1. PICK mine \in SUBSET Server, torn \in BOOLEAN :
               /\ mine = {x \in Server : pidOf[x] = p /\ Live(x)}
               /\ torn = (lock \in mine /\ phase = "write" /\ ~Win32)
               /\ spc' = [x \in Server |-> IF x \in mine THEN "crashed" ELSE spc[x]]
               /\ phase' = IF lock \in mine THEN "free" ELSE phase
               /\ table' \in IF torn THEN Torn(copy) ELSE {table}
               /\ copy' = IF lock \in mine THEN EmptyTable ELSE copy
               /\ lost' = (IF torn THEN lost \cup Missing(table') ELSE lost) \ mine
        BY <2>2 DEF ProcessCrash
      <3> SUFFICES ASSUME Named(s), spc'[s] = "listening", s \notin lost'
                   PROVE  EntryOf(s) \in Bindings(Content)'
        BY <1>1 DEF FoundEntry
      <3>2. s \notin mine /\ spc[s] = "listening" /\ s \notin lost
            /\ (torn => s \notin Missing(table'))
        BY <3>1
      <3>3. EntryOf(s) \in Bindings(Content)
        BY <1>2, <3>2 DEF FoundEntry
      <3>4. CASE lock \notin mine
        BY <3>1, <3>3, <3>4 DEF Content, Bindings
      <3>5. CASE lock \in mine /\ phase # "write"
        BY <3>1, <3>3, <3>5 DEF Content, Bindings
      <3>6. CASE torn
        <4>1. table' \in [Index -> Entry \cup {NoOne, Unwritten}] /\ Content' = table'
          BY <3>1, <3>6, TornFacts DEF TypeOK, Content
        <4>2. EntryOf(s) \in Bindings(table')
          BY <1>4, <3>2, <3>6, <4>1, RegistryAssumption
        <4> QED
          BY <4>1, <4>2 DEF Bindings
      <3>7. CASE lock \in mine /\ phase = "write" /\ Win32
        <4>1. Bindings(table) = Bindings(copy) \ {EntryOf(lock)}
          BY <3>7 DEF TableInv
        <4>2. pidOf[lock] = p /\ pidOf[s] # p
          BY <3>1, <3>2, <3>7 DEF Live, Gone
        <4>3. EntryOf(s) # EntryOf(lock)
          BY <4>2, EntryType, <3>1, <3>7
        <4>4. Content = copy /\ Content' = table
          BY <3>1, <3>7 DEF Content
        <4>5. EntryOf(s) \in Bindings(table)
          BY <3>3, <4>1, <4>3, <4>4
        <4> QED
          BY <4>4, <4>5 DEF Bindings
      <3> QED
        BY <3>1, <3>4, <3>5, <3>6, <3>7
    <2> QED
      BY <1>9, <2>1, <2>2 DEF Process
  <1>10. CASE UNCHANGED vars
    BY <1>3, <1>10 DEF vars
  <1> QED
    BY <1>5, <1>6, <1>7, <1>8, <1>9, <1>10 DEF Next

(* Tables that are written hold nothing new but the entry of the writer, as long as no
   write has stopped.                                                                  *)
LEMMA NewBindings ==
    ASSUME RegistryInv, [Next]_vars, ~garbled
    PROVE  \A e \in Bindings(table') \cup Bindings(copy') :
              \/ e \in Bindings(table) \cup Bindings(copy)
              \/ \E t \in Server : e = EntryOf(t) /\ spc[t] = "announce"
  <1> DEFINE Goal == \A e \in Bindings(table') \cup Bindings(copy') :
                        \/ e \in Bindings(table) \cup Bindings(copy)
                        \/ \E t \in Server : e = EntryOf(t) /\ spc[t] = "announce"
  <1> USE EmptyTableFacts
          DEF RegistryInv, created, serverVars, tableVars, placeVars, clientVars, ghostVars
  <1>1. CASE table' = table /\ copy' \in {copy, EmptyTable}
    BY <1>1
  <1>2. CASE table' \in Torn(copy) /\ copy' = EmptyTable
    BY <1>2, TornFacts DEF TypeOK
  <1>3. ASSUME NEW s \in Server, Start(s) \/ Destroy(s) PROVE Goal
    BY <1>1, <1>3 DEF Start, StartServer, Bind, BindFails, CreateShm, CreateShmFails,
                      Destroy, DestroyServer, CloseListener, UnlinkShm, UnlinkPath
  <1>4. ASSUME NEW s \in Server, Registration(s) PROVE Goal
    <2>1. CASE TakeLock(s) \/ AnnounceFull(s) \/ RegisterFails(s)
      BY <1>1, <2>1 DEF TakeLock, AnnounceFull, RegisterFails
    <2>2. CASE BeginWrite(s)
      <3>1. /\ table \in Table /\ spc[s] \in Register /\ Named(s)
            /\ spc[s] = "announce" =>
                  /\ Slots(Evicted(table, s), NoOne) # {} /\ copy' = Added(table, s)
                  /\ table' = IF Win32 THEN Evicted(table, s) ELSE EmptyTable
            /\ spc[s] = "unregister" =>
                  /\ copy' = Removed(table, s)
                  /\ table' = IF Win32 THEN Removed(table, s) ELSE EmptyTable
        BY <2>2, WriteTypes, RegistryAssumption DEF TableInv, BeginWrite, LockInv
      <3>2. CASE spc[s] = "announce"
        <4>1. /\ Bindings(copy') \subseteq Bindings(table) \cup {EntryOf(s)}
              /\ Bindings(Evicted(table, s)) \subseteq Bindings(table)
          BY <3>1, <3>2, AddedFacts, EvictedFacts
        <4>2. Bindings(table') \subseteq Bindings(table)
          BY <3>1, <3>2, <4>1
        <4> QED
          BY <3>2, <4>1, <4>2
      <3>3. CASE spc[s] = "unregister"
        <4>1. Bindings(Removed(table, s)) \subseteq Bindings(table)
          BY <3>1, RemovedFacts
        <4>2. Bindings(copy') \subseteq Bindings(table) /\ Bindings(table') \subseteq Bindings(table)
          BY <3>1, <3>3, <4>1
        <4> QED
          BY <4>2
      <3> QED
        BY <3>1, <3>2, <3>3 DEF Register
    <2>3. CASE EndWrite(s)
      BY <2>3 DEF EndWrite
    <2>4. CASE WriteFails(s)
      BY <1>2, <2>4 DEF WriteFails
    <2> QED
      BY <1>4, <2>1, <2>2, <2>3, <2>4 DEF Registration, Registering
  <1>5. ASSUME NEW c \in Client, ClientConnect(c) PROVE Goal
    BY <1>1, <1>5 DEF ClientConnect, Resolve, ResolveFails, Connect, ConnectRefused, Handshake,
                      HandshakeLost, OpenShm, Disconnect
  <1>6. ASSUME NEW p \in Pid, Process(p) PROVE Goal
    <2>1. \/ table' = table /\ copy' \in {copy, EmptyTable}
          \/ table' \in Torn(copy) /\ copy' = EmptyTable
      BY <1>6 DEF Process, ProcessCrash, ProcessStart
    <2> QED
      BY <1>1, <1>2, <2>1
  <1>7. CASE UNCHANGED vars
    BY <1>1, <1>7 DEF vars
  <1> QED
    BY <1>3, <1>4, <1>5, <1>6, <1>7 DEF Next

(* Who leaves keeps its excuse; who is not announced yet has none in lost. *)
LEMMA LostStep ==
    ASSUME RegistryInv, [Next]_vars, NEW s \in Server, spc'[s] \in Unannounced
    PROVE  /\ garbled => garbled'
           /\ s \in lost /\ spc[s] \in Leaving => s \in lost' /\ spc'[s] \in Leaving
           /\ spc[s] \in Unannounced \/ spc[s] \in {"listening", "unregister"}
           /\ spc[s] = "listening" => ~Named(s)
           /\ spc[s] = "unregister" =>
                 \/ EndWrite(s) \/ WriteFails(s)
                 \/ s \in lost' /\ spc'[s] \in Leaving
  <1> DEFINE Goal ==
           /\ garbled => garbled'
           /\ s \in lost /\ spc[s] \in Leaving => s \in lost' /\ spc'[s] \in Leaving
           /\ spc[s] \in Unannounced \/ spc[s] \in {"listening", "unregister"}
           /\ spc[s] = "listening" => ~Named(s)
           /\ spc[s] = "unregister" =>
                 \/ EndWrite(s) \/ WriteFails(s)
                 \/ s \in lost' /\ spc'[s] \in Leaving
  <1> USE DEF RegistryInv, TypeOK, created, serverVars, tableVars, placeVars, clientVars, ghostVars,
              Goto, Unannounced, Leaving
  <1>1. ASSUME spc'[s] = spc[s], lost \subseteq lost', garbled => garbled' PROVE Goal
    BY <1>1
  <1>2. ASSUME NEW t \in Server, t # s, Start(t) \/ Registration(t) \/ Destroy(t) PROVE Goal
    <2>1. spc'[s] = spc[s]
      BY <1>2, OwnState
    <2>2. lost \ {t} \subseteq lost' /\ (garbled => garbled')
      BY <1>2 DEF Start, StartServer, Bind, BindFails, CreateShm, CreateShmFails, Registration,
                  Registering, RegisterFails, TakeLock, AnnounceFull, BeginWrite, EndWrite,
                  WriteFails, Destroy, DestroyServer, CloseListener, UnlinkShm, UnlinkPath
    <2> QED
      BY <1>2, <2>1, <2>2
  <1>3. CASE Start(s)
    BY <1>3 DEF Start, StartServer, Bind, BindFails, CreateShm, CreateShmFails
  <1>4. CASE Registration(s)
    <2>1. CASE TakeLock(s) \/ BeginWrite(s)
      BY <2>1, RegistryAssumption DEF TakeLock, BeginWrite, LockInv, Register
    <2>2. CASE AnnounceFull(s)
      BY <2>2 DEF AnnounceFull, Unlock, AfterRegister
    <2>3. CASE RegisterFails(s)
      BY <2>3 DEF RegisterFails, Unlock, AfterRegister, Register
    <2>4. CASE EndWrite(s) \/ WriteFails(s)
      <3>1. spc[s] \in Register /\ spc'[s] = AfterRegister(s) /\ (garbled => garbled')
        BY <2>4, RegistryAssumption DEF EndWrite, WriteFails, Unlock, LockInv, AfterRegister
      <3> QED
        BY <2>4, <3>1 DEF AfterRegister, Register
    <2> QED
      BY <1>4, <2>1, <2>2, <2>3, <2>4 DEF Registration, Registering
  <1>5. CASE Destroy(s)
    BY <1>5 DEF Destroy, DestroyServer, CloseListener, UnlinkShm, UnlinkPath
  <1>6. ASSUME NEW c \in Client, ClientConnect(c) PROVE Goal
    BY <1>1, <1>6 DEF ClientConnect, Resolve, ResolveFails, Connect, ConnectRefused, Handshake,
                      HandshakeLost, OpenShm, Disconnect
  <1>7. ASSUME NEW p \in Pid, Process(p) PROVE Goal
    <2>1. CASE ProcessStart(p)
      BY <1>1, <2>1 DEF ProcessStart
    <2>2. CASE ProcessCrash(p)
      <3>1. PICK mine \in SUBSET Server :
               /\ mine = {x \in Server : pidOf[x] = p /\ Live(x)}
               /\ spc' = [x \in Server |-> IF x \in mine THEN "crashed" ELSE spc[x]]
        BY <2>2 DEF ProcessCrash
      <3>2. lost \ mine \subseteq lost'
        <4>1. PICK torn \in BOOLEAN :
                 lost' = (IF torn THEN lost \cup Missing(table') ELSE lost)
                             \ {x \in Server : pidOf[x] = p /\ Live(x)}
          BY <2>2 DEF ProcessCrash
        <4> QED
          BY <3>1, <4>1
      <3>3. garbled => garbled'
        BY <2>2 DEF ProcessCrash
      <3> QED
        BY <3>1, <3>2, <3>3
    <2> QED
      BY <1>7, <2>1, <2>2 DEF Process
  <1>8. CASE UNCHANGED vars
    BY <1>1, <1>8 DEF vars
  <1> QED
    BY <1>2, <1>3, <1>4, <1>5, <1>6, <1>7, <1>8 DEF Next

(* What is in the table of a server that did not announce, or has unregistered, belongs
   to another one, or could not be removed.                                             *)
LEMMA UnannouncedStep ==
    ASSUME RegistryInv, [Next]_vars, NEW s \in Server, spc'[s] \in Unannounced,
           EntryOf(s) \in Bindings(table') \cup Bindings(copy')
    PROVE  \/ garbled'
           \/ s \in lost' /\ spc'[s] \in Leaving
           \/ \E t \in Server \ {s} : EntryOf(t) = EntryOf(s) /\ spc'[t] # "none"
  <1> SUFFICES ASSUME ~garbled', ~(s \in lost' /\ spc'[s] \in Leaving)
               PROVE  \E t \in Server \ {s} : EntryOf(t) = EntryOf(s) /\ spc'[t] # "none"
    OBVIOUS
  <1> USE EmptyTableFacts
          DEF RegistryInv, created, serverVars, tableVars, placeVars, clientVars, ghostVars
  <1>1. ~garbled
    BY LostStep
  <1>2. Named(s)
    <2>1. EntryOf(s) \in Entry
      BY TypeStep, TableType, BindingsType DEF TypeOK
    <2> QED
      BY <2>1, EntryType
  <1>3. spc[s] \in Unannounced
    <2> SUFFICES ASSUME spc[s] = "unregister", EndWrite(s) \/ WriteFails(s) PROVE FALSE
      BY <1>2, LostStep
    <2>1. lock = s /\ phase = "write" /\ EntryOf(s) \notin Bindings(copy)
      BY <1>1 DEF EndWrite, WriteFails, TableInv
    <2>2. Bindings(table') \subseteq Bindings(copy) /\ Bindings(copy') = {}
      BY TornFacts DEF EndWrite, WriteFails, TypeOK
    <2> QED
      BY <2>1, <2>2
  <1>4. CASE EntryOf(s) \in Bindings(table) \cup Bindings(copy)
    <2>1. Excused(s)
      BY <1>3, <1>4 DEF FoundInv
    <2>2. PICK t \in Server \ {s} : EntryOf(t) = EntryOf(s) /\ spc[t] # "none"
      BY <1>1, <2>1, LostStep DEF Excused
    <2> QED
      BY <2>2, ServerStep
  <1>5. CASE \E t \in Server : EntryOf(s) = EntryOf(t) /\ spc[t] = "announce"
    <2>1. PICK t \in Server : EntryOf(s) = EntryOf(t) /\ spc[t] = "announce"
      BY <1>5
    <2>2. t # s
      BY <1>3, <2>1 DEF Unannounced, Leaving
    <2> QED
      BY <2>1, <2>2, ServerStep
  <1> QED
    BY <1>1, <1>4, <1>5, NewBindings

LEMMA FoundStep == RegistryInv /\ [Next]_vars => FoundInv'
  <1> SUFFICES ASSUME RegistryInv, [Next]_vars PROVE FoundInv'
    OBVIOUS
  <1>1. \A s \in Server : EntryOf(s)' = EntryOf(s)
    BY NamesKept DEF EntryOf
  <1>2. Bindings(table)' = Bindings(table') /\ Bindings(copy)' = Bindings(copy')
    BY DEF Bindings
  <1>3. \A s \in Server : FoundEntry(s)'
    BY AnnouncedStep
  <1>4. ASSUME NEW s \in Server, spc'[s] \in Unannounced,
               EntryOf(s)' \in (Bindings(table) \cup Bindings(copy))'
        PROVE  Excused(s)'
    <2>1. \/ garbled'
          \/ s \in lost' /\ spc'[s] \in Leaving
          \/ \E t \in Server \ {s} : EntryOf(t) = EntryOf(s) /\ spc'[t] # "none"
      BY <1>1, <1>2, <1>4, UnannouncedStep
    <2> QED
      BY <1>1, <2>1 DEF Excused
  <1> QED
    BY <1>3, <1>4 DEF FoundInv, FoundEntry

-----------------------------------------------------------------------------
(* Places *)

(* ListenerInv of one path and of one server. *)
Listeners(p) ==
    \A s \in listener[p] :
        /\ p = pathOf[s] /\ spc[s] \notin {"none", "bind", "closed"}
        /\ Win32 => spc[s] \in {"shm", "announce", "listening", "error", "unregister", "close"}

Listens(s) ==
    spc[s] \in {"shm", "announce", "listening", "unregister"} /\ s \notin overlapped
        => listener[pathOf[s]] = {s}

LEMMA ListenerStep == RegistryInv /\ [Next]_vars => ListenerInv'
  <1> SUFFICES ASSUME RegistryInv, [Next]_vars,
                      NEW p \in Path, NEW s \in Server
               PROVE  Listeners(p)' /\ Listens(s)'
    <2>1. ASSUME RegistryInv, [Next]_vars,
                 \A p \in Path, s \in Server : Listeners(p)' /\ Listens(s)'
          PROVE  ListenerInv'
      <3>1. \A p \in Path : listener'[p] \subseteq Server
        BY <2>1, TypeStep DEF TypeOK
      <3>2. \A p \in Path : Listeners(p)'
        BY <2>1, <3>1 DEF Listeners
      <3>3. \A s \in Server : Listens(s)'
        BY <2>1, Places DEF RegistryInv
      <3> QED
        BY <3>2, <3>3 DEF ListenerInv, Listeners, Listens
    <2> QED
      BY <2>1
  <1> USE DEF RegistryInv, created, serverVars, tableVars, placeVars, clientVars, ghostVars
  <1>1. \A t \in Server : pathOf'[t] = pathOf[t]
    BY NamesKept
  <1>2. Listeners(p) /\ Listens(s) /\ listener[p] \subseteq Server
    BY DEF ListenerInv, Listeners, Listens, TypeOK
  <1>3. ASSUME UNCHANGED <<listener, spc, overlapped>> PROVE Listeners(p)' /\ Listens(s)'
    BY <1>1, <1>2, <1>3 DEF Listeners, Listens
  <1>4. ASSUME NEW t \in Server, Start(t) \/ Registration(t) \/ Destroy(t)
        PROVE  Listeners(p)' /\ Listens(s)'
    <2>1. pathOf[t] \in Path /\ \A x \in Server \ {t} : spc'[x] = spc[x]
      BY <1>4, OwnState, Places
    <2>2. t # s /\ Live(t) /\ Live(s) /\ s \notin overlapped => pathOf[s] # pathOf[t]
      BY Apart
    <2>3. pathOf[s] \in Path
      BY Places
    <2>4. CASE StartServer(t)
      <3>1. /\ listener' = listener /\ spc[t] = "none" /\ spc'[t] = "bind"
            /\ overlapped \subseteq overlapped'
        BY <2>4 DEF StartServer, Goto, TypeOK
      <3>2. Listeners(p)'
        BY <1>1, <1>2, <2>1, <3>1 DEF Listeners
      <3>3. Listens(s)'
        BY <1>1, <1>2, <2>1, <3>1 DEF Listens
      <3> QED
        BY <3>2, <3>3
    <2>5. CASE Bind(t)
      <3>1. /\ spc[t] = "bind" /\ spc'[t] = "shm" /\ overlapped' = overlapped
            /\ listener'[pathOf[t]] = (IF Win32 THEN listener[pathOf[t]] \cup {t} ELSE {t})
            /\ \A x \in Path \ {pathOf[t]} : listener'[x] = listener[x]
        BY <2>1, <2>5 DEF Bind, Goto, TypeOK
      <3>2. Listeners(p)'
        BY <1>1, <1>2, <2>1, <3>1 DEF Listeners
      <3>3. CASE s # t
        <4> SUFFICES ASSUME spc[s] \in {"shm", "announce", "listening", "unregister"},
                            s \notin overlapped
                     PROVE  listener'[pathOf[s]] = {s}
          BY <1>1, <2>1, <3>1, <3>2, <3>3 DEF Listens
        <4>1. pathOf[s] # pathOf[t]
          BY <2>2, <3>1, <3>3 DEF Live, Gone
        <4> QED
          BY <1>2, <2>3, <3>1, <4>1 DEF Listens
      <3>4. CASE s = t
        <4> SUFFICES ASSUME s \notin overlapped, Win32 PROVE listener[pathOf[s]] = {}
          <5>1. listener'[pathOf[s]] = (IF Win32 THEN listener[pathOf[s]] \cup {s} ELSE {s})
            BY <3>1, <3>4
          <5>2. s \notin overlapped => listener'[pathOf[s]] = {s}
            BY <5>1
          <5> QED
            BY <1>1, <3>1, <3>2, <5>2 DEF Listens
        <4> SUFFICES ASSUME NEW x \in listener[pathOf[s]] PROVE FALSE
          OBVIOUS
        <4>1. x \in Server /\ x # s /\ pathOf[x] = pathOf[s] /\ Live(x) /\ Live(s)
          BY <2>3, <3>1, <3>4 DEF ListenerInv, TypeOK, Live, Gone
        <4> QED
          BY <4>1, Apart
      <3> QED
        BY <3>2, <3>3, <3>4
    <2>6. CASE BindFails(t)
      <3>1. /\ spc[t] = "bind" /\ spc'[t] = "error" /\ overlapped' = overlapped
            /\ listener'[pathOf[t]] \in {listener[pathOf[t]], {}}
            /\ \A x \in Path \ {pathOf[t]} : listener'[x] = listener[x]
        BY <2>1, <2>6 DEF BindFails, Goto, TypeOK
      <3>2. Listeners(p)'
        BY <1>1, <1>2, <2>1, <3>1 DEF Listeners
      <3>3. Listens(s)'
        BY <1>1, <1>2, <2>1, <2>2, <2>3, <3>1 DEF Listens, Live, Gone
      <3> QED
        BY <3>2, <3>3
    <2>7. CASE CreateShm(t) \/ CreateShmFails(t) \/ Registration(t) \/ DestroyServer(t)
      <3>1. listener' = listener /\ overlapped \subseteq overlapped'
        BY <2>7 DEF CreateShm, CreateShmFails, DestroyServer, Registration, Registering, RegisterFails, TakeLock,
                    AnnounceFull, BeginWrite, EndWrite, WriteFails
      <3>2. /\ spc[t] \in {"none", "shm", "announce", "unregister", "listening", "error"}
            /\ spc'[t] \in {"announce", "error", "listening", "close", "unregister"}
            /\ spc[t] = "unregister" => spc'[t] \in {"unregister", "close"}
            /\ spc[t] \in {"none", "error"} => spc'[t] = "close"
        BY <2>7 DEF CreateShm, CreateShmFails, DestroyServer, Registration, Registering, RegisterFails, TakeLock,
                    AnnounceFull, BeginWrite, EndWrite, WriteFails, Unlock, AfterRegister,
                    Goto, LockInv, Register, TypeOK
      <3>3. Listeners(p)'
        BY <1>1, <1>2, <2>1, <3>1, <3>2 DEF Listeners
      <3>4. Listens(s)'
        BY <1>1, <1>2, <2>1, <3>1, <3>2 DEF Listens
      <3> QED
        BY <3>3, <3>4
    <2>8. CASE CloseListener(t)
      <3>1. /\ spc[t] = "close" /\ spc'[t] = "unlinkshm" /\ overlapped' = overlapped
            /\ listener'[pathOf[t]] =
                  (IF Win32 THEN listener[pathOf[t]] \ {t} ELSE listener[pathOf[t]])
            /\ \A x \in Path \ {pathOf[t]} : listener'[x] = listener[x]
        BY <2>1, <2>8 DEF CloseListener, Goto, TypeOK
      <3>2. Listeners(p)'
        BY <1>1, <1>2, <2>1, <3>1 DEF Listeners
      <3>3. Listens(s)'
        BY <1>1, <1>2, <2>1, <2>2, <2>3, <3>1 DEF Listens, Live, Gone
      <3> QED
        BY <3>2, <3>3
    <2>9. CASE UnlinkShm(t)
      <3>1. /\ spc[t] = "unlinkshm" /\ spc'[t] = "unlinkpath"
            /\ overlapped' = overlapped /\ listener' = listener
        BY <2>9 DEF UnlinkShm, Goto, TypeOK
      <3>2. Listeners(p)'
        BY <1>1, <1>2, <2>1, <3>1 DEF Listeners
      <3>3. Listens(s)'
        BY <1>1, <1>2, <2>1, <3>1 DEF Listens
      <3> QED
        BY <3>2, <3>3
    <2>10. CASE UnlinkPath(t)
      <3>1. /\ spc[t] = "unlinkpath" /\ spc'[t] = "closed" /\ overlapped' = overlapped
            /\ listener'[pathOf[t]] = (IF Win32 THEN listener[pathOf[t]] ELSE {})
            /\ \A x \in Path \ {pathOf[t]} : listener'[x] = listener[x]
        BY <2>1, <2>10 DEF UnlinkPath, Goto, TypeOK
      <3>2. Listeners(p)'
        BY <1>1, <1>2, <2>1, <3>1 DEF Listeners
      <3>3. Listens(s)'
        BY <1>1, <1>2, <2>1, <2>2, <2>3, <3>1 DEF Listens, Live, Gone
      <3> QED
        BY <3>2, <3>3
    <2> QED
      BY <1>4, <2>4, <2>5, <2>6, <2>7, <2>8, <2>9, <2>10 DEF Start, Destroy
  <1>5. ASSUME NEW c \in Client, ClientConnect(c) PROVE Listeners(p)' /\ Listens(s)'
    BY <1>3, <1>5 DEF ClientConnect, Resolve, ResolveFails, Connect, ConnectRefused, Handshake,
                      HandshakeLost, OpenShm, Disconnect
  <1>6. ASSUME NEW q \in Pid, Process(q) PROVE Listeners(p)' /\ Listens(s)'
    <2>1. CASE ProcessStart(q)
      BY <1>3, <2>1 DEF ProcessStart
    <2>2. CASE ProcessCrash(q)
      <3>1. PICK mine \in SUBSET Server :
               /\ mine = {x \in Server : pidOf[x] = q /\ Live(x)}
               /\ spc' = [x \in Server |-> IF x \in mine THEN "crashed" ELSE spc[x]]
               /\ overlapped' = overlapped
               /\ listener' = IF Win32 THEN [x \in Path |-> listener[x] \ mine] ELSE listener
        BY <2>2 DEF ProcessCrash
      <3>2. Listeners(p)'
        BY <1>1, <1>2, <3>1 DEF Listeners
      <3>3. pathOf[s] \in Path
        BY Places
      <3>4. Listens(s)'
        BY <1>1, <1>2, <3>1, <3>3 DEF Listens
      <3> QED
        BY <3>2, <3>4
    <2> QED
      BY <1>6, <2>1, <2>2 DEF Process
  <1>7. CASE UNCHANGED vars
    BY <1>3, <1>7 DEF vars
  <1> QED
    BY <1>4, <1>5, <1>6, <1>7 DEF Next

-----------------------------------------------------------------------------
(* Segments *)

(* A name keeps its segment, loses it, or is given the one of a server that creates it. *)
LEMMA SegLinks ==
    ASSUME RegistryInv, [Next]_vars, NEW n \in Shm
    PROVE  \/ seg'[n] \in {seg[n], NoOne}
           \/ \E s \in Server : /\ n = ShmOf(s) /\ spc[s] = "shm"
                                /\ seg[n] = NoOne /\ seg'[n] = s /\ spc'[s] \notin Uncreated
  <1> DEFINE Goal == \/ seg'[n] \in {seg[n], NoOne}
                     \/ \E s \in Server : /\ n = ShmOf(s) /\ spc[s] = "shm"
                                          /\ seg[n] = NoOne /\ seg'[n] = s
                                          /\ spc'[s] \notin Uncreated
  <1> USE DEF RegistryInv, TypeOK, created, serverVars, tableVars, placeVars, clientVars, ghostVars
  <1>1. \A servers, clients : HeldSegs(servers, clients)[n] \in {seg[n], NoOne}
    BY DEF HeldSegs
  <1>2. ASSUME NEW s \in Server, Start(s) PROVE Goal
    <2>1. ShmOf(s) \in Shm
      BY Places
    <2>2. CASE StartServer(s) \/ Bind(s) \/ BindFails(s)
      BY <2>1, <2>2 DEF StartServer, Bind, BindFails
    <2>3. CASE CreateShm(s) \/ CreateShmFails(s)
      <3>1. spc[s] = "shm" /\ spc'[s] \notin Uncreated
        BY <2>3 DEF CreateShm, CreateShmFails, Goto, Uncreated
      <3> QED
        BY <2>1, <2>3, <3>1 DEF CreateShm, CreateShmFails
    <2> QED
      BY <1>2, <2>2, <2>3 DEF Start
  <1>3. ASSUME NEW s \in Server, Registration(s) PROVE Goal
    BY <1>3 DEF Registration, Registering, RegisterFails, TakeLock, AnnounceFull, BeginWrite, EndWrite, WriteFails
  <1>4. ASSUME NEW s \in Server, Destroy(s) PROVE Goal
    BY <1>1, <1>4, Places
       DEF Destroy, DestroyServer, CloseListener, UnlinkShm, UnlinkPath
  <1>5. ASSUME NEW c \in Client, ClientConnect(c) PROVE Goal
    BY <1>1, <1>5 DEF ClientConnect, Resolve, ResolveFails, Connect, ConnectRefused, Handshake,
                      HandshakeLost, OpenShm, Disconnect
  <1>6. ASSUME NEW p \in Pid, Process(p) PROVE Goal
    BY <1>1, <1>6 DEF Process, ProcessCrash, ProcessStart
  <1>7. CASE UNCHANGED vars
    BY <1>7 DEF vars
  <1> QED
    BY <1>2, <1>3, <1>4, <1>5, <1>6, <1>7 DEF Next

(* SegInv of one name and of one server. *)
Owned(n) == seg[n] # NoOne => n = ShmOf(seg[n]) /\ spc[seg[n]] \notin Uncreated
Held(n) == Win32 /\ seg[n] # NoOne => Holders(n, Mapping, Mapped) # {}
OwnSegment(s) ==
    /\ spc[s] \in {"announce", "listening", "unregister"} => shmOf[s] # NoOne
    /\ spc[s] \in Uncreated => shmOf[s] = NoOne
    /\ ~Win32 /\ spc[s] \in {"unlinkpath", "closed"} /\ shmOf[s] # NoOne => seg[ShmOf(s)] # s

LEMMA OwnedStep == ASSUME RegistryInv, [Next]_vars, NEW n \in Shm PROVE Owned(n)'
  <1>1. \A s \in Server : ShmOf(s)' = ShmOf(s)
    BY NamesKept DEF ShmOf
  <1>2. Owned(n) /\ seg[n] \in Server \cup {NoOne}
    BY DEF RegistryInv, SegInv, Owned, TypeOK
  <1>3. \A s \in Server : spc[s] \notin Uncreated => spc'[s] \notin Uncreated
    BY ServerStep DEF RegistryInv
  <1>4. CASE seg'[n] \in {seg[n], NoOne}
    BY <1>1, <1>2, <1>3, <1>4 DEF Owned
  <1>5. CASE seg'[n] \notin {seg[n], NoOne}
    <2>1. PICK s \in Server : n = ShmOf(s) /\ seg'[n] = s /\ spc'[s] \notin Uncreated
      BY <1>5, SegLinks
    <2> QED
      BY <1>1, <2>1 DEF Owned
  <1> QED
    BY <1>4, <1>5

LEMMA OwnSegmentStep == ASSUME RegistryInv, [Next]_vars, NEW s \in Server PROVE OwnSegment(s)'
  <1> USE RegistryAssumption
          DEF RegistryInv, created, serverVars, tableVars, placeVars, clientVars, ghostVars
  <1>1. ShmOf(s)' = ShmOf(s) /\ ShmOf(s) \in Shm
    BY NamesKept, Places DEF ShmOf
  <1>2. OwnSegment(s)
    BY DEF SegInv, OwnSegment
  <1>3. seg'[ShmOf(s)] = s => seg[ShmOf(s)] = s \/ spc[s] = "shm"
    BY <1>1, SegLinks
  <1>4. CASE spc'[s] = spc[s] /\ shmOf'[s] = shmOf[s]
    BY <1>1, <1>2, <1>3, <1>4 DEF OwnSegment
  <1>5. ASSUME NEW t \in Server, Start(t) \/ Registration(t) \/ Destroy(t)
        PROVE  OwnSegment(s)'
    <2>1. CASE s # t
      BY <1>4, <1>5, <2>1, OwnState
    <2>2. CASE s = t
      <3>1. CASE StartServer(s) \/ Bind(s) \/ BindFails(s)
        BY <1>2, <3>1 DEF StartServer, Bind, BindFails, Goto, OwnSegment, Uncreated, TypeOK
      <3>2. CASE CreateShm(s)
        BY <1>1, <3>2 DEF CreateShm, Goto, OwnSegment, Uncreated, TypeOK
      <3>3. CASE CreateShmFails(s)
        BY <3>3 DEF CreateShmFails, Goto, OwnSegment, Uncreated, TypeOK
      <3>4. CASE Registration(s)
        BY <1>2, <3>4 DEF Registration, Registering, RegisterFails, TakeLock, AnnounceFull, BeginWrite, EndWrite, WriteFails,
                          Unlock, AfterRegister, Goto, OwnSegment, Uncreated, LockInv, Register, TypeOK
      <3>5. CASE DestroyServer(s) \/ CloseListener(s)
        BY <1>2, <3>5 DEF DestroyServer, CloseListener, Goto, OwnSegment, Uncreated, TypeOK
      <3>6. CASE UnlinkShm(s)
        <4>1. spc'[s] = "unlinkpath" /\ shmOf' = shmOf
          BY <3>6 DEF UnlinkShm, Goto, TypeOK
        <4>2. ~Win32 /\ shmOf[s] # NoOne => seg'[ShmOf(s)] = NoOne
          BY <1>1, <3>6 DEF UnlinkShm, TypeOK
        <4> QED
          BY <1>1, <4>1, <4>2 DEF OwnSegment, Uncreated
      <3>7. CASE UnlinkPath(s)
        <4>1. spc[s] = "unlinkpath" /\ spc'[s] = "closed" /\ shmOf' = shmOf /\ seg' = seg
          BY <3>7 DEF UnlinkPath, Goto, TypeOK
        <4> QED
          BY <1>1, <1>2, <4>1 DEF OwnSegment, Uncreated
      <3> QED
        BY <1>5, <2>2, <3>1, <3>2, <3>3, <3>4, <3>5, <3>6, <3>7 DEF Start, Destroy
    <2> QED
      BY <2>1, <2>2
  <1>6. ASSUME NEW c \in Client, ClientConnect(c) PROVE OwnSegment(s)'
    BY <1>4, <1>6 DEF ClientConnect, Resolve, ResolveFails, Connect, ConnectRefused, Handshake,
                      HandshakeLost, OpenShm, Disconnect
  <1>7. ASSUME NEW p \in Pid, Process(p) PROVE OwnSegment(s)'
    BY <1>4, <1>7 DEF Process, ProcessCrash, ProcessStart, OwnSegment, Uncreated
  <1>8. CASE UNCHANGED vars
    BY <1>4, <1>8 DEF vars
  <1> QED
    BY <1>5, <1>6, <1>7, <1>8 DEF Next

(* A name of Win32 that still has a segment after the step is held by one who held it
   before, or by the server that has just created or opened it.                       *)
LEMMA HeldStep == ASSUME RegistryInv, [Next]_vars, NEW n \in Shm PROVE Held(n)'
  <1> SUFFICES ASSUME Win32, seg'[n] # NoOne PROVE (Holders(n, Mapping, Mapped))' # {}
    BY DEF Held
  <1> USE RegistryAssumption
          DEF RegistryInv, created, serverVars, tableVars, placeVars, clientVars, ghostVars
  <1>1. seg[n] # NoOne => Holders(n, Mapping, Mapped) # {}
    BY DEF SegInv
  <1>2. ASSUME NEW s \in Mapping', shmOf'[s] = seg'[n]
        PROVE  (Holders(n, Mapping, Mapped))' # {}
    BY <1>2 DEF Holders
  <1>3. ASSUME NEW servers \in SUBSET Mapping', NEW clients \in SUBSET Mapped',
               \A s \in servers : shmOf'[s] = shmOf[s],
               \A c \in clients : cseg'[c] = cseg[c],
               seg'[n] = seg[n], Holders(n, servers, clients) # {}
        PROVE  (Holders(n, Mapping, Mapped))' # {}
    BY <1>3 DEF Holders
  <1>4. ASSUME NEW servers \in SUBSET Mapping', NEW clients \in SUBSET Mapped',
               \A s \in servers : shmOf'[s] = shmOf[s],
               \A c \in clients : cseg'[c] = cseg[c],
               seg' = HeldSegs(servers, clients)
        PROVE  (Holders(n, Mapping, Mapped))' # {}
    <2>1. Holders(n, servers, clients) # {} /\ seg'[n] = seg[n]
      BY <1>4 DEF HeldSegs
    <2> QED
      BY <1>3, <1>4, <2>1
  <1>5. ASSUME Mapping \subseteq Mapping', Mapped \subseteq Mapped',
               \A s \in Mapping : shmOf'[s] = shmOf[s],
               \A c \in Mapped : cseg'[c] = cseg[c], seg'[n] = seg[n]
        PROVE  (Holders(n, Mapping, Mapped))' # {}
    BY <1>1, <1>3, <1>5
  <1>6. ASSUME NEW t \in Server, Start(t) \/ Registration(t) \/ Destroy(t)
        PROVE  (Holders(n, Mapping, Mapped))' # {}
    <2>1. \A s \in Server \ {t} : spc'[s] = spc[s] /\ shmOf'[s] = shmOf[s]
      BY <1>6, OwnState
    <2>2. UNCHANGED clientVars /\ Mapped' = Mapped
      BY <1>6 DEF Start, StartServer, Bind, BindFails, CreateShm, CreateShmFails,
                  Registration, Registering, RegisterFails, TakeLock, AnnounceFull, BeginWrite, EndWrite, WriteFails,
                  Destroy, DestroyServer, CloseListener, UnlinkShm, UnlinkPath, Mapped
    <2>3. CASE UnlinkShm(t)
      <3>1. shmOf' = shmOf /\ Mapping \ {t} \subseteq Mapping'
        BY <2>1, <2>3 DEF UnlinkShm, Mapping, Live
      <3>2. seg' = HeldSegs(Mapping \ {t}, Mapped)
        BY <2>3 DEF UnlinkShm
      <3> QED
        BY <1>4, <2>2, <3>1, <3>2
    <2>4. CASE CreateShm(t) \/ CreateShmFails(t)
      <3>1. /\ ShmOf(t) \in Shm /\ spc[t] = "shm"
            /\ spc'[t] \in {"announce", "listening", "error"}
            /\ shmOf[t] = NoOne /\ t \in Mapping'
        BY <2>4, Places
           DEF CreateShm, CreateShmFails, Goto, SegInv, Uncreated, TypeOK, Mapping, Live, Gone
      <3>2. CASE seg' = seg /\ shmOf' = shmOf
        <4>1. Mapping \subseteq Mapping'
          BY <2>1, <3>1 DEF Mapping, Live, Gone
        <4> QED
          BY <1>5, <2>2, <3>2, <4>1
      <3>3. CASE n = ShmOf(t) /\ shmOf'[t] = seg'[n]
        BY <1>2, <3>1, <3>3
      <3>4. CASE n # ShmOf(t) /\ seg'[n] = seg[n]
        <4>1. Holders(n, Mapping, Mapped) # {} /\ t \notin Holders(n, Mapping, {})
          BY <1>1, <3>1, <3>4 DEF Holders
        <4>2. Holders(n, Mapping \ {t}, Mapped) # {}
          BY <4>1 DEF Holders
        <4>3. Mapping \ {t} \subseteq Mapping'
          BY <2>1 DEF Mapping, Live
        <4>4. \A s \in Mapping \ {t} : shmOf'[s] = shmOf[s]
          BY <2>1 DEF Mapping
        <4> QED
          BY <1>3, <2>2, <3>4, <4>2, <4>3, <4>4
      <3>5. CASE CreateShm(t)
        BY <3>1, <3>3, <3>4, <3>5 DEF CreateShm, TypeOK
      <3>6. CASE CreateShmFails(t)
        BY <3>1, <3>2, <3>3, <3>4, <3>6 DEF CreateShmFails, TypeOK
      <3> QED
        BY <2>4, <3>5, <3>6
    <2>5. CASE ~UnlinkShm(t) /\ ~CreateShm(t) /\ ~CreateShmFails(t)
      <3>1. seg' = seg /\ shmOf' = shmOf
        BY <1>6, <2>5 DEF Start, StartServer, Bind, BindFails, Registration, Registering, RegisterFails, TakeLock,
                          AnnounceFull, BeginWrite, EndWrite, WriteFails,
                          Destroy, DestroyServer, CloseListener, UnlinkPath
      <3>2. t \in Mapping => t \in Mapping'
        <4>1. CASE StartServer(t) \/ Bind(t) \/ BindFails(t)
          BY <4>1 DEF StartServer, Bind, BindFails, Goto, TypeOK, Mapping, Live, Gone
        <4>2. CASE Registration(t)
          BY <4>2 DEF Registration, Registering, RegisterFails, TakeLock, AnnounceFull, BeginWrite, EndWrite, WriteFails,
                      Unlock, AfterRegister, Goto, TypeOK, Mapping, Live, Gone
        <4>3. CASE DestroyServer(t) \/ CloseListener(t) \/ UnlinkPath(t)
          BY <4>3 DEF DestroyServer, CloseListener, UnlinkPath, Goto, TypeOK, Mapping, Live, Gone
        <4> QED
          BY <1>6, <2>5, <4>1, <4>2, <4>3 DEF Start, Destroy
      <3>3. Mapping \subseteq Mapping'
        BY <2>1, <3>2 DEF Mapping, Live
      <3> QED
        BY <1>5, <2>2, <3>1, <3>3
    <2> QED
      BY <2>3, <2>4, <2>5
  <1>7. ASSUME NEW c \in Client, ClientConnect(c)
        PROVE  (Holders(n, Mapping, Mapped))' # {}
    <2>1. Mapping' = Mapping /\ shmOf' = shmOf
      BY <1>7 DEF ClientConnect, Resolve, ResolveFails, Connect, ConnectRefused, Handshake,
                  HandshakeLost, OpenShm, Disconnect, Mapping, Live
    <2>2. CASE Disconnect(c)
      <3>1. seg' = HeldSegs(Mapping, Mapped \ {c}) /\ cseg' = cseg
        BY <2>2 DEF Disconnect
      <3>2. Mapped \ {c} \subseteq Mapped'
        BY <2>2 DEF Disconnect, Mapped, TypeOK
      <3> QED
        BY <1>4, <2>1, <3>1, <3>2
    <2>3. CASE ~Disconnect(c)
      <3>1. seg' = seg /\ c \notin Mapped
        BY <1>7, <2>3 DEF ClientConnect, Resolve, ResolveFails, Connect, ConnectRefused, Handshake,
                          HandshakeLost, OpenShm, Mapped, Connects
      <3>2. \A d \in Client \ {c} : cpc'[d] = cpc[d] /\ cseg'[d] = cseg[d]
        BY <1>7, <2>3 DEF ClientConnect, Resolve, ResolveFails, Connect, ConnectRefused, Handshake,
                          HandshakeLost, OpenShm, TypeOK
      <3>3. Mapped \subseteq Mapped' /\ \A d \in Mapped : cseg'[d] = cseg[d]
        BY <3>1, <3>2 DEF Mapped
      <3> QED
        BY <1>5, <2>1, <3>1, <3>3
    <2> QED
      BY <2>2, <2>3
  <1>8. ASSUME NEW p \in Pid, Process(p) PROVE (Holders(n, Mapping, Mapped))' # {}
    <2>1. CASE ProcessStart(p)
      <3>1. UNCHANGED <<seg, shmOf, cseg>> /\ Mapping' = Mapping /\ Mapped' = Mapped
        BY <2>1 DEF ProcessStart, Mapping, Mapped, Live
      <3> QED
        BY <1>5, <3>1
    <2>2. CASE ProcessCrash(p)
      <3>1. PICK mine \in SUBSET Server :
               /\ mine = {x \in Server : pidOf[x] = p /\ Live(x)}
               /\ spc' = [x \in Server |-> IF x \in mine THEN "crashed" ELSE spc[x]]
               /\ shmOf' = [x \in Server |-> IF x \in mine THEN NoOne ELSE shmOf[x]]
               /\ seg' = HeldSegs(Mapping \ mine, Mapped)
               /\ UNCHANGED clientVars
        BY <2>2 DEF ProcessCrash
      <3>2. /\ Mapping \ mine \subseteq Mapping' /\ Mapped' = Mapped
            /\ \A s \in Mapping \ mine : shmOf'[s] = shmOf[s]
        BY <3>1 DEF Mapping, Mapped, Live
      <3> QED
        BY <1>4, <3>1, <3>2
    <2> QED
      BY <1>8, <2>1, <2>2 DEF Process
  <1>9. CASE UNCHANGED vars
    <2>1. UNCHANGED <<seg, shmOf, cseg>> /\ Mapping' = Mapping /\ Mapped' = Mapped
      BY <1>9 DEF vars, Mapping, Mapped, Live
    <2> QED
      BY <1>5, <2>1
  <1> QED
    BY <1>6, <1>7, <1>8, <1>9 DEF Next

LEMMA SegStep == RegistryInv /\ [Next]_vars => SegInv'
  <1> SUFFICES ASSUME RegistryInv, [Next]_vars PROVE SegInv'
    OBVIOUS
  <1>1. \A n \in Shm : Owned(n)' /\ Held(n)'
    BY OwnedStep, HeldStep
  <1>2. \A s \in Server : OwnSegment(s)'
    BY OwnSegmentStep
  <1> QED
    BY <1>1, <1>2 DEF SegInv, Owned, Held, OwnSegment

(* ReplacedInv of one server. *)
Replaced(s) ==
    replaced[s] # NoOne => spc[replaced[s]] \notin Uncreated /\ seg[ShmOf(s)] # replaced[s]

LEMMA ReplacedKept ==
    ASSUME TypeOK, [Next]_vars, NEW s \in Server, ~StartServer(s)
    PROVE  replaced'[s] = replaced[s]
  <1> DEFINE Goal == replaced'[s] = replaced[s]
  <1> USE DEF TypeOK, ghostVars
  <1>1. ASSUME NEW t \in Server, Start(t) PROVE Goal
    BY <1>1 DEF Start, StartServer, Bind, BindFails, CreateShm, CreateShmFails
  <1>2. ASSUME NEW t \in Server, Registration(t) PROVE Goal
    BY <1>2 DEF Registration, Registering, RegisterFails, TakeLock, AnnounceFull, BeginWrite,
                EndWrite, WriteFails
  <1>3. ASSUME NEW t \in Server, Destroy(t) PROVE Goal
    BY <1>3 DEF Destroy, DestroyServer, CloseListener, UnlinkShm, UnlinkPath
  <1>4. ASSUME NEW c \in Client, ClientConnect(c) PROVE Goal
    BY <1>4 DEF ClientConnect, Resolve, ResolveFails, Connect, ConnectRefused, Handshake,
                HandshakeLost, OpenShm, Disconnect
  <1>5. ASSUME NEW p \in Pid, Process(p) PROVE Goal
    BY <1>5 DEF Process, ProcessCrash, ProcessStart
  <1>6. CASE UNCHANGED vars
    BY <1>6 DEF vars
  <1> QED
    BY <1>1, <1>2, <1>3, <1>4, <1>5, <1>6 DEF Next

LEMMA ReplacedStep == ASSUME RegistryInv, [Next]_vars, NEW s \in Server PROVE Replaced(s)'
  <1> USE DEF RegistryInv
  <1>1. ShmOf(s)' = ShmOf(s) /\ ShmOf(s) \in Shm
    BY NamesKept, Places DEF ShmOf
  <1>2. \A t \in Server : spc[t] \notin Uncreated => spc'[t] \notin Uncreated
    BY ServerStep
  <1>3. CASE StartServer(s)
    <2>1. /\ replaced'[s] = IF Win32 THEN NoOne ELSE seg[ShmOf(s)]
          /\ ~Win32 => seg'[ShmOf(s)] = NoOne
      BY <1>1, <1>3 DEF StartServer, TypeOK
    <2>2. seg[ShmOf(s)] # NoOne =>
              seg[ShmOf(s)] \in Server /\ spc[seg[ShmOf(s)]] \notin Uncreated
      BY <1>1 DEF SegInv, TypeOK
    <2> QED
      BY <1>1, <1>2, <2>1, <2>2 DEF Replaced
  <1>4. CASE ~StartServer(s)
    <2>1. replaced'[s] = replaced[s] /\ Replaced(s) /\ replaced[s] \in Server \cup {NoOne}
      BY <1>4, ReplacedKept DEF ReplacedInv, Replaced, TypeOK
    <2>2. \/ seg'[ShmOf(s)] \in {seg[ShmOf(s)], NoOne}
          \/ seg'[ShmOf(s)] \in Server /\ spc[seg'[ShmOf(s)]] \in Uncreated
      BY <1>1, SegLinks DEF Uncreated
    <2> QED
      BY <1>1, <1>2, <2>1, <2>2 DEF Replaced
  <1> QED
    BY <1>3, <1>4

(* LinkedInv of one server. *)
Linked(s) ==
    s \notin overlapped =>
        /\ ~Win32 /\ spc[s] \in {"bind", "shm"} => seg[ShmOf(s)] = NoOne
        /\ ~Win32 /\ Live(s) => shmOf[s] \in {NoOne, s}
        /\ shmOf[s] # NoOne /\ Live(s) =>
              \/ seg[ShmOf(s)] = shmOf[s]
              \/ spc[s] = "unlinkpath" /\ seg[ShmOf(s)] = NoOne

LEMMA LinkedStep == ASSUME RegistryInv, [Next]_vars, NEW s \in Server PROVE Linked(s)'
  <1> USE RegistryAssumption
          DEF RegistryInv, created, serverVars, tableVars, placeVars, clientVars, ghostVars
  <1> SUFFICES ASSUME Live(s)', s \notin overlapped' PROVE Linked(s)'
    BY DEF Linked, Live, Gone
  <1>1. ShmOf(s)' = ShmOf(s) /\ ShmOf(s) \in Shm
    BY NamesKept, Places DEF ShmOf
  <1>2. s \notin overlapped
    BY ServerStep
  <1>3. Linked(s)
    BY DEF LinkedInv, Linked
  <1>4. ASSUME spc'[s] = spc[s], shmOf'[s] = shmOf[s], seg'[ShmOf(s)] = seg[ShmOf(s)]
        PROVE  Linked(s)'
    BY <1>1, <1>2, <1>3, <1>4 DEF Linked, Live
  <1>5. ASSUME Win32, spc'[s] = spc[s], shmOf'[s] = shmOf[s],
               NEW servers, NEW clients, s \in Mapping => s \in servers,
               seg' = HeldSegs(servers, clients)
        PROVE  Linked(s)'
    <2> SUFFICES ASSUME shmOf[s] # NoOne
                 PROVE  \/ seg'[ShmOf(s)] = shmOf[s]
                        \/ spc[s] = "unlinkpath" /\ seg'[ShmOf(s)] = NoOne
      BY <1>1, <1>5 DEF Linked
    <2>1. Live(s)
      BY <1>5 DEF Live
    <2>2. CASE spc[s] = "unlinkpath"
      BY <1>1, <1>2, <1>3, <1>5, <2>1, <2>2 DEF Linked, HeldSegs
    <2>3. CASE spc[s] # "unlinkpath"
      <3>1. seg[ShmOf(s)] = shmOf[s] /\ s \in servers
        BY <1>2, <1>3, <1>5, <2>1, <2>3 DEF Linked, Mapping
      <3>2. Holders(ShmOf(s), servers, clients) # {}
        BY <3>1 DEF Holders
      <3> QED
        BY <1>1, <1>5, <3>1, <3>2 DEF HeldSegs
    <2> QED
      BY <2>2, <2>3
  <1>6. ASSUME NEW t \in Server, t # s, Start(t) \/ Registration(t) \/ Destroy(t)
        PROVE  Linked(s)'
    <2>1. spc'[s] = spc[s] /\ shmOf'[s] = shmOf[s] /\ Live(s)
      BY <1>6, OwnState DEF Live
    <2>2. ShmOf(t) # ShmOf(s) /\ ShmOf(t) \in Shm
      <3>1. CASE StartServer(t)
        <4>1. ~SamePlace(t, s)
          BY <1>1, <2>1, <3>1 DEF StartServer, Beside
        <4> QED
          BY <4>1, Places DEF SamePlace
      <3>2. CASE DestroyUnstarted(t)
        <4>1. ~SamePlace(t, s)
          BY <1>1, <2>1, <3>2 DEF DestroyUnstarted, DestroyServer, Beside
        <4> QED
          BY <4>1, Places DEF SamePlace
      <3>3. CASE Live(t)
        BY <1>2, <1>6, <2>1, <3>3, Apart, Places
      <3>4. Live(t) \/ StartServer(t) \/ DestroyUnstarted(t)
        BY <1>6 DEF Start, Bind, BindFails, CreateShm, CreateShmFails, Registration, Registering, RegisterFails, TakeLock,
                    AnnounceFull, BeginWrite, EndWrite, WriteFails, Destroy, DestroyServer,
                    CloseListener, UnlinkShm, UnlinkPath, LockInv, Register, Live, Gone,
                    DestroyUnstarted
      <3> QED
        BY <3>1, <3>3, <3>4, <3>2
    <2>3. CASE UnlinkShm(t)
      <3>1. CASE Win32
        <4>1. seg' = HeldSegs(Mapping \ {t}, Mapped)
          BY <2>3, <3>1 DEF UnlinkShm
        <4> QED
          BY <1>5, <1>6, <2>1, <3>1, <4>1
      <3>2. CASE ~Win32
        <4>1. seg'[ShmOf(s)] = seg[ShmOf(s)]
          BY <1>1, <2>2, <2>3, <3>2 DEF UnlinkShm, TypeOK
        <4> QED
          BY <1>4, <2>1, <4>1
      <3> QED
        BY <3>1, <3>2
    <2>4. CASE ~UnlinkShm(t)
      <3>1. seg'[ShmOf(s)] = seg[ShmOf(s)]
        BY <1>1, <1>6, <2>2, <2>4
           DEF Start, StartServer, Bind, BindFails, CreateShm, CreateShmFails, Registration, Registering, RegisterFails,
               TakeLock, AnnounceFull, BeginWrite, EndWrite, WriteFails, Destroy,
               DestroyServer, CloseListener, UnlinkPath, TypeOK
      <3> QED
        BY <1>4, <2>1, <3>1
    <2> QED
      BY <2>3, <2>4
  <1>7. ASSUME Start(s) \/ Registration(s) \/ Destroy(s) PROVE Linked(s)'
    <2>1. CASE StartServer(s)
      <3>1. /\ spc'[s] = "bind" /\ shmOf'[s] = NoOne
            /\ ~Win32 => seg'[ShmOf(s)] = NoOne
        BY <1>1, <2>1 DEF StartServer, Goto, SegInv, Uncreated, TypeOK
      <3> QED
        BY <1>1, <3>1 DEF Linked
    <2>2. CASE Bind(s) \/ BindFails(s)
      <3>1. /\ spc[s] = "bind" /\ spc'[s] \in {"shm", "error"}
            /\ seg' = seg /\ shmOf' = shmOf /\ shmOf[s] = NoOne
        BY <2>2 DEF Bind, BindFails, Goto, SegInv, Uncreated, TypeOK
      <3> QED
        BY <1>1, <1>2, <1>3, <3>1 DEF Linked
    <2>3. CASE CreateShm(s) \/ CreateShmFails(s)
      <3>1. PICK here \in Server : here = IF seg[ShmOf(s)] = NoOne THEN s ELSE seg[ShmOf(s)]
        BY <1>1 DEF TypeOK
      <3>2. /\ spc[s] = "shm" /\ spc'[s] \in {"announce", "listening", "error"}
            /\ shmOf[s] = NoOne
            /\ ~Win32 => here = s
        BY <1>2, <1>3, <2>3, <3>1
           DEF CreateShm, CreateShmFails, Goto, SegInv, Uncreated, TypeOK, Linked
      <3>3. shmOf'[s] = NoOne \/ (shmOf'[s] = here /\ seg'[ShmOf(s)] = here)
        BY <1>1, <2>3, <3>1, <3>2 DEF CreateShm, CreateShmFails, TypeOK
      <3> QED
        BY <1>1, <3>2, <3>3 DEF Linked
    <2>4. CASE Registration(s) \/ DestroyServer(s) \/ CloseListener(s)
      <3>1. seg' = seg /\ shmOf' = shmOf
        BY <2>4 DEF Registration, Registering, RegisterFails, TakeLock, AnnounceFull, BeginWrite, EndWrite, WriteFails,
                    DestroyServer, CloseListener
      <3>2. /\ spc[s] \in {"none", "announce", "unregister", "listening", "error", "close"}
            /\ spc'[s] \in {"announce", "unregister", "listening", "close", "unlinkshm"}
        BY <2>4 DEF Registration, Registering, RegisterFails, TakeLock, AnnounceFull, BeginWrite, EndWrite, WriteFails,
                    Unlock, AfterRegister, DestroyServer, CloseListener, Goto, LockInv,
                    Register, TypeOK
      <3>3. spc[s] # "unlinkpath" /\ spc'[s] \notin {"bind", "shm"}
        BY <3>2
      <3>4. CASE spc[s] = "none"
        <4>1. shmOf[s] = NoOne
          BY <3>4 DEF SegInv, Uncreated
        <4> QED
          BY <1>1, <3>1, <3>3, <4>1 DEF Linked
      <3>5. CASE spc[s] # "none"
        <4>1. Live(s)
          BY <3>2, <3>5 DEF Live, Gone
        <4> QED
          BY <1>1, <1>2, <1>3, <3>1, <3>3, <4>1 DEF Linked
      <3> QED
        BY <3>4, <3>5
    <2>5. CASE UnlinkShm(s)
      <3>1. /\ spc[s] = "unlinkshm" /\ spc'[s] = "unlinkpath" /\ shmOf' = shmOf /\ Live(s)
        BY <2>5 DEF UnlinkShm, Goto, TypeOK, Live, Gone
      <3>2. CASE Win32
        <4>1. seg'[ShmOf(s)] \in {seg[ShmOf(s)], NoOne}
          BY <1>1, <2>5, <3>2 DEF UnlinkShm, HeldSegs
        <4> QED
          BY <1>1, <1>2, <1>3, <3>1, <3>2, <4>1 DEF Linked
      <3>3. CASE ~Win32
        <4>1. shmOf[s] # NoOne => seg'[ShmOf(s)] = NoOne
          BY <1>1, <2>5, <3>3 DEF UnlinkShm, TypeOK
        <4> QED
          BY <1>1, <1>2, <1>3, <3>1, <3>3, <4>1 DEF Linked
      <3> QED
        BY <3>2, <3>3
    <2>6. CASE UnlinkPath(s)
      BY <2>6 DEF UnlinkPath, Goto, TypeOK, Live, Gone
    <2> QED
      BY <1>7, <2>1, <2>2, <2>3, <2>4, <2>5, <2>6 DEF Start, Destroy
  <1>8. ASSUME NEW c \in Client, ClientConnect(c) PROVE Linked(s)'
    <2>1. spc' = spc /\ shmOf' = shmOf
      BY <1>8 DEF ClientConnect, Resolve, ResolveFails, Connect, ConnectRefused, Handshake, HandshakeLost,
                  OpenShm, Disconnect
    <2>2. CASE Disconnect(c)
      BY <1>4, <1>5, <2>1, <2>2 DEF Disconnect
    <2>3. CASE ~Disconnect(c)
      BY <1>4, <1>8, <2>1, <2>3 DEF ClientConnect, Resolve, ResolveFails, Connect, ConnectRefused, Handshake,
                                    HandshakeLost, OpenShm
    <2> QED
      BY <2>2, <2>3
  <1>9. ASSUME NEW p \in Pid, Process(p) PROVE Linked(s)'
    <2>1. CASE ProcessStart(p)
      BY <1>4, <2>1 DEF ProcessStart
    <2>2. CASE ProcessCrash(p)
      <3>1. PICK mine \in SUBSET Server :
               /\ mine = {x \in Server : pidOf[x] = p /\ Live(x)}
               /\ spc' = [x \in Server |-> IF x \in mine THEN "crashed" ELSE spc[x]]
               /\ shmOf' = [x \in Server |-> IF x \in mine THEN NoOne ELSE shmOf[x]]
               /\ seg' = IF Win32 THEN HeldSegs(Mapping \ mine, Mapped) ELSE seg
        BY <2>2 DEF ProcessCrash
      <3>2. s \notin mine /\ spc'[s] = spc[s] /\ shmOf'[s] = shmOf[s]
        BY <3>1 DEF Live, Gone
      <3>3. CASE Win32
        BY <1>5, <3>1, <3>2, <3>3
      <3>4. CASE ~Win32
        BY <1>4, <3>1, <3>2, <3>4
      <3> QED
        BY <3>3, <3>4
    <2> QED
      BY <1>9, <2>1, <2>2 DEF Process
  <1>10. CASE UNCHANGED vars
    BY <1>4, <1>10 DEF vars
  <1> QED
    BY <1>6, <1>7, <1>8, <1>9, <1>10 DEF Next

-----------------------------------------------------------------------------
(* ClientInv of one client. *)
Attached(c) ==
    /\ cpc[c] \in {"waiting", "accepted", "connected"} =>
          conn[c] \in Server /\ spc[conn[c]] # "none"
    /\ cpc[c] \in {"accepted", "connected"} /\ Live(conn[c]) =>
          /\ spc[conn[c]] \in {"listening", "unregister", "close", "unlinkshm", "unlinkpath"}
          /\ shmOf[conn[c]] # NoOne
    /\ cpc[c] = "connected" =>
          /\ cseg[c] # NoOne /\ cseg[c] # replaced[conn[c]]
          /\ Live(conn[c]) /\ conn[c] \notin overlapped => cseg[c] = shmOf[conn[c]]

LEMMA ClientStep == ASSUME RegistryInv, [Next]_vars, NEW c \in Client PROVE Attached(c)'
  <1> USE RegistryAssumption
          DEF RegistryInv, created, serverVars, tableVars, placeVars, clientVars, ghostVars
  <1>1. Attached(c)
    BY DEF ClientInv, ClientMapsItsServer, Attached
  <1>2. ASSUME UNCHANGED clientVars, conn[c] \in Server =>
                   /\ spc'[conn[c]] = spc[conn[c]] /\ shmOf'[conn[c]] = shmOf[conn[c]]
                   /\ conn[c] \notin overlapped' => conn[c] \notin overlapped
                   /\ replaced'[conn[c]] = replaced[conn[c]]
        PROVE  Attached(c)'
    BY <1>1, <1>2 DEF Attached, Live
  <1>3. ASSUME NEW t \in Server, Start(t) \/ Registration(t) \/ Destroy(t)
        PROVE  Attached(c)'
    <2>1. UNCHANGED clientVars /\ overlapped \subseteq overlapped'
      BY <1>3 DEF Start, StartServer, Bind, BindFails, CreateShm, CreateShmFails,
                  Registration, Registering, RegisterFails, TakeLock, AnnounceFull, BeginWrite, EndWrite, WriteFails,
                  Destroy, DestroyServer, CloseListener, UnlinkShm, UnlinkPath
    <2>2. CASE conn[c] # t
      <3>1. conn[c] \in Server => ~StartServer(conn[c])
        <4>1. CASE conn[c] \in Server
          <5>1. spc'[conn[c]] = spc[conn[c]]
            BY <1>3, <2>2, <4>1, OwnState
          <5> QED
            BY <4>1, <5>1 DEF StartServer, Goto, TypeOK
        <4> QED
          BY <4>1
      <3>2. conn[c] \in Server => replaced'[conn[c]] = replaced[conn[c]]
        BY <3>1, ReplacedKept
      <3> QED
        BY <1>2, <1>3, <2>1, <2>2, <3>2, OwnState
    <2>3. CASE conn[c] = t
      <3>1. CASE Start(t)
        <4>1. spc[t] # "none" => cpc[c] \notin {"accepted", "connected"} /\ spc'[t] # "none"
          BY <1>1, <2>3, <3>1 DEF Attached, Start, StartServer, Bind, BindFails, CreateShm,
                                  CreateShmFails, Goto, Live, Gone, TypeOK
        <4>2. spc[t] = "none" => cpc[c] \notin {"waiting", "accepted", "connected"}
          BY <1>1, <2>3 DEF Attached
        <4> QED
          BY <1>1, <2>1, <2>3, <4>1, <4>2 DEF Attached
      <3>2. CASE Registration(t) \/ Destroy(t)
        <4>1. shmOf' = shmOf
          BY <3>2 DEF Registration, Registering, RegisterFails, TakeLock, AnnounceFull, BeginWrite, EndWrite, WriteFails,
                      Destroy, DestroyServer, CloseListener, UnlinkShm, UnlinkPath
        <4>2. (Live(t) \/ spc[t] = "none") /\ spc'[t] # "none"
          BY <3>2 DEF Registration, Registering, RegisterFails, TakeLock, AnnounceFull, BeginWrite, EndWrite, WriteFails,
                      Unlock, AfterRegister, Destroy, DestroyServer, CloseListener, UnlinkShm,
                      UnlinkPath, Goto, LockInv, Register, TypeOK, Live, Gone
        <4>3. replaced' = replaced
          BY <3>2 DEF Registration, Registering, RegisterFails, TakeLock, AnnounceFull, BeginWrite,
                      EndWrite, WriteFails, Destroy, DestroyServer, CloseListener, UnlinkShm,
                      UnlinkPath
        <4>4. spc[t] = "none" => cpc[c] \notin {"waiting", "accepted", "connected"}
          BY <1>1, <2>3 DEF Attached
        <4>5. spc[t] \in {"listening", "unregister", "close", "unlinkshm", "unlinkpath"} =>
                 spc'[t] \in {"listening", "unregister", "close", "unlinkshm", "unlinkpath",
                              "closed"}
          BY <3>2 DEF Registration, Registering, RegisterFails, TakeLock, AnnounceFull, BeginWrite, EndWrite, WriteFails,
                      Unlock, AfterRegister, Destroy, DestroyServer, CloseListener, UnlinkShm,
                      UnlinkPath, Goto, LockInv, Register, TypeOK
        <4> QED
          BY <1>1, <2>1, <2>3, <4>1, <4>2, <4>5, <4>3, <4>4 DEF Attached, Live, Gone
      <3> QED
        BY <1>3, <3>1, <3>2
    <2> QED
      BY <2>2, <2>3
  <1>4. ASSUME NEW d \in Client, ClientConnect(d) PROVE Attached(c)'
    <2>1. UNCHANGED <<spc, shmOf, overlapped, replaced>>
      BY <1>4 DEF ClientConnect, Resolve, ResolveFails, Connect, ConnectRefused, Handshake, HandshakeLost,
                  OpenShm, Disconnect
    <2>2. CASE c # d
      <3>1. cpc'[c] = cpc[c] /\ conn'[c] = conn[c] /\ cseg'[c] = cseg[c]
        BY <1>4, <2>2 DEF ClientConnect, Resolve, ResolveFails, Connect, ConnectRefused, Handshake,
                          HandshakeLost, OpenShm, Disconnect, TypeOK
      <3> QED
        BY <1>1, <2>1, <3>1 DEF Attached, Live
    <2>3. CASE Resolve(c) \/ ResolveFails(c) \/ ConnectRefused(c) \/ HandshakeLost(c) \/ Disconnect(c)
      <3>1. cpc'[c] \in {"resolved", "error", "closed"}
        BY <2>3 DEF Resolve, ResolveFails, ConnectRefused, HandshakeLost, Disconnect, TypeOK
      <3> QED
        BY <3>1 DEF Attached
    <2>4. CASE Connect(c)
      <3>1. PICK s \in listener[cpath[c]] : Accepting(s) /\ conn' = [conn EXCEPT ![c] = s]
        BY <2>4 DEF Connect
      <3>2. s \in Server
        BY <2>4, <3>1 DEF Connect, Connects, TypeOK
      <3>3. cpc'[c] = "waiting" /\ conn'[c] = s /\ spc'[s] # "none"
        BY <2>1, <2>4, <3>1 DEF Connect, Accepting, TypeOK
      <3> QED
        BY <3>2, <3>3 DEF Attached
    <2>5. CASE Handshake(c)
      <3>1. /\ cpc'[c] = "accepted" /\ conn' = conn
            /\ spc[conn[c]] = "listening" /\ conn[c] \in Server
        BY <1>1, <2>5 DEF Handshake, Attached, TypeOK
      <3>2. shmOf[conn[c]] # NoOne
        BY <3>1 DEF SegInv
      <3> QED
        BY <2>1, <3>1, <3>2 DEF Attached
    <2>6. CASE OpenShm(c)
      <3>1. /\ cpc[c] = "accepted" /\ conn' = conn /\ cseg'[c] = seg[ShmOf(conn[c])]
            /\ cpc'[c] = IF seg[ShmOf(conn[c])] = NoOne THEN "error" ELSE "connected"
        BY <2>6 DEF OpenShm, TypeOK
      <3>2. conn[c] \in Server /\ Linked(conn[c]) /\ Replaced(conn[c])
        BY <1>1, <3>1 DEF Attached, LinkedInv, Linked, ReplacedInv, Replaced
      <3> QED
        BY <1>1, <2>1, <3>1, <3>2 DEF Attached, Linked, Replaced, Live
    <2> QED
      BY <1>4, <2>2, <2>3, <2>4, <2>5, <2>6 DEF ClientConnect
  <1>5. ASSUME NEW p \in Pid, Process(p) PROVE Attached(c)'
    <2>1. CASE ProcessStart(p)
      BY <1>2, <2>1 DEF ProcessStart
    <2>2. CASE ProcessCrash(p)
      <3>1. PICK mine \in SUBSET Server :
               /\ mine = {x \in Server : pidOf[x] = p /\ Live(x)}
               /\ spc' = [x \in Server |-> IF x \in mine THEN "crashed" ELSE spc[x]]
               /\ shmOf' = [x \in Server |-> IF x \in mine THEN NoOne ELSE shmOf[x]]
               /\ UNCHANGED <<overlapped, replaced, clientVars>>
        BY <2>2 DEF ProcessCrash
      <3>2. CASE conn[c] \in mine
        BY <1>1, <3>1, <3>2 DEF Attached, Live, Gone
      <3>3. CASE conn[c] \notin mine
        BY <1>2, <3>1, <3>3
      <3> QED
        BY <3>2, <3>3
    <2> QED
      BY <1>5, <2>1, <2>2 DEF Process
  <1>6. CASE UNCHANGED vars
    BY <1>2, <1>6 DEF vars
  <1> QED
    BY <1>3, <1>4, <1>5, <1>6 DEF Next

-----------------------------------------------------------------------------
(* The invariant holds in every reachable state: texlink_server_start, announce,
   unregister, texlink_server_destroy and texlink_client_connect keep it step by step,
   and so does the end of a process between any two of them.                           *)
THEOREM RegistryInvCorrect == Spec => []RegistryInv
  <1>1. Init => RegistryInv
    BY RegistryInit
  <1>2. RegistryInv /\ [Next]_vars => RegistryInv'
    <2> SUFFICES ASSUME RegistryInv, [Next]_vars PROVE RegistryInv'
      OBVIOUS
    <2>1. LinkedInv'
      BY LinkedStep DEF LinkedInv, Linked
    <2>2. ReplacedInv'
      BY ReplacedStep DEF ReplacedInv, Replaced
    <2>3. ClientInv'
      <3>1. \A c \in Client : Attached(c)'
        BY ClientStep
      <3> QED
        BY <3>1 DEF ClientInv, ClientMapsItsServer, Attached
    <2> QED
      BY <2>1, <2>3, <2>2, TypeStep, LockStep, TableStep, OverlapStep, FoundStep, ListenerStep, SegStep
         DEF RegistryInv
  <1> QED
    BY <1>1, <1>2, PTL DEF Spec

(* The variables have their types, for any size of the table. *)
THEOREM TypeCorrect == Spec => []TypeOK
  <1>1. RegistryInv => TypeOK
    BY DEF RegistryInv
  <1> QED
    BY <1>1, RegistryInvCorrect, PTL

(* A server that listens under a name has its entry in the registry (registry_announce,
   _unregister), whatever the other servers do there, whichever processes die, and whatever
   is read of entries that no write got to: only a server whose own entry could not be
   written, or whose name another one took, is excused.                                     *)
THEOREM AnnouncedIsFoundCorrect == Spec => []AnnouncedIsFound
  <1>1. RegistryInv => AnnouncedIsFound
    BY DEF RegistryInv, FoundInv, AnnouncedIsFound, Content
  <1> QED
    BY <1>1, RegistryInvCorrect, PTL

(* The path of a listening server leads to it and to no other, and the name of its segment
   to the segment it made (texlink_server_start after unlink, bind and shm_open), whoever was
   started, destroyed before it was started, or lost there before.                           *)
THEOREM ListeningIsReachableCorrect == Spec => []ListeningIsReachable
  <1>1. RegistryInv => ListeningIsReachable
    <2> SUFFICES ASSUME RegistryInv, NEW s \in Server, spc[s] = "listening", s \notin overlapped
                 PROVE  /\ listener[pathOf[s]] = {s}
                        /\ shmOf[s] # NoOne /\ seg[ShmOf(s)] = shmOf[s]
                        /\ Win32 \/ shmOf[s] = s
      BY DEF ListeningIsReachable
    <2> USE DEF RegistryInv
    <2>1. listener[pathOf[s]] = {s} /\ shmOf[s] # NoOne
      BY DEF ListenerInv, SegInv
    <2>2. seg[ShmOf(s)] = shmOf[s] /\ (Win32 \/ shmOf[s] = s)
      BY <2>1 DEF LinkedInv, Live, Gone
    <2> QED
      BY <2>1, <2>2
  <1> QED
    BY <1>1, RegistryInvCorrect, PTL

(* texlink_server_destroy leaves neither a way to the server, nor its segment unless
   clients of Win32 hold it, nor an entry that is not another server's: but for what the
   registry could not be opened or truncated for, and for reads of a half written file.   *)
THEOREM DestroyLeavesNothingCorrect == Spec => []DestroyLeavesNothing
  <1>1. RegistryInv => DestroyLeavesNothing
    <2> SUFFICES ASSUME RegistryInv, NEW s \in Server, spc[s] = "closed"
                 PROVE  /\ \A p \in Path : s \notin listener[p]
                        /\ \A n \in Shm : seg[n] = s /\ shmOf[s] # NoOne =>
                              Win32 /\ Holders(n, Mapping, Mapped) # {}
                        /\ EntryOf(s) \in Bindings(table) =>
                              \/ garbled \/ s \in lost
                              \/ \E t \in Server \ {s} : EntryOf(t) = EntryOf(s) /\ spc[t] # "none"
      BY DEF DestroyLeavesNothing
    <2> USE RegistryAssumption DEF RegistryInv
    <2>1. \A p \in Path : s \notin listener[p]
      BY DEF ListenerInv
    <2>2. \A n \in Shm : seg[n] = s /\ shmOf[s] # NoOne => Win32 /\ Holders(n, Mapping, Mapped) # {}
      BY DEF SegInv
    <2>3. EntryOf(s) \in Bindings(table) => Excused(s)
      BY DEF FoundInv, Unannounced, Leaving
    <2> QED
      BY <2>1, <2>2, <2>3 DEF Excused
  <1> QED
    BY <1>1, RegistryInvCorrect, PTL

(* A connected client never maps a segment that its server replaced, whoever started or died
   between the connection and the opening of the name, and maps its server's as long as that
   runs undisturbed (session_connect).                                                       *)
THEOREM ClientMapsItsServerCorrect == Spec => []ClientMapsItsServer
  <1>1. RegistryInv => ClientMapsItsServer
    BY DEF RegistryInv, ClientInv
  <1> QED
    BY <1>1, RegistryInvCorrect, PTL

(* A name is bound to one process at most, as long as no write has stopped among its
   entries: a table keeps its entries apart by name, and a writer's copy does before it is
   written.                                                                               *)
THEOREM OneBindingCorrect == Spec => []OneBinding
  <1>1. RegistryInv => OneBinding
    BY DEF RegistryInv, TableInv, UniqueNames, OneBinding, Content
  <1> QED
    BY <1>1, RegistryInvCorrect, PTL

(* The lock is always in the hands of a call that goes on to give it back, whichever way
   announce and unregister take and whoever dies.                                        *)
THEOREM LockInUseCorrect == Spec => []LockInUse
  <1>1. RegistryInv => LockInUse
    BY RegistryAssumption DEF RegistryInv, TypeOK, LockInv, LockInUse, Live, Gone, Register
  <1> QED
    BY <1>1, RegistryInvCorrect, PTL

-----------------------------------------------------------------------------
(* The registry implements the name service: BeginWrite is the update, EndWrite and
   WriteFails settle it, and no other step of a server or a client is seen.         *)
Updating == IF phase = "write" THEN pidOf[lock] ELSE NoOne

(* A write that stops, for whichever reason, is the name service's Break. *)
LEMMA BrokenOff ==
    ASSUME copy \in Table, table' \in Torn(copy), Content = copy, Content' = table',
           garbled \in BOOLEAN, garbled' = (garbled \/ \E i \in Index : table'[i] = Unwritten)
    PROVE  NS!Break
  <1>1. Bindings(table') \subseteq Bindings(copy)
    BY TornFacts
  <1>2. table' = EmptyTable \/ garbled'
    BY TornFacts
  <1>3. table' = EmptyTable => garbled' = garbled /\ Bindings(table') = {}
    BY EmptyTableFacts, Slot DEF EmptyTable
  <1>4. Bindings(Content)' = Bindings(table') /\ Bindings(Content) = Bindings(copy)
    BY DEF Bindings
  <1> QED
    BY <1>1, <1>2, <1>3, <1>4 DEF NS!Break

(* The death of a process while it updates the registry, and while it does not. *)
LEMMA DyingUpdates ==
    ASSUME NEW p \in Pid, running' = running \ {p}, Updating = p, Updating' = NoOne,
           \/ NS!Break
           \/ /\ \E n \in Name, x \in Path :
                    Bindings(Content)' = Bindings(Content) \ {[name |-> n, pid |-> p, path |-> x]}
              /\ garbled' = garbled
    PROVE  NS!Die(p)
  BY DEF NS!Die, Updating

LEMMA DyingAlone ==
    ASSUME NEW p \in Pid, running' = running \ {p}, Updating # p, Updating' = Updating,
           Bindings(Content)' = Bindings(Content), garbled' = garbled
    PROVE  NS!Die(p)
  BY DEF NS!Die, Updating

LEMMA NameServiceStep == RegistryInv /\ [Next]_vars => [NS!Next]_(NS!vars)
  <1> SUFFICES ASSUME RegistryInv, [Next]_vars PROVE [NS!Next]_(NS!vars)
    OBVIOUS
  <1> USE RegistryAssumption
          DEF RegistryInv, created, serverVars, tableVars, placeVars, clientVars, ghostVars
  <1>1. pidOf' = pidOf /\ nameOf' = nameOf /\ pathOf' = pathOf
    BY NamesKept
  <1>2. ASSUME Bindings(Content)' = Bindings(Content), UNCHANGED <<running, garbled>>,
               Updating' = Updating
        PROVE  [NS!Next]_(NS!vars)
    BY <1>2 DEF NS!vars, Updating
  <1>3. ASSUME UNCHANGED <<tableVars, running, garbled>> PROVE [NS!Next]_(NS!vars)
    BY <1>1, <1>2, <1>3 DEF Bindings, Content, Updating
  <1>4. ASSUME NEW s \in Server, Start(s) \/ Destroy(s) PROVE [NS!Next]_(NS!vars)
    BY <1>3, <1>4 DEF Start, StartServer, Bind, BindFails, CreateShm, CreateShmFails,
                      Destroy, DestroyServer, CloseListener, UnlinkShm, UnlinkPath
  <1>5. ASSUME NEW s \in Server, Registration(s) PROVE [NS!Next]_(NS!vars)
    <2>1. CASE TakeLock(s) \/ AnnounceFull(s) \/ RegisterFails(s)
      BY <1>1, <1>2, <2>1 DEF TakeLock, AnnounceFull, RegisterFails, Unlock, LockInv, Bindings,
                              Content, Updating
    <2>2. CASE BeginWrite(s)
      <3>1. /\ pidOf[s] \in running /\ pidOf[s] \in Pid /\ pidOf[s] # NoOne
            /\ spc[s] \in Register /\ Named(s)
        BY <2>2 DEF TypeOK, LockInv, BeginWrite, Live, Gone, Register
      <3>2. PICK n \in Name, p \in Pid, x \in Path :
               n = nameOf[s] /\ p = pidOf[s] /\ x = pathOf[s]
        BY <3>1 DEF TypeOK, Named
      <3>3. PICK old, new : old = Bindings(table) /\ new = Bindings(copy')
        OBVIOUS
      <3>4. EntryOf(s) = [name |-> n, pid |-> p, path |-> x]
        BY <3>2 DEF EntryOf
      <3>5. /\ Bindings(Content) = old /\ Bindings(Content)' = new
            /\ running' = running /\ garbled' = garbled
            /\ Updating = NoOne /\ Updating' = p
        BY <1>1, <2>2, <3>2, <3>3 DEF BeginWrite, Content, Updating, Bindings
      <3>6. PICK r \in Readings(table) :
              /\ r \in Table /\ old \subseteq Bindings(r) /\ (table \in Table => r = table)
              /\ copy' \in Table
              /\ spc[s] = "announce" =>
                    Slots(Evicted(r, s), NoOne) # {} /\ copy' = Added(r, s)
              /\ spc[s] = "unregister" => copy' = Removed(r, s)
        BY <2>2, <3>3, WriteTypes
      <3>7. /\ ~garbled => Bindings(r) = old /\ UniqueNames(r)
            /\ new \subseteq Entry
        BY <3>6, <3>3, TableType, BindingsType DEF TableInv
      <3>8. CASE spc[s] = "announce"
        <4>1. new = {b \in Bindings(r) : b.name # n /\ b.pid \in running} \cup {EntryOf(s)}
          BY <3>1, <3>2, <3>6, <3>8, <3>3, AddedFacts, EvictedFacts
        <4>2. NS!Named(new, n) = {EntryOf(s)}
          BY <3>4, <4>1 DEF NS!Named
        <4>3. PICK kept : kept = {b \in old : b.name # n /\ b.pid \in running} \cup {EntryOf(s)}
          OBVIOUS
        <4>4. IF ~garbled THEN new = kept ELSE kept \subseteq new /\ new \subseteq Entry
          BY <3>6, <3>7, <4>1, <4>3
        <4>5. NS!Bind(n, p, x)
          BY <3>1, <3>2, <3>4, <3>5, <4>2, <4>3, <4>4
             DEF NS!Bind, NS!Update, NS!Binding, Entry, Updating
        <4> QED
          BY <4>5 DEF NS!Next
      <3>9. CASE spc[s] = "unregister"
        <4>1. PICK kept : kept = {b \in old : b.name # n \/ b.pid # p}
          OBVIOUS
        <4>2. /\ kept \subseteq new /\ new \subseteq Bindings(r)
              /\ ~garbled => \A e \in new : e.name # n \/ e.pid # p
          BY <3>2, <3>6, <3>7, <3>9, <3>3, <4>1, RemovedFacts
        <4>3. IF ~garbled THEN new = kept ELSE kept \subseteq new /\ new \subseteq Entry
          BY <3>7, <4>1, <4>2
        <4>4. NS!Unbind(n, p)
          BY <3>1, <3>2, <3>5, <4>1, <4>3 DEF NS!Unbind, NS!Update, NS!Binding, Entry, Updating
        <4> QED
          BY <4>4 DEF NS!Next
      <3> QED
        BY <3>1, <3>8, <3>9 DEF Register
    <2>3. CASE EndWrite(s)
      <3>1. /\ UNCHANGED <<running, garbled>> /\ Updating # NoOne /\ Updating' = NoOne
            /\ Bindings(Content)' = Bindings(Content)
        BY <2>3 DEF EndWrite, Unlock, Updating, Content, Bindings, TypeOK
      <3>2. NS!Settle
        BY <3>1 DEF NS!Settle, Updating
      <3> QED
        BY <3>2 DEF NS!Next
    <2>4. CASE WriteFails(s)
      <3>1. /\ UNCHANGED running /\ Updating # NoOne /\ Updating' = NoOne
            /\ Content = copy /\ Content' = table' /\ table' \in Torn(copy)
            /\ garbled' = (garbled \/ \E i \in Index : table'[i] = Unwritten)
        BY <2>4 DEF WriteFails, Unlock, Updating, Content, TypeOK
      <3>2. NS!Break
        BY <3>1, BrokenOff DEF TypeOK
      <3>3. NS!Settle
        BY <3>1, <3>2 DEF NS!Settle, Updating
      <3> QED
        BY <3>3 DEF NS!Next
    <2> QED
      BY <1>5, <2>1, <2>2, <2>3, <2>4 DEF Registration, Registering
  <1>6. ASSUME NEW c \in Client, ClientConnect(c) PROVE [NS!Next]_(NS!vars)
    BY <1>3, <1>6 DEF ClientConnect, Resolve, ResolveFails, Connect, ConnectRefused, Handshake,
                      HandshakeLost, OpenShm, Disconnect
  <1>7. ASSUME NEW p \in Pid, Process(p) PROVE [NS!Next]_(NS!vars)
    <2>1. CASE ProcessStart(p)
      <3>1. NS!Born(p)
        BY <1>1, <2>1 DEF ProcessStart, NS!Born, Content, Bindings
      <3> QED
        BY <3>1 DEF NS!Next
    <2>2. CASE ProcessCrash(p)
      <3>1. PICK mine \in SUBSET Server, torn \in BOOLEAN :
               /\ mine = {s \in Server : pidOf[s] = p /\ Live(s)}
               /\ torn = (lock \in mine /\ phase = "write" /\ ~Win32)
               /\ running' = running \ {p}
               /\ lock' = IF lock \in mine THEN NoOne ELSE lock
               /\ phase' = IF lock \in mine THEN "free" ELSE phase
               /\ table' \in IF torn THEN Torn(copy) ELSE {table}
               /\ copy' = IF lock \in mine THEN EmptyTable ELSE copy
               /\ garbled' = (garbled \/ (torn /\ \E i \in Index : table'[i] = Unwritten))
        BY <2>2 DEF ProcessCrash
      <3>2. phase = "write" => lock \in Server /\ Live(lock)
        BY DEF LockInv, TypeOK, Register, Live, Gone
      <3>3. CASE phase = "write" /\ pidOf[lock] = p
        <4>1. /\ lock \in mine /\ phase' = "free" /\ Content' = table' /\ Content = copy
              /\ Updating = p /\ Updating' = NoOne
          BY <3>1, <3>2, <3>3 DEF Content, Updating
        <4>2. ASSUME torn PROVE NS!Die(p)
          <5>1. NS!Break
            BY <3>1, <4>1, <4>2, BrokenOff DEF TypeOK
          <5> QED
            BY <3>1, <4>1, <5>1, DyingUpdates
        <4>3. ASSUME ~torn PROVE NS!Die(p)
          <5>1. Win32 /\ table' = table /\ garbled' = garbled
            BY <3>1, <3>3, <4>1, <4>3 DEF TypeOK
          <5>2. PICK n \in Name, x \in Path : n = nameOf[lock] /\ x = pathOf[lock]
            BY <3>2, <3>3 DEF TypeOK, LockInv, Named
          <5>3. Bindings(table) = Bindings(copy) \ {[name |-> n, pid |-> p, path |-> x]}
            BY <3>3, <5>1, <5>2 DEF TableInv, EntryOf
          <5>4. Bindings(Content)' = Bindings(Content) \ {[name |-> n, pid |-> p, path |-> x]}
            <6>1. Bindings(Content)' = Bindings(table) /\ Bindings(Content) = Bindings(copy)
              BY <4>1, <5>1 DEF Bindings
            <6> QED
              BY <5>3, <6>1
          <5> QED
            BY <3>1, <4>1, <5>1, <5>4, DyingUpdates
        <4>4. NS!Die(p)
          BY <3>1, <4>2, <4>3
        <4> QED
          BY <4>4 DEF NS!Next
      <3>4. CASE ~(phase = "write" /\ pidOf[lock] = p)
        <4>1. (lock \in mine => phase # "write") /\ ~torn
          BY <3>1, <3>4
        <4>2. /\ table' = table /\ garbled' = garbled
              /\ phase' = "write" <=> phase = "write"
              /\ phase = "write" => copy' = copy /\ lock' = lock
          BY <3>1, <4>1 DEF TypeOK
        <4>3. Updating' = Updating /\ Updating # p
          BY <1>1, <3>4, <4>2 DEF Updating
        <4>4. Content' = Content
          BY <4>2 DEF Content
        <4>5. Bindings(Content)' = Bindings(Content)
          BY <4>4 DEF Bindings
        <4>6. NS!Die(p)
          BY <3>1, <4>2, <4>3, <4>5, DyingAlone
        <4> QED
          BY <4>6 DEF NS!Next
      <3> QED
        BY <3>3, <3>4
    <2> QED
      BY <1>7, <2>1, <2>2 DEF Process
  <1>8. CASE UNCHANGED vars
    BY <1>3, <1>8 DEF vars
  <1> QED
    BY <1>4, <1>5, <1>6, <1>7, <1>8 DEF Next

(* The registry file, with its lock, its slots and its writes in two halves, implements
   the name service: an update of one name loses no other, except by a process that dies
   or cannot write before its own update is settled; and where that left a half written
   file, those who update it later lose none of what is written.                         *)
THEOREM ImplementsNameServiceCorrect == Spec => ImplementsNameService
  <1>1. Init => NS!Init
    <2> SUFFICES ASSUME Init PROVE NS!Init
      OBVIOUS
    <2>1. Content = EmptyTable /\ Updating = NoOne /\ running = Pid /\ ~garbled
      BY DEF Init, Content, Updating
    <2>2. Bindings(Content) = {}
      BY <2>1, EmptyTableFacts
    <2> QED
      BY <2>1, <2>2 DEF NS!Init, Updating
  <1> QED
    BY <1>1, NameServiceStep, RegistryInvCorrect, PTL DEF Spec, ImplementsNameService, NS!Spec
=============================================================================
