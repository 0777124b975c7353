------------------------- MODULE RegistryProperties -------------------------
(***************************************************************************)
(* What must hold of Registry.  Two servers that exist side by side and    *)
(* whose paths lead to one place disturb each other in many ways, and the  *)
(* code does nothing about it: overlapped names the servers this happened  *)
(* to, and what is said of a server's place is said of the others.  A      *)
(* server that follows another one of its place, dead or destroyed, is not *)
(* excused.  lost names the servers whose entry the registry could not     *)
(* make, or not remove, or lost in a write that broke off, and those whose *)
(* name another one has announced since.                                   *)
(***************************************************************************)
EXTENDS Registry

(* Types of the variables. *)
TypeOK ==
    /\ nameOf \in [Server -> Name \cup {NoOne}] /\ pathOf \in [Server -> Path]
    /\ pidOf \in [Server -> Pid] /\ running \subseteq Pid
    /\ spc \in [Server -> Gone \cup Register \cup
           {"bind", "shm", "listening", "error", "close", "unlinkshm", "unlinkpath"}]
    /\ table \in [Index -> Entry \cup {NoOne, Unwritten}] /\ copy \in Table
    /\ lock \in Server \cup {NoOne} /\ phase \in {"free", "read", "write"}
    /\ listener \in [Path -> SUBSET Server]
    /\ seg \in [Shm -> Server \cup {NoOne}]
    /\ shmOf \in [Server -> Server \cup {NoOne}]
    /\ cpc \in [Client -> {"created", "resolved", "waiting", "accepted",
                           "connected", "error", "closed"}]
    /\ cname \in [Client -> Name \cup {NoOne}] /\ cpath \in [Client -> Path \cup {NoOne}]
    /\ conn \in [Client -> Server \cup {NoOne}]
    /\ cseg \in [Client -> Server \cup {NoOne}]
    /\ overlapped \subseteq Server /\ lost \subseteq Server
    /\ replaced \in [Server -> Server \cup {NoOne}] /\ garbled \in BOOLEAN

(* What the slots of a table hold. *)
Bindings(t) == {t[i] : i \in Index} \ {NoOne, Unwritten}

(* Announced servers are found: a server that listens has its entry, whatever the
   others announce, unregister and evict around it, whoever dies, and whatever was read
   of entries that no write got to (texlink_registry_announce, _unregister).  Only the
   server whose own name was taken, or whose own entry was not written, is excused.     *)
AnnouncedIsFound ==
    \A s \in Server :
        Named(s) /\ spc[s] = "listening" /\ s \notin lost /\ phase # "write"
            => EntryOf(s) \in Bindings(table)

(* A listening server can be reached: its path leads to it and to no other, and
   the name of its segment to its segment, whichever servers of its place were started,
   destroyed or lost before it.  On POSIX it made that segment itself: it does not write
   into one that clients of a dead server still read (texlink_server_start).            *)
ListeningIsReachable ==
    \A s \in Server :
        spc[s] = "listening" /\ s \notin overlapped
            => /\ listener[pathOf[s]] = {s}
               /\ shmOf[s] # NoOne /\ seg[ShmOf(s)] = shmOf[s]
               /\ Win32 \/ shmOf[s] = s

(* A connected client never reads the counters of a predecessor: the segment it opened by
   name, long after the connection was made, is not one that the start of its server had
   found under that name, whoever has started beside it, been destroyed or died since; and
   while its server runs undisturbed it is that server's (session_connect).               *)
ClientMapsItsServer ==
    \A c \in Client :
        cpc[c] = "connected"
            => /\ cseg[c] # NoOne /\ cseg[c] # replaced[conn[c]]
               /\ Live(conn[c]) /\ conn[c] \notin overlapped => cseg[c] = shmOf[conn[c]]

(* session_connect, "Open shared memory created by producer": a client that was accepted
   by a server, which no other one ran beside, maps the segment that server created.       *)
OpensItsProducersSegment ==
    \A c \in Client : cpc[c] = "connected" /\ conn[c] \notin overlapped => cseg[c] = conn[c]

(* texlink_server_destroy leaves nothing of a server: no way to its socket or segment, and
   no entry that another server of the process did not make.  A segment that clients hold
   outlives it on Win32.  Its entry stays only when the registry could not be opened or
   truncated for it, or somebody wrote on what was read of entries no write got to.        *)
DestroyLeavesNothing ==
    \A s \in Server :
        spc[s] = "closed"
            => /\ \A p \in Path : s \notin listener[p]
               /\ \A n \in Shm : seg[n] = s /\ shmOf[s] # NoOne =>
                      Win32 /\ Holders(n, Mapping, Mapped) # {}
               /\ EntryOf(s) \in Bindings(table) =>
                      \/ garbled \/ s \in lost
                      \/ \E t \in Server \ {s} : EntryOf(t) = EntryOf(s) /\ spc[t] # "none"

-----------------------------------------------------------------------------
(* The registry implements the name service.  While the file is being written
   its content is what the writer is about to write.                          *)
Content == IF phase = "write" THEN copy ELSE table
NS == INSTANCE NameService
        WITH bound <- Bindings(Content),
             alive <- running,
             updating <- IF phase = "write" THEN pidOf[lock] ELSE NoOne,
             intact <- ~garbled

(* A name is never lost to another name's update, and never bound twice in a
   way the name service does not allow.                                       *)
ImplementsNameService == NS!Spec

(* A name is bound to one process at most, however often it was taken over, as long as no
   write has stopped among its entries: resolve, which takes the first entry of a name, has
   no choice.                                                                            *)
OneBinding ==
    ~garbled => \A i, j \in Index :
        Content[i] # NoOne /\ Content[j] # NoOne /\ Content[i].name = Content[j].name => i = j

(* Who waits for the registry's lock waits for a call that goes on: its holder is still
   announcing or unregistering, in a process that runs, and has a step to take there.
   About: the returns of announce and unregister, each of which has to unlock, and
   the holders that die.                                                                *)
LockInUse ==
    lock # NoOne =>
        spc[lock] \in Register /\ phase \in {"read", "write"} /\ pidOf[lock] \in running

(* A call that was entered returns, or its process dies: no server waits for
   the registry's lock for ever, even if its holder dies.                     *)
CallsReturn ==
    \A s \in Server :
        /\ spc[s] \in {"bind", "shm", "announce"} ~>
               spc[s] \in {"listening", "error", "crashed"}
        /\ spc[s] \in {"unregister", "close"} ~> spc[s] \in {"closed", "crashed"}
=============================================================================
