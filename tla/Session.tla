------------------------------- MODULE Session -------------------------------
(***************************************************************************)
(* The frame session of libtexlink: one server (producer process), the     *)
(* clients (consumer processes) connected to its socket, and the counters  *)
(* that decide which buffer the producer may write next.  Source:          *)
(* src/src/session.c, with the socket layer as session.c uses it.          *)
(*                                                                         *)
(* The server is one thread.  Its calls are split at the system calls that *)
(* let a client's step be observed in between: every accept, every message *)
(* received from a client, every notification sent.  pc is where it stands *)
(* and slot the loop variable i of the loop it is in.  A client is one     *)
(* connection of one process; cpc is where it stands in acquire or close.  *)
(***************************************************************************)
EXTENDS Integers, Sequences, FiniteSets

CONSTANTS
    Client,       \* the connections that will ever be attempted
    NoClient,     \* TEXLINK_INVALID_SOCKET_HANDLE in client_fds
    MaxClients,   \* TEXLINK_MAX_CLIENTS
    FrameCount,   \* server->frame_count: 1 single, 2 double, 3 triple
    MaxFrames,    \* bound: frames the producer publishes
    Posix,        \* the socket layer: Unix sockets, or the pipes of Win32
    ServerIoFails,  \* accept, or a send on a healthy connection, may fail
    FenceRecvFails  \* the fence fd of a notification may not be received

ASSUME SessionAssumption ==
    /\ NoClient \notin Client
    /\ MaxClients \in Nat \ {0}
    /\ FrameCount \in 1..3
    /\ MaxFrames \in Nat
    /\ Posix \in BOOLEAN
    /\ ServerIoFails \in BOOLEAN
    /\ FenceRecvFails \in BOOLEAN

Slot == 1..MaxClients
Buf == 0..(FrameCount - 1)
NoBuf == -1

(* texlink_frame_msg_t.  The handshake and the native handles travel on the
   same stream ahead of every notification: Hello stands for all of them.   *)
FrameMsg == [frame_id : Nat, buf_idx : Buf \cup {NoBuf}]
Hello == [frame_id |-> 0, buf_idx |-> NoBuf]

VARIABLES
    state,          \* texlink_server_t: state, client_fds, client_refs, write_idx
    client_fds,
    client_refs,
    write_idx,
    frame_refs,     \* texlink_shm_t, written by the server alone
    current_idx,
    frame_id,
    pc,             \* where the server's thread is
    slot,           \* i in the loops over client_fds
    writing,        \* the buffer begin_frame gave the application, or NoBuf
    backlog,        \* connections waiting to be accepted
    down,           \* server-to-client stream of each connection
    up,             \* client-to-server stream: buf_idx of release messages
    cstate,         \* texlink_client_t.state
    cpc,            \* where the client's thread is
    msg,            \* the local msg of session_consumer_acquire
    acquired_refs,  \* texlink_session_t: acquired_refs, last_frame_id
    last_frame_id,
    content,        \* ghost: frame in each buffer's memory, 0 none or torn
    held            \* ghost: frame a client was given with each buffer

serverVars == <<state, client_fds, client_refs, write_idx, pc, slot, writing>>
shmVars    == <<frame_refs, current_idx, frame_id>>
netVars    == <<backlog, down, up>>
clientVars == <<cstate, cpc, msg, acquired_refs, last_frame_id, held>>
vars == <<serverVars, shmVars, netVars, clientVars, content>>

-----------------------------------------------------------------------------
NoRefs == [b \in Buf |-> 0]

(* calloc'ed server after texlink_server_start; calloc'ed clients. *)
Init ==
    /\ state = "LISTENING"
    /\ client_fds = [s \in Slot |-> NoClient]
    /\ client_refs = [s \in Slot |-> NoRefs]
    /\ write_idx = 0
    /\ frame_refs = NoRefs
    /\ current_idx = 0
    /\ frame_id = 0
    /\ pc = "app"
    /\ slot = 1
    /\ writing = NoBuf
    /\ backlog = <<>>
    /\ down = [c \in Client |-> <<>>]
    /\ up = [c \in Client |-> <<>>]
    /\ cstate = [c \in Client |-> "CREATED"]
    /\ cpc = [c \in Client |-> "idle"]
    /\ msg = [c \in Client |-> Hello]
    /\ acquired_refs = [c \in Client |-> NoRefs]
    /\ last_frame_id = [c \in Client |-> 0]
    /\ content = NoRefs
    /\ held = [c \in Client |-> NoRefs]

-----------------------------------------------------------------------------
(* The two ends of a connection. *)

Registered(c) == \E s \in Slot : client_fds[s] = c
Queued(c) == \E i \in 1..Len(backlog) : backlog[i] = c

(* The client's end is open: its process runs and has not closed sock_fd. *)
Open(c) == cstate[c] \in {"CONNECTING", "CONNECTED"}

(* The server's end is closed, by a drop, a refusal or the server's end. *)
Eof(c) == ~Registered(c) /\ ~Queued(c)

(* texlink_socket_close of the server's end: close(2) leaves what the peer has not
   read where it is, DisconnectNamedPipe throws it away.                         *)
AfterClose(stream) == IF Posix THEN stream ELSE <<>>

-----------------------------------------------------------------------------
(* texlink_server_poll *)

StartPoll ==
    /\ pc = "app"
    /\ pc' = "accept"
    /\ UNCHANGED <<state, client_fds, client_refs, write_idx, slot, writing,
                   shmVars, netVars, clientVars, content>>

FreeSlots == {s \in Slot : client_fds[s] = NoClient}

LowestFree(s) == s \in FreeSlots /\ \A t \in FreeSlots : s <= t

AcceptRefuse ==
    /\ pc = "accept" /\ backlog # <<>>
    /\ FreeSlots = {}
    /\ backlog' = Tail(backlog)
    /\ UNCHANGED <<serverVars, shmVars, down, up, clientVars, content>>

(* The peer is gone, or a part of the handshake could not be sent. *)
AcceptFail ==
    /\ pc = "accept" /\ backlog # <<>>
    /\ FreeSlots # {}
    /\ ServerIoFails \/ ~Open(Head(backlog))
    /\ backlog' = Tail(backlog)
    /\ UNCHANGED <<serverVars, shmVars, down, up, clientVars, content>>

AcceptClient ==
    /\ pc = "accept" /\ backlog # <<>>
    /\ Open(Head(backlog))
    /\ \E s \in Slot :
         /\ LowestFree(s)
         /\ client_fds' = [client_fds EXCEPT ![s] = Head(backlog)]
    /\ down' = [down EXCEPT ![Head(backlog)] = Append(@, Hello)]
    /\ backlog' = Tail(backlog)
    /\ state' = "CONNECTED"
    /\ UNCHANGED <<client_refs, write_idx, pc, slot, writing, shmVars, up,
                   clientVars, content>>

(* Nobody is waiting, or accept itself fails. *)
AcceptDone ==
    /\ pc = "accept" /\ (backlog = <<>> \/ ServerIoFails)
    /\ pc' = "drain" /\ slot' = 1
    /\ UNCHANGED <<state, client_fds, client_refs, write_idx, writing, shmVars,
                   netVars, clientVars, content>>

(* Mutant of NextSlot: the loop runs one slot too far. *)
NextSlotPastEnd == IF slot <= MaxClients
                   THEN slot' = slot + 1 /\ pc' = pc
                   ELSE slot' = 1 /\ pc' = "app"

(* i++ in a loop over client_fds; the call returns when the loop ends. *)
NextSlot == IF slot < MaxClients
            THEN slot' = slot + 1 /\ pc' = pc
            ELSE slot' = 1 /\ pc' = "app"

(* Mutant of DropClient: the references stay with the free slot. *)
DropClientKeepsRefs(s, refs, sums) ==
    /\ client_fds' = [client_fds EXCEPT ![s] = NoClient]
    /\ client_refs' = refs
    /\ frame_refs' = sums
    /\ up' = [up EXCEPT ![client_fds[s]] = <<>>]
    /\ down' = [down EXCEPT ![client_fds[s]] = AfterClose(@)]

(* server_drop_client: close the slot's socket, with what was not read from it,
   and give back every reference the slot has, when the references of the
   slots are refs and their sums are sums.                                   *)
DropClient(s, refs, sums) ==
    /\ client_fds' = [client_fds EXCEPT ![s] = NoClient]
    /\ client_refs' = [refs EXCEPT ![s] = NoRefs]
    /\ frame_refs' = [b \in Buf |-> sums[b] - refs[s][b]]
    /\ up' = [up EXCEPT ![client_fds[s]] = <<>>]
    /\ down' = [down EXCEPT ![client_fds[s]] = AfterClose(@)]

(* server_handle_client_releases: one message of the loop. *)
HandleRelease ==
    /\ pc = "drain"
    /\ client_fds[slot] # NoClient
    /\ LET c == client_fds[slot]
           b == Head(up[c])
       IN /\ up[c] # <<>>
          /\ up' = [up EXCEPT ![c] = Tail(@)]
          /\ IF client_refs[slot][b] = 0
             THEN UNCHANGED <<client_refs, frame_refs>>
             ELSE /\ client_refs' = [client_refs EXCEPT ![slot][b] = @ - 1]
                  /\ frame_refs' = [frame_refs EXCEPT ![b] = @ - 1]
    /\ UNCHANGED <<state, client_fds, write_idx, pc, slot, writing,
                   current_idx, frame_id, backlog, down, clientVars, content>>

(* Mutant of HandleEof: a client that has sent nothing is taken for a dead one. *)
HandleSilence ==
    /\ pc = "drain"
    /\ client_fds[slot] # NoClient
    /\ up[client_fds[slot]] = <<>>
    /\ DropClient(slot, client_refs, frame_refs)
    /\ NextSlot
    /\ UNCHANGED <<state, write_idx, writing, current_idx, frame_id, backlog,
                   clientVars, content>>

(* Mutant of HandleEof: the failed recv ends the loop but drops nobody. *)
HandleEofIgnored ==
    /\ pc = "drain"
    /\ client_fds[slot] # NoClient
    /\ up[client_fds[slot]] = <<>>
    /\ ~Open(client_fds[slot]) /\ Posix
    /\ NextSlot
    /\ UNCHANGED <<state, client_fds, client_refs, write_idx, writing, shmVars,
                   netVars, clientVars, content>>

(* The peer closed and everything it sent has been read: recv fails. *)
HandleEof ==
    /\ pc = "drain"
    /\ client_fds[slot] # NoClient
    /\ up[client_fds[slot]] = <<>>
    /\ ~Open(client_fds[slot]) /\ Posix
    /\ DropClient(slot, client_refs, frame_refs)
    /\ NextSlot
    /\ UNCHANGED <<state, write_idx, writing, current_idx, frame_id, backlog,
                   clientVars, content>>

HandleNothing ==
    /\ pc = "drain"
    /\ \/ client_fds[slot] = NoClient
       \/ /\ client_fds[slot] # NoClient
          /\ up[client_fds[slot]] = <<>>
          /\ Open(client_fds[slot]) \/ ~Posix
    /\ NextSlot
    /\ UNCHANGED <<state, client_fds, client_refs, write_idx, writing, shmVars,
                   netVars, clientVars, content>>

-----------------------------------------------------------------------------
(* texlink_server_begin_frame and texlink_server_end_frame *)

(* Mutant of Available: the references are not looked at. *)
AvailableUnlessCurrent(b) == b # current_idx

(* server_frame_is_available *)
Available(b) == b # current_idx /\ frame_refs[b] = 0

Rotation(n) == (write_idx + n) % FrameCount

(* Mutant of BeginReturns: the next buffer in turn, referenced or not. *)
BeginReturnsNext(b) ==
    \/ FrameCount = 1
    \/ FrameCount = 2 /\ b = 1 - (current_idx % 2)
    \/ FrameCount = 3 /\ b = Rotation(0)

(* begin_frame returns frames[b]; NULL when no buffer qualifies. *)
BeginReturns(b) ==
    \/ FrameCount = 1 /\ frame_refs[b] = 0
    \/ FrameCount = 2 /\ b = 1 - (current_idx % 2) /\ Available(b)
    \/ /\ FrameCount = 3 /\ Available(b)
       /\ \E n \in 0..2 : /\ b = Rotation(n)
                          /\ \A m \in 0..(n - 1) : ~Available(Rotation(m))

(* From here until end_frame the application writes the buffer. *)
BeginFrame ==
    /\ pc = "app" /\ writing = NoBuf /\ frame_id < MaxFrames
    /\ \E b \in Buf : /\ BeginReturns(b)
                      /\ writing' = b
                      /\ content' = [content EXCEPT ![b] = 0]
    /\ UNCHANGED <<state, client_fds, client_refs, write_idx, pc, slot, shmVars,
                   netVars, clientVars>>

(* Mutant of EndFrame: frame_id is read but not counted up. *)
EndFrameSameId ==
    /\ pc = "app" /\ writing # NoBuf
    /\ current_idx' = writing
    /\ write_idx' = IF FrameCount = 3 THEN (writing + 1) % 3 ELSE write_idx
    /\ content' = [content EXCEPT ![writing] = frame_id]
    /\ writing' = NoBuf
    /\ pc' = "send" /\ slot' = 1
    /\ UNCHANGED <<state, client_fds, client_refs, frame_refs, frame_id, netVars,
                   clientVars>>

(* end_frame up to its loop. *)
EndFrame ==
    /\ pc = "app" /\ writing # NoBuf
    /\ frame_id' = frame_id + 1
    /\ current_idx' = writing
    /\ write_idx' = IF FrameCount = 3 THEN (writing + 1) % 3 ELSE write_idx
    /\ content' = [content EXCEPT ![writing] = frame_id + 1]
    /\ writing' = NoBuf
    /\ pc' = "send" /\ slot' = 1
    /\ UNCHANGED <<state, client_fds, client_refs, frame_refs, netVars,
                   clientVars>>

CountRef(refs, s) == [refs EXCEPT ![s][current_idx] = @ + 1]
CountSum(sums) == [sums EXCEPT ![current_idx] = @ + 1]

SkipSlot ==
    /\ pc = "send" /\ client_fds[slot] = NoClient
    /\ NextSlot
    /\ UNCHANGED <<state, client_fds, client_refs, write_idx, writing, shmVars,
                   netVars, clientVars, content>>

SendFrame ==
    /\ pc = "send" /\ client_fds[slot] # NoClient
    /\ Open(client_fds[slot])
    /\ client_refs' = CountRef(client_refs, slot)
    /\ frame_refs' = CountSum(frame_refs)
    /\ down' = [down EXCEPT ![client_fds[slot]] =
                    Append(@, [frame_id |-> frame_id, buf_idx |-> current_idx])]
    /\ NextSlot
    /\ UNCHANGED <<state, client_fds, write_idx, writing, current_idx, frame_id,
                   backlog, up, clientVars, content>>

(* Mutant of SendFail: frame_refs is only counted up after the send. *)
SendFailUncounted ==
    /\ pc = "send" /\ client_fds[slot] # NoClient
    /\ ServerIoFails \/ ~Open(client_fds[slot])
    /\ DropClient(slot, CountRef(client_refs, slot), frame_refs)
    /\ NextSlot
    /\ UNCHANGED <<state, write_idx, writing, current_idx, frame_id, backlog,
                   clientVars, content>>

SendFail ==
    /\ pc = "send" /\ client_fds[slot] # NoClient
    /\ ServerIoFails \/ ~Open(client_fds[slot])
    /\ DropClient(slot, CountRef(client_refs, slot), CountSum(frame_refs))
    /\ NextSlot
    /\ UNCHANGED <<state, write_idx, writing, current_idx, frame_id, backlog,
                   clientVars, content>>

-----------------------------------------------------------------------------
(* texlink_server_destroy, and the end of the server's process.  Either way every
   connection is closed; destroy also gives the references back, and closes with
   texlink_socket_close what the end of a process leaves to the kernel.         *)
ServerGone ==
    /\ state' = "CLOSED" /\ pc' = "closed"
    /\ client_fds' = [s \in Slot |-> NoClient]
    /\ client_refs' = [s \in Slot |-> NoRefs]
    /\ backlog' = <<>>
    /\ up' = [c \in Client |-> <<>>]
    /\ writing' = NoBuf /\ slot' = 1
    /\ UNCHANGED <<write_idx, current_idx, frame_id, clientVars, content>>

ServerDestroy ==
    /\ pc = "app"
    /\ frame_refs' = NoRefs
    /\ down' = [c \in Client |-> AfterClose(down[c])]
    /\ ServerGone

ServerCrash ==
    /\ pc # "closed"
    /\ UNCHANGED <<frame_refs, down>>
    /\ ServerGone

-----------------------------------------------------------------------------
(* texlink_client_connect *)

Connect(c) ==
    /\ cstate[c] = "CREATED"
    /\ IF pc = "closed"
       THEN /\ cstate' = [cstate EXCEPT ![c] = "ERROR"]
            /\ UNCHANGED backlog
       ELSE /\ cstate' = [cstate EXCEPT ![c] = "CONNECTING"]
            /\ backlog' = Append(backlog, c)
    /\ UNCHANGED <<serverVars, shmVars, down, up, cpc, msg, acquired_refs,
                   last_frame_id, held, content>>

(* session_connect succeeds: handshake and handles received, shm mapped. *)
Connected(c) ==
    /\ cstate[c] = "CONNECTING" /\ down[c] # <<>>
    /\ cstate' = [cstate EXCEPT ![c] = "CONNECTED"]
    /\ down' = [down EXCEPT ![c] = Tail(@)]
    /\ UNCHANGED <<serverVars, shmVars, backlog, up, cpc, msg, acquired_refs,
                   last_frame_id, held, content>>

(* The client's socket is closed with what it had not read; its session and
   its references are freed.                                                *)
ClientCloses(c, s) ==
    /\ cstate' = [cstate EXCEPT ![c] = s]
    /\ down' = [down EXCEPT ![c] = <<>>]
    /\ cpc' = [cpc EXCEPT ![c] = "idle"]
    /\ msg' = [msg EXCEPT ![c] = Hello]
    /\ acquired_refs' = [acquired_refs EXCEPT ![c] = NoRefs]
    /\ held' = [held EXCEPT ![c] = NoRefs]
    /\ UNCHANGED <<serverVars, shmVars, backlog, up, last_frame_id, content>>

(* Mutant of ConnectFails: the end of the stream is not noticed. *)
ConnectFailsOnData(c) ==
    /\ cstate[c] = "CONNECTING"
    /\ down[c] # <<>>
    /\ ClientCloses(c, "ERROR")

(* session_connect fails: refused, or an error after the handshake. *)
ConnectFails(c) ==
    /\ cstate[c] = "CONNECTING"
    /\ down[c] # <<>> \/ Eof(c)
    /\ ClientCloses(c, "ERROR")

-----------------------------------------------------------------------------
(* texlink_client_acquire_frame: session_consumer_acquire *)

(* Mutant of Readable: a poll that times out counts as well (>= 0). *)
ReadableAtTimeout(c) == Posix \/ down[c] # <<>> \/ ~Eof(c)

(* texlink_socket_poll(sock_fd, 0) > 0: poll(2) reports a closed peer as readable,
   PeekNamedPipe fails and the Win32 version returns -1.                         *)
Readable(c) == down[c] # <<>> \/ (Posix /\ Eof(c))

(* session_send_release; the stream to a closed server takes nothing. *)
SendRelease(c, b) ==
    up' = IF Eof(c) THEN up ELSE [up EXCEPT ![c] = Append(@, b)]

SetMsg(c, m, l) == msg' = [msg EXCEPT ![c] = m] /\ cpc' = [cpc EXCEPT ![c] = l]

(* texlink_recv_frame, after the blocking poll or in the drain loop. *)
Receive(c) ==
    /\ cstate[c] = "CONNECTED" /\ cpc[c] \in {"idle", "skip"} /\ down[c] # <<>>
    /\ SetMsg(c, Head(down[c]), "recv")
    /\ down' = [down EXCEPT ![c] = Tail(@)]
    /\ UNCHANGED <<serverVars, shmVars, backlog, up, cstate, acquired_refs,
                   last_frame_id, held, content>>

(* The header is read but its fence fd is not: acquire returns NULL. *)
ReceiveFails(c) ==
    /\ FenceRecvFails
    /\ cstate[c] = "CONNECTED" /\ cpc[c] \in {"idle", "skip"} /\ down[c] # <<>>
    /\ SetMsg(c, Hello, "idle")
    /\ down' = [down EXCEPT ![c] = Tail(@)]
    /\ UNCHANGED <<serverVars, shmVars, backlog, up, cstate, acquired_refs,
                   last_frame_id, held, content>>

(* The drain loop: the socket is readable, so the frame in hand is given back. *)
SkipOld(c) ==
    /\ cpc[c] = "recv" /\ Readable(c)
    /\ SendRelease(c, msg[c].buf_idx)
    /\ SetMsg(c, Hello, "skip")
    /\ UNCHANGED <<serverVars, shmVars, backlog, down, cstate, acquired_refs,
                   last_frame_id, held, content>>

(* There was nothing but the end of the stream, or on Win32 the server has closed
   it since: recv fails and acquire returns NULL.                               *)
RecvFails(c) ==
    /\ cpc[c] = "skip" /\ down[c] = <<>> /\ Eof(c)
    /\ SetMsg(c, Hello, "idle")
    /\ UNCHANGED <<serverVars, shmVars, netVars, cstate, acquired_refs,
                   last_frame_id, held, content>>

(* Nothing newer: this is the frame; acquire waits for its fence. *)
TakeNewest(c) ==
    /\ cpc[c] = "recv" /\ ~Readable(c)
    /\ last_frame_id' = [last_frame_id EXCEPT ![c] = msg[c].frame_id]
    /\ SetMsg(c, msg[c], "wait")
    /\ UNCHANGED <<serverVars, shmVars, netVars, cstate, acquired_refs, held,
                   content>>

(* The fence signalled, or there is none: acquire returns frames[idx]. *)
AcquireReturns(c) ==
    /\ cpc[c] = "wait"
    /\ LET b == msg[c].buf_idx IN
         /\ acquired_refs' = [acquired_refs EXCEPT ![c][b] = @ + 1]
         /\ held' = [held EXCEPT ![c][b] = msg[c].frame_id]
    /\ SetMsg(c, Hello, "idle")
    /\ UNCHANGED <<serverVars, shmVars, netVars, cstate, last_frame_id, content>>

(* Mutant of SyncTimeout: the frame is not given back. *)
SyncTimeoutKeeps(c) ==
    /\ cpc[c] = "wait"
    /\ SetMsg(c, Hello, "idle")
    /\ UNCHANGED <<serverVars, shmVars, netVars, cstate, acquired_refs,
                   last_frame_id, held, content>>

(* texlink_wait_sync_file timed out: the frame goes back, acquire fails. *)
SyncTimeout(c) ==
    /\ cpc[c] = "wait"
    /\ SendRelease(c, msg[c].buf_idx)
    /\ SetMsg(c, Hello, "idle")
    /\ UNCHANGED <<serverVars, shmVars, backlog, down, cstate, acquired_refs,
                   last_frame_id, held, content>>

-----------------------------------------------------------------------------
(* texlink_client_release_frame and texlink_client_disconnect *)

DropRef(c, b) ==
    /\ acquired_refs' = [acquired_refs EXCEPT ![c][b] = @ - 1]
    /\ held' = [held EXCEPT ![c][b] = 0]

Release(c, b) ==
    /\ cstate[c] = "CONNECTED" /\ cpc[c] = "idle" /\ acquired_refs[c][b] > 0
    /\ SendRelease(c, b)
    /\ DropRef(c, b)
    /\ UNCHANGED <<serverVars, shmVars, backlog, down, cstate, cpc, msg,
                   last_frame_id, content>>

Disconnect(c) ==
    /\ cstate[c] = "CONNECTED" /\ cpc[c] = "idle"
    /\ cpc' = [cpc EXCEPT ![c] = "close"]
    /\ UNCHANGED <<serverVars, shmVars, netVars, cstate, msg, acquired_refs,
                   last_frame_id, held, content>>

(* session_release_acquired_refs: one message of its loops. *)
CloseRelease(c) ==
    /\ cpc[c] = "close"
    /\ \E b \in Buf : /\ acquired_refs[c][b] > 0
                      /\ \A a \in Buf : acquired_refs[c][a] > 0 => b <= a
                      /\ SendRelease(c, b)
                      /\ DropRef(c, b)
    /\ UNCHANGED <<serverVars, shmVars, backlog, down, cstate, cpc, msg,
                   last_frame_id, content>>

CloseSocket(c) ==
    /\ cpc[c] = "close" /\ acquired_refs[c] = NoRefs
    /\ ClientCloses(c, "DISCONNECTED")

(* The client's process ends wherever it stands. *)
ClientCrash(c) ==
    /\ Open(c)
    /\ ClientCloses(c, "DISCONNECTED")

-----------------------------------------------------------------------------
ServerPoll == \/ StartPoll \/ AcceptRefuse \/ AcceptFail \/ AcceptClient
              \/ AcceptDone \/ HandleRelease \/ HandleEof \/ HandleNothing

ServerPublish == EndFrame \/ SkipSlot \/ SendFrame \/ SendFail

ClientConnect(c) == Connect(c) \/ Connected(c) \/ ConnectFails(c)

ClientAcquire(c) == \/ Receive(c) \/ ReceiveFails(c) \/ SkipOld(c)
                    \/ RecvFails(c) \/ TakeNewest(c) \/ AcquireReturns(c)
                    \/ SyncTimeout(c)

ClientClose(c) == Disconnect(c) \/ CloseRelease(c) \/ CloseSocket(c)

(* Every process has ended: nothing is left to run. *)
AllEnded ==
    /\ pc = "closed"
    /\ \A c \in Client : cstate[c] \in {"ERROR", "DISCONNECTED"}
    /\ UNCHANGED vars

Next ==
    \/ ServerPoll \/ BeginFrame \/ ServerPublish \/ ServerDestroy \/ ServerCrash
    \/ \E c \in Client : \/ ClientConnect(c) \/ ClientAcquire(c)
                         \/ \E b \in Buf : Release(c, b)
                         \/ ClientClose(c) \/ ClientCrash(c)
    \/ AllEnded

Spec == Init /\ [][Next]_vars
=============================================================================
