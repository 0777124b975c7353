----------------------------- MODULE Connection -----------------------------
(***************************************************************************)
(* How a client gets the handles of a server: the listening socket or      *)
(* named pipe, texlink_server_poll's accept loop, and the handshake, whose *)
(* items the client counts off by what the handshake says of them.         *)
(* Session has all of this in its single Hello.  Source: src/src/session.c *)
(* and the socket layers, with the transfers of platform_posix.c and       *)
(* platform_win32.c.                                                       *)
(*                                                                         *)
(* An item is a descriptor with its byte, or on Win32 a word; the stream   *)
(* itself does not tell handles from fences.                               *)
(***************************************************************************)
EXTENDS Naturals, Sequences, SequencesExt, FiniteSets

CONSTANTS
    Platforms,   \* of "posix", "win32"
    Client,      \* the connections that will ever be attempted
    NoClient,    \* TEXLINK_INVALID_SOCKET_HANDLE in client_fds
    MaxClients,  \* TEXLINK_MAX_CLIENTS: slots, and instances of a pipe
    BufCount     \* server->frame_count

ASSUME ConnectionAssumption ==
    /\ NoClient \notin Client
    /\ MaxClients \in Nat \ {0} /\ BufCount \in Nat \ {0}

Slot == 1..MaxClients
Buf == 1..BufCount

VARIABLES
    platform,
    fenced,      \* the frames whose meta.sync_handle_type is that of a fence;
                 \* nothing depends on it on POSIX
    hello,       \* whether shm->meta says so: the first frame's when it started
    client_fds,
    backlog,     \* connections that wait; on Win32 the one on server->pipe
    listening,   \* server->pipe is valid
    ends,        \* connections whose server's end is open, once accepted
    stream,      \* server-to-client stream of each connection
    cpc,         \* where the client's thread is in session_connect
    got,         \* the items it has received
    leaked,      \* ghost: pipes without a socket structure
    strayed      \* ghost: clients accepted while a frame differed from hello

serverVars == <<client_fds, backlog, listening, ends, leaked>>
frameVars == <<fenced, hello>>
clientVars == <<cpc, got>>
vars == <<platform, frameVars, serverVars, stream, clientVars, strayed>>

Init ==
    /\ platform \in Platforms
    /\ fenced \in IF platform = "win32" THEN SUBSET Buf ELSE {{}}
    /\ hello = (1 \in fenced)
    /\ client_fds = [s \in Slot |-> NoClient]
    /\ backlog = <<>>
    /\ listening = TRUE
    /\ ends = {} /\ leaked = {} /\ strayed = {}
    /\ stream = [c \in Client |-> <<>>]
    /\ cpc = [c \in Client |-> "created"]
    /\ got = [c \in Client |-> <<>>]

Win32 == platform = "win32"
Open(c) == cpc[c] \in {"greet", "handles", "connected"}
Registered(c) == \E s \in Slot : client_fds[s] = c

-----------------------------------------------------------------------------
(* The application gives a frame a fence: its sync_handle_type changes. *)
SetSync(i) ==
    /\ Win32 /\ i \notin fenced
    /\ fenced' = fenced \cup {i}
    /\ UNCHANGED <<platform, hello, serverVars, stream, clientVars, strayed>>

(* The items for one frame with or without a fence.  Only Win32 sends fences. *)
Handle(i) == [what |-> "handle", buf |-> i]
Fence(i) == [what |-> "fence", buf |-> i]
Items(i, fence) == <<Handle(i)>> \o (IF fence /\ Win32 THEN <<Fence(i)>> ELSE <<>>)

Hello == [what |-> "hello", buf |-> 0]

(* Mutant of Wire: all fences after all handles. *)
WireFencesLast ==
    LET all == FlattenSeq([i \in Buf |-> Items(i, i \in fenced)])
        IsFence(x) == x.what = "fence"
        IsHandle(x) == x.what = "handle"
    IN <<Hello>> \o SelectSeq(all, IsHandle) \o SelectSeq(all, IsFence)

(* Mutant of Expected: the fences are not counted. *)
ExpectedNoFences == FlattenSeq([i \in Buf |-> Items(i, FALSE)])

(* What the server sends to a client, and what the client expects behind the
   handshake.                                                               *)
Wire == <<Hello>> \o FlattenSeq([i \in Buf |-> Items(i, i \in fenced)])
Expected == FlattenSeq([i \in Buf |-> Items(i, hello)])

-----------------------------------------------------------------------------
(* texlink_server_poll, its accept loop.  On Win32 the listening instance
   becomes the client's and the next one is created: ConnectNamedPipe fails
   with ERROR_NO_DATA if the client has closed its end meanwhile, and then the
   loop ends here, now and in every later poll.                               *)
Caller == Head(backlog)
Polled == listening /\ backlog # <<>> /\ (Win32 => Open(Caller))
Instances == Cardinality(ends) + (IF listening THEN 1 ELSE 0)
NextInstance == Win32 => Instances < MaxClients

FreeSlots == {s \in Slot : client_fds[s] = NoClient}
LowestFree(s) == s \in FreeSlots /\ \A t \in FreeSlots : s <= t

Accept ==
    /\ Polled /\ NextInstance
    /\ backlog' = Tail(backlog)
    /\ UNCHANGED <<platform, frameVars, listening, clientVars>>

Strays == strayed' = strayed \cup {c \in {Caller} : Win32 /\ \E i \in Buf : (i \in fenced) # hello}

AcceptClient ==
    /\ Accept
    /\ Open(Caller)
    /\ \E s \in Slot : LowestFree(s) /\ client_fds' = [client_fds EXCEPT ![s] = Caller]
    /\ ends' = ends \cup {Caller}
    /\ stream' = [stream EXCEPT ![Caller] = Wire]
    /\ Strays
    /\ UNCHANGED leaked

(* Mutant of AcceptPart: the connection is not closed. *)
AcceptPartKeepsEnd ==
    /\ Accept
    /\ FreeSlots # {}
    /\ \E k \in 0..(Len(Wire) - 1) :
          stream' = [stream EXCEPT ![Caller] = IF Open(Caller) THEN SubSeq(Wire, 1, k) ELSE <<>>]
    /\ ends' = ends \cup {Caller}
    /\ Strays
    /\ UNCHANGED <<client_fds, leaked>>

(* A send of the handshake or of a handle fails: the connection is closed. *)
AcceptPart ==
    /\ Accept
    /\ FreeSlots # {}
    /\ \E k \in 0..(Len(Wire) - 1) :
          stream' = [stream EXCEPT ![Caller] = IF Open(Caller) THEN SubSeq(Wire, 1, k) ELSE <<>>]
    /\ Strays
    /\ UNCHANGED <<client_fds, ends, leaked>>

(* No slot is free: the connection is closed. *)
AcceptRefuse ==
    /\ Accept
    /\ FreeSlots = {}
    /\ UNCHANGED <<client_fds, ends, stream, leaked, strayed>>

(* texlink_socket_accept on Win32: socket_alloc fails and the pipe stays open... *)
AcceptLeaks ==
    /\ Win32 /\ Accept
    /\ ends' = ends \cup {Caller}
    /\ leaked' = leaked \cup {Caller}
    /\ UNCHANGED <<client_fds, stream, strayed>>

(* ... or there is no further instance: the client's is closed, and without a
   listening one every later poll fails.                                       *)
ListenerLost ==
    /\ Polled /\ ~NextInstance
    /\ backlog' = Tail(backlog)
    /\ listening' = FALSE
    /\ UNCHANGED <<platform, frameVars, client_fds, ends, leaked, stream, clientVars, strayed>>

(* Mutant of Drop: the slot keeps its client. *)
DropKeepsSlot(s) ==
    /\ client_fds[s] # NoClient
    /\ ~Open(client_fds[s])
    /\ ends' = ends \ {client_fds[s]}
    /\ UNCHANGED <<platform, frameVars, client_fds, backlog, listening, leaked, stream,
                   clientVars, strayed>>

(* server_drop_client: the end of the stream was read (POSIX), or a notification
   could not be sent.                                                           *)
Drop(s) ==
    /\ client_fds[s] # NoClient
    /\ ~Open(client_fds[s])
    /\ client_fds' = [client_fds EXCEPT ![s] = NoClient]
    /\ ends' = ends \ {client_fds[s]}
    /\ UNCHANGED <<platform, frameVars, backlog, listening, leaked, stream, clientVars, strayed>>

-----------------------------------------------------------------------------
(* session_connect *)

Goto(c, label) == cpc' = [cpc EXCEPT ![c] = label]

(* The socket is closed and the frames received so far are freed. *)
Ends(c, label) ==
    /\ Goto(c, label)
    /\ stream' = [stream EXCEPT ![c] = <<>>]
    /\ got' = [got EXCEPT ![c] = <<>>]

(* texlink_socket_connect: a queue of connections, or the one listening instance. *)
Connect(c) ==
    /\ cpc[c] = "created"
    /\ listening /\ Len(backlog) < (IF Win32 THEN 1 ELSE MaxClients)
    /\ backlog' = Append(backlog, c)
    /\ Goto(c, "greet")
    /\ UNCHANGED <<platform, frameVars, client_fds, listening, ends, leaked, stream, got, strayed>>

(* On Win32, no instance for five seconds. *)
ConnectGivesUp(c) ==
    /\ Win32
    /\ cpc[c] = "created"
    /\ ~listening \/ backlog # <<>>
    /\ Goto(c, "error")
    /\ UNCHANGED <<platform, frameVars, serverVars, stream, got, strayed>>

(* The handshake, then item after item, each for what its place says it is. *)
RecvHandshake(c) ==
    /\ cpc[c] = "greet" /\ stream[c] # <<>>
    /\ stream' = [stream EXCEPT ![c] = Tail(@)]
    /\ Goto(c, "handles")
    /\ UNCHANGED <<platform, frameVars, serverVars, got, strayed>>

RecvItem(c) ==
    /\ cpc[c] = "handles" /\ stream[c] # <<>>
    /\ got' = [got EXCEPT ![c] = Append(@, Head(stream[c]))]
    /\ stream' = [stream EXCEPT ![c] = Tail(@)]
    /\ Goto(c, IF Len(got[c]) + 1 = Len(Expected) THEN "connected" ELSE "handles")
    /\ UNCHANGED <<platform, frameVars, serverVars, strayed>>

Eof(c) == c \notin ends /\ c \notin ToSet(backlog)

(* Mutant of RecvFails: only a lost handshake is noticed. *)
RecvFailsGreeting(c) ==
    /\ cpc[c] = "greet" /\ stream[c] = <<>> /\ Eof(c)
    /\ Ends(c, "error")
    /\ UNCHANGED <<platform, frameVars, serverVars, strayed>>

(* recv fails: the server has closed its end. *)
RecvFails(c) ==
    /\ cpc[c] \in {"greet", "handles"} /\ stream[c] = <<>> /\ Eof(c)
    /\ Ends(c, "error")
    /\ UNCHANGED <<platform, frameVars, serverVars, strayed>>

(* The client fails, disconnects, or its process ends. *)
Leave(c) ==
    /\ Open(c)
    /\ Ends(c, "gone")
    /\ UNCHANGED <<platform, frameVars, serverVars, strayed>>

-----------------------------------------------------------------------------
ServerPoll == AcceptClient \/ AcceptPart \/ AcceptRefuse \/ AcceptLeaks \/ ListenerLost

SessionConnect(c) == RecvHandshake(c) \/ RecvItem(c) \/ RecvFails(c)

Next ==
    \/ ServerPoll
    \/ \E s \in Slot : Drop(s)
    \/ \E i \in Buf : SetSync(i)
    \/ \E c \in Client : Connect(c) \/ ConnectGivesUp(c) \/ SessionConnect(c) \/ Leave(c)

(* The producer polls again and again, and a client that connects is scheduled. *)
Fairness == WF_vars(ServerPoll) /\ \A c \in Client : WF_vars(SessionConnect(c))

Spec == Init /\ [][Next]_vars /\ Fairness
=============================================================================
