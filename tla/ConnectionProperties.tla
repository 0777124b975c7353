------------------------ MODULE ConnectionProperties ------------------------
(***************************************************************************)
(* What a client that connects, and the server it connects to, may rely on. *)
(***************************************************************************)
EXTENDS Connection

Item == [what : {"hello", "handle", "fence"}, buf : 0..BufCount]

(* Every variable has its type.  A slot's client has its end of the server open,
   two slots never have the same client, and a pipe never has more instances than
   it was created with.                                                          *)
TypeOK ==
    /\ platform \in Platforms
    /\ fenced \subseteq Buf /\ hello \in BOOLEAN
    /\ client_fds \in [Slot -> Client \cup {NoClient}]
    /\ backlog \in Seq(Client) /\ listening \in BOOLEAN
    /\ ends \subseteq Client /\ leaked \subseteq Client /\ strayed \subseteq Client
    /\ stream \in [Client -> Seq(Item)] /\ got \in [Client -> Seq(Item)]
    /\ cpc \in [Client -> {"created", "greet", "handles", "connected", "error", "gone"}]
    /\ \A s \in Slot : client_fds[s] # NoClient => client_fds[s] \in ends
    /\ \A s, t \in Slot : client_fds[s] = client_fds[t] /\ client_fds[s] # NoClient => s = t
    /\ Win32 => Instances <= MaxClients

(* A connected client has every buffer's handle as that buffer's handle, and every
   fence as that buffer's fence, and nothing of the handshake is left to be taken for
   a notification; what broke off half-way never counts as connected.  Excepted are
   clients a Win32 server accepted while some frame had a fence and the handshake,
   which speaks of all of them, said none, or the other way round (session.c:444).     *)
HandlesMatch ==
    \A c \in Client \ strayed :
        cpc[c] = "connected" =>
            /\ Len(got[c]) = Len(Expected) /\ stream[c] = <<>>
            /\ \A k \in DOMAIN Expected : got[c][k] = Expected[k]
            /\ \A i \in Buf : Handle(i) \in ToSet(got[c])

(* Every end that the server has open belongs to a slot, so refused clients, broken
   handshakes and dropped clients use up neither descriptors nor pipe instances;
   excepted are the pipes for which socket_alloc failed (socket_win32.c:36).  Only a
   pipe's listener is ever lost (socket_win32.c:109).                               *)
EndsAccounted ==
    /\ ends = {c \in Client : Registered(c)} \cup leaked
    /\ leaked # {} \/ ~listening => Win32

(* What becomes of those clients.  Where the handshake said fence they wait for items
   that nobody sends and never count as connected.  Where it said none the fence of the
   first frame that has one by now is taken for the handle of the next frame, and what
   was sent behind it is left in the stream in the place of notifications.            *)
StrayedMisread ==
    \A c \in strayed :
        cpc[c] = "connected" =>
            /\ ~hello
            /\ \E j \in fenced :
                  /\ \A k \in 1..j : got[c][k] = Handle(k)
                  /\ j < BufCount => got[c][j + 1] = Fence(j)
            /\ Registered(c) => stream[c] # <<>>

(* Whose recv in session_connect blocks will be answered: it is the server's turn to
   accept, or something is on its way, or the end of the stream is seen.  Excepted are
   leaked pipes, and clients that were promised a fence that is not sent.              *)
NobodyWaitsInVain ==
    \A c \in Client :
        cpc[c] \in {"greet", "handles"} /\ stream[c] = <<>> /\ ~Eof(c) =>
            \/ c \in ToSet(backlog)
            \/ cpc[c] = "greet" /\ c \in leaked
            \/ cpc[c] = "handles" /\ c \in strayed /\ hello

(* A client in session_connect gets its handles or an error, refused, half served or
   waiting while others come and go: its blocking recv returns.  Excepted are leaked
   pipes, and clients that were promised a fence that is not sent.                   *)
ConnectAnswered ==
    \A c \in Client :
        cpc[c] \in {"greet", "handles"} ~>
            \/ cpc[c] \notin {"greet", "handles"}
            \/ cpc[c] = "greet" /\ c \in leaked
            \/ cpc[c] = "handles" /\ c \in strayed /\ hello

-----------------------------------------------------------------------------
(* To the handshake a client that strayed is not connected, whatever it believes. *)
Phase(c) ==
    CASE cpc[c] = "created" -> "new"
      [] cpc[c] = "connected" /\ c \notin strayed -> "connected"
      [] cpc[c] \in {"error", "gone"} -> "ended"
      [] OTHER -> "connecting"

Greeting == INSTANCE Handshake WITH
                slots <- client_fds,
                waiting <- ToSet(backlog),
                greeted <- {c \in Client : Phase(c) = "connecting" /\ Registered(c)},
                phase <- [c \in Client |-> Phase(c)],
                running <- TRUE,
                Unreliable <- FALSE

(* The items that are counted off, the pipe instances and the transfers that break off
   implement the handshake, in which a client is greeted as a whole or not at all.     *)
ImplementsHandshake == Greeting!Spec
=============================================================================
