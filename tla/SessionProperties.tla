-------------------------- MODULE SessionProperties --------------------------
(***************************************************************************)
(* What must hold of the session, and the fairness under which it moves.   *)
(***************************************************************************)
EXTENDS Session

(* Every variable has its type.  The counters are bounded by what the code
   can count: the slots, and a client's references to a buffer.             *)
TypeOK ==
    /\ state \in {"LISTENING", "CONNECTED", "CLOSED"}
    /\ client_fds \in [Slot -> Client \cup {NoClient}]
    /\ client_refs \in [Slot -> [Buf -> Nat]]
    /\ write_idx \in Buf
    /\ frame_refs \in [Buf -> Nat]
    /\ current_idx \in Buf
    /\ frame_id \in 0..MaxFrames
    /\ pc \in {"app", "accept", "drain", "send", "closed"}
    /\ slot \in Slot
    /\ writing \in Buf \cup {NoBuf}
    /\ backlog \in Seq(Client)
    /\ down \in [Client -> Seq(FrameMsg)]
    /\ up \in [Client -> Seq(Buf)]
    /\ cstate \in [Client -> {"CREATED", "CONNECTING", "CONNECTED", "ERROR",
                              "DISCONNECTED"}]
    /\ cpc \in [Client -> {"idle", "recv", "skip", "wait", "close"}]
    /\ msg \in [Client -> FrameMsg]
    /\ acquired_refs \in [Client -> [Buf -> Nat]]
    /\ last_frame_id \in [Client -> Nat]
    /\ content \in [Buf -> Nat]
    /\ held \in [Client -> [Buf -> Nat]]

-----------------------------------------------------------------------------
(* The references of a buffer. *)

Holders(b) == {s \in Slot : client_refs[s][b] = 1}

(* While the server runs, frame_refs counts exactly the slots that have a
   reference to the buffer, no slot has two, a slot without a client has none,
   and the buffer the application is writing has none (begin_frame, end_frame,
   server_handle_client_releases, server_drop_client).                      *)
RefAccounting ==
    pc # "closed" =>
        /\ \A s \in Slot, b \in Buf : client_refs[s][b] \in {0, 1}
        /\ \A s \in Slot : client_fds[s] = NoClient => client_refs[s] = NoRefs
        /\ \A b \in Buf : frame_refs[b] = Cardinality(Holders(b))
        /\ writing # NoBuf => frame_refs[writing] = 0

Count(S) == Cardinality(S)

(* Where a reference is: in a notification that was not read, in the hands of
   acquire, with the application, or in a release that was not read.        *)
Tokens(c, b) ==
    Count({i \in 1..Len(down[c]) : down[c][i].buf_idx = b})
    + (IF msg[c].buf_idx = b THEN 1 ELSE 0)
    + acquired_refs[c][b]
    + Count({i \in 1..Len(up[c]) : up[c][i] = b})

(* The server's count of a connected client's references is exactly what the
   client and the two streams still have of them, so no release is lost or sent
   twice; only a notification whose fence fd was lost is never given back.  As
   no count exceeds one, a stream never holds more than FrameCount messages and
   no send of either process can block on a full socket.                     *)
LeaseAccounting ==
    \A s \in Slot, b \in Buf :
        LET c == client_fds[s] IN
        c # NoClient /\ Open(c) =>
            \/ Tokens(c, b) = client_refs[s][b]
            \/ FenceRecvFails /\ Tokens(c, b) < client_refs[s][b]

(* The frames a client has been told of and has not given back. *)
Leases(c) ==
    IF ~Open(c) THEN {}
    ELSE (({down[c][i] : i \in 1..Len(down[c])} \cup {msg[c]}) \ {Hello})
         \cup {[frame_id |-> held[c][b], buf_idx |-> b] :
                 b \in {a \in Buf : acquired_refs[c][a] > 0}}

(* A frame a client reads, or may come to read, is still in its buffer, whole:
   the producer has not begun to write there.  If sends may fail a client can
   be dropped while it is alive, and the server protects it no longer.       *)
HeldFrameIntact ==
    \A c \in Client :
        (ServerIoFails => Registered(c)) =>
            \A m \in Leases(c) : content[m.buf_idx] = m.frame_id

(* begin_frame refuses a buffer only for a reason: for every buffer it could give there
   is a client that has a reference to it, or one that ended and whose end the next
   server_poll finds.  Only a notification whose fence fd was lost stays for nothing.  *)
RefusedForAReason ==
    pc = "app" /\ writing = NoBuf /\ (\A b \in Buf : ~BeginReturns(b)) =>
        \A b \in Buf : (FrameCount = 1 \/ b # current_idx) =>
            \E s \in Holders(b) :
                /\ client_fds[s] # NoClient
                /\ \/ ~Open(client_fds[s])
                   \/ Tokens(client_fds[s], b) = 1
                   \/ FenceRecvFails

-----------------------------------------------------------------------------
(* Each acquire that takes a frame takes a newer one than the last it took
   ("authoritative, ordered", session.c:185), although the connection skips
   frames and frames are given back after a timeout.                         *)
FrameIdsIncrease ==
    [][\A c \in Client : cpc[c] = "recv" /\ cpc'[c] = "wait"
                            => last_frame_id'[c] > last_frame_id[c]]_vars

(* The drain loop gives a frame back only for a newer notification, which is there to be
   received, unless the server has closed the connection since: the recv that follows does
   not block, and an acquire loses its frame only with the connection.                   *)
SkippedForNewer ==
    \A c \in Client : cpc[c] = "skip" => down[c] # <<>> \/ Eof(c)

(* An acquire that has received a notification goes on to its newest frame: the
   process may end, but acquire does not return without a frame before it has
   waited for the fence (session_consumer_acquire, its drain loop).          *)
AcquireDelivers ==
    [][\A c \in Client : cpc[c] \in {"recv", "skip"} /\ cstate'[c] = "CONNECTED"
                            => cpc'[c] # "idle"]_vars

(* Closing, crashing, skipping and timing out are returns of leases; the slots
   and counters implement the lease protocol of FrameLease.                  *)
Lease == INSTANCE FrameLease WITH
            writer <- writing,
            published <- frame_id,
            lease <- [c \in Client |-> Leases(c)]

Refines == Lease!Spec

(* The handshake as Connection has it, too: Hello waits for the clients greeted. *)
Phase(c) ==
    CASE cstate[c] = "CREATED" -> "new"
      [] cstate[c] = "CONNECTING" -> "connecting"
      [] cstate[c] = "CONNECTED" -> "connected"
      [] OTHER -> "ended"

Greeting == INSTANCE Handshake WITH
                slots <- client_fds,
                waiting <- {c \in Client : Queued(c)},
                greeted <- {c \in Client : cstate[c] = "CONNECTING" /\ down[c] # <<>>},
                phase <- [c \in Client |-> Phase(c)],
                running <- pc # "closed",
                Unreliable <- ServerIoFails

(* What server_poll and connect do with a client, with frames sent, clients dropped and
   slots used again in between, is the handshake of which Connection shows the items. *)
ImplementsHandshake == Greeting!Spec

-----------------------------------------------------------------------------
(* The producer's loop (every producer under examples/) polls and asks for a
   buffer in each iteration; a running call goes on.  A process that has entered
   acquire, connect or close is scheduled until it returns.  An application
   releases what it acquired and acquires again.  Nothing has to end or fail. *)
Fairness ==
    /\ SF_vars(StartPoll) /\ SF_vars(BeginFrame) /\ SF_vars(EndFrame)
    /\ WF_vars(AcceptRefuse \/ AcceptFail \/ AcceptClient \/ AcceptDone
                 \/ HandleRelease \/ HandleEof \/ HandleNothing)
    /\ WF_vars(SkipSlot \/ SendFrame \/ SendFail)
    /\ \A c \in Client :
         /\ WF_vars(Connected(c) \/ ConnectFails(c))
         /\ WF_vars(Receive(c) \/ SkipOld(c) \/ RecvFails(c) \/ TakeNewest(c)
                      \/ AcquireReturns(c) \/ SyncTimeout(c))
         /\ SF_vars(\E b \in Buf : Release(c, b))
         /\ WF_vars(CloseRelease(c) \/ CloseSocket(c))

FairSpec == Spec /\ Fairness

(* The slot of a client that died or left, with the references on it, is found
   and given back by the polls of the server, whatever the client was doing
   (server_handle_client_releases sees the end of its stream).               *)
DeadClientReclaimed ==
    \A c \in Client : Registered(c) /\ ~Open(c) ~> ~Registered(c)

(* A connecting client is not left waiting for a handshake that never comes:
   it is connected, refused, or told that the server ended (session_connect).*)
ConnectAnswered ==
    \A c \in Client : cstate[c] = "CONNECTING" ~> cstate[c] # "CONNECTING"

(* As long as the clients that live keep acquiring and releasing, the producer
   always gets a buffer again: no reference stays behind with a client that
   died, in a skipped notification or after a timeout.                       *)
ProducerProgress ==
    \A n \in 0..(MaxFrames - 1) :
        frame_id = n ~> frame_id > n \/ pc = "closed"
=============================================================================
