---------------------------- MODULE SessionProofs ----------------------------
(***************************************************************************)
(* Theorems about Session, for every number of clients, slots and frames,  *)
(* every buffering mode and either platform.                               *)
(***************************************************************************)
EXTENDS SessionProperties, FiniteSetTheorems, SequenceTheorems, TLAPS

(* TypeOK with the counters that are subtracted from taken as integers: that
   they stay natural is a consequence of RefInv.                             *)
TypeInt ==
    /\ state \in {"LISTENING", "CONNECTED", "CLOSED"}
    /\ client_fds \in [Slot -> Client \cup {NoClient}]
    /\ client_refs \in [Slot -> [Buf -> Nat]]
    /\ write_idx \in Buf
    /\ frame_refs \in [Buf -> Int]
    /\ current_idx \in Buf
    /\ frame_id \in 0..MaxFrames
    /\ pc \in {"app", "accept", "drain", "send", "closed"}
    /\ slot \in Slot
    /\ writing \in Buf \cup {NoBuf}
    /\ backlog \in Seq(Client)
    /\ down \in [Client -> Seq(FrameMsg)]
    /\ up \in [Client -> Seq(Buf)]
    /\ cstate \in [Client -> {"CREATED", "CONNECTING", "CONNECTED", "ERROR",
                              "DISCONNECTED"}]
    /\ cpc \in [Client -> {"idle", "recv", "skip", "wait", "close"}]
    /\ msg \in [Client -> FrameMsg]
    /\ acquired_refs \in [Client -> [Buf -> Nat]]
    /\ last_frame_id \in [Client -> Nat]
    /\ content \in [Buf -> Nat]
    /\ held \in [Client -> [Buf -> Nat]]

(* A connection is in one place: not attempted, in the backlog once, or with
   the server.  Nothing was sent to it before it was accepted.               *)
BacklogInv ==
    /\ \A i, j \in 1..Len(backlog) : backlog[i] = backlog[j] => i = j
    /\ \A i \in 1..Len(backlog) :
         /\ down[backlog[i]] = <<>>
         /\ cstate[backlog[i]] \notin {"CREATED", "CONNECTED"}
         /\ \A s \in Slot : client_fds[s] # backlog[i]
    /\ \A s \in Slot : client_fds[s] \in Client => cstate[client_fds[s]] # "CREATED"
    /\ \A c \in Client : cstate[c] = "CREATED" => down[c] = <<>>

(* A stream carries the handshake first and only once, then frames. *)
HelloFirst ==
    \A c \in Client : \A i \in 1..Len(down[c]) :
        down[c][i].buf_idx = NoBuf => i = 1 /\ cstate[c] = "CONNECTING"

(* Only a connected client is inside acquire or close, and acquire has a frame
   in hand once it has received one.                                         *)
InHand ==
    \A c \in Client :
        /\ cpc[c] # "idle" => cstate[c] = "CONNECTED"
        /\ cpc[c] \in {"recv", "wait"} => msg[c].buf_idx \in Buf

(* The bound on the frames holds while one is written. *)
WriteBound == writing # NoBuf => frame_id < MaxFrames

StreamInv == BacklogInv /\ HelloFirst /\ InHand /\ WriteBound

LEMMA InitType == Init => TypeInt /\ StreamInv
  <1> SUFFICES ASSUME Init PROVE TypeInt /\ StreamInv
    OBVIOUS
  <1> USE SessionAssumption DEF Init, Slot, Buf, NoBuf, NoRefs, FrameMsg, Hello
  <1>1. TypeInt
    BY DEF TypeInt
  <1>2. StreamInv
    BY DEF StreamInv, BacklogInv, HelloFirst, InHand, WriteBound
  <1> QED
    BY <1>1, <1>2

(* What a stream or the backlog takes and returns, over messages of S. *)
QueueFacts(S) ==
    /\ <<>> \in Seq(S)
    /\ \A q \in Seq(S) : q # <<>> => Head(q) \in S /\ Tail(q) \in Seq(S)
    /\ \A q \in Seq(S) : \A e \in S : Append(q, e) \in Seq(S)

LEMMA QueueTypes == ASSUME NEW S PROVE QueueFacts(S)
  BY HeadTailProperties, AppendProperties, EmptySeq DEF QueueFacts

LEMMA NextSlotType == TypeInt /\ NextSlot => slot' \in Slot /\ pc' \in {pc, "app"}
  BY SessionAssumption DEF TypeInt, NextSlot, Slot

LEMMA SendReleaseType ==
    ASSUME TypeInt, NEW c \in Client, NEW b \in Buf, SendRelease(c, b)
    PROVE  up' \in [Client -> Seq(Buf)]
  <1>1. Append(up[c], b) \in Seq(Buf)
    BY AppendProperties DEF TypeInt
  <1> QED
    BY <1>1 DEF TypeInt, SendRelease

LEMMA DropRefType ==
    ASSUME TypeInt, NEW c \in Client, NEW b \in Buf, DropRef(c, b),
           acquired_refs[c][b] > 0
    PROVE  /\ acquired_refs' \in [Client -> [Buf -> Nat]]
           /\ held' \in [Client -> [Buf -> Nat]]
  <1>1. acquired_refs[c] \in [Buf -> Nat]
    BY DEF TypeInt
  <1>2. acquired_refs[c][b] \in Nat
    BY <1>1
  <1>3. acquired_refs[c][b] - 1 \in Nat
    BY <1>2
  <1> QED
    BY <1>3 DEF TypeInt, DropRef

LEMMA CountDownType ==
    ASSUME NEW refs \in [Slot -> [Buf -> Nat]], NEW sums \in [Buf -> Int],
           NEW s \in Slot, NEW b \in Buf, refs[s][b] # 0
    PROVE  /\ [refs EXCEPT ![s][b] = @ - 1] \in [Slot -> [Buf -> Nat]]
           /\ [sums EXCEPT ![b] = @ - 1] \in [Buf -> Int]
  <1>1. refs[s] \in [Buf -> Nat]
    OBVIOUS
  <1>2. refs[s][b] \in Nat
    BY <1>1
  <1>3. refs[s][b] - 1 \in Nat
    BY <1>2
  <1>4. sums[b] - 1 \in Int
    OBVIOUS
  <1> QED
    BY <1>1, <1>3, <1>4

LEMMA AcquiredType ==
    ASSUME TypeInt, NEW c \in Client, NEW b \in Buf
    PROVE  [acquired_refs EXCEPT ![c][b] = @ + 1] \in [Client -> [Buf -> Nat]]
  <1>1. acquired_refs \in [Client -> [Buf -> Nat]]
    BY DEF TypeInt
  <1>2. acquired_refs[c] \in [Buf -> Nat]
    BY <1>1
  <1>3. acquired_refs[c][b] \in Nat
    BY <1>2
  <1>4. acquired_refs[c][b] + 1 \in Nat
    BY <1>3
  <1> QED
    BY <1>1, <1>2, <1>4

LEMMA CountType ==
    ASSUME TypeInt
    PROVE  /\ CountRef(client_refs, slot) \in [Slot -> [Buf -> Nat]]
           /\ CountSum(frame_refs) \in [Buf -> Int]
  <1>1. client_refs[slot][current_idx] + 1 \in Nat
    BY DEF TypeInt
  <1>2. frame_refs[current_idx] + 1 \in Int
    BY DEF TypeInt
  <1> QED
    BY <1>1, <1>2 DEF TypeInt, CountRef, CountSum

LEMMA DropClientType ==
    ASSUME TypeInt, NEW s \in Slot, NEW refs \in [Slot -> [Buf -> Nat]],
           NEW sums \in [Buf -> Int], DropClient(s, refs, sums)
    PROVE  /\ client_fds' \in [Slot -> Client \cup {NoClient}]
           /\ client_refs' \in [Slot -> [Buf -> Nat]]
           /\ frame_refs' \in [Buf -> Int]
           /\ up' \in [Client -> Seq(Buf)]
  <1>1. NoRefs \in [Buf -> Nat]
    BY DEF NoRefs
  <1>2. \A b \in Buf : sums[b] - refs[s][b] \in Int
    OBVIOUS
  <1>3. <<>> \in Seq(Buf)
    BY EmptySeq
  <1> QED
    BY <1>1, <1>2, <1>3 DEF TypeInt, DropClient

(* What is left in the streams when the server closes connections. *)
LEMMA ClosedStreams ==
    ASSUME TypeInt, HandleEof \/ SendFail \/ ServerDestroy \/ ServerCrash
    PROVE  /\ down' \in [Client -> Seq(FrameMsg)]
           /\ \A c \in Client : down'[c] \in {down[c], <<>>}
  <1>1. <<>> \in Seq(FrameMsg) /\ down \in [Client -> Seq(FrameMsg)]
    BY EmptySeq DEF TypeInt
  <1>2. CASE HandleEof \/ SendFail
    BY <1>1, <1>2 DEF HandleEof, SendFail, DropClient, AfterClose
  <1>3. CASE ServerDestroy \/ ServerCrash
    BY <1>1, <1>3 DEF ServerDestroy, ServerCrash, ServerGone, AfterClose
  <1> QED
    BY <1>2, <1>3

LEMMA TypeStep == TypeInt /\ StreamInv /\ [Next]_vars => TypeInt'
  <1> SUFFICES ASSUME TypeInt, StreamInv, [Next]_vars
               PROVE  TypeInt'
    OBVIOUS
  <1> USE DEF TypeInt, serverVars, shmVars, netVars, clientVars
  <1>hello. Hello \in FrameMsg
    BY DEF Hello, FrameMsg, NoBuf
  <1>norefs. NoRefs \in [Buf -> Nat]
    BY DEF NoRefs
  <1>slot. 1 \in Slot
    BY SessionAssumption DEF Slot
  <1>queues. QueueFacts(FrameMsg) /\ QueueFacts(Buf) /\ QueueFacts(Client)
    BY QueueTypes
  <1>inhand. \A c \in Client : /\ msg[c] \in FrameMsg
                               /\ msg[c].frame_id \in Nat
                               /\ cpc[c] \in {"recv", "wait"} => msg[c].buf_idx \in Buf
    BY DEF StreamInv, InHand, FrameMsg
  <1>1. CASE StartPoll
    BY <1>1 DEF StartPoll
  <1>2. CASE AcceptRefuse
    BY <1>2, <1>queues DEF QueueFacts, AcceptRefuse
  <1>3. CASE AcceptFail
    BY <1>3, <1>queues DEF QueueFacts, AcceptFail
  <1>4. CASE AcceptClient
    <2>1. Head(backlog) \in Client /\ Tail(backlog) \in Seq(Client)
      BY <1>4, <1>queues DEF QueueFacts, AcceptClient
    <2>2. Append(down[Head(backlog)], Hello) \in Seq(FrameMsg)
      BY <2>1, <1>hello, <1>queues DEF QueueFacts
    <2>3. down' \in [Client -> Seq(FrameMsg)]
      BY <1>4, <2>1, <2>2 DEF AcceptClient
    <2>4. client_fds' \in [Slot -> Client \cup {NoClient}]
      BY <1>4, <2>1 DEF AcceptClient
    <2> QED
      BY <1>4, <2>1, <2>3, <2>4 DEF AcceptClient
  <1>5. CASE AcceptDone
    BY <1>5, <1>slot DEF AcceptDone
  <1>6. CASE HandleRelease
    <2> DEFINE c == client_fds[slot]
               b == Head(up[c])
    <2>1. c \in Client /\ b \in Buf /\ Tail(up[c]) \in Seq(Buf)
      BY <1>6, <1>queues DEF QueueFacts, HandleRelease
    <2>2. up' \in [Client -> Seq(Buf)]
      BY <1>6, <2>1 DEF HandleRelease
    <2>3. CASE client_refs[slot][b] = 0
      BY <1>6, <2>2, <2>3 DEF HandleRelease
    <2>4. CASE client_refs[slot][b] # 0
      <3>1. /\ client_refs' = [client_refs EXCEPT ![slot][b] = @ - 1]
            /\ frame_refs' = [frame_refs EXCEPT ![b] = @ - 1]
        BY <1>6, <2>4 DEF HandleRelease
      <3>2. client_refs' \in [Slot -> [Buf -> Nat]] /\ frame_refs' \in [Buf -> Int]
        BY <2>1, <2>4, <3>1, CountDownType
      <3> QED
        BY <1>6, <2>2, <3>2 DEF HandleRelease
    <2> QED
      BY <2>3, <2>4
  <1>7. CASE HandleEof
    BY <1>7, NextSlotType, DropClientType, ClosedStreams DEF HandleEof
  <1>8. CASE HandleNothing
    BY <1>8, NextSlotType DEF HandleNothing
  <1>9. CASE BeginFrame
    BY <1>9 DEF BeginFrame
  <1>10. CASE EndFrame
    <2>1. writing \in Buf
      BY <1>10 DEF EndFrame
    <2>2. write_idx' \in Buf
      BY <1>10, <2>1, SessionAssumption DEF EndFrame, Buf
    <2>3. frame_id + 1 \in Nat
      BY SessionAssumption
    <2>4. content' \in [Buf -> Nat]
      BY <1>10, <2>1, <2>3 DEF EndFrame
    <2>5. frame_id' \in 0..MaxFrames
      BY <1>10, SessionAssumption DEF EndFrame, StreamInv, WriteBound
    <2> QED
      BY <1>10, <1>slot, <2>1, <2>2, <2>4, <2>5 DEF EndFrame
  <1>11. CASE SkipSlot
    BY <1>11, NextSlotType DEF SkipSlot
  <1>12. CASE SendFrame
    <2> DEFINE m == [frame_id |-> frame_id, buf_idx |-> current_idx]
    <2>1. client_fds[slot] \in Client
      BY <1>12 DEF SendFrame
    <2>2. m \in FrameMsg
      BY SessionAssumption DEF FrameMsg
    <2>3. Append(down[client_fds[slot]], m) \in Seq(FrameMsg)
      BY <2>1, <2>2, <1>queues DEF QueueFacts
    <2>4. down' \in [Client -> Seq(FrameMsg)]
      BY <1>12, <2>1, <2>3 DEF SendFrame
    <2>5. client_refs' \in [Slot -> [Buf -> Nat]] /\ frame_refs' \in [Buf -> Int]
      BY <1>12, CountType DEF SendFrame
    <2> QED
      BY <1>12, <2>4, <2>5, NextSlotType DEF SendFrame
  <1>13. CASE SendFail
    BY <1>13, CountType, NextSlotType, DropClientType, ClosedStreams DEF SendFail
  <1>14. CASE ServerDestroy
    <2>1. /\ up' \in [Client -> Seq(Buf)] /\ backlog' \in Seq(Client)
          /\ frame_refs' \in [Buf -> Int]
      BY <1>14, <1>norefs, <1>queues DEF ServerDestroy, ServerGone, QueueFacts
    <2> QED
      BY <1>14, <2>1, <1>slot, <1>norefs, ClosedStreams DEF ServerDestroy, ServerGone
  <1>15. CASE ServerCrash
    BY <1>15, <1>slot, <1>norefs, <1>queues DEF ServerCrash, ServerGone, QueueFacts
  <1>16. ASSUME NEW c \in Client, Connect(c) PROVE TypeInt'
    <2>1. Append(backlog, c) \in Seq(Client)
      BY <1>queues DEF QueueFacts
    <2> QED
      BY <1>16, <2>1 DEF Connect
  <1>17. ASSUME NEW c \in Client, Connected(c) PROVE TypeInt'
    BY <1>17, <1>queues DEF QueueFacts, Connected
  <1>18. ASSUME NEW c \in Client, ConnectFails(c) PROVE TypeInt'
    BY <1>18, <1>hello, <1>norefs, <1>queues DEF ConnectFails, ClientCloses, QueueFacts
  <1>19. ASSUME NEW c \in Client, Receive(c) PROVE TypeInt'
    BY <1>19, <1>queues DEF QueueFacts, Receive, SetMsg
  <1>20. ASSUME NEW c \in Client, ReceiveFails(c) PROVE TypeInt'
    BY <1>20, <1>hello, <1>queues DEF QueueFacts, ReceiveFails, SetMsg
  <1>21. ASSUME NEW c \in Client, SkipOld(c) PROVE TypeInt'
    <2>1. up' \in [Client -> Seq(Buf)]
      BY <1>21, <1>inhand, SendReleaseType DEF SkipOld
    <2> QED
      BY <1>21, <2>1, <1>hello DEF SkipOld, SetMsg
  <1>22. ASSUME NEW c \in Client, RecvFails(c) PROVE TypeInt'
    BY <1>22, <1>hello DEF RecvFails, SetMsg
  <1>23. ASSUME NEW c \in Client, TakeNewest(c) PROVE TypeInt'
    BY <1>23 DEF TakeNewest, SetMsg, FrameMsg
  <1>24. ASSUME NEW c \in Client, AcquireReturns(c) PROVE TypeInt'
    <2> DEFINE b == msg[c].buf_idx
    <2>1. b \in Buf
      BY <1>24, <1>inhand DEF AcquireReturns
    <2>2. acquired_refs' \in [Client -> [Buf -> Nat]]
      BY <1>24, <2>1, AcquiredType DEF AcquireReturns
    <2>3. held' \in [Client -> [Buf -> Nat]]
      BY <1>24, <2>1, <1>inhand DEF AcquireReturns
    <2> QED
      BY <1>24, <2>2, <2>3, <1>hello DEF AcquireReturns, SetMsg
  <1>25. ASSUME NEW c \in Client, SyncTimeout(c) PROVE TypeInt'
    <2>1. up' \in [Client -> Seq(Buf)]
      BY <1>25, <1>inhand, SendReleaseType DEF SyncTimeout
    <2> QED
      BY <1>25, <2>1, <1>hello DEF SyncTimeout, SetMsg
  <1>26. ASSUME NEW c \in Client, NEW b \in Buf, Release(c, b) PROVE TypeInt'
    BY <1>26, SendReleaseType, DropRefType DEF Release
  <1>27. ASSUME NEW c \in Client, Disconnect(c) PROVE TypeInt'
    BY <1>27 DEF Disconnect
  <1>28. ASSUME NEW c \in Client, CloseRelease(c) PROVE TypeInt'
    BY <1>28, SendReleaseType, DropRefType DEF CloseRelease
  <1>29. ASSUME NEW c \in Client, CloseSocket(c) PROVE TypeInt'
    BY <1>29, <1>hello, <1>norefs, <1>queues DEF CloseSocket, ClientCloses, QueueFacts
  <1>30. ASSUME NEW c \in Client, ClientCrash(c) PROVE TypeInt'
    BY <1>30, <1>hello, <1>norefs, <1>queues DEF ClientCrash, ClientCloses, QueueFacts
  <1>31. CASE UNCHANGED vars
    BY <1>31 DEF vars
  <1> QED
    BY <1>1, <1>2, <1>3, <1>4, <1>5, <1>6, <1>7, <1>8, <1>9, <1>10, <1>11,
       <1>12, <1>13, <1>14, <1>15, <1>16, <1>17, <1>18, <1>19, <1>20, <1>21,
       <1>22, <1>23, <1>24, <1>25, <1>26, <1>27, <1>28, <1>29, <1>30, <1>31
    DEF Next, ServerPoll, ServerPublish, ClientConnect, ClientAcquire,
        ClientClose, AllEnded

-----------------------------------------------------------------------------
(* Elements of the sequences that streams become. *)
LEMMA AppendElements ==
    ASSUME NEW S, NEW q \in Seq(S), NEW e \in S
    PROVE  /\ Len(Append(q, e)) = Len(q) + 1 /\ Len(q) \in Nat
           /\ \A i \in 1..Len(Append(q, e)) :
                \/ i \in 1..Len(q) /\ Append(q, e)[i] = q[i]
                \/ i = Len(q) + 1 /\ Append(q, e)[i] = e
  BY AppendProperties, LenProperties

LEMMA TailElements ==
    ASSUME NEW S, NEW q \in Seq(S), q # <<>>
    PROVE  /\ Len(Tail(q)) = Len(q) - 1 /\ Len(q) \in Nat \ {0}
           /\ \A i \in 1..Len(Tail(q)) : i + 1 \in 1..Len(q) /\ Tail(q)[i] = q[i + 1]
           /\ Head(q) = q[1] /\ 1 \in 1..Len(q)
  BY HeadTailProperties, LenProperties, EmptySeq

LEMMA BacklogStep ==
    ASSUME TypeInt, StreamInv, [Next]_vars
    PROVE  BacklogInv'
  <1> USE DEF StreamInv, BacklogInv
  <1>type. /\ down \in [Client -> Seq(FrameMsg)]
           /\ DOMAIN cstate = Client
           /\ client_fds \in [Slot -> Client \cup {NoClient}]
           /\ backlog \in Seq(Client)
           /\ \A i \in 1..Len(backlog) : backlog[i] \in Client
           /\ Len(backlog) \in Nat
           /\ NoClient \notin Client /\ slot \in Slot
    BY SessionAssumption, LenProperties DEF TypeInt
  <1>head. backlog # <<>> =>
             /\ Head(backlog) \in Client /\ Head(backlog) = backlog[1]
             /\ Tail(backlog) \in Seq(Client)
             /\ Len(Tail(backlog)) = Len(backlog) - 1
             /\ Len(backlog) \in Nat \ {0} /\ 1 \in 1..Len(backlog)
             /\ \A i \in 1..Len(Tail(backlog)) : /\ i + 1 \in 1..Len(backlog)
                                                /\ Tail(backlog)[i] = backlog[i + 1]
    BY <1>type, TailElements, HeadTailProperties
  (* The actions that take a connection out of the backlog. *)
  <1>1. ASSUME AcceptRefuse \/ AcceptFail PROVE BacklogInv'
    <2>1. /\ backlog # <<>> /\ backlog' = Tail(backlog)
          /\ UNCHANGED <<down, cstate, client_fds>>
      BY <1>1 DEF AcceptRefuse, AcceptFail, serverVars, clientVars
    <2> QED
      BY <2>1, <1>head, <1>type
  <1>2. ASSUME AcceptClient PROVE BacklogInv'
    <2> DEFINE c == Head(backlog)
    <2>1. /\ backlog # <<>> /\ backlog' = Tail(backlog) /\ Open(c)
          /\ down' = [down EXCEPT ![c] = Append(@, Hello)]
          /\ cstate' = cstate
      BY <1>2 DEF AcceptClient, clientVars
    <2>2. PICK s \in Slot : client_fds' = [client_fds EXCEPT ![s] = c]
      BY <1>2 DEF AcceptClient
    <2>3. \A i \in 1..Len(Tail(backlog)) : Tail(backlog)[i] # c
      BY <2>1, <1>head
    <2>4. cstate[c] = "CONNECTING" /\ c \in Client
      BY <2>1, <1>head DEF Open
    <2> QED
      BY <2>1, <2>2, <2>3, <2>4, <1>head, <1>type
  (* The actions that close a slot. *)
  <1>3. ASSUME HandleEof \/ SendFail PROVE BacklogInv'
    <2>1. /\ client_fds' = [client_fds EXCEPT ![slot] = NoClient]
          /\ UNCHANGED <<backlog, cstate>>
          /\ \A c \in Client : down'[c] \in {down[c], <<>>}
      BY <1>3, ClosedStreams DEF HandleEof, SendFail, DropClient, clientVars
    <2> QED
      BY <2>1, <1>type
  <1>4. ASSUME ServerDestroy \/ ServerCrash PROVE BacklogInv'
    <2>1. Len(backlog') = 0
      BY <1>4 DEF ServerDestroy, ServerCrash, ServerGone
    <2> QED
      BY <1>4, <2>1, ClosedStreams, SessionAssumption
      DEF ServerDestroy, ServerCrash, ServerGone, clientVars
  <1>5. ASSUME SendFrame PROVE BacklogInv'
    <2> DEFINE c == client_fds[slot]
    <2>1. /\ \E m : down' = [down EXCEPT ![c] = Append(@, m)]
          /\ c \in Client /\ cstate[c] # "CREATED"
          /\ UNCHANGED <<backlog, cstate, client_fds>>
      BY <1>5, <1>type DEF SendFrame, Open, clientVars
    <2>2. \A i \in 1..Len(backlog) : backlog[i] # c
      BY <1>type
    <2> QED
      BY <2>1, <2>2, <1>type
  (* The actions of a client that change its state or read its stream. *)
  <1>6. ASSUME NEW c \in Client, Connect(c) PROVE BacklogInv'
    <2>1. CASE pc = "closed"
      BY <1>6, <2>1, <1>type DEF Connect, serverVars
    <2>2. CASE pc # "closed"
      <3>1. /\ backlog' = Append(backlog, c)
            /\ cstate' = [cstate EXCEPT ![c] = "CONNECTING"]
            /\ cstate[c] = "CREATED"
            /\ UNCHANGED <<down, client_fds>>
        BY <1>6, <2>2 DEF Connect, serverVars
      <3>2. /\ Len(backlog') = Len(backlog) + 1 /\ Len(backlog) \in Nat
            /\ \A i \in 1..Len(backlog') :
                 \/ i \in 1..Len(backlog) /\ backlog'[i] = backlog[i]
                 \/ i = Len(backlog) + 1 /\ backlog'[i] = c
        BY <3>1, <1>type, AppendElements
      <3>3. \A i \in 1..Len(backlog) : backlog[i] # c
        BY <3>1
      <3> QED
        BY <3>1, <3>2, <3>3, <1>type
    <2> QED
      BY <2>1, <2>2
  <1>7. ASSUME NEW c \in Client, Connected(c) PROVE BacklogInv'
    BY <1>7, <1>type DEF Connected, serverVars
  <1>8. ASSUME NEW c \in Client,
               ConnectFails(c) \/ CloseSocket(c) \/ ClientCrash(c)
        PROVE  BacklogInv'
    BY <1>8, <1>type DEF ConnectFails, CloseSocket, ClientCrash, ClientCloses, serverVars
  <1>9. ASSUME NEW c \in Client, Receive(c) \/ ReceiveFails(c)
        PROVE  BacklogInv'
    <2>1. down[c] # <<>> /\ cstate[c] = "CONNECTED"
      BY <1>9 DEF Receive, ReceiveFails, InHand
    <2>2. /\ down' = [down EXCEPT ![c] = Tail(@)]
          /\ UNCHANGED <<backlog, cstate, client_fds>>
      BY <1>9 DEF Receive, ReceiveFails, serverVars
    <2> QED
      BY <2>1, <2>2, <1>type
  <1>10. ASSUME UNCHANGED <<backlog, down, cstate, client_fds>> PROVE BacklogInv'
    BY <1>10
  <1>11. ASSUME NEW c \in Client,
                \/ SkipOld(c) \/ RecvFails(c) \/ TakeNewest(c) \/ AcquireReturns(c)
                \/ SyncTimeout(c) \/ Disconnect(c) \/ CloseRelease(c)
                \/ \E b \in Buf : Release(c, b)
         PROVE  UNCHANGED <<backlog, down, cstate, client_fds>>
    BY <1>11 DEF SkipOld, RecvFails, TakeNewest, AcquireReturns, SyncTimeout, Disconnect,
                 CloseRelease, Release, serverVars, netVars
  <1>12. ASSUME \/ StartPoll \/ AcceptDone \/ HandleRelease \/ HandleNothing
                \/ BeginFrame \/ EndFrame \/ SkipSlot \/ UNCHANGED vars
         PROVE  UNCHANGED <<backlog, down, cstate, client_fds>>
    BY <1>12 DEF StartPoll, AcceptDone, HandleRelease, HandleNothing, BeginFrame,
                 EndFrame, SkipSlot, vars, serverVars, netVars, clientVars
  <1> QED
    BY <1>1, <1>2, <1>3, <1>4, <1>5, <1>6, <1>7, <1>8, <1>9, <1>10, <1>11, <1>12
    DEF Next, ServerPoll, ServerPublish, ClientConnect, ClientAcquire,
        ClientClose, AllEnded

LEMMA HelloStep ==
    ASSUME TypeInt, StreamInv, [Next]_vars
    PROVE  HelloFirst'
  <1> USE DEF StreamInv, HelloFirst
  <1>type. /\ down \in [Client -> Seq(FrameMsg)]
           /\ \A c \in Client : Len(down[c]) \in Nat
           /\ DOMAIN cstate = Client
           /\ current_idx # NoBuf
    BY SessionAssumption, LenProperties DEF TypeInt, Buf, NoBuf
  <1>tail. ASSUME NEW c \in Client, down[c] # <<>>,
                  down' = [down EXCEPT ![c] = Tail(@)],
                  \A a \in Client : a # c => cstate'[a] = cstate[a]
           PROVE  HelloFirst'
    <2>1. /\ Len(Tail(down[c])) = Len(down[c]) - 1
          /\ \A i \in 1..Len(Tail(down[c])) : /\ i + 1 \in 1..Len(down[c])
                                             /\ Tail(down[c])[i] = down[c][i + 1]
      BY <1>tail, <1>type, TailElements
    <2>2. \A i \in 1..Len(down'[c]) : down'[c][i].buf_idx # NoBuf
      BY <1>tail, <1>type, <2>1
    <2> QED
      BY <1>tail, <1>type, <2>2
  (* The handshake goes out on a stream that is empty. *)
  <1>1. ASSUME AcceptClient PROVE HelloFirst'
    <2> DEFINE c == Head(backlog)
    <2>1. /\ down' = [down EXCEPT ![c] = Append(@, Hello)]
          /\ cstate' = cstate /\ backlog # <<>> /\ Open(c)
      BY <1>1 DEF AcceptClient, clientVars
    <2>2. c \in Client /\ c = backlog[1] /\ 1 \in 1..Len(backlog)
      BY <2>1, TailElements, HeadTailProperties DEF TypeInt
    <2>3. down[c] = <<>> /\ cstate[c] = "CONNECTING"
      BY <2>1, <2>2 DEF BacklogInv, Open
    <2>4. Len(down'[c]) = 1
      BY <2>1, <2>2, <2>3, <1>type
    <2> QED
      BY <2>1, <2>2, <2>3, <2>4, <1>type
  <1>2. ASSUME SendFrame PROVE HelloFirst'
    <2> DEFINE c == client_fds[slot]
               m == [frame_id |-> frame_id, buf_idx |-> current_idx]
    <2>1. /\ down' = [down EXCEPT ![c] = Append(@, m)]
          /\ cstate' = cstate /\ c \in Client
      BY <1>2 DEF SendFrame, clientVars, TypeInt
    <2>2. m \in FrameMsg /\ m.buf_idx # NoBuf
      BY <1>type, SessionAssumption DEF FrameMsg, TypeInt
    <2> HIDE DEF c, m
    <2>3. \A i \in 1..Len(Append(down[c], m)) :
             \/ i \in 1..Len(down[c]) /\ Append(down[c], m)[i] = down[c][i]
             \/ Append(down[c], m)[i] = m
      BY <2>1, <2>2, <1>type, AppendElements
    <2> QED
      BY <2>1, <2>2, <2>3, <1>type
  (* The actions of a client that change its state or read its stream. *)
  <1>3. ASSUME NEW c \in Client, Connect(c) PROVE HelloFirst'
    <2>1. down[c] = <<>> /\ down' = down
      BY <1>3 DEF Connect, BacklogInv
    <2>2. \A a \in Client : a # c => cstate'[a] = cstate[a]
      BY <1>3, <1>type DEF Connect
    <2> QED
      BY <2>1, <2>2, EmptySeq
  <1>4. ASSUME NEW c \in Client,
               Connected(c) \/ Receive(c) \/ ReceiveFails(c)
        PROVE  HelloFirst'
    <2>1. /\ down[c] # <<>> /\ down' = [down EXCEPT ![c] = Tail(@)]
          /\ \A a \in Client : a # c => cstate'[a] = cstate[a]
      BY <1>4, <1>type DEF Connected, Receive, ReceiveFails
    <2> QED
      BY <2>1, <1>tail
  <1>5. ASSUME NEW c \in Client,
               ConnectFails(c) \/ CloseSocket(c) \/ ClientCrash(c)
        PROVE  HelloFirst'
    <2>1. /\ down' = [down EXCEPT ![c] = <<>>]
          /\ \A a \in Client : a # c => cstate'[a] = cstate[a]
      BY <1>5, <1>type DEF ConnectFails, CloseSocket, ClientCrash, ClientCloses
    <2> QED
      BY <2>1, <1>type, EmptySeq
  <1>6. ASSUME UNCHANGED <<down, cstate>> PROVE HelloFirst'
    BY <1>6
  <1>7. ASSUME NEW c \in Client,
                \/ SkipOld(c) \/ RecvFails(c) \/ TakeNewest(c) \/ AcquireReturns(c)
                \/ SyncTimeout(c) \/ Disconnect(c) \/ CloseRelease(c)
                \/ \E b \in Buf : Release(c, b)
         PROVE  UNCHANGED <<down, cstate>>
    BY <1>7 DEF SkipOld, RecvFails, TakeNewest, AcquireReturns, SyncTimeout, Disconnect,
                CloseRelease, Release, netVars
  <1>8. ASSUME \/ StartPoll \/ AcceptRefuse \/ AcceptFail \/ AcceptDone
               \/ HandleRelease \/ HandleNothing \/ BeginFrame
               \/ EndFrame \/ SkipSlot \/ UNCHANGED vars
        PROVE  UNCHANGED <<down, cstate>>
    BY <1>8 DEF StartPoll, AcceptRefuse, AcceptFail, AcceptDone, HandleRelease,
                HandleNothing, BeginFrame, EndFrame, SkipSlot, vars, netVars, clientVars
  <1>9. ASSUME HandleEof \/ SendFail \/ ServerDestroy \/ ServerCrash PROVE HelloFirst'
    <2>1. cstate' = cstate
      BY <1>9 DEF HandleEof, SendFail, ServerDestroy, ServerCrash, ServerGone, clientVars
    <2> QED
      BY <1>9, <2>1, ClosedStreams
  <1> QED
    BY <1>1, <1>2, <1>3, <1>4, <1>5, <1>6, <1>7, <1>8, <1>9
    DEF Next, ServerPoll, ServerPublish, ClientConnect, ClientAcquire,
        ClientClose, AllEnded

LEMMA HandStep ==
    ASSUME TypeInt, StreamInv, [Next]_vars
    PROVE  InHand' /\ WriteBound'
  <1> USE DEF StreamInv, InHand, WriteBound
  <1>type. /\ msg \in [Client -> FrameMsg]
           /\ DOMAIN cstate = Client /\ DOMAIN cpc = Client
           /\ \A c \in Client : down[c] \in Seq(FrameMsg)
    BY DEF TypeInt
  (* What a connected client receives is a frame. *)
  <1>head. \A c \in Client : down[c] # <<>> /\ cstate[c] = "CONNECTED"
                                 => Head(down[c]).buf_idx \in Buf
    <2> SUFFICES ASSUME NEW c \in Client, down[c] # <<>>, cstate[c] = "CONNECTED"
                 PROVE  Head(down[c]).buf_idx \in Buf
      OBVIOUS
    <2>1. /\ Head(down[c]) = down[c][1] /\ 1 \in 1..Len(down[c])
          /\ Head(down[c]) \in FrameMsg
      BY <1>type, TailElements, HeadTailProperties
    <2> QED
      BY <2>1 DEF HelloFirst, FrameMsg
  <1>1. ASSUME NEW c \in Client, Receive(c) PROVE InHand'
    BY <1>1, <1>type, <1>head DEF Receive, SetMsg
  <1>2. ASSUME NEW c \in Client,
               \/ ReceiveFails(c) \/ SkipOld(c) \/ RecvFails(c)
               \/ AcquireReturns(c) \/ SyncTimeout(c)
        PROVE  InHand'
    BY <1>2, <1>type DEF ReceiveFails, SkipOld, RecvFails, AcquireReturns, SyncTimeout,
                            SetMsg
  <1>3. ASSUME NEW c \in Client, TakeNewest(c) PROVE InHand'
    BY <1>3, <1>type DEF TakeNewest, SetMsg
  <1>4. ASSUME NEW c \in Client, Connect(c) \/ Connected(c) PROVE InHand'
    BY <1>4, <1>type DEF Connect, Connected
  <1>5. ASSUME NEW c \in Client,
               ConnectFails(c) \/ CloseSocket(c) \/ ClientCrash(c)
        PROVE  InHand'
    BY <1>5, <1>type DEF ConnectFails, CloseSocket, ClientCrash, ClientCloses
  <1>6. ASSUME NEW c \in Client, Disconnect(c) PROVE InHand'
    BY <1>6, <1>type DEF Disconnect
  <1>7. ASSUME NEW c \in Client, CloseRelease(c) \/ \E b \in Buf : Release(c, b)
        PROVE  InHand'
    BY <1>7 DEF CloseRelease, Release
  <1>8. ASSUME \/ ServerPoll \/ BeginFrame \/ ServerPublish \/ ServerDestroy
               \/ ServerCrash \/ UNCHANGED vars
        PROVE  InHand'
    BY <1>8 DEF ServerPoll, ServerPublish, StartPoll, AcceptRefuse, AcceptFail,
                AcceptClient, AcceptDone, HandleRelease, HandleEof,
                HandleNothing, BeginFrame, EndFrame, SkipSlot, SendFrame,
                SendFail, ServerDestroy, ServerCrash, ServerGone, vars, clientVars
  <1>9. InHand'
    BY <1>1, <1>2, <1>3, <1>4, <1>5, <1>6, <1>7, <1>8
    DEF Next, ClientConnect, ClientAcquire, ClientClose, AllEnded
  <1>10. ASSUME BeginFrame \/ EndFrame \/ ServerDestroy \/ ServerCrash
         PROVE  WriteBound'
    BY <1>10 DEF BeginFrame, EndFrame, ServerDestroy, ServerCrash, ServerGone, shmVars
  <1>11. ASSUME ServerPoll \/ SkipSlot \/ SendFrame \/ SendFail \/ UNCHANGED vars
         PROVE  WriteBound'
    BY <1>11 DEF ServerPoll, StartPoll, AcceptRefuse, AcceptFail, AcceptClient,
                 AcceptDone, HandleRelease, HandleEof, HandleNothing, SkipSlot,
                 SendFrame, SendFail, vars, serverVars, shmVars
  <1>12. ASSUME NEW c \in Client,
                \/ ClientConnect(c) \/ ClientAcquire(c) \/ ClientClose(c)
                \/ ClientCrash(c) \/ \E b \in Buf : Release(c, b)
         PROVE  WriteBound'
    BY <1>12 DEF ClientConnect, Connect, Connected, ConnectFails, ClientAcquire,
                 Receive, ReceiveFails, SkipOld, RecvFails, TakeNewest,
                 AcquireReturns, SyncTimeout, ClientClose, Disconnect,
                 CloseRelease, CloseSocket, ClientCrash, ClientCloses, Release,
                 serverVars, shmVars
  <1>13. WriteBound'
    BY <1>10, <1>11, <1>12 DEF Next, ServerPublish, AllEnded
  <1> QED
    BY <1>9, <1>13

-----------------------------------------------------------------------------
(* The counters.  A slot has at most one reference to a buffer, sums adds them
   up per buffer.                                                            *)
HoldersIn(refs, b) == {s \in Slot : refs[s][b] = 1}

Counted(refs, sums) ==
    /\ refs \in [Slot -> [Buf -> {0, 1}]]
    /\ sums \in [Buf -> Nat]
    /\ \A b \in Buf : sums[b] = Cardinality(HoldersIn(refs, b))

LEMMA FiniteHolders ==
    ASSUME NEW refs, NEW b
    PROVE  /\ IsFiniteSet(HoldersIn(refs, b))
           /\ Cardinality(HoldersIn(refs, b)) \in Nat
  <1>1. IsFiniteSet(Slot)
    BY SessionAssumption, FS_Interval DEF Slot
  <1>2. HoldersIn(refs, b) \subseteq Slot
    BY DEF HoldersIn
  <1> QED
    BY <1>1, <1>2, FS_Subset, FS_CardinalityType

LEMMA NoneCounted == Counted([s \in Slot |-> NoRefs], NoRefs)
  <1>1. ASSUME NEW b \in Buf
        PROVE  Cardinality(HoldersIn([s \in Slot |-> NoRefs], b)) = 0
    <2>1. HoldersIn([s \in Slot |-> NoRefs], b) = {}
      BY <1>1 DEF HoldersIn, NoRefs
    <2> QED
      BY <2>1, FS_EmptySet
  <1> QED
    BY <1>1 DEF Counted, NoRefs

LEMMA NoHolders ==
    ASSUME NEW refs, NEW sums, Counted(refs, sums), NEW b \in Buf, sums[b] = 0
    PROVE  \A s \in Slot : refs[s][b] = 0
  <1>1. HoldersIn(refs, b) = {}
    BY FiniteHolders, FS_EmptySet DEF Counted
  <1> QED
    BY <1>1 DEF HoldersIn, Counted

(* One more reference. *)
LEMMA CountUp ==
    ASSUME NEW refs, NEW sums, Counted(refs, sums),
           NEW s \in Slot, NEW b \in Buf, refs[s][b] = 0
    PROVE  Counted([refs EXCEPT ![s][b] = @ + 1], [sums EXCEPT ![b] = @ + 1])
  <1> DEFINE R == [refs EXCEPT ![s][b] = @ + 1]
             S == [sums EXCEPT ![b] = @ + 1]
  <1>1. refs[s] \in [Buf -> {0, 1}] /\ R \in [Slot -> [Buf -> {0, 1}]]
    BY DEF Counted
  <1>2. sums[b] + 1 \in Nat /\ S \in [Buf -> Nat]
    BY DEF Counted
  <1>3. HoldersIn(R, b) = HoldersIn(refs, b) \cup {s}
    BY <1>1 DEF HoldersIn, Counted
  <1>4. s \notin HoldersIn(refs, b)
    BY DEF HoldersIn
  <1>5. \A a \in Buf : a # b => HoldersIn(R, a) = HoldersIn(refs, a)
    BY <1>1 DEF HoldersIn, Counted
  <1>6. Cardinality(HoldersIn(R, b)) = Cardinality(HoldersIn(refs, b)) + 1
    BY <1>3, <1>4, FiniteHolders, FS_AddElement
  <1> QED
    BY <1>1, <1>2, <1>5, <1>6 DEF Counted

(* One reference less. *)
LEMMA CountDown ==
    ASSUME NEW refs, NEW sums, Counted(refs, sums),
           NEW s \in Slot, NEW b \in Buf, refs[s][b] # 0
    PROVE  Counted([refs EXCEPT ![s][b] = @ - 1], [sums EXCEPT ![b] = @ - 1])
  <1> DEFINE R == [refs EXCEPT ![s][b] = @ - 1]
             S == [sums EXCEPT ![b] = @ - 1]
  <1>1. refs[s] \in [Buf -> {0, 1}] /\ refs[s][b] = 1
    BY DEF Counted
  <1>2. R \in [Slot -> [Buf -> {0, 1}]]
    BY <1>1 DEF Counted
  <1>3. HoldersIn(R, b) = HoldersIn(refs, b) \ {s}
    BY <1>1 DEF HoldersIn, Counted
  <1>4. s \in HoldersIn(refs, b)
    BY <1>1 DEF HoldersIn
  <1>5. \A a \in Buf : a # b => HoldersIn(R, a) = HoldersIn(refs, a)
    BY <1>1 DEF HoldersIn, Counted
  <1>6. Cardinality(HoldersIn(R, b)) = Cardinality(HoldersIn(refs, b)) - 1
    BY <1>3, <1>4, FiniteHolders, FS_RemoveElement
  <1>7. sums[b] - 1 = Cardinality(HoldersIn(R, b)) /\ sums[b] - 1 \in Nat
    BY <1>6, FiniteHolders DEF Counted
  <1>8. S \in [Buf -> Nat]
    BY <1>7 DEF Counted
  <1> QED
    BY <1>2, <1>5, <1>7, <1>8 DEF Counted

(* All the references of a slot are given back. *)
LEMMA DropCounted ==
    ASSUME NEW refs, NEW sums, Counted(refs, sums), NEW s \in Slot
    PROVE  Counted([refs EXCEPT ![s] = NoRefs],
                   [b \in Buf |-> sums[b] - refs[s][b]])
  <1> DEFINE R == [refs EXCEPT ![s] = NoRefs]
  <1>1. refs[s] \in [Buf -> {0, 1}] /\ R \in [Slot -> [Buf -> {0, 1}]]
    BY DEF Counted, NoRefs
  <1>2. ASSUME NEW b \in Buf
        PROVE  /\ sums[b] - refs[s][b] = Cardinality(HoldersIn(R, b))
               /\ sums[b] - refs[s][b] \in Nat
    <2>1. CASE refs[s][b] = 0
      <3>1. HoldersIn(R, b) = HoldersIn(refs, b)
        BY <2>1 DEF HoldersIn, Counted, NoRefs
      <3> QED
        BY <2>1, <3>1 DEF Counted
    <2>2. CASE refs[s][b] = 1
      <3>1. HoldersIn(R, b) = HoldersIn(refs, b) \ {s}
        BY <2>2 DEF HoldersIn, Counted, NoRefs
      <3>2. s \in HoldersIn(refs, b)
        BY <2>2 DEF HoldersIn
      <3>3. Cardinality(HoldersIn(R, b)) = Cardinality(HoldersIn(refs, b)) - 1
        BY <3>1, <3>2, FiniteHolders, FS_RemoveElement
      <3> QED
        BY <2>2, <3>3, FiniteHolders DEF Counted
    <2> QED
      BY <1>1, <2>1, <2>2
  <1> QED
    BY <1>1, <1>2 DEF Counted

-----------------------------------------------------------------------------
(* The inductive invariant of the counters.  RefAccounting alone does not say
   that the loop of end_frame finds a slot without a reference to the frame it
   announces: no slot from the cursor on has one.                            *)
Unsent == {s \in Slot : s >= slot}

RefInv ==
    /\ frame_refs \in [Buf -> Nat]
    /\ pc # "closed" =>
         /\ Counted(client_refs, frame_refs)
         /\ \A s \in Slot : client_fds[s] = NoClient => client_refs[s] = NoRefs
         /\ writing # NoBuf => frame_refs[writing] = 0
    /\ pc = "send" =>
         /\ writing = NoBuf
         /\ \A s \in Unsent : client_refs[s][current_idx] = 0

LEMMA RefInit == Init => RefInv
  BY NoneCounted DEF Init, RefInv, NoRefs, NoBuf

(* begin_frame gives out a buffer that nobody has a reference to. *)
LEMMA BeginFree ==
    ASSUME NEW b \in Buf, BeginReturns(b)
    PROVE  frame_refs[b] = 0
  BY DEF BeginReturns, Available

(* The loop of end_frame goes on with the slots behind the cursor. *)
LEMMA UnsentStep ==
    ASSUME TypeInt, NextSlot, pc' = "send"
    PROVE  Unsent' \subseteq Unsent \ {slot}
  <1>1. slot \in Slot /\ MaxClients \in Nat
    BY SessionAssumption DEF TypeInt
  <1>2. slot' = slot + 1
    BY DEF NextSlot
  <1> QED
    BY <1>1, <1>2 DEF Unsent, Slot

LEMMA RefStep ==
    ASSUME TypeInt, RefInv, [Next]_vars
    PROVE  RefInv'
  <1> USE DEF RefInv
  <1>type. /\ slot \in Slot /\ current_idx \in Buf
           /\ client_fds \in [Slot -> Client \cup {NoClient}]
           /\ writing \in Buf \cup {NoBuf}
           /\ \A c \in Client : up[c] \in Seq(Buf)
           /\ NoRefs \in [Buf -> {0, 1}]
    BY DEF TypeInt, NoRefs
  <1>refs. pc # "closed" => /\ client_refs \in [Slot -> [Buf -> {0, 1}]]
                            /\ \A s \in Slot : client_refs[s] \in [Buf -> {0, 1}]
                            /\ frame_refs \in [Buf -> Nat]
    BY DEF Counted
  <1>1. ASSUME UNCHANGED <<client_refs, frame_refs, client_fds, writing, current_idx>>,
               \/ pc' = pc /\ slot' = slot
               \/ pc # "closed" /\ pc' \notin {"closed", "send"}
               \/ pc # "closed" /\ NextSlot
        PROVE  RefInv'
    <2>1. pc' = "send" => pc = "send" /\ Unsent' \subseteq Unsent
      BY <1>1, UnsentStep DEF NextSlot, Unsent
    <2>2. pc' # "closed" => pc # "closed"
      BY <1>1 DEF NextSlot
    <2> QED
      BY <1>1, <2>1, <2>2
  <1>2. ASSUME AcceptClient PROVE RefInv'
    <2>1. PICK s \in FreeSlots : client_fds' = [client_fds EXCEPT ![s] = Head(backlog)]
      BY <1>2 DEF AcceptClient, LowestFree
    <2>2. /\ pc = "accept"
          /\ UNCHANGED <<pc, client_refs, frame_refs, writing>>
      BY <1>2 DEF AcceptClient, shmVars
    <2> QED
      BY <2>1, <2>2, <1>type DEF FreeSlots
  <1>3. ASSUME HandleRelease PROVE RefInv'
    <2> DEFINE b == Head(up[client_fds[slot]])
    <2>1. /\ pc = "drain" /\ client_fds[slot] \in Client
          /\ up[client_fds[slot]] # <<>>
          /\ UNCHANGED <<pc, client_fds, writing>>
      BY <1>3, <1>type DEF HandleRelease
    <2> b \in Buf
      BY <2>1, <1>type, HeadTailProperties
    <2>2. CASE client_refs[slot][b] = 0
      BY <1>3, <2>1, <2>2 DEF HandleRelease
    <2>3. CASE client_refs[slot][b] # 0
      <3>1. /\ client_refs' = [client_refs EXCEPT ![slot][b] = @ - 1]
            /\ frame_refs' = [frame_refs EXCEPT ![b] = @ - 1]
        BY <1>3, <2>3 DEF HandleRelease
      <3>2. Counted(client_refs', frame_refs')
        BY <2>1, <2>3, <3>1, <1>type, CountDown
      <3>3. \A s \in Slot : client_fds'[s] = NoClient => client_refs'[s] = NoRefs
        BY <1>3, <2>1, <3>1, <1>type, <1>refs DEF HandleRelease
      <3>4. frame_refs[b] # 0
        BY <2>1, <2>3, <1>type, NoHolders
      <3>5. writing' # NoBuf => frame_refs'[writing'] = 0
        BY <2>1, <3>1, <3>4, <1>type, <1>refs
      <3> QED
        BY <2>1, <3>2, <3>3, <3>5 DEF Counted
    <2> QED
      BY <2>2, <2>3
  <1>4. ASSUME HandleEof PROVE RefInv'
    <2>1. /\ pc = "drain" /\ pc' # "send" /\ writing' = writing
          /\ client_fds' = [client_fds EXCEPT ![slot] = NoClient]
          /\ client_refs' = [client_refs EXCEPT ![slot] = NoRefs]
          /\ frame_refs' = [b \in Buf |-> frame_refs[b] - client_refs[slot][b]]
      BY <1>4 DEF HandleEof, DropClient, NextSlot
    <2>2. Counted(client_refs', frame_refs')
      <3>1. Counted([client_refs EXCEPT ![slot] = NoRefs],
                    [b \in Buf |-> frame_refs[b] - client_refs[slot][b]])
        BY <2>1, <1>type, DropCounted
      <3> QED
        BY <2>1, <3>1
    <2>3. \A s \in Slot : client_fds'[s] = NoClient => client_refs'[s] = NoRefs
      BY <2>1, <1>type, <1>refs
    <2>4. writing' # NoBuf => frame_refs'[writing'] = 0
      <3>1. SUFFICES ASSUME writing # NoBuf PROVE frame_refs'[writing] = 0
        BY <2>1
      <3>2. frame_refs[writing] = 0 /\ client_refs[slot][writing] = 0
        BY <2>1, <3>1, <1>type, NoHolders
      <3> QED
        BY <2>1, <3>1, <3>2, <1>type
    <2> QED
      BY <2>1, <2>2, <2>3, <2>4 DEF Counted
  <1>5. ASSUME BeginFrame PROVE RefInv'
    BY <1>5, BeginFree DEF BeginFrame, shmVars
  <1>6. ASSUME EndFrame PROVE RefInv'
    <2>1. /\ pc = "app" /\ writing \in Buf /\ frame_refs[writing] = 0
          /\ current_idx' = writing /\ writing' = NoBuf
          /\ UNCHANGED <<client_fds, client_refs, frame_refs>>
      BY <1>6, <1>type DEF EndFrame
    <2>2. \A s \in Slot : client_refs'[s][current_idx'] = 0
      BY <2>1, NoHolders
    <2> QED
      BY <2>1, <2>2 DEF Unsent
  (* The slot at the cursor has no reference to the frame yet. *)
  <1>7. ASSUME SendFrame \/ SendFail
        PROVE  /\ pc = "send" /\ writing = NoBuf /\ writing' = NoBuf
               /\ pc' # "closed" /\ client_fds[slot] # NoClient
               /\ current_idx' = current_idx /\ NextSlot
               /\ Counted(CountRef(client_refs, slot), CountSum(frame_refs))
    <2>1. /\ pc = "send" /\ client_fds[slot] # NoClient /\ NextSlot
          /\ writing' = writing /\ current_idx' = current_idx
      BY <1>7 DEF SendFrame, SendFail
    <2>2. client_refs[slot][current_idx] = 0
      BY <2>1, <1>type, SessionAssumption DEF Unsent, Slot
    <2> QED
      BY <2>1, <2>2, <1>type, CountUp DEF CountRef, CountSum, NextSlot
  <1>8. ASSUME SendFrame PROVE RefInv'
    <2>1. /\ client_refs' = CountRef(client_refs, slot)
          /\ frame_refs' = CountSum(frame_refs) /\ client_fds' = client_fds
      BY <1>8 DEF SendFrame
    <2>2. \A s \in Slot : client_fds'[s] = NoClient => client_refs'[s] = NoRefs
      BY <1>7, <1>8, <2>1, <1>type, <1>refs DEF CountRef
    <2>3. pc' = "send" => \A s \in Unsent' : client_refs'[s][current_idx'] = 0
      <3>1. SUFFICES ASSUME pc' = "send", NEW s \in Unsent'
                     PROVE  client_refs'[s][current_idx'] = 0
        OBVIOUS
      <3>2. s \in Unsent /\ s # slot
        BY <3>1, <1>7, <1>8, UnsentStep
      <3> QED
        BY <3>2, <1>7, <1>8, <2>1, <1>refs DEF CountRef, Unsent
    <2> QED
      BY <1>7, <1>8, <2>1, <2>2, <2>3 DEF Counted
  <1>9. ASSUME SendFail PROVE RefInv'
    <2> DEFINE R == CountRef(client_refs, slot)
               S == CountSum(frame_refs)
    <2>1. /\ client_fds' = [client_fds EXCEPT ![slot] = NoClient]
          /\ client_refs' = [R EXCEPT ![slot] = NoRefs]
          /\ frame_refs' = [b \in Buf |-> S[b] - R[slot][b]]
      BY <1>9 DEF SendFail, DropClient
    <2>2. Counted(R, S) /\ pc = "send"
      BY <1>7, <1>9
    <2>3. Counted(client_refs', frame_refs')
      <3> HIDE DEF R, S
      <3>1. Counted([R EXCEPT ![slot] = NoRefs],
                    [b \in Buf |-> S[b] - R[slot][b]])
        BY <2>2, <1>type, DropCounted
      <3> QED
        BY <2>1, <3>1
    <2>4. \A s \in Slot : s # slot => client_refs'[s] = client_refs[s]
      BY <2>1, <2>2, <1>type, <1>refs DEF CountRef
    <2>5. client_refs'[slot] = NoRefs
      BY <2>1, <2>2, <1>type DEF Counted
    <2>6. \A s \in Slot : client_fds'[s] = NoClient => client_refs'[s] = NoRefs
      BY <2>1, <2>2, <2>4, <2>5, <1>type
    <2>7. pc' = "send" => \A s \in Unsent' : client_refs'[s][current_idx'] = 0
      <3>1. SUFFICES ASSUME pc' = "send", NEW s \in Unsent'
                     PROVE  client_refs'[s][current_idx'] = 0
        OBVIOUS
      <3>2. s \in Unsent /\ s # slot
        BY <3>1, <1>7, <1>9, UnsentStep
      <3> QED
        BY <3>2, <1>7, <1>9, <2>2, <2>4 DEF Unsent
    <2> QED
      BY <1>7, <1>9, <2>3, <2>6, <2>7 DEF Counted
  <1>10. ASSUME ServerDestroy \/ ServerCrash PROVE RefInv'
    BY <1>10 DEF ServerDestroy, ServerCrash, ServerGone, NoRefs
  <1>11. ASSUME \/ StartPoll \/ AcceptRefuse \/ AcceptFail \/ AcceptDone
                \/ HandleNothing \/ SkipSlot
         PROVE  RefInv'
    <2>1. /\ UNCHANGED <<client_refs, frame_refs, client_fds, writing, current_idx>>
          /\ pc # "closed"
          /\ (pc' = pc /\ slot' = slot) \/ pc' \notin {"closed", "send"} \/ NextSlot
      BY <1>11 DEF StartPoll, AcceptRefuse, AcceptFail, AcceptDone,
                   HandleNothing, SkipSlot, serverVars, shmVars
    <2> QED
      BY <2>1, <1>1
  <1>12. ASSUME UNCHANGED <<serverVars, shmVars>> PROVE RefInv'
    BY <1>12, <1>1 DEF serverVars, shmVars
  <1>13. ASSUME NEW c \in Client,
                \/ ClientConnect(c) \/ ClientAcquire(c) \/ ClientClose(c)
                \/ ClientCrash(c) \/ \E b \in Buf : Release(c, b)
         PROVE  UNCHANGED <<serverVars, shmVars>>
    BY <1>13 DEF ClientConnect, Connect, Connected, ConnectFails, ClientAcquire,
                 Receive, ReceiveFails, SkipOld, RecvFails, TakeNewest,
                 AcquireReturns, SyncTimeout, ClientClose, Disconnect,
                 CloseRelease, CloseSocket, ClientCrash, ClientCloses, Release
  <1> QED
    BY <1>2, <1>3, <1>4, <1>5, <1>6, <1>8, <1>9, <1>10, <1>11, <1>12, <1>13
    DEF Next, ServerPoll, ServerPublish, AllEnded, vars

-----------------------------------------------------------------------------
(* The whole inductive invariant. *)
Inv == TypeInt /\ StreamInv /\ RefInv

LEMMA InvCorrect == Spec => []Inv
  <1>1. Init => Inv
    BY InitType, RefInit DEF Inv
  <1>2. Inv /\ [Next]_vars => Inv'
    BY TypeStep, BacklogStep, HelloStep, HandStep, RefStep DEF Inv, StreamInv
  <1> QED
    BY <1>1, <1>2, PTL DEF Spec

(* Every variable keeps its type, whatever the clients and the server do: in
   particular frame_refs never falls below zero, where the unsigned atomic of
   session.c would wrap (server_handle_client_releases, server_drop_client), and
   the index checks of acquire and of the release handler never reject.      *)
THEOREM TypeCorrect == Spec => []TypeOK
  <1>1. Inv => TypeOK
    BY DEF Inv, TypeInt, RefInv, TypeOK
  <1> QED
    BY <1>1, InvCorrect, PTL

(* frame_refs, which decides whether begin_frame may hand out a buffer, counts
   exactly the slots with a reference to it, through every accept, release,
   drop, failed send and crash of a client, for any number of clients and in
   every buffering mode.                                                     *)
THEOREM RefAccountingCorrect == Spec => []RefAccounting
  <1>1. Inv => RefAccounting
    BY DEF Inv, RefInv, RefAccounting, Counted, Holders, HoldersIn
  <1> QED
    BY <1>1, InvCorrect, PTL
=============================================================================
