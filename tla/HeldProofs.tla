----------------------------- MODULE HeldProofs -----------------------------
(***************************************************************************)
(* Theorems about what the clients of Session have: each frame is whole in *)
(* its buffer, newer than the one before, and given out and taken back as  *)
(* FrameLease says, clients come and go as Handshake says, and a buffer is *)
(* refused to the producer only for what some client has.                  *)
(***************************************************************************)
EXTENDS LeaseProofs

(* A frame is in its buffer when end_frame announces it. *)
Sent == pc = "send" => content[current_idx] = frame_id /\ frame_id > 0

(* If no send fails, a client that is alive has a slot, or waits for one and
   was told of nothing: only the death of a client costs it its protection.  *)
Unlent ==
    ~ServerIoFails =>
        \A c \in Client : Open(c) /\ pc # "closed" /\ ~Registered(c)
                            => cstate[c] = "CONNECTING" /\ down[c] = <<>>

HeldInv == Sent /\ Unlent /\ HeldFrameIntact

AllInv == Inv /\ LeaseInv

-----------------------------------------------------------------------------
(* What is in Leases. *)
LEMMA LeasesElements ==
    \A c \in Client : \A m :
        /\ m \in Leases(c) <=>
             /\ Open(c)
             /\ \/ m # Hello /\ (m = msg[c] \/ \E i \in 1..Len(down[c]) : m = down[c][i])
                \/ \E b \in Buf : /\ acquired_refs[c][b] > 0
                                  /\ m = [frame_id |-> held[c][b], buf_idx |-> b]
        /\ m \in Leases(c)' <=>
             /\ Open(c)'
             /\ \/ m # Hello /\ (m = msg'[c] \/ \E i \in 1..Len(down'[c]) : m = down'[c][i])
                \/ \E b \in Buf : /\ acquired_refs'[c][b] > 0
                                  /\ m = [frame_id |-> held'[c][b], buf_idx |-> b]
  BY DEF Leases

LEMMA NoLeases ==
    ASSUME NEW c \in Client, down[c] = <<>>, msg[c] = Hello, acquired_refs[c] = NoRefs
    PROVE  Leases(c) = {}
  BY LeasesElements DEF NoRefs

(* Every frame a client has is one of the references counted for it. *)
LEMMA LeaseHasToken ==
    ASSUME AllInv, NEW c \in Client, NEW m \in Leases(c)
    PROVE  m.buf_idx \in Buf /\ Tokens(c, m.buf_idx) >= 1 /\ Open(c)
  <1> USE DEF AllInv, Inv, LeaseInv
  <1>type. /\ down[c] \in Seq(FrameMsg) /\ up[c] \in Seq(Buf) /\ msg[c] \in FrameMsg
           /\ acquired_refs[c] \in [Buf -> Nat]
           /\ \A i \in 1..Len(down[c]) : down[c][i] \in FrameMsg
    BY ElementOfSeq DEF TypeInt
  <1>1. ASSUME NEW b \in Buf
        PROVE  /\ Tokens(c, b) = Notices(down[c], b) + Taken(msg[c], b)
                                   + acquired_refs[c][b] + Returns(up[c], b)
               /\ Notices(down[c], b) \in Nat /\ Returns(up[c], b) \in Nat
               /\ acquired_refs[c][b] \in Nat /\ Taken(msg[c], b) \in {0, 1}
    BY <1>type, NoticesFacts, ReturnsFacts, TokensAmount DEF Amount, Taken
  <1>2. Open(c)
    BY LeasesElements
  <1>3. ASSUME m # Hello, NEW i \in 1..Len(down[c]), m = down[c][i]
        PROVE  m.buf_idx \in Buf /\ Tokens(c, m.buf_idx) >= 1
    <2>1. m.buf_idx \in Buf
      <3>1. CASE m.buf_idx = NoBuf
        <4>1. i = 1 /\ cstate[c] = "CONNECTING"
          BY <1>3, <3>1 DEF StreamInv, HelloFirst
        <4>2. down[c] # <<>>
          BY <1>3, <4>1
        <4>3. Head(down[c]) = down[c][1]
          BY <4>2, <1>type, TailElements
        <4> QED
          BY <1>3, <4>1, <4>2, <4>3 DEF Greeted
      <3> QED
        BY <3>1, <1>3, <1>type DEF FrameMsg
    <2>2. Notices(down[c], m.buf_idx) >= 1
      BY <2>1, <1>3, <1>type, NoticesFacts
    <2> QED
      BY <2>1, <2>2, <1>1
  <1>4. ASSUME m # Hello, m = msg[c] PROVE m.buf_idx \in Buf /\ Tokens(c, m.buf_idx) >= 1
    <2>1. m.buf_idx \in Buf
      BY <1>4 DEF Quiet, StreamInv, InHand, TypeInt
    <2>2. Taken(msg[c], m.buf_idx) = 1
      BY <1>4 DEF Taken
    <2> QED
      BY <2>1, <2>2, <1>1
  <1>5. ASSUME NEW b \in Buf, acquired_refs[c][b] > 0,
               m = [frame_id |-> held[c][b], buf_idx |-> b]
        PROVE  m.buf_idx \in Buf /\ Tokens(c, m.buf_idx) >= 1
    BY <1>5, <1>1
  <1> QED
    BY <1>2, <1>3, <1>4, <1>5, LeasesElements

(* While the server runs, it counts a reference to each of those buffers. *)
LEMMA LeaseIsCounted ==
    ASSUME AllInv, Unlent, pc # "closed",
           NEW c \in Client, ServerIoFails => Registered(c), NEW m \in Leases(c)
    PROVE  frame_refs[m.buf_idx] # 0
  <1> USE DEF AllInv, Inv, LeaseInv
  <1>1. m.buf_idx \in Buf /\ Tokens(c, m.buf_idx) >= 1 /\ Open(c)
    BY LeaseHasToken
  <1>2. CASE Registered(c)
    <2>1. PICK s \in Slot : client_fds[s] = c
      BY <1>2 DEF Registered
    <2>2. client_refs \in [Slot -> [Buf -> {0, 1}]] /\ NoClient \notin Client
      BY SessionAssumption DEF RefInv, Counted
    <2>3. \/ Tokens(c, m.buf_idx) = client_refs[s][m.buf_idx]
          \/ Tokens(c, m.buf_idx) < client_refs[s][m.buf_idx]
      BY <1>1, <2>1, <2>2 DEF LeaseAccounting
    <2>4. client_refs[s][m.buf_idx] # 0
      <3>1. Tokens(c, m.buf_idx) \in Nat
        BY <1>1, TokenNumber
      <3> QED
        BY <3>1, <1>1, <2>3
    <2> QED
      BY <1>1, <2>4, NoHolders DEF RefInv
  <1>3. CASE ~Registered(c)
    <2>1. cstate[c] = "CONNECTING" /\ down[c] = <<>>
      BY <1>1, <1>3, SessionAssumption DEF Unlent
    <2>2. cpc[c] = "idle" /\ msg[c] = Hello /\ acquired_refs[c] = NoRefs
      BY <2>1 DEF StreamInv, InHand, Quiet
    <2> QED
      BY <2>1, <2>2, NoLeases
  <1> QED
    BY <1>2, <1>3

-----------------------------------------------------------------------------
(* A client gets a frame from the server alone: by its own steps it only gives
   frames back, and hands them on from the stream to acquire and from there to
   the application.                                                          *)
LEMMA ClientReturns ==
    ASSUME AllInv, NEW c \in Client, ClientStep(c)
    PROVE  Leases(c)' \subseteq Leases(c)
  <1> USE DEF AllInv, Inv, LeaseInv
  <1>type. /\ down \in [Client -> Seq(FrameMsg)] /\ down[c] \in Seq(FrameMsg)
           /\ msg[c] \in FrameMsg /\ acquired_refs[c] \in [Buf -> Nat]
           /\ held[c] \in [Buf -> Nat]
           /\ acquired_refs \in [Client -> [Buf -> Nat]] /\ held \in [Client -> [Buf -> Nat]]
           /\ DOMAIN msg = Client /\ DOMAIN cstate = Client
    BY DEF TypeInt
  <1>tail. down[c] # <<>> =>
             /\ \A i \in 1..Len(Tail(down[c])) :
                   \E j \in 1..Len(down[c]) : Tail(down[c])[i] = down[c][j]
             /\ \E j \in 1..Len(down[c]) : Head(down[c]) = down[c][j]
    BY <1>type, TailElements
  <1>empty. Len(<<>>) = 0 /\ 1..0 = {}
    BY EmptySeq
  (* No client has a second reference to give back. *)
  <1>once. \A b \in Buf : acquired_refs[c][b] \in {0, 1}
    <2> SUFFICES ASSUME NEW b \in Buf PROVE acquired_refs[c][b] \in {0, 1}
      OBVIOUS
    <2>1. /\ Tokens(c, b) = Notices(down[c], b) + Taken(msg[c], b)
                              + acquired_refs[c][b] + Returns(up[c], b)
          /\ Tokens(c, b) <= 1
      BY TokensAmount DEF Amount, Once
    <2>2. /\ Notices(down[c], b) \in Nat /\ Returns(up[c], b) \in Nat
          /\ acquired_refs[c][b] \in Nat /\ Taken(msg[c], b) \in {0, 1}
      BY <1>type, NoticesFacts, ReturnsFacts DEF TypeInt, Taken
    <2> QED
      BY <2>1, <2>2
  <1>1. ASSUME Connect(c) PROVE Leases(c)' \subseteq Leases(c)
    <2>1. /\ cstate[c] = "CREATED" /\ down[c] = <<>>
          /\ UNCHANGED <<down, msg, acquired_refs>>
      BY <1>1 DEF Connect, StreamInv, BacklogInv
    <2>2. cpc[c] = "idle" /\ msg[c] = Hello /\ acquired_refs[c] = NoRefs
      BY <2>1 DEF StreamInv, InHand, Quiet
    <2> QED
      BY <2>1, <2>2, <1>empty, LeasesElements DEF NoRefs
  <1>2. ASSUME ConnectFails(c) \/ CloseSocket(c) \/ ClientCrash(c)
        PROVE  Leases(c)' \subseteq Leases(c)
    <2>1. ~Open(c)'
      BY <1>2, <1>type DEF ConnectFails, CloseSocket, ClientCrash, ClientCloses, Open
    <2> QED
      BY <2>1, LeasesElements
  <1>3. ASSUME Connected(c) PROVE Leases(c)' \subseteq Leases(c)
    <2>1. /\ down[c] # <<>> /\ down'[c] = Tail(down[c]) /\ Open(c)
          /\ UNCHANGED <<msg, acquired_refs, held>>
      BY <1>3, <1>type DEF Connected, Open
    <2> QED
      <3>1. ASSUME NEW m \in Leases(c)' PROVE m \in Leases(c)
        BY <2>1, <1>tail, LeasesElements
      <3> QED
        BY <3>1
  <1>4. ASSUME Disconnect(c) \/ TakeNewest(c) PROVE Leases(c)' \subseteq Leases(c)
    <2>1. /\ UNCHANGED <<down, cstate, acquired_refs, held>> /\ msg'[c] = msg[c]
      BY <1>4, <1>type DEF Disconnect, TakeNewest, SetMsg, netVars
    <2> QED
      BY <2>1, LeasesElements DEF Open
  <1>5. ASSUME Receive(c) \/ ReceiveFails(c)
        PROVE  Leases(c)' \subseteq Leases(c)
    <2>1. /\ down[c] # <<>> /\ down'[c] = Tail(down[c])
          /\ msg'[c] = Hello \/ msg'[c] = Head(down[c])
          /\ UNCHANGED <<cstate, acquired_refs, held>>
      BY <1>5, <1>type DEF Receive, ReceiveFails, SetMsg
    <2> QED
      <3>1. ASSUME NEW m \in Leases(c)' PROVE m \in Leases(c)
        <4>1. CASE m # Hello /\ m = msg'[c]
          BY <3>1, <4>1, <2>1, <1>tail, LeasesElements DEF Open
        <4>2. CASE m # Hello /\ \E i \in 1..Len(down'[c]) : m = down'[c][i]
          BY <3>1, <4>2, <2>1, <1>tail, LeasesElements DEF Open
        <4>3. CASE \E b \in Buf : /\ acquired_refs[c][b] > 0
                                  /\ m = [frame_id |-> held[c][b], buf_idx |-> b]
          BY <3>1, <4>3, <2>1, LeasesElements DEF Open
        <4> QED
          BY <3>1, <4>1, <4>2, <4>3, <2>1, LeasesElements
      <3> QED
        BY <3>1
  <1>6. ASSUME SkipOld(c) \/ RecvFails(c) \/ SyncTimeout(c)
        PROVE  Leases(c)' \subseteq Leases(c)
    <2>1. /\ UNCHANGED <<down, cstate, acquired_refs, held>> /\ msg'[c] = Hello
      BY <1>6, <1>type DEF SkipOld, RecvFails, SyncTimeout, SetMsg, netVars
    <2> QED
      BY <2>1, LeasesElements DEF Open
  <1>7. ASSUME AcquireReturns(c) PROVE Leases(c)' \subseteq Leases(c)
    <2>1. PICK b \in Buf : b = msg[c].buf_idx
      BY <1>7 DEF AcquireReturns, StreamInv, InHand
    <2>2. /\ UNCHANGED <<down, cstate>> /\ msg'[c] = Hello
          /\ acquired_refs' = [acquired_refs EXCEPT ![c][b] = @ + 1]
          /\ held' = [held EXCEPT ![c][b] = msg[c].frame_id]
      BY <1>7, <2>1, <1>type DEF AcquireReturns, SetMsg, netVars
    <2>3. msg[c] # Hello /\ msg[c] = [frame_id |-> held'[c][b], buf_idx |-> b]
      BY <2>1, <2>2, <1>type, SessionAssumption DEF Hello, NoBuf, Buf, FrameMsg
    <2>4. \A a \in Buf : a # b => /\ acquired_refs'[c][a] = acquired_refs[c][a]
                                  /\ held'[c][a] = held[c][a]
      BY <2>2, <1>type
    <2> QED
      BY <2>1, <2>2, <2>3, <2>4, LeasesElements DEF Open
  <1>8. ASSUME CloseRelease(c) \/ \E b \in Buf : Release(c, b)
        PROVE  Leases(c)' \subseteq Leases(c)
    <2>1. PICK b \in Buf : DropRef(c, b) /\ acquired_refs[c][b] > 0
      BY <1>8 DEF CloseRelease, Release
    <2>2. UNCHANGED <<down, cstate, msg>>
      BY <1>8 DEF CloseRelease, Release
    <2>3. acquired_refs[c][b] = 1
      BY <2>1, <1>once
    <2>4. acquired_refs'[c][b] = 0
      BY <2>1, <2>3, <1>type DEF DropRef
    <2>5. \A a \in Buf : a # b => /\ acquired_refs'[c][a] = acquired_refs[c][a]
                                  /\ held'[c][a] = held[c][a]
      BY <2>1, <1>type DEF DropRef
    <2> QED
      BY <2>2, <2>4, <2>5, LeasesElements DEF Open
  <1> QED
    BY <1>1, <1>2, <1>3, <1>4, <1>5, <1>6, <1>7, <1>8
    DEF ClientStep, ClientConnect, ClientAcquire, ClientClose

LEMMA OthersKeepLeases ==
    ASSUME TypeInt, NEW c \in Client, ClientStep(c), NEW x \in Client, x # c
    PROVE  Leases(x)' = Leases(x)
  <1>1. SameAs(x)
    BY ClientAlone
  <1> QED
    BY <1>1 DEF SameAs, Leases, Open

(* The steps in which the server closes connections. *)
Closing == HandleEof \/ SendFail \/ ServerDestroy \/ ServerCrash

(* With a connection goes what was not read from it; and nothing, when it is that of a
   client that has ended.                                                             *)
LEMMA ClosedLeases ==
    ASSUME AllInv, Closing, NEW x \in Client
    PROVE  /\ Leases(x)' \subseteq Leases(x)
           /\ ~ServerIoFails /\ (HandleEof \/ SendFail) => Leases(x)' = Leases(x)
  <1> USE DEF AllInv, Inv, LeaseInv, Closing
  <1>1. UNCHANGED clientVars
    BY DEF HandleEof, SendFail, ServerDestroy, ServerCrash, ServerGone
  <1>2. down'[x] \in {down[x], <<>>} /\ Len(<<>>) = 0
    BY ClosedStreams, EmptySeq
  <1>3. Leases(x)' \subseteq Leases(x)
    BY <1>1, <1>2, LeasesElements DEF clientVars, Open
  <1>4. ASSUME ~ServerIoFails, HandleEof \/ SendFail PROVE Leases(x)' = Leases(x)
    <2>1. /\ ~Open(client_fds[slot])
          /\ down' = [down EXCEPT ![client_fds[slot]] = AfterClose(@)]
          /\ DOMAIN down = Client
      BY <1>4 DEF HandleEof, SendFail, DropClient, TypeInt
    <2>2. CASE x = client_fds[slot]
      BY <2>1, <2>2, <1>3 DEF Leases
    <2>3. CASE x # client_fds[slot]
      BY <2>1, <2>3, <1>1 DEF clientVars, Open, Leases
    <2> QED
      BY <2>2, <2>3
  <1> QED
    BY <1>3, <1>4

(* The server lends by a notification, and in no other step. *)
LEMMA ServerKeepsLeases ==
    ASSUME AllInv,
           \/ ServerPoll /\ ~HandleEof
           \/ BeginFrame \/ EndFrame \/ SkipSlot \/ UNCHANGED vars,
           NEW x \in Client
    PROVE  Leases(x)' = Leases(x)
  <1> USE DEF AllInv, Inv, LeaseInv
  <1>1. UNCHANGED clientVars
    BY DEF ServerPoll, StartPoll, AcceptRefuse, AcceptFail, AcceptClient, AcceptDone,
           HandleRelease, HandleNothing, BeginFrame, EndFrame, SkipSlot, vars
  <1>2. CASE AcceptClient
    <2>1. PICK c : c = Head(backlog)
      OBVIOUS
    <2>2. /\ backlog # <<>> /\ Open(c) /\ down' = [down EXCEPT ![c] = Append(@, Hello)]
      BY <1>2, <2>1 DEF AcceptClient
    <2>3. c \in Client /\ c = backlog[1] /\ 1 \in 1..Len(backlog)
      BY <2>1, <2>2, TailElements, HeadTailProperties DEF TypeInt
    <2>4. down[c] = <<>> /\ cstate[c] = "CONNECTING"
      BY <2>2, <2>3 DEF Open, StreamInv, BacklogInv
    <2>5. down \in [Client -> Seq(FrameMsg)] /\ Hello \in FrameMsg
      BY DEF TypeInt, Hello, FrameMsg
    <2>6. Append(<<>>, Hello) = <<Hello>> /\ down'[c] = <<Hello>>
      BY <2>2, <2>3, <2>4, <2>5
    <2>7. Len(down'[c]) = 1 /\ down'[c][1] = Hello /\ Len(down[c]) = 0
      BY <2>4, <2>6, EmptySeq
    <2>8. CASE x = c
      <3>1. \A i \in 1..Len(down'[c]) : down'[c][i] = Hello
        BY <2>7
      <3>2. \A m : m \in Leases(c)' <=> m \in Leases(c)
        BY <3>1, <2>3, <2>7, <1>1, LeasesElements DEF clientVars, Open
      <3> QED
        BY <3>2, <2>8
    <2>9. CASE x # c
      BY <2>2, <2>5, <2>9, <1>1 DEF clientVars, Open, Leases
    <2> QED
      BY <2>8, <2>9
  <1>3. CASE ~AcceptClient
    <2>1. UNCHANGED down
      BY <1>3 DEF ServerPoll, StartPoll, AcceptRefuse, AcceptFail, AcceptDone,
           HandleRelease, HandleNothing, BeginFrame, EndFrame, SkipSlot, vars, netVars
    <2> QED
      BY <2>1, <1>1 DEF clientVars, Open, Leases
  <1> QED
    BY <1>2, <1>3

LEMMA SendLends ==
    ASSUME AllInv, SendFrame
    PROVE  \E c \in Client :
             /\ Leases(c)' = Leases(c) \cup {[frame_id |-> frame_id, buf_idx |-> current_idx]}
             /\ \A x \in Client : x # c => Leases(x)' = Leases(x)
             /\ \A m \in Leases(c) : m.buf_idx # current_idx
             /\ Registered(c)
  <1> USE DEF AllInv, Inv, LeaseInv, clientVars
  <1>c. PICK c : c = client_fds[slot]
    OBVIOUS
  <1>m. PICK m : m = [frame_id |-> frame_id, buf_idx |-> current_idx]
    OBVIOUS
  <1>1. /\ c \in Client /\ slot \in Slot /\ Open(c) /\ current_idx \in Buf /\ pc = "send"
        /\ down' = [down EXCEPT ![c] = Append(@, m)]
        /\ UNCHANGED clientVars
    BY <1>c, <1>m DEF SendFrame, TypeInt
  <1>2. m \in FrameMsg /\ m # Hello
    BY <1>m, SessionAssumption DEF TypeInt, FrameMsg, Hello, NoBuf, Buf
  <1>type. /\ down \in [Client -> Seq(FrameMsg)] /\ down[c] \in Seq(FrameMsg)
           /\ client_refs \in [Slot -> [Buf -> {0, 1}]] /\ NoClient \notin Client
           /\ MaxClients \in Nat
    BY <1>1, SessionAssumption DEF TypeInt, RefInv, Counted
  <1>3. /\ Len(down'[c]) = Len(down[c]) + 1 /\ Len(down[c]) \in Nat
        /\ \A i \in 1..Len(down[c]) : down'[c][i] = down[c][i]
        /\ down'[c][Len(down[c]) + 1] = m
    BY <1>1, <1>2, <1>type, AppendProperties, LenProperties
  <1>4. Leases(c)' = Leases(c) \cup {m}
    <2>1. \A n : (\E i \in 1..Len(down'[c]) : n = down'[c][i])
                   <=> n = m \/ (\E i \in 1..Len(down[c]) : n = down[c][i])
      BY <1>3
    <2>2. Open(c) /\ Open(c)' /\ UNCHANGED <<msg, acquired_refs, held>>
      BY <1>1 DEF Open
    <2>3. ASSUME NEW n PROVE n \in Leases(c)' <=> n \in Leases(c) \/ n = m
      <3>1. n \in Leases(c) <=>
               \/ n # Hello /\ (n = msg[c] \/ \E i \in 1..Len(down[c]) : n = down[c][i])
               \/ \E b \in Buf : /\ acquired_refs[c][b] > 0
                                 /\ n = [frame_id |-> held[c][b], buf_idx |-> b]
        BY <2>2, <1>1, LeasesElements
      <3>2. n \in Leases(c)' <=>
               \/ n # Hello /\ (n = msg[c] \/ \E i \in 1..Len(down'[c]) : n = down'[c][i])
               \/ \E b \in Buf : /\ acquired_refs[c][b] > 0
                                 /\ n = [frame_id |-> held[c][b], buf_idx |-> b]
        BY <2>2, <1>1, LeasesElements
      <3> QED
        BY <3>1, <3>2, <2>1, <1>2
    <2> QED
      BY <2>3
  <1>5. \A x \in Client : x # c => Leases(x)' = Leases(x)
    BY <1>1, <1>type DEF Leases, Open
  <1>6. client_refs[slot][current_idx] = 0
    BY <1>1, <1>type DEF RefInv, Unsent, Slot
  <1>7. ASSUME NEW n \in Leases(c) PROVE n.buf_idx # current_idx
    <2>1. Tokens(c, n.buf_idx) >= 1
      BY <1>1, LeaseHasToken
    <2>2. \/ Tokens(c, current_idx) = 0
          \/ Tokens(c, current_idx) < 0
      BY <1>c, <1>1, <1>6, <1>type DEF LeaseAccounting
    <2>3. Tokens(c, current_idx) \in Nat
      BY <1>1, TokenNumber
    <2> QED
      BY <2>1, <2>2, <2>3
  <1> QED
    BY <1>c, <1>m, <1>1, <1>4, <1>5, <1>7 DEF Registered

-----------------------------------------------------------------------------
LEMMA HeldInit == Init => HeldInv
  <1> SUFFICES ASSUME Init PROVE HeldInv
    OBVIOUS
  <1>1. \A c \in Client : Leases(c) = {}
    BY NoLeases DEF Init
  <1> QED
    BY <1>1 DEF Init, HeldInv, Sent, Unlent, HeldFrameIntact, Open

LEMMA SentStep == Inv /\ Sent /\ [Next]_vars => Sent'
  <1> SUFFICES ASSUME Inv, Sent, [Next]_vars PROVE Sent'
    OBVIOUS
  <1> USE DEF Sent
  <1>type. /\ frame_id \in Nat /\ content \in [Buf -> Nat] /\ writing \in Buf \cup {NoBuf}
    BY SessionAssumption DEF Inv, TypeInt
  <1>1. CASE EndFrame
    BY <1>1, <1>type DEF EndFrame
  <1>2. CASE BeginFrame \/ StartPoll \/ AcceptDone \/ ServerDestroy \/ ServerCrash
    BY <1>2 DEF BeginFrame, StartPoll, AcceptDone, ServerDestroy, ServerCrash, ServerGone
  <1>3. CASE \/ AcceptRefuse \/ AcceptFail \/ AcceptClient \/ HandleRelease \/ HandleEof
             \/ HandleNothing \/ SkipSlot \/ SendFrame \/ SendFail \/ UNCHANGED vars
    <2>1. /\ UNCHANGED <<content, current_idx, frame_id>>
          /\ pc' = "send" => pc = "send"
      BY <1>3 DEF AcceptRefuse, AcceptFail, AcceptClient, HandleRelease, HandleEof,
                  HandleNothing, SkipSlot, SendFrame, SendFail, NextSlot,
                  vars, serverVars, shmVars
    <2> QED
      BY <2>1
  <1>4. ASSUME NEW c \in Client, ClientStep(c) PROVE Sent'
    BY <1>4, ClientKeepsServer DEF serverVars, shmVars
  <1> QED
    BY <1>1, <1>2, <1>3, <1>4 DEF Next, ServerPoll, ServerPublish, AllEnded, ClientStep

LEMMA UnlentStep == Inv /\ Unlent /\ [Next]_vars => Unlent'
  <1> SUFFICES ASSUME Inv, Unlent, [Next]_vars, ~ServerIoFails, NEW c \in Client,
                      Open(c)', pc' # "closed", ~Registered(c)'
               PROVE  cstate'[c] = "CONNECTING" /\ down'[c] = <<>>
    BY SessionAssumption DEF Unlent
  <1> USE DEF Inv, StreamInv
  <1>type. /\ DOMAIN cstate = Client /\ DOMAIN down = Client /\ backlog \in Seq(Client)
           /\ client_fds \in [Slot -> Client \cup {NoClient}] /\ slot \in Slot
    BY DEF TypeInt
  <1>1. Open(c) /\ pc # "closed" /\ ~Registered(c)
            => cstate[c] = "CONNECTING" /\ down[c] = <<>>
    BY DEF Unlent
  <1>2. CASE AcceptClient
    <2>1. PICK h : h = Head(backlog)
      OBVIOUS
    <2>2. /\ backlog # <<>> /\ down' = [down EXCEPT ![h] = Append(@, Hello)]
          /\ pc = "accept" /\ cstate' = cstate
      BY <1>2, <2>1 DEF AcceptClient, clientVars
    <2>3. PICK s \in Slot : /\ client_fds[s] = NoClient
                            /\ client_fds' = [client_fds EXCEPT ![s] = h]
      BY <1>2, <2>1 DEF AcceptClient, LowestFree, FreeSlots
    <2>4. h # c
      BY <2>3, <1>type DEF Registered
    <2>5. ~Registered(c)
      BY <2>3, <1>type, SessionAssumption DEF Registered
    <2> QED
      BY <2>2, <2>4, <2>5, <1>1, <1>type DEF Open
  (* Only the slot of a client that is gone is dropped. *)
  <1>3. CASE HandleEof \/ SendFail
    <2>1. /\ ~Open(client_fds[slot]) /\ pc # "closed"
          /\ client_fds' = [client_fds EXCEPT ![slot] = NoClient]
          /\ down'[c] \in {down[c], <<>>} /\ UNCHANGED cstate
      BY <1>3, ClosedStreams DEF HandleEof, SendFail, DropClient, clientVars
    <2>2. Open(c) /\ ~Registered(c)
      BY <2>1, <1>type, SessionAssumption DEF Open, Registered
    <2> QED
      BY <2>1, <2>2, <1>1
  <1>4. CASE SendFrame
    <2>1. /\ UNCHANGED <<client_fds, cstate>> /\ client_fds[slot] \in Client
          /\ pc = "send"
          /\ \A x \in Client : x # client_fds[slot] => down'[x] = down[x]
      BY <1>4, <1>type DEF SendFrame, clientVars
    <2>2. ~Registered(c) /\ c # client_fds[slot]
      BY <2>1, <1>type DEF Registered
    <2> QED
      BY <2>1, <2>2, <1>1 DEF Open
  <1>5. CASE \/ StartPoll \/ AcceptRefuse \/ AcceptFail \/ AcceptDone \/ HandleRelease
             \/ HandleNothing \/ BeginFrame \/ EndFrame \/ SkipSlot \/ UNCHANGED vars
    <2>1. UNCHANGED <<client_fds, down, cstate>> /\ pc # "closed"
      BY <1>5 DEF StartPoll, AcceptRefuse, AcceptFail, AcceptDone, HandleRelease,
                  HandleNothing, BeginFrame, EndFrame, SkipSlot,
                  vars, serverVars, netVars, clientVars
    <2> QED
      BY <2>1, <1>1 DEF Open, Registered
  <1>6. CASE ServerDestroy \/ ServerCrash
    BY <1>6 DEF ServerDestroy, ServerCrash, ServerGone
  <1>7. ASSUME NEW x \in Client, ClientStep(x), x # c
        PROVE  cstate'[c] = "CONNECTING" /\ down'[c] = <<>>
    <2>1. UNCHANGED <<client_fds, pc>> /\ SameAs(c)
      BY <1>7, ClientKeepsServer, ClientAlone DEF serverVars
    <2> QED
      BY <2>1, <1>1 DEF Open, Registered, SameAs
  <1>8. CASE ClientStep(c)
    <2>1. UNCHANGED <<client_fds, pc>>
      BY <1>8, ClientKeepsServer DEF serverVars
    <2>2. pc # "closed" /\ ~Registered(c)
      BY <2>1 DEF Registered
    <2>3. CASE Connect(c)
      BY <2>2, <2>3, <1>type DEF Connect, BacklogInv
    <2>4. CASE Open(c)
      <3>1. cstate[c] = "CONNECTING" /\ down[c] = <<>> /\ cpc[c] = "idle"
        BY <2>2, <2>4, <1>1 DEF InHand
      <3>2. ~Connected(c) /\ ~ClientAcquire(c) /\ ~ClientClose(c)
            /\ \A b \in Buf : ~Release(c, b)
        BY <3>1 DEF Connected, ClientAcquire, Receive, ReceiveFails, SkipOld,
                    RecvFails, TakeNewest, AcquireReturns, SyncTimeout, ClientClose,
                    Disconnect, CloseRelease, CloseSocket, Release
      <3>3. ConnectFails(c) \/ ClientCrash(c) \/ Connect(c)
        BY <1>8, <3>2 DEF ClientStep, ClientConnect
      <3>4. CASE ConnectFails(c) \/ ClientCrash(c)
        BY <3>4, <1>type DEF ConnectFails, ClientCrash, ClientCloses, Open
      <3> QED
        BY <3>3, <3>4, <2>3
    <2>5. CASE ~Open(c) /\ ~Connect(c)
      <3>1. ~(Open(c)')
        BY <1>8, <2>5, <1>type
        DEF ClientStep, ClientConnect, ConnectFails, Connected, ClientAcquire, Receive,
            ReceiveFails, SkipOld, RecvFails, TakeNewest, AcquireReturns, SyncTimeout,
            ClientClose, Disconnect, CloseRelease, CloseSocket, ClientCrash, ClientCloses,
            Release, Open
      <3> QED
        BY <3>1
    <2> QED
      BY <2>3, <2>4, <2>5
  <1> QED
    BY <1>2, <1>3, <1>4, <1>5, <1>6, <1>7, <1>8
    DEF Next, ServerPoll, ServerPublish, AllEnded, ClientStep

(* Before a client is accepted it was told of nothing. *)
LEMMA AcceptedFresh ==
    ASSUME AllInv, AcceptClient, NEW c \in Client, Registered(c)', ~Registered(c)
    PROVE  Leases(c) = {}
  <1> USE DEF AllInv, Inv, LeaseInv
  <1>1. PICK h : h = Head(backlog)
    OBVIOUS
  <1>2. backlog # <<>> /\ Open(h)
    BY <1>1 DEF AcceptClient
  <1>3. PICK s \in Slot : client_fds' = [client_fds EXCEPT ![s] = h]
    BY <1>1 DEF AcceptClient, LowestFree, FreeSlots
  <1>4. c = h
    BY <1>3 DEF TypeInt, Registered
  <1>5. h = backlog[1] /\ 1 \in 1..Len(backlog)
    BY <1>1, <1>2, TailElements DEF TypeInt
  <1>6. down[c] = <<>> /\ cstate[c] = "CONNECTING"
    BY <1>2, <1>4, <1>5 DEF StreamInv, BacklogInv, Open
  <1>7. msg[c] = Hello /\ acquired_refs[c] = NoRefs
    BY <1>6 DEF Quiet, StreamInv, InHand
  <1> QED
    BY <1>6, <1>7, NoLeases

(* The producer gets a buffer, and ends with one, that no client has. *)
LEMMA WrittenIsFree ==
    ASSUME AllInv, Unlent, pc # "closed", NEW b \in Buf, frame_refs[b] = 0,
           NEW c \in Client, ServerIoFails => Registered(c)
    PROVE  \A m \in Leases(c) : m.buf_idx # b
  BY LeaseIsCounted

LEMMA IntactStep ==
    ASSUME AllInv, HeldInv, [Next]_vars
    PROVE  HeldFrameIntact'
  <1> SUFFICES ASSUME NEW c \in Client, ServerIoFails => Registered(c)',
                      NEW m \in Leases(c)'
               PROVE  content'[m.buf_idx] = m.frame_id
    BY DEF HeldFrameIntact
  <1> USE DEF HeldInv
  <1>type. /\ content \in [Buf -> Nat] /\ current_idx \in Buf
           /\ writing \in Buf \cup {NoBuf}
    BY DEF AllInv, Inv, TypeInt
  <1>1. ASSUME m \in Leases(c), ServerIoFails => Registered(c)
        PROVE  content[m.buf_idx] = m.frame_id /\ m.buf_idx \in Buf
    BY <1>1, LeaseHasToken, SessionAssumption DEF HeldFrameIntact
  <1>2. CASE BeginFrame
    <2>1. PICK b \in Buf : /\ frame_refs[b] = 0 /\ content' = [content EXCEPT ![b] = 0]
                           /\ pc = "app" /\ UNCHANGED client_fds
      BY <1>2, BeginFree DEF BeginFrame
    <2>2. m \in Leases(c) /\ (ServerIoFails => Registered(c))
      BY <1>2, <2>1, ServerKeepsLeases DEF Registered
    <2>3. m.buf_idx # b
      BY <2>1, <2>2, WrittenIsFree
    <2> QED
      BY <2>1, <2>2, <2>3, <1>1, <1>type
  <1>3. CASE EndFrame
    <2>1. /\ writing \in Buf /\ frame_refs[writing] = 0 /\ pc = "app"
          /\ content' = [content EXCEPT ![writing] = frame_id + 1]
          /\ UNCHANGED client_fds
      BY <1>3, <1>type DEF EndFrame, AllInv, Inv, RefInv
    <2>2. m \in Leases(c) /\ (ServerIoFails => Registered(c))
      BY <1>3, <2>1, ServerKeepsLeases DEF Registered
    <2>3. m.buf_idx # writing
      BY <2>1, <2>2, WrittenIsFree
    <2> QED
      BY <2>1, <2>2, <2>3, <1>1, <1>type
  <1>4. CASE SendFrame
    <2>1. UNCHANGED <<content, client_fds>> /\ pc = "send"
      BY <1>4 DEF SendFrame
    <2>2. \/ m \in Leases(c)
          \/ m = [frame_id |-> frame_id, buf_idx |-> current_idx]
      BY <1>4, SendLends
    <2> QED
      BY <2>1, <2>2, <1>1 DEF Sent, Registered
  <1>5. CASE AcceptClient
    <2>1. UNCHANGED content /\ m \in Leases(c)
      BY <1>5, ServerKeepsLeases DEF AcceptClient, HandleEof, ServerPoll
    <2>2. Registered(c)' => Registered(c)
      BY <1>5, <2>1, AcceptedFresh
    <2> QED
      BY <2>1, <2>2, <1>1
  <1>6. CASE \/ StartPoll \/ AcceptRefuse \/ AcceptFail \/ AcceptDone \/ HandleRelease
             \/ HandleEof \/ HandleNothing \/ SkipSlot \/ SendFail
             \/ ServerDestroy \/ ServerCrash \/ UNCHANGED vars
    <2>1. UNCHANGED content
      BY <1>6
      DEF StartPoll, AcceptRefuse, AcceptFail, AcceptDone, HandleRelease,
          HandleEof, HandleNothing, SkipSlot, SendFail, ServerDestroy, ServerCrash,
          ServerGone, vars
    <2>2. m \in Leases(c)
      BY <1>6, ServerKeepsLeases, ClosedLeases DEF ServerPoll, Closing
    <2>3. Registered(c)' => Registered(c)
      BY <1>6, SessionAssumption
      DEF StartPoll, AcceptRefuse, AcceptFail, AcceptDone, HandleRelease,
          HandleEof, HandleNothing, SkipSlot, SendFail, ServerDestroy, ServerCrash,
          ServerGone, DropClient, vars, serverVars, Registered, AllInv, Inv, TypeInt
    <2> QED
      BY <2>1, <2>3, <2>2, <1>1
  <1>7. ASSUME NEW x \in Client, ClientStep(x) PROVE content'[m.buf_idx] = m.frame_id
    <2>1. UNCHANGED <<content, client_fds>>
      BY <1>7, ClientKeepsServer DEF serverVars
    <2>2. m \in Leases(c)
      BY <1>7, ClientReturns, OthersKeepLeases DEF AllInv, Inv
    <2> QED
      BY <2>1, <2>2, <1>1 DEF Registered
  <1> QED
    BY <1>2, <1>3, <1>4, <1>5, <1>6, <1>7
    DEF Next, ServerPoll, ServerPublish, AllEnded, ClientStep

LEMMA HeldInvCorrect == Spec => [](AllInv /\ HeldInv)
  <1>1. Init => HeldInv
    BY HeldInit
  <1>2. AllInv /\ HeldInv /\ [Next]_vars => HeldInv'
    BY SentStep, UnlentStep, IntactStep DEF AllInv, HeldInv
  <1>3. Spec => []AllInv
    BY LeaseInvCorrect DEF AllInv
  <1> QED
    BY <1>1, <1>2, <1>3, PTL DEF Spec

(* A frame that a client reads, or was told of and may come to read, is whole
   in its buffer: begin_frame never hands out that buffer, whatever the clients
   skip, give back, keep or leave behind when they die, in every buffering mode
   and however many clients there are.  Where a send to a client that is alive
   may fail, this is so until the server drops it.                           *)
THEOREM HeldFrameIntactCorrect == Spec => []HeldFrameIntact
  <1>1. HeldInv => HeldFrameIntact
    BY DEF HeldInv
  <1> QED
    BY <1>1, HeldInvCorrect, PTL

-----------------------------------------------------------------------------
(* Session implements FrameLease, step by step.  Where a send to a client that is
   alive may fail it does not: the server then takes back what the client has. *)

LEMMA RefinesInit == Init => Lease!Init
  <1> SUFFICES ASSUME Init PROVE Lease!Init
    OBVIOUS
  <1>1. \A c \in Client : Leases(c) = {}
    BY NoLeases DEF Init
  <1> QED
    BY <1>1 DEF Init, Lease!Init, NoRefs

LEMMA RefinesStep ==
    ASSUME ~ServerIoFails, AllInv, HeldInv, [Next]_vars
    PROVE  [Lease!Next]_(Lease!vars)
  <1> USE DEF HeldInv
  <1>type. /\ writing \in Buf \cup {NoBuf} /\ NoBuf \notin Buf
           /\ current_idx \in Buf /\ frame_id \in Nat
    BY SessionAssumption DEF AllInv, Inv, TypeInt, NoBuf, Buf
  <1>kept. ASSUME \A c \in Client : Leases(c)' = Leases(c)
           PROVE  [c \in Client |-> Leases(c)]' = [c \in Client |-> Leases(c)]
    BY <1>kept
  <1>1. CASE BeginFrame
    <2>1. PICK b \in Buf : /\ frame_refs[b] = 0 /\ content' = [content EXCEPT ![b] = 0]
                           /\ pc = "app" /\ writing = NoBuf /\ writing' = b
                           /\ UNCHANGED frame_id
      BY <1>1, BeginFree DEF BeginFrame, shmVars
    <2>2. \A c \in Client : \A m \in Leases(c) : m.buf_idx # b
      BY <2>1, WrittenIsFree
    <2>3. \A c \in Client : Leases(c)' = Leases(c)
      BY <1>1, ServerKeepsLeases
    <2>4. Lease!StartWrite(b)
      BY <2>1, <2>2, <2>3, <1>kept DEF Lease!StartWrite, Lease!Lent
    <2> QED
      BY <2>4 DEF Lease!Next
  <1>2. CASE EndFrame
    <2>1. \A c \in Client : Leases(c)' = Leases(c)
      BY <1>2, ServerKeepsLeases
    <2>2. Lease!Publish
      BY <1>2, <2>1, <1>kept DEF EndFrame, Lease!Publish
    <2> QED
      BY <2>2 DEF Lease!Next
  <1>3. CASE SendFrame
    <2>1. PICK c \in Client :
             /\ Leases(c)' = Leases(c) \cup {[frame_id |-> frame_id, buf_idx |-> current_idx]}
             /\ \A x \in Client : x # c => Leases(x)' = Leases(x)
             /\ \A m \in Leases(c) : m.buf_idx # current_idx
      BY <1>3, SendLends
    <2>2. /\ writing = NoBuf /\ frame_id > 0 /\ content[current_idx] = frame_id
          /\ UNCHANGED <<content, writing, frame_id>>
      BY <1>3 DEF SendFrame, Sent, AllInv, Inv, RefInv
    <2>3. [x \in Client |-> Leases(x)]' =
            [[x \in Client |-> Leases(x)] EXCEPT
               ![c] = @ \cup {[frame_id |-> frame_id, buf_idx |-> current_idx]}]
      BY <2>1
    <2>4. Lease!Lend(c, current_idx)
      BY <2>1, <2>2, <2>3 DEF Lease!Lend
    <2> QED
      BY <2>4, <1>type DEF Lease!Next
  <1>4. CASE ServerDestroy \/ ServerCrash
    <2>1. writing' = NoBuf /\ UNCHANGED <<content, frame_id>>
      BY <1>4 DEF ServerDestroy, ServerCrash, ServerGone
    <2>2. \A c \in Client : Leases(c)' = Leases(c) \cap Leases(c)'
      BY <1>4, ClosedLeases DEF Closing
    <2>3. [c \in Client |-> Leases(c)]' =
              [c \in Client |-> [x \in Client |-> Leases(x)][c]
                                  \cap [x \in Client |-> Leases(x)]'[c]]
      BY <2>2
    <2>4. Lease!Abandon
      BY <2>1, <2>3 DEF Lease!Abandon
    <2> QED
      BY <2>4 DEF Lease!Next
  <1>5. CASE ServerPoll \/ SkipSlot \/ SendFail \/ UNCHANGED vars
    <2>1. UNCHANGED <<content, writing, frame_id>>
      BY <1>5 DEF ServerPoll, StartPoll, AcceptRefuse, AcceptFail, AcceptClient,
                  AcceptDone, HandleRelease, HandleEof, HandleNothing, SkipSlot,
                  SendFail, vars, serverVars, shmVars
    <2>2. \A c \in Client : Leases(c)' = Leases(c)
      BY <1>5, ServerKeepsLeases, ClosedLeases DEF Closing
    <2> QED
      BY <2>1, <2>2, <1>kept DEF Lease!vars
  <1>6. ASSUME NEW c \in Client, ClientStep(c) PROVE [Lease!Next]_(Lease!vars)
    <2>1. UNCHANGED <<content, writing, frame_id>>
      BY <1>6, ClientKeepsServer DEF serverVars, shmVars
    <2>2. /\ Leases(c)' \subseteq Leases(c)
          /\ \A x \in Client : x # c => Leases(x)' = Leases(x)
      BY <1>6, ClientReturns, OthersKeepLeases DEF AllInv, Inv
    <2>3. PICK gone : gone = Leases(c) \ Leases(c)'
      OBVIOUS
    <2>4. CASE gone = {}
      <3>1. Leases(c)' = Leases(c)
        BY <2>2, <2>3, <2>4
      <3> QED
        BY <2>1, <2>2, <3>1, <1>kept DEF Lease!vars
    <2>5. CASE gone # {}
      <3>1. Leases(c)' = Leases(c) \ gone /\ gone \in SUBSET Leases(c)
        BY <2>2, <2>3
      <3>2. [x \in Client |-> Leases(x)]' =
              [[x \in Client |-> Leases(x)] EXCEPT ![c] = @ \ gone]
        BY <2>2, <3>1
      <3>3. Lease!Return(c, gone)
        BY <2>1, <2>5, <3>2 DEF Lease!Return
      <3> QED
        BY <3>1, <3>3 DEF Lease!Next
    <2> QED
      BY <2>4, <2>5
  <1> QED
    BY <1>1, <1>2, <1>3, <1>4, <1>5, <1>6
    DEF Next, ServerPublish, AllEnded, ClientStep

(* The slots, counters and messages of the session are the lease protocol of
   FrameLease: buffers are written only when no client has them, published in
   order, lent once, and given back by closing, crashing, skipping and timing
   out alike.  The hypothesis is the bound of the protocol: a connection breaks
   when its client ends, not while the client is alive.                      *)
THEOREM RefinesCorrect == ASSUME ~ServerIoFails PROVE Spec => Refines
  <1>1. Init => Lease!Init
    BY RefinesInit
  <1>2. AllInv /\ HeldInv /\ [Next]_vars => [Lease!Next]_(Lease!vars)
    BY RefinesStep
  <1> QED
    BY <1>1, <1>2, HeldInvCorrect, PTL DEF Spec, Refines, Lease!Spec

(* What a client was told of and has not given back is whole, already by the contract:
   this is what Session owes to FrameLease alone.                                      *)
THEOREM LeasedFramesWhole == ASSUME ~ServerIoFails PROVE Spec => []Lease!LeasesWhole
  <1>1. NoBuf \notin Buf
    BY SessionAssumption DEF NoBuf, Buf
  <1>2. Lease!Spec => []Lease!LeasesWhole
    BY <1>1, Lease!LeasesWholeCorrect
  <1> QED
    BY <1>2, RefinesCorrect DEF Refines

-----------------------------------------------------------------------------
(* begin_frame finds a buffer that nobody has, if there is one. *)
LEMMA BeginFinds ==
    ASSUME TypeInt, \A b \in Buf : ~BeginReturns(b),
           NEW b \in Buf, FrameCount = 1 \/ b # current_idx
    PROVE  frame_refs[b] # 0
  <1>type. current_idx \in Buf /\ write_idx \in Buf /\ FrameCount \in 1..3
    BY SessionAssumption DEF TypeInt
  <1>1. CASE FrameCount = 1
    BY <1>1 DEF BeginReturns
  <1>2. CASE FrameCount = 2
    <2>1. b # current_idx /\ b \in 0..1 /\ current_idx \in 0..1
      BY <1>2, <1>type DEF Buf
    <2>2. b = 1 - (current_idx % 2)
      BY <2>1
    <2> QED
      BY <1>2, <2>1, <2>2 DEF BeginReturns, Available
  <1>3. CASE FrameCount = 3
    <2>1. \A n \in 0..2 : Rotation(n) \in Buf
      BY <1>3, <1>type DEF Rotation, Buf
    <2>2. b \in {Rotation(0), Rotation(1), Rotation(2)}
      BY <1>3, <1>type DEF Rotation, Buf
    <2>3. ~Available(Rotation(0))
      <3>1. \A m \in 0..(0 - 1) : ~Available(Rotation(m))
        OBVIOUS
      <3> QED
        BY <1>3, <2>1, <3>1 DEF BeginReturns
    <2>4. ~Available(Rotation(1))
      <3>1. \A m \in 0..(1 - 1) : m = 0
        OBVIOUS
      <3> QED
        BY <1>3, <2>1, <2>3, <3>1 DEF BeginReturns
    <2>5. ~Available(Rotation(2))
      <3>1. \A m \in 0..(2 - 1) : m = 0 \/ m = 1
        OBVIOUS
      <3> QED
        BY <1>3, <2>1, <2>3, <2>4, <3>1 DEF BeginReturns
    <2>6. b # current_idx
      BY <1>3
    <2> QED
      BY <2>2, <2>3, <2>4, <2>5, <2>6 DEF Available
  <1> QED
    BY <1>1, <1>2, <1>3, <1>type

(* The producer is never refused a buffer for what nobody has: for each buffer there is a
   client that must give it back or that the next poll drops.  Only a notification whose
   fence fd was lost stays for nothing.  ProducerProgress is what follows under fairness. *)
THEOREM RefusedForAReasonCorrect == Spec => []RefusedForAReason
  <1>1. AllInv => RefusedForAReason
    <2> SUFFICES ASSUME AllInv, pc = "app", \A b \in Buf : ~BeginReturns(b),
                        NEW b \in Buf, FrameCount = 1 \/ b # current_idx
                 PROVE  \E s \in Holders(b) :
                           /\ client_fds[s] # NoClient
                           /\ \/ ~Open(client_fds[s])
                              \/ Tokens(client_fds[s], b) = 1
                              \/ FenceRecvFails
      BY DEF RefusedForAReason
    <2> USE DEF AllInv, Inv
    <2>1. frame_refs[b] # 0
      BY BeginFinds
    <2>2. Counted(client_refs, frame_refs)
      BY DEF RefInv
    <2>3. PICK s \in Slot : client_refs[s][b] = 1
      <3>1. Cardinality(HoldersIn(client_refs, b)) # 0
        BY <2>1, <2>2 DEF Counted
      <3>2. HoldersIn(client_refs, b) # {}
        BY <3>1, FS_EmptySet
      <3> QED
        BY <3>2 DEF HoldersIn
    <2>4. client_fds[s] # NoClient
      BY <2>3 DEF RefInv, NoRefs
    <2>5. Open(client_fds[s]) => Tokens(client_fds[s], b) = 1 \/ FenceRecvFails
      BY <2>3, <2>4 DEF LeaseInv, LeaseAccounting
    <2> QED
      BY <2>3, <2>4, <2>5 DEF Holders
  <1>2. Spec => []AllInv
    BY HeldInvCorrect, PTL
  <1> QED
    BY <1>1, <1>2, PTL

-----------------------------------------------------------------------------
(* What the acquires of a client return.  Told is the newest frame it can have
   heard of.  While end_frame goes through the slots, those that are still to be
   told are one frame behind.                                                *)
Told(c) ==
    IF pc = "send" /\ \E s \in Unsent : client_fds[s] = c THEN frame_id - 1 ELSE frame_id

(* What waits in the stream is newer than what was taken from it.  It takes Told
   to see that the next frame that is sent is newer, too.                    *)
OrderInv ==
    \A c \in Client :
        /\ \A i \in 1..Len(down[c]) :
             /\ down[c][i].frame_id <= Told(c)
             /\ down[c][i] # Hello => last_frame_id[c] < down[c][i].frame_id
        /\ msg[c].frame_id <= Told(c) /\ last_frame_id[c] <= Told(c)
        /\ cpc[c] = "recv" => last_frame_id[c] < msg[c].frame_id

LEMMA ToldType ==
    ASSUME Inv, Sent, NEW c
    PROVE  Told(c) \in Nat /\ Told(c) <= frame_id
  <1>1. frame_id \in Nat /\ (pc = "send" => frame_id - 1 \in Nat)
    BY SessionAssumption DEF Inv, TypeInt, Sent
  <1> QED
    BY <1>1 DEF Told

LEMMA ServerFrames ==
    ASSUME TypeInt, [Next]_vars
    PROVE  /\ EndFrame \/ UNCHANGED frame_id
           /\ pc = "send" => UNCHANGED frame_id
           /\ pc' = "send" => EndFrame \/ pc = "send"
  <1>1. CASE EndFrame
    BY <1>1 DEF EndFrame
  <1>2. CASE ServerPoll \/ BeginFrame \/ SkipSlot \/ SendFrame \/ SendFail
             \/ ServerDestroy \/ ServerCrash \/ UNCHANGED vars
    BY <1>2 DEF ServerPoll, StartPoll, AcceptRefuse, AcceptFail, AcceptClient, AcceptDone,
                HandleRelease, HandleEof, HandleNothing, BeginFrame, SkipSlot, SendFrame,
                SendFail, ServerDestroy, ServerCrash, ServerGone, NextSlot,
                vars, serverVars, shmVars
  <1>3. ASSUME NEW c \in Client, ClientStep(c) PROVE UNCHANGED <<pc, frame_id>>
    BY <1>3, ClientKeepsServer DEF serverVars, shmVars
  <1> QED
    BY <1>1, <1>2, <1>3 DEF Next, ServerPublish, AllEnded, ClientStep

(* The slots that are still to be told: none is added while they are. *)
LEMMA ToldSlots ==
    ASSUME TypeInt, [Next]_vars, pc = "send", pc' = "send"
    PROVE  /\ Unsent' \subseteq Unsent
           /\ \A s \in Slot : client_fds'[s] \in {client_fds[s], NoClient}
  <1>1. CASE ServerPublish \/ UNCHANGED vars
    <2>1. NextSlot \/ UNCHANGED slot
      BY <1>1 DEF ServerPublish, EndFrame, SkipSlot, SendFrame, SendFail, vars, serverVars
    <2>2. Unsent' \subseteq Unsent
      BY <2>1, UnsentStep DEF Unsent
    <2>3. \A s \in Slot : client_fds'[s] \in {client_fds[s], NoClient}
      BY <1>1 DEF ServerPublish, EndFrame, SkipSlot, SendFrame, SendFail, DropClient,
                  vars, serverVars, TypeInt
    <2> QED
      BY <2>2, <2>3
  <1>2. ASSUME NEW c \in Client, ClientStep(c) PROVE UNCHANGED <<slot, client_fds>>
    BY <1>2, ClientKeepsServer DEF serverVars
  <1>3. ~ServerPoll /\ ~BeginFrame /\ ~ServerDestroy /\ ~ServerCrash
    BY DEF ServerPoll, StartPoll, AcceptRefuse, AcceptFail, AcceptClient, AcceptDone,
           HandleRelease, HandleEof, HandleNothing, BeginFrame, ServerDestroy,
           ServerCrash, ServerGone
  <1> QED
    BY <1>1, <1>2, <1>3 DEF Next, AllEnded, ClientStep, Unsent

LEMMA ToldGrows ==
    ASSUME Inv, Inv', Sent, Sent', [Next]_vars, NEW c \in Client
    PROVE  Told(c) <= Told(c)' /\ Told(c) \in Nat /\ Told(c)' \in Nat
  <1>1. Told(c) \in Nat /\ Told(c) <= frame_id
    BY ToldType
  <1>2. frame_id \in Nat /\ frame_id' \in Nat
    BY SessionAssumption DEF Inv, TypeInt
  <1>3. Told(c)' \in Nat
    <2>1. pc' = "send" => frame_id' > 0
      BY DEF Sent
    <2>2. \/ Told(c)' = frame_id'
          \/ pc' = "send" /\ Told(c)' = frame_id' - 1
      BY DEF Told
    <2> QED
      BY <1>2, <2>1, <2>2
  <1>4. CASE pc # "send"
    <2>1. CASE EndFrame
      <3>1. frame_id' = frame_id + 1
        BY <2>1 DEF EndFrame
      <3> QED
        BY <3>1, <1>1, <1>2 DEF Told
    <2>2. CASE ~EndFrame
      BY <1>1, <1>2, <1>4, <2>2, ServerFrames DEF Told, Inv
    <2> QED
      BY <2>1, <2>2
  <1>5. CASE pc = "send"
    <2>1. frame_id' = frame_id
      BY <1>5, ServerFrames DEF Inv
    <2>2. CASE pc' = "send"
      <3>1. (\E s \in Unsent' : client_fds'[s] = c) => \E s \in Unsent : client_fds[s] = c
        BY <1>5, <2>2, ToldSlots, SessionAssumption DEF Inv, Unsent
      <3>2. CASE \E s \in Unsent' : client_fds'[s] = c
        <4>1. Told(c) = frame_id - 1
          BY <1>5, <3>1, <3>2 DEF Told
        <4>2. Told(c)' = frame_id' - 1
          BY <2>2, <3>2 DEF Told
        <4> QED
          BY <1>1, <1>2, <1>3, <2>1, <4>1, <4>2
      <3>3. CASE ~\E s \in Unsent' : client_fds'[s] = c
        <4>1. Told(c)' = frame_id'
          BY <3>3 DEF Told
        <4> QED
          BY <1>1, <1>2, <2>1, <4>1
      <3> QED
        BY <3>2, <3>3
    <2>3. CASE pc' # "send"
      BY <1>1, <1>2, <2>1, <2>3 DEF Told
    <2> QED
      BY <2>2, <2>3
  <1> QED
    BY <1>1, <1>3, <1>4, <1>5

LEMMA OrderClientStep ==
    ASSUME AllInv, OrderInv, NEW c \in Client, ClientStep(c),
           \A x \in Client : Told(x)' = Told(x) /\ Told(x) \in Nat
    PROVE  OrderInv'
  <1> USE DEF AllInv, Inv, StreamInv, OrderInv
  <1>type. /\ down \in [Client -> Seq(FrameMsg)] /\ down[c] \in Seq(FrameMsg)
           /\ msg[c] \in FrameMsg /\ last_frame_id[c] \in Nat
           /\ \A i \in 1..Len(down[c]) : down[c][i] \in FrameMsg
           /\ DOMAIN msg = Client /\ DOMAIN cpc = Client /\ DOMAIN last_frame_id = Client
    BY ElementOfSeq DEF TypeInt
  <1>hello. Hello.frame_id = 0 /\ NoBuf \notin Buf /\ Hello.buf_idx = NoBuf
    BY SessionAssumption DEF Hello, NoBuf, Buf
  <1>tail. down[c] # <<>> =>
             /\ \A i \in 1..Len(Tail(down[c])) :
                   \E j \in 1..Len(down[c]) : Tail(down[c])[i] = down[c][j]
             /\ Head(down[c]) = down[c][1] /\ 1 \in 1..Len(down[c])
    BY <1>type, TailElements
  <1>empty. Len(<<>>) = 0 /\ 1..0 = {}
    BY EmptySeq
  (* What a step of the client does to its stream, its frame and its number. *)
  <1>1. \/ down'[c] = down[c] \/ down'[c] = <<>>
        \/ down[c] # <<>> /\ down'[c] = Tail(down[c])
    BY <1>type DEF ClientStep, ClientConnect, Connect, Connected, ConnectFails,
       ClientAcquire, Receive, ReceiveFails, SkipOld, RecvFails, TakeNewest,
       AcquireReturns, SyncTimeout, ClientClose, Disconnect, CloseRelease, CloseSocket,
       ClientCrash, ClientCloses, Release, netVars
  <1>2. \/ last_frame_id'[c] = last_frame_id[c]
        \/ TakeNewest(c) /\ last_frame_id'[c] = msg[c].frame_id
    BY <1>type DEF ClientStep, ClientConnect, Connect, Connected, ConnectFails,
       ClientAcquire, Receive, ReceiveFails, SkipOld, RecvFails, TakeNewest,
       AcquireReturns, SyncTimeout, ClientClose, Disconnect, CloseRelease, CloseSocket,
       ClientCrash, ClientCloses, Release
  <1>3. \/ cpc'[c] # "recv" /\ msg'[c] \in {msg[c], Hello}
        \/ Receive(c)
        \/ msg'[c] = msg[c] /\ cpc'[c] = cpc[c] /\ last_frame_id' = last_frame_id
    BY <1>type DEF ClientStep, ClientConnect, Connect, Connected, ConnectFails,
       ClientAcquire, ReceiveFails, SkipOld, RecvFails, TakeNewest,
       AcquireReturns, SyncTimeout, ClientClose, Disconnect, CloseRelease, CloseSocket,
       ClientCrash, ClientCloses, Release, SetMsg
  (* acquire remembers a frame when it has seen that nothing newer waits. *)
  <1>4. TakeNewest(c) => down'[c] = <<>>
    BY <1>type DEF TakeNewest, Readable, netVars
  <1>5. ASSUME NEW i \in 1..Len(down'[c])
        PROVE  /\ down'[c][i].frame_id <= Told(c)'
               /\ down'[c][i] # Hello => last_frame_id'[c] < down'[c][i].frame_id
    <2>1. \E j \in 1..Len(down[c]) : down'[c][i] = down[c][j]
      BY <1>1, <1>empty, <1>tail, <1>5
    <2>2. last_frame_id'[c] = last_frame_id[c]
      BY <1>2, <1>4, <1>5, <1>empty
    <2> QED
      BY <2>1, <2>2
  <1>6. Receive(c) =>
          /\ cpc'[c] = "recv" /\ msg'[c].frame_id <= Told(c)'
          /\ last_frame_id'[c] < msg'[c].frame_id
          /\ last_frame_id'[c] = last_frame_id[c]
    <2> SUFFICES ASSUME Receive(c)
                 PROVE  /\ cpc'[c] = "recv" /\ msg'[c].frame_id <= Told(c)'
                        /\ last_frame_id'[c] < msg'[c].frame_id
                        /\ last_frame_id'[c] = last_frame_id[c]
      OBVIOUS
    <2>1. /\ down[c] # <<>> /\ msg'[c] = down[c][1] /\ 1 \in 1..Len(down[c])
          /\ cpc'[c] = "recv" /\ last_frame_id'[c] = last_frame_id[c]
          /\ cstate[c] = "CONNECTED"
      BY <1>tail, <1>type DEF Receive, SetMsg, InHand
    <2>2. down[c][1] # Hello
      BY <2>1, <1>hello DEF HelloFirst
    <2> QED
      BY <2>1, <2>2
  <1>7. /\ msg'[c].frame_id <= Told(c)' /\ last_frame_id'[c] <= Told(c)'
        /\ cpc'[c] = "recv" => last_frame_id'[c] < msg'[c].frame_id
    <2>1. CASE Receive(c)
      BY <2>1, <1>6
    <2>2. CASE ~Receive(c)
      <3>1. last_frame_id'[c] <= Told(c)'
        BY <1>2
      <3>2. msg'[c] \in {msg[c], Hello}
        BY <2>2, <1>3
      <3>3. msg'[c].frame_id <= Told(c)'
        BY <3>2, <1>hello
      <3>4. cpc'[c] = "recv" => last_frame_id'[c] < msg'[c].frame_id
        BY <2>2, <1>3
      <3> QED
        BY <3>1, <3>3, <3>4
    <2> QED
      BY <2>1, <2>2
  <1>8. \A x \in Client : x # c => SameAs(x)
    BY ClientAlone
  <1> QED
    BY <1>5, <1>7, <1>8 DEF SameAs

LEMMA OrderServerStep ==
    ASSUME AllInv, OrderInv, UNCHANGED clientVars,
           \A x \in Client : Told(x) <= Told(x)' /\ Told(x) \in Nat /\ Told(x)' \in Nat,
           \/ \A x \in Client : down'[x] \in {down[x], <<>>}
           \/ AcceptClient
           \/ SendFrame
    PROVE  OrderInv'
  <1> USE DEF AllInv, Inv, StreamInv, OrderInv, clientVars
  <1>type. /\ down \in [Client -> Seq(FrameMsg)] /\ frame_id \in Nat
           /\ \A x \in Client : down[x] \in Seq(FrameMsg) /\ Len(down[x]) \in Nat
           /\ \A x \in Client : \A i \in 1..Len(down[x]) : down[x][i].frame_id \in Nat
           /\ \A x \in Client : msg[x].frame_id \in Nat /\ last_frame_id[x] \in Nat
    <2>1. /\ down \in [Client -> Seq(FrameMsg)] /\ frame_id \in Nat
          /\ msg \in [Client -> FrameMsg] /\ last_frame_id \in [Client -> Nat]
      BY SessionAssumption DEF TypeInt
    <2>2. \A m \in FrameMsg : m.frame_id \in Nat
      BY DEF FrameMsg
    <2>3. \A x \in Client : \A i \in 1..Len(down[x]) : down[x][i] \in FrameMsg
      BY <2>1, ElementOfSeq
    <2> QED
      BY <2>1, <2>2, <2>3, LenProperties
  <1>1. ASSUME NEW x \in Client, down'[x] = down[x]
        PROVE  /\ \A i \in 1..Len(down'[x]) :
                    /\ down'[x][i].frame_id <= Told(x)'
                    /\ down'[x][i] # Hello => last_frame_id'[x] < down'[x][i].frame_id
    BY <1>1, <1>type
  <1>2. ASSUME NEW c \in Client, NEW m \in FrameMsg, down' = [down EXCEPT ![c] = Append(@, m)],
               m.frame_id <= Told(c)', m # Hello => last_frame_id[c] < m.frame_id,
               NEW x \in Client
        PROVE  \A i \in 1..Len(down'[x]) :
                    /\ down'[x][i].frame_id <= Told(x)'
                    /\ down'[x][i] # Hello => last_frame_id'[x] < down'[x][i].frame_id
    <2>1. CASE x # c
      BY <2>1, <1>1, <1>2, <1>type
    <2>2. CASE x = c
      <3>1. \A i \in 1..Len(down'[c]) :
               \/ i \in 1..Len(down[c]) /\ down'[c][i] = down[c][i]
               \/ down'[c][i] = m
        BY <1>2, <1>type, AppendElements
      <3> QED
        BY <3>1, <2>2, <1>2, <1>type
    <2> QED
      BY <2>1, <2>2
  <1>3. \A x \in Client :
           /\ msg'[x].frame_id <= Told(x)' /\ last_frame_id'[x] <= Told(x)'
           /\ cpc'[x] = "recv" => last_frame_id'[x] < msg'[x].frame_id
    BY <1>type
  <1>4. CASE \A x \in Client : down'[x] \in {down[x], <<>>}
    BY <1>1, <1>3, <1>4, EmptySeq
  <1>5. CASE AcceptClient
    <2>1. PICK c : c = Head(backlog)
      OBVIOUS
    <2>2. /\ backlog # <<>> /\ down' = [down EXCEPT ![c] = Append(@, Hello)]
      BY <1>5, <2>1 DEF AcceptClient
    <2>3. c \in Client
      BY <2>1, <2>2, HeadTailProperties DEF TypeInt
    <2>4. Hello \in FrameMsg /\ Hello.frame_id <= Told(c)'
      BY <2>3 DEF Hello, FrameMsg
    <2> QED
      BY <2>2, <2>3, <2>4, <1>2, <1>3
  (* The frame that is sent is one newer than what was heard of. *)
  <1>6. CASE SendFrame
    <2>1. PICK c : c = client_fds[slot]
      OBVIOUS
    <2>2. PICK m : m = [frame_id |-> frame_id, buf_idx |-> current_idx]
      OBVIOUS
    <2>3. /\ c \in Client /\ down' = [down EXCEPT ![c] = Append(@, m)]
          /\ pc = "send" /\ slot \in Slot /\ NextSlot
          /\ UNCHANGED <<client_fds, frame_id>>
      BY <1>6, <2>1, <2>2 DEF SendFrame, TypeInt
    <2>4. m \in FrameMsg /\ m.frame_id = frame_id
      BY <2>2, <1>type DEF FrameMsg, TypeInt
    <2>5. Told(c) = frame_id - 1
      <3>1. slot \in Unsent
        BY <2>3, SessionAssumption DEF Unsent, Slot
      <3> QED
        BY <2>1, <2>3, <3>1 DEF Told
    <2>6. Told(c)' = frame_id
      <3>1. pc' = "send" => Unsent' \subseteq Unsent \ {slot}
        BY <2>3, UnsentStep
      <3>2. pc' = "send" => \A s \in Unsent' : client_fds'[s] # c
        BY <3>1, <2>1, <2>3, SessionAssumption DEF LeaseInv, OneSlot, Unsent
      <3> QED
        BY <2>3, <3>2 DEF Told
    <2>7. last_frame_id[c] < m.frame_id /\ m.frame_id <= Told(c)'
      BY <2>3, <2>4, <2>5, <2>6, <1>type
    <2> QED
      BY <2>3, <2>4, <2>7, <1>2, <1>3
  <1> QED
    BY <1>4, <1>5, <1>6

LEMMA OrderInit == Init => OrderInv
  <1> SUFFICES ASSUME Init PROVE OrderInv
    OBVIOUS
  <1>1. Len(<<>>) = 0 /\ 1..0 = {}
    BY EmptySeq
  <1> QED
    BY <1>1 DEF Init, OrderInv, Told, Hello

LEMMA OrderStep ==
    ASSUME AllInv, AllInv', HeldInv, HeldInv', OrderInv, [Next]_vars
    PROVE  OrderInv'
  <1>1. \A x \in Client : Told(x) <= Told(x)' /\ Told(x) \in Nat /\ Told(x)' \in Nat
    BY ToldGrows DEF AllInv, HeldInv
  <1>2. ASSUME NEW c \in Client, ClientStep(c) PROVE OrderInv'
    <2>1. \A x : Told(x)' = Told(x)
      BY <1>2, ClientKeepsServer DEF serverVars, shmVars, Told, Unsent
    <2> QED
      BY <1>1, <1>2, <2>1, OrderClientStep
  <1>3. CASE \/ ServerPoll \/ BeginFrame \/ EndFrame \/ SkipSlot \/ SendFrame \/ SendFail
             \/ ServerDestroy \/ ServerCrash \/ UNCHANGED vars
    <2>1. UNCHANGED clientVars
      BY <1>3 DEF ServerPoll, StartPoll, AcceptRefuse, AcceptFail, AcceptClient,
                  AcceptDone, HandleRelease, HandleEof, HandleNothing, BeginFrame,
                  EndFrame, SkipSlot, SendFrame, SendFail, ServerDestroy, ServerCrash,
                  ServerGone, vars
    <2>2. UNCHANGED down \/ AcceptClient \/ SendFrame \/ Closing
      BY <1>3 DEF ServerPoll, StartPoll, AcceptRefuse, AcceptFail,
                  AcceptDone, HandleRelease, HandleNothing, BeginFrame,
                  EndFrame, SkipSlot, Closing, vars, netVars
    <2>3. Closing => \A x \in Client : down'[x] \in {down[x], <<>>}
      BY ClosedStreams DEF Closing, AllInv, Inv
    <2> QED
      BY <1>1, <2>1, <2>2, <2>3, OrderServerStep
  <1> QED
    BY <1>2, <1>3 DEF Next, ServerPublish, AllEnded, ClientStep

(* What moves acquire from one place to the next. *)
LEMMA AcquireMoves ==
    ASSUME AllInv, [Next]_vars, NEW c \in Client
    PROVE  /\ cpc[c] = "recv" /\ cpc'[c] = "wait" => TakeNewest(c)
           /\ cpc'[c] = "skip" => SkipOld(c) \/ cpc[c] = "skip"
           /\ cpc'[c] = "skip" /\ ClientStep(c) => SkipOld(c)
  <1>type. /\ DOMAIN cpc = Client /\ DOMAIN cstate = Client
           /\ cpc[c] # "idle" => cstate[c] = "CONNECTED"
    BY DEF AllInv, Inv, TypeInt, StreamInv, InHand
  <1>1. ASSUME \/ ServerPoll \/ BeginFrame \/ ServerPublish \/ ServerDestroy \/ ServerCrash
               \/ UNCHANGED vars
        PROVE  UNCHANGED cpc[c]
    BY <1>1 DEF ServerPoll, StartPoll, AcceptRefuse, AcceptFail, AcceptClient,
                AcceptDone, HandleRelease, HandleEof, HandleNothing, BeginFrame,
                ServerPublish, EndFrame, SkipSlot, SendFrame, SendFail, ServerDestroy,
                ServerCrash, ServerGone, vars, clientVars
  <1>2. ASSUME NEW x \in Client, ClientStep(x), x # c PROVE UNCHANGED cpc[c]
    BY <1>2, ClientAlone DEF AllInv, Inv, SameAs
  <1>3. ASSUME ClientStep(c)
        PROVE  /\ cpc[c] = "recv" /\ cpc'[c] = "wait" => TakeNewest(c)
               /\ cpc'[c] = "skip" => SkipOld(c)
    BY <1>3, <1>type
    DEF ClientStep, ClientConnect, Connect, Connected, ConnectFails, ClientAcquire,
        Receive, SkipOld, AcquireReturns, SyncTimeout,
        ClientClose, Disconnect, CloseRelease, CloseSocket, ClientCrash, ClientCloses,
        Release, SetMsg, ReceiveFails, RecvFails, TakeNewest
  <1> QED
    BY <1>1, <1>2, <1>3 DEF Next, AllEnded, ClientStep

(* Each acquire takes a newer frame than the last, whatever was skipped, given
   back after a timeout or published meanwhile, for any number of frames and
   clients ("authoritative, ordered", session.c:185).                        *)
THEOREM FrameIdsIncreaseCorrect == Spec => FrameIdsIncrease
  <1> DEFINE A == \A c \in Client : cpc[c] = "recv" /\ cpc'[c] = "wait"
                                      => last_frame_id'[c] > last_frame_id[c]
  <1>1. Init => OrderInv
    BY OrderInit
  <1>2. /\ AllInv /\ HeldInv /\ OrderInv /\ AllInv' /\ HeldInv' /\ [Next]_vars
           => OrderInv'
    BY OrderStep
  <1>3. AllInv /\ HeldInv /\ OrderInv /\ [Next]_vars => [A]_vars
    <2> SUFFICES ASSUME AllInv, OrderInv, [Next]_vars, NEW c \in Client,
                        cpc[c] = "recv", cpc'[c] = "wait"
                 PROVE  last_frame_id'[c] > last_frame_id[c]
      OBVIOUS
    <2>1. TakeNewest(c) /\ last_frame_id \in [Client -> Nat] /\ msg[c].frame_id \in Nat
      BY AcquireMoves DEF AllInv, Inv, TypeInt, FrameMsg
    <2>2. last_frame_id'[c] = msg[c].frame_id
      BY <2>1 DEF TakeNewest
    <2> QED
      BY <2>1, <2>2 DEF OrderInv
  <1> QED
    BY <1>1, <1>2, <1>3, HeldInvCorrect, PTL DEF Spec, FrameIdsIncrease

(* Who has its connection closed is registered no more, and who has a connection that was
   closed is not registered again.                                                       *)
LEMMA SkippedStep ==
    ASSUME AllInv, AllInv', SkippedForNewer, [Next]_vars, NEW c \in Client, cpc'[c] = "skip"
    PROVE  down'[c] # <<>> \/ Eof(c)'
  <1> USE DEF AllInv, Inv, StreamInv, LeaseInv
  <1>type. /\ down \in [Client -> Seq(FrameMsg)] /\ slot \in Slot
           /\ client_fds \in [Slot -> Client \cup {NoClient}] /\ NoClient \notin Client
    BY SessionAssumption DEF TypeInt
  <1>eof. ~Registered(c)' => Eof(c)'
    <2>1. cstate'[c] = "CONNECTED"
      BY DEF InHand
    <2> QED
      BY <2>1 DEF Eof, Queued, BacklogInv
  <1>1. CASE SkipOld(c)
    <2>1. down' = down /\ UNCHANGED client_fds
      BY <1>1 DEF SkipOld, serverVars
    <2> QED
      BY <1>1, <2>1, <1>eof DEF SkipOld, Readable, Eof, Registered
  <1>2. CASE ~SkipOld(c)
    <2>1. /\ cpc[c] = "skip" /\ cstate[c] = "CONNECTED"
          /\ down[c] # <<>> \/ ~Registered(c)
      BY <1>2, AcquireMoves DEF SkippedForNewer, InHand, Eof
    <2>2. CASE AcceptClient
      <3>1. PICK h : h = Head(backlog)
        OBVIOUS
      <3>2. /\ backlog # <<>> /\ Open(h) /\ down' = [down EXCEPT ![h] = Append(@, Hello)]
            /\ \E s \in Slot : client_fds' = [client_fds EXCEPT ![s] = h]
        BY <2>2, <3>1 DEF AcceptClient
      <3>3. h = backlog[1] /\ 1 \in 1..Len(backlog)
        BY <3>1, <3>2, TailElements DEF TypeInt
      <3>4. h # c
        BY <2>1, <3>3 DEF BacklogInv
      <3> QED
        BY <2>1, <3>2, <3>4, <1>eof, <1>type DEF Registered
    <2>3. CASE SendFrame
      <3>1. PICK m \in FrameMsg : down' = [down EXCEPT ![client_fds[slot]] = Append(@, m)]
        <4>1. [frame_id |-> frame_id, buf_idx |-> current_idx] \in FrameMsg
          BY SessionAssumption DEF TypeInt, FrameMsg
        <4> QED
          BY <2>3, <4>1 DEF SendFrame
      <3>2. down'[c] = down[c] \/ down'[c] # <<>>
        BY <3>1, <1>type, AppendProperties
      <3>3. UNCHANGED client_fds
        BY <2>3 DEF SendFrame
      <3> QED
        BY <2>1, <3>2, <3>3, <1>eof DEF Registered
    <2>4. CASE HandleEof \/ SendFail
      <3>1. /\ client_fds' = [client_fds EXCEPT ![slot] = NoClient]
            /\ down' = [down EXCEPT ![client_fds[slot]] = AfterClose(@)]
        BY <2>4 DEF HandleEof, SendFail, DropClient
      <3>2. CASE client_fds[slot] = c
        BY <3>1, <3>2, <1>eof, <1>type DEF OneSlot, Registered
      <3>3. CASE client_fds[slot] # c
        BY <2>1, <3>1, <3>3, <1>eof, <1>type DEF Registered
      <3> QED
        BY <3>2, <3>3
    <2>5. CASE ServerDestroy \/ ServerCrash
      BY <2>5, <1>eof, <1>type DEF ServerDestroy, ServerCrash, ServerGone, Registered
    <2>6. CASE \/ StartPoll \/ AcceptRefuse \/ AcceptFail \/ AcceptDone \/ HandleRelease
               \/ HandleNothing \/ BeginFrame \/ EndFrame \/ SkipSlot \/ UNCHANGED vars
      <3>1. UNCHANGED <<client_fds, down>>
        BY <2>6 DEF StartPoll, AcceptRefuse, AcceptFail, AcceptDone, HandleRelease,
                    HandleNothing, BeginFrame, EndFrame, SkipSlot, vars, serverVars, netVars
      <3> QED
        BY <2>1, <3>1, <1>eof DEF Registered
    <2>7. ASSUME NEW x \in Client, ClientStep(x) PROVE down'[c] # <<>> \/ Eof(c)'
      <3>1. x # c /\ UNCHANGED client_fds
        BY <1>2, <2>7, AcquireMoves, ClientKeepsServer DEF serverVars
      <3>2. down'[c] = down[c]
        BY <2>7, <3>1, ClientAlone DEF SameAs
      <3> QED
        BY <2>1, <3>1, <3>2, <1>eof DEF Registered
    <2> QED
      BY <2>2, <2>3, <2>4, <2>5, <2>6, <2>7
      DEF Next, ServerPoll, ServerPublish, AllEnded, ClientStep
  <1> QED
    BY <1>1, <1>2

(* acquire gives a frame back only for a notification that it can receive, or when the
   server has closed the connection, on either platform and in every buffering mode: the
   recv of its drain loop cannot block, and with the connection up no frame is lost.    *)
THEOREM SkippedForNewerCorrect == Spec => []SkippedForNewer
  <1>1. Init => SkippedForNewer
    BY DEF Init, SkippedForNewer
  <1>2. AllInv /\ AllInv' /\ SkippedForNewer /\ [Next]_vars => SkippedForNewer'
    BY SkippedStep DEF SkippedForNewer
  <1>3. Spec => []AllInv
    BY LeaseInvCorrect DEF AllInv
  <1> QED
    BY <1>1, <1>2, <1>3, PTL DEF Spec

-----------------------------------------------------------------------------
(* Session implements Handshake, too, and this also where sends fail: what is lost then
   is the client's slot, and Handshake has it that it may be.                          *)
Waiting == {c \in Client : Queued(c)}
Welcomed == {c \in Client : cstate[c] = "CONNECTING" /\ down[c] # <<>>}
PhaseOf == [c \in Client |-> Phase(c)]

LEMMA PhaseIs ==
    ASSUME TypeInt, NEW c \in Client
    PROVE  /\ PhaseOf[c] = "new" <=> cstate[c] = "CREATED"
           /\ PhaseOf[c] = "connecting" <=> cstate[c] = "CONNECTING"
           /\ PhaseOf[c] = "connected" <=> cstate[c] = "CONNECTED"
           /\ PhaseOf[c] = "ended" <=> cstate[c] \in {"ERROR", "DISCONNECTED"}
  BY DEF PhaseOf, Phase, TypeInt

(* One client's state changes, and with it its phase alone. *)
LEMMA PhaseMoves ==
    ASSUME TypeInt, NEW c \in Client, NEW v, cstate' = [cstate EXCEPT ![c] = v]
    PROVE  PhaseOf' = [PhaseOf EXCEPT ![c] =
                          CASE v = "CREATED" -> "new"
                            [] v = "CONNECTING" -> "connecting"
                            [] v = "CONNECTED" -> "connected"
                            [] OTHER -> "ended"]
  <1>1. DOMAIN cstate = Client
    BY DEF TypeInt
  <1>2. cstate'[c] = v /\ \A x \in Client : x # c => cstate'[x] = cstate[x]
    BY <1>1
  <1>3. \A x \in Client : x # c => Phase(x)' = Phase(x)
    BY <1>2 DEF Phase
  <1>4. Phase(c)' = CASE v = "CREATED" -> "new"
                      [] v = "CONNECTING" -> "connecting"
                      [] v = "CONNECTED" -> "connected"
                      [] OTHER -> "ended"
    BY <1>2 DEF Phase
  <1> QED
    BY <1>3, <1>4 DEF PhaseOf

(* Who waits longest, and who waits behind it. *)
LEMMA FirstWaits ==
    ASSUME TypeInt, BacklogInv, backlog # <<>>, backlog' = Tail(backlog)
    PROVE  /\ Head(backlog) \in Waiting
           /\ Waiting' = Waiting \ {Head(backlog)}
  <1>1. /\ backlog \in Seq(Client) /\ Len(backlog) \in Nat \ {0}
        /\ Len(backlog') = Len(backlog) - 1
        /\ \A i \in 1..Len(backlog') : i + 1 \in 1..Len(backlog) /\ backlog'[i] = backlog[i + 1]
        /\ Head(backlog) = backlog[1] /\ 1 \in 1..Len(backlog) /\ backlog[1] \in Client
    BY TailElements, ElementOfSeq DEF TypeInt
  <1>2. ASSUME NEW c \in Client, NEW i \in 1..Len(backlog'), backlog'[i] = c
        PROVE  Queued(c) /\ c # Head(backlog)
    <2>1. i + 1 \in 1..Len(backlog) /\ i + 1 # 1 /\ backlog[i + 1] = c
      BY <1>1, <1>2
    <2> QED
      BY <1>1, <2>1 DEF BacklogInv, Queued
  <1>3. ASSUME NEW c \in Client, NEW i \in 1..Len(backlog), backlog[i] = c, c # Head(backlog)
        PROVE  Queued(c)'
    <2>1. i - 1 \in 1..Len(backlog') /\ (i - 1) + 1 = i
      BY <1>1, <1>3
    <2>2. backlog'[i - 1] = c
      BY <1>1, <1>3, <2>1
    <2> QED
      BY <2>1, <2>2 DEF Queued
  <1> QED
    BY <1>1, <1>2, <1>3 DEF Waiting, Queued

LEMMA WaitingKept == ASSUME backlog' = backlog PROVE Waiting' = Waiting
  BY DEF Waiting, Queued

LEMMA GreetingInit == Init => Greeting!Init
  <1> SUFFICES ASSUME Init PROVE Greeting!Init
    OBVIOUS
  <1>1. \A c \in Client : ~Queued(c) /\ down[c] = <<>> /\ Phase(c) = "new"
    BY DEF Init, Queued, Phase
  <1> QED
    BY <1>1 DEF Init, Greeting!Init, Greeting!Slot, Slot

LEMMA GreetingAccept ==
    ASSUME AllInv, AcceptClient
    PROVE  Greeting!Next
  <1> USE DEF AllInv, Inv, StreamInv
  <1>1. PICK h : h = Head(backlog)
    OBVIOUS
  <1>2. /\ backlog # <<>> /\ backlog' = Tail(backlog) /\ Open(h)
        /\ down' = [down EXCEPT ![h] = Append(@, Hello)]
        /\ cstate' = cstate /\ pc' = pc
    BY <1>1 DEF AcceptClient, clientVars
  <1>3. PICK s \in Slot : client_fds[s] = NoClient /\ client_fds' = [client_fds EXCEPT ![s] = h]
    BY <1>1 DEF AcceptClient, LowestFree, FreeSlots
  <1>4. h \in Waiting /\ Waiting' = Waiting \ {h}
    BY <1>1, <1>2, FirstWaits
  <1>5. h \in Client /\ cstate[h] = "CONNECTING" /\ down[h] = <<>>
    BY <1>2, <1>4 DEF Waiting, Queued, BacklogInv, Open
  <1>6. PhaseOf[h] = "connecting" /\ PhaseOf' = PhaseOf
    BY <1>2, <1>5, PhaseIs DEF PhaseOf, Phase
  <1>7. Welcomed' = Welcomed \cup {h}
    <2>1. Append(down[h], Hello) # <<>> /\ DOMAIN down = Client
      BY <1>5, AppendProperties DEF TypeInt
    <2> QED
      BY <1>2, <1>5, <2>1 DEF Welcomed
  <1>8. Greeting!Admit(h, s)
    BY <1>2, <1>3, <1>4, <1>6, <1>7 DEF Greeting!Admit, Waiting, Welcomed, PhaseOf
  <1> QED
    BY <1>3, <1>5, <1>8 DEF Greeting!Next, Greeting!Slot, Slot

LEMMA GreetingServer ==
    ASSUME AllInv,
           \/ ServerPoll /\ ~AcceptClient
           \/ BeginFrame \/ ServerPublish \/ ServerDestroy \/ ServerCrash
    PROVE  [Greeting!Next]_(Greeting!vars)
  <1> USE DEF AllInv, Inv, StreamInv, LeaseInv
  <1>phase. ASSUME UNCHANGED clientVars PROVE PhaseOf' = PhaseOf
    BY <1>phase DEF clientVars, PhaseOf, Phase
  <1>1. CASE AcceptRefuse \/ AcceptFail
    <2>1. /\ backlog # <<>> /\ backlog' = Tail(backlog)
          /\ UNCHANGED <<serverVars, down, clientVars>>
      BY <1>1 DEF AcceptRefuse, AcceptFail
    <2>2. Head(backlog) \in Waiting /\ Waiting' = Waiting \ {Head(backlog)}
      BY <2>1, FirstWaits
    <2>3. Welcomed' = Welcomed /\ PhaseOf' = PhaseOf
      BY <2>1, <1>phase DEF Welcomed, clientVars
    <2>4. Greeting!TurnAway(Head(backlog))
      BY <2>1, <2>2, <2>3 DEF Greeting!TurnAway, Waiting, Welcomed, PhaseOf, serverVars
    <2> QED
      BY <2>2, <2>4 DEF Greeting!Next, Waiting
  <1>2. CASE \/ StartPoll \/ AcceptDone \/ HandleRelease \/ HandleNothing
             \/ BeginFrame \/ EndFrame \/ SkipSlot
    <2>1. /\ UNCHANGED <<client_fds, backlog, down, clientVars>>
          /\ pc # "closed" /\ pc' # "closed"
      BY <1>2 DEF StartPoll, AcceptDone, HandleRelease, HandleNothing, BeginFrame,
                  EndFrame, SkipSlot, NextSlot, netVars
    <2>2. Waiting' = Waiting /\ Welcomed' = Welcomed /\ PhaseOf' = PhaseOf
      BY <2>1, <1>phase, WaitingKept DEF Welcomed, clientVars
    <2> QED
      BY <2>1, <2>2 DEF Greeting!vars, Waiting, Welcomed, PhaseOf
  <1>3. CASE HandleEof \/ SendFail
    <2>1. /\ client_fds[slot] # NoClient /\ slot \in Slot /\ client_fds[slot] \in Client
          /\ ServerIoFails \/ ~Open(client_fds[slot])
          /\ client_fds' = [client_fds EXCEPT ![slot] = NoClient]
          /\ down' = [down EXCEPT ![client_fds[slot]] = AfterClose(@)]
          /\ UNCHANGED <<backlog, clientVars>>
          /\ pc # "closed" /\ pc' # "closed"
      BY <1>3 DEF HandleEof, SendFail, DropClient, NextSlot, TypeInt
    <2>2. Waiting' = Waiting /\ PhaseOf' = PhaseOf
      BY <2>1, <1>phase, WaitingKept
    <2>3. Welcomed' \in {Welcomed, Welcomed \ {client_fds[slot]}}
      <3>1. /\ \A x \in Client : x # client_fds[slot] => down'[x] = down[x]
            /\ down'[client_fds[slot]] \in {down[client_fds[slot]], <<>>}
        BY <2>1 DEF TypeInt, AfterClose
      <3> QED
        BY <2>1, <3>1 DEF Welcomed, clientVars
    <2>4. ServerIoFails \/ PhaseOf[client_fds[slot]] = "ended"
      BY <2>1, PhaseIs DEF Open, BacklogInv, TypeInt
    <2>5. PICK s \in Greeting!Slot : s = slot
      BY <2>1 DEF Greeting!Slot, Slot
    <2>6. Greeting!Drop(s)
      BY <2>1, <2>2, <2>4, <2>3, <2>5 DEF Greeting!Drop, Waiting, Welcomed, PhaseOf
    <2> QED
      BY <2>6 DEF Greeting!Next
  <1>4. CASE SendFrame
    <2> DEFINE c == client_fds[slot]
               m == [frame_id |-> frame_id, buf_idx |-> current_idx]
    <2>1. /\ c \in Client /\ slot \in Slot /\ down' = [down EXCEPT ![c] = Append(@, m)]
          /\ UNCHANGED <<client_fds, backlog, clientVars>>
          /\ pc # "closed" /\ pc' # "closed"
      BY <1>4 DEF SendFrame, NextSlot, TypeInt
    <2>2. m \in FrameMsg /\ down[c] \in Seq(FrameMsg) /\ DOMAIN down = Client
      <3>1. frame_id \in Nat /\ current_idx \in Buf /\ down \in [Client -> Seq(FrameMsg)]
        BY SessionAssumption DEF TypeInt
      <3> QED
        BY <2>1, <3>1 DEF FrameMsg
    <2>3. down'[c] # <<>> /\ \A x \in Client : x # c => down'[x] = down[x]
      BY <2>1, <2>2, AppendProperties
    <2>4. cstate[c] = "CONNECTING" => down[c] # <<>>
      BY <2>1 DEF Greeted, Registered
    <2>5. Waiting' = Waiting /\ Welcomed' = Welcomed /\ PhaseOf' = PhaseOf
      BY <2>1, <2>3, <2>4, <1>phase, WaitingKept DEF Welcomed, clientVars
    <2> QED
      BY <2>1, <2>5 DEF Greeting!vars, Waiting, Welcomed, PhaseOf
  <1>5. CASE ServerDestroy \/ ServerCrash
    <2>1. /\ client_fds' = [s \in Slot |-> NoClient] /\ backlog' = <<>>
          /\ \A x \in Client : down'[x] \in {down[x], <<>>}
          /\ UNCHANGED clientVars /\ pc # "closed" /\ pc' = "closed"
      BY <1>5, ClosedStreams DEF ServerDestroy, ServerCrash, ServerGone
    <2>2. Waiting' = {} /\ Welcomed' \subseteq Welcomed /\ PhaseOf' = PhaseOf
      BY <2>1, <1>phase DEF Waiting, Queued, Welcomed, clientVars
    <2>3. Greeting!Close
      BY <2>1, <2>2 DEF Greeting!Close, Greeting!Slot, Slot, Waiting, Welcomed, PhaseOf
    <2> QED
      BY <2>3 DEF Greeting!Next
  <1> QED
    BY <1>1, <1>2, <1>3, <1>4, <1>5 DEF ServerPoll, ServerPublish

LEMMA GreetingClient ==
    ASSUME AllInv, NEW x \in Client, ClientStep(x)
    PROVE  [Greeting!Next]_(Greeting!vars)
  <1> USE DEF AllInv, Inv, StreamInv
  <1>1. UNCHANGED <<client_fds, pc>> /\ \A c \in Client : c # x => SameAs(c)
    BY ClientKeepsServer, ClientAlone DEF serverVars
  <1>type. DOMAIN cstate = Client /\ DOMAIN down = Client /\ backlog \in Seq(Client)
    BY DEF TypeInt
  <1>ends. ASSUME PhaseOf[x] # "ended", backlog' = backlog,
                  PhaseOf' = [PhaseOf EXCEPT ![x] = "ended"], cstate'[x] # "CONNECTING"
           PROVE  Greeting!Next
    <2>1. Waiting' = Waiting
      BY <1>ends, WaitingKept
    <2>2. Welcomed' = Welcomed \ {x}
      BY <1>1, <1>ends DEF Welcomed, SameAs
    <2>3. Greeting!End(x)
      BY <1>1, <1>ends, <2>1, <2>2
      DEF Greeting!End, Greeting!Goto, Waiting, Welcomed, PhaseOf
    <2> QED
      BY <2>3 DEF Greeting!Next
  <1>2. CASE Connect(x) /\ pc = "closed"
    <2>1. /\ cstate[x] = "CREATED" /\ backlog' = backlog
          /\ cstate' = [cstate EXCEPT ![x] = "ERROR"]
      BY <1>2 DEF Connect
    <2>2. PhaseOf[x] # "ended" /\ PhaseOf' = [PhaseOf EXCEPT ![x] = "ended"]
      BY <2>1, PhaseIs, PhaseMoves
    <2> QED
      BY <2>1, <2>2, <1>type, <1>ends
  <1>3. CASE Connect(x) /\ pc # "closed"
    <2>1. /\ cstate[x] = "CREATED" /\ backlog' = Append(backlog, x)
          /\ cstate' = [cstate EXCEPT ![x] = "CONNECTING"] /\ down' = down
      BY <1>3 DEF Connect
    <2>2. PhaseOf[x] = "new" /\ PhaseOf' = [PhaseOf EXCEPT ![x] = "connecting"]
      BY <2>1, PhaseIs, PhaseMoves
    <2>3. Waiting' = Waiting \cup {x}
      <3>1. /\ Len(backlog) \in Nat /\ Len(backlog') = Len(backlog) + 1
            /\ backlog'[Len(backlog) + 1] = x
            /\ \A i \in 1..Len(backlog) : backlog'[i] = backlog[i]
        BY <2>1, <1>type, AppendProperties, LenProperties
      <3>2. ASSUME NEW c \in Client PROVE Queued(c)' <=> Queued(c) \/ c = x
        <4>1. \A i \in 1..Len(backlog') : i \in 1..Len(backlog) \/ i = Len(backlog) + 1
          BY <3>1
        <4>2. Len(backlog) + 1 \in 1..Len(backlog') /\ 1..Len(backlog) \subseteq 1..Len(backlog')
          BY <3>1
        <4> QED
          BY <3>1, <4>1, <4>2 DEF Queued
      <3> QED
        BY <3>2 DEF Waiting
    <2>4. Welcomed' = Welcomed
      BY <2>1, <1>type DEF Welcomed, BacklogInv
    <2>5. Greeting!Arrive(x)
      BY <1>1, <1>3, <2>2, <2>3, <2>4
      DEF Greeting!Arrive, Greeting!Goto, Waiting, Welcomed, PhaseOf
    <2> QED
      BY <2>5 DEF Greeting!Next
  <1>4. CASE Connected(x)
    <2>1. /\ cstate[x] = "CONNECTING" /\ down[x] # <<>> /\ backlog' = backlog
          /\ cstate' = [cstate EXCEPT ![x] = "CONNECTED"]
      BY <1>4 DEF Connected
    <2>2. PhaseOf' = [PhaseOf EXCEPT ![x] = "connected"] /\ Waiting' = Waiting
      BY <2>1, PhaseMoves, WaitingKept
    <2>3. x \in Welcomed /\ Welcomed' = Welcomed \ {x}
      BY <2>1, <1>1, <1>type DEF Welcomed, SameAs
    <2>4. Greeting!Enter(x)
      BY <1>1, <2>2, <2>3 DEF Greeting!Enter, Greeting!Goto, Waiting, Welcomed, PhaseOf
    <2> QED
      BY <2>4 DEF Greeting!Next
  <1>5. CASE ConnectFails(x) \/ CloseSocket(x) \/ ClientCrash(x)
    <2>1. PICK v \in {"ERROR", "DISCONNECTED"} : cstate' = [cstate EXCEPT ![x] = v]
      BY <1>5 DEF ConnectFails, CloseSocket, ClientCrash, ClientCloses
    <2>2. cstate[x] \in {"CONNECTING", "CONNECTED"} /\ backlog' = backlog
      BY <1>5 DEF ConnectFails, CloseSocket, ClientCrash, ClientCloses, Open, InHand
    <2>3. PhaseOf[x] # "ended" /\ PhaseOf' = [PhaseOf EXCEPT ![x] = "ended"]
      BY <2>1, <2>2, PhaseIs, PhaseMoves
    <2> QED
      BY <2>1, <2>2, <2>3, <1>type, <1>ends
  <1>6. CASE \/ ClientAcquire(x) \/ Disconnect(x) \/ CloseRelease(x)
             \/ \E b \in Buf : Release(x, b)
    <2>1. cstate' = cstate /\ backlog' = backlog
      BY <1>6 DEF ClientAcquire, Receive, ReceiveFails, SkipOld, RecvFails,
                  TakeNewest, AcquireReturns, SyncTimeout, Disconnect, CloseRelease,
                  Release, netVars
    <2>2. cstate[x] = "CONNECTED"
      BY <1>6 DEF ClientAcquire, Receive, ReceiveFails, SkipOld, RecvFails,
                  TakeNewest, AcquireReturns, SyncTimeout, Disconnect, CloseRelease,
                  Release, InHand
    <2>3. Waiting' = Waiting /\ Welcomed' = Welcomed /\ PhaseOf' = PhaseOf
      BY <2>1, <2>2, <1>1, WaitingKept DEF Welcomed, SameAs, PhaseOf, Phase
    <2> QED
      BY <1>1, <2>3 DEF Greeting!vars, Waiting, Welcomed, PhaseOf
  <1> QED
    BY <1>2, <1>3, <1>4, <1>5, <1>6 DEF ClientStep, ClientConnect, ClientClose

(* However many clients come, are refused, skip, die and are dropped, and whatever is
   sent to the others meanwhile: server_poll takes each from the backlog once, gives it
   a free slot with its handshake or turns it away, and connect returns to nobody else. *)
THEOREM ImplementsHandshakeCorrect == Spec => ImplementsHandshake
  <1>1. AllInv /\ [Next]_vars => [Greeting!Next]_(Greeting!vars)
    <2> SUFFICES ASSUME AllInv, [Next]_vars PROVE [Greeting!Next]_(Greeting!vars)
      OBVIOUS
    <2>1. CASE UNCHANGED vars
      BY <2>1 DEF vars, serverVars, netVars, clientVars, Greeting!vars, Queued, Phase
    <2> QED
      BY <2>1, GreetingAccept, GreetingServer, GreetingClient
      DEF Next, AllEnded, ClientStep
  <1> QED
    BY <1>1, GreetingInit, HeldInvCorrect, PTL DEF Spec, ImplementsHandshake, Greeting!Spec

(* So no client that is connected was lost, by Handshake alone. *)
THEOREM ConnectedAreServed == Spec => []Greeting!Served
  <1>1. Greeting!Spec => []Greeting!Served
    BY SessionAssumption, Greeting!ServedCorrect
  <1> QED
    BY <1>1, ImplementsHandshakeCorrect DEF ImplementsHandshake
=============================================================================
