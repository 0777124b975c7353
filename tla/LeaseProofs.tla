----------------------------- MODULE LeaseProofs -----------------------------
(***************************************************************************)
(* Theorems about the leases of Session: where each reference of a client  *)
(* is, what the buffers that clients have hold, and the order in which a   *)
(* client takes frames.                                                    *)
(***************************************************************************)
EXTENDS SessionProofs, FunctionTheorems

-----------------------------------------------------------------------------
(* How often a sequence has an element of T. *)
Positions(q, T) == {i \in 1..Len(q) : q[i] \in T}
Occurs(q, T) == Cardinality(Positions(q, T))

LEMMA OccursType ==
    ASSUME NEW S, NEW q \in Seq(S), NEW T
    PROVE  IsFiniteSet(Positions(q, T)) /\ Occurs(q, T) \in Nat
  <1>1. Len(q) \in Nat /\ Positions(q, T) \subseteq 1..Len(q)
    BY LenProperties DEF Positions
  <1>2. IsFiniteSet(1..Len(q))
    BY <1>1, FS_Interval
  <1> QED
    BY <1>1, <1>2, FS_Subset, FS_CardinalityType DEF Occurs

LEMMA OccursEmpty == ASSUME NEW T PROVE Occurs(<<>>, T) = 0
  <1>1. Positions(<<>>, T) = {}
    BY DEF Positions
  <1> QED
    BY <1>1, FS_EmptySet DEF Occurs

LEMMA OccursNone ==
    ASSUME NEW S, NEW q \in Seq(S), NEW T, Occurs(q, T) = 0
    PROVE  \A i \in 1..Len(q) : q[i] \notin T
  <1>1. Positions(q, T) = {}
    BY OccursType, FS_EmptySet DEF Occurs
  <1> QED
    BY <1>1 DEF Positions

LEMMA OccursSome ==
    ASSUME NEW S, NEW q \in Seq(S), NEW T, NEW i \in 1..Len(q), q[i] \in T
    PROVE  Occurs(q, T) >= 1
  <1>1. Positions(q, T) # {}
    BY DEF Positions
  <1>2. Occurs(q, T) # 0
    BY <1>1, OccursType, FS_EmptySet DEF Occurs
  <1> QED
    BY <1>2, OccursType

LEMMA OccursAppend ==
    ASSUME NEW S, NEW q \in Seq(S), NEW T, NEW e \in S
    PROVE  Occurs(Append(q, e), T) = Occurs(q, T) + (IF e \in T THEN 1 ELSE 0)
  <1> DEFINE n == Len(q) + 1
  <1>1. /\ Len(q) \in Nat /\ Len(Append(q, e)) = n
        /\ \A i \in 1..Len(q) : Append(q, e)[i] = q[i]
        /\ Append(q, e)[n] = e
    BY LenProperties, AppendProperties
  <1>2. 1..n = 1..Len(q) \cup {n} /\ n \notin Positions(q, T)
    BY <1>1 DEF Positions
  <1>3. CASE e \in T
    <2>1. Positions(Append(q, e), T) = Positions(q, T) \cup {n}
      BY <1>1, <1>2, <1>3 DEF Positions
    <2> QED
      BY <2>1, <1>2, <1>3, OccursType, FS_AddElement DEF Occurs
  <1>4. CASE e \notin T
    <2>1. Positions(Append(q, e), T) = Positions(q, T)
      BY <1>1, <1>2, <1>4 DEF Positions
    <2> QED
      BY <2>1, <1>4, OccursType DEF Occurs
  <1> QED
    BY <1>3, <1>4

LEMMA OccursTail ==
    ASSUME NEW S, NEW q \in Seq(S), NEW T, q # <<>>
    PROVE  Occurs(q, T) = Occurs(Tail(q), T) + (IF Head(q) \in T THEN 1 ELSE 0)
  <1> DEFINE P == Positions(Tail(q), T)
             Q == Positions(q, T) \ {1}
             f == [i \in P |-> i + 1]
  <1>1. /\ Len(q) \in Nat \ {0} /\ Len(Tail(q)) = Len(q) - 1 /\ Head(q) = q[1]
        /\ Tail(q) \in Seq(S)
        /\ \A i \in 1..(Len(q) - 1) : Tail(q)[i] = q[i + 1]
    BY TailElements, HeadTailProperties
  <1>2. \A i \in P : i \in Nat /\ i + 1 \in Q
    BY <1>1 DEF Positions
  <1>3. \A j \in Q : j - 1 \in P /\ j \in Int
    <2> SUFFICES ASSUME NEW j \in Q PROVE j - 1 \in P /\ j \in Int
      OBVIOUS
    <2>1. j \in 2..Len(q) /\ q[j] \in T
      BY <1>1 DEF Positions
    <2>2. j - 1 \in 1..(Len(q) - 1) /\ (j - 1) + 1 = j
      BY <2>1, <1>1
    <2>3. Tail(q)[j - 1] = q[j]
      BY <2>2, <1>1
    <2> QED
      BY <2>1, <2>2, <2>3, <1>1 DEF Positions
  <1>4. f \in Bijection(P, Q)
    <2>1. f \in [P -> Q]
      BY <1>2
    <2>2. \A i, j \in P : f[i] = f[j] => i = j
      BY <1>2
    <2>3. \A j \in Q : \E i \in P : f[i] = j
      <3> SUFFICES ASSUME NEW j \in Q PROVE f[j - 1] = j /\ j - 1 \in P
        OBVIOUS
      <3> QED
        BY <1>3
    <2> QED
      BY <2>1, <2>2, <2>3, Fun_IsBij
  <1>5. IsFiniteSet(Positions(q, T)) /\ Occurs(q, T) \in Nat
    BY OccursType
  <1>6. IsFiniteSet(Q)
    BY <1>5, FS_RemoveElement
  <1>7. Cardinality(Q) = Cardinality(P)
    <2>1. IsFiniteSet(P) /\ ExistsBijection(P, Q)
      BY <1>1, <1>4, OccursType DEF ExistsBijection
    <2> HIDE DEF P, Q, f
    <2> QED
      BY <2>1, FS_Bijection
  <1>8. 1 \in Positions(q, T) <=> Head(q) \in T
    BY <1>1 DEF Positions
  <1>9. Cardinality(Q) = IF Head(q) \in T THEN Occurs(q, T) - 1 ELSE Occurs(q, T)
    BY <1>5, <1>8, FS_RemoveElement DEF Occurs
  <1> QED
    BY <1>5, <1>7, <1>9 DEF Occurs
-----------------------------------------------------------------------------
(* Tokens in terms of what each of its parts counts. *)
Notices(d, b) == Cardinality({i \in 1..Len(d) : d[i].buf_idx = b})
Taken(m, b) == IF m.buf_idx = b THEN 1 ELSE 0
Returns(u, b) == Cardinality({i \in 1..Len(u) : u[i] = b})
Amount(d, m, r, u, b) == Notices(d, b) + Taken(m, b) + r[b] + Returns(u, b)

LEMMA TokensAmount ==
    \A c \in Client, b \in Buf :
        /\ Tokens(c, b) = Amount(down[c], msg[c], acquired_refs[c], up[c], b)
        /\ Tokens(c, b)' = Amount(down'[c], msg'[c], acquired_refs'[c], up'[c], b)
  BY DEF Tokens, Amount, Notices, Taken, Returns, Count

LEMMA NoticesFacts ==
    ASSUME NEW d \in Seq(FrameMsg), NEW b \in Buf
    PROVE  /\ Notices(d, b) \in Nat
           /\ Notices(<<>>, b) = 0
           /\ \A m \in FrameMsg : Notices(Append(d, m), b) = Notices(d, b) + Taken(m, b)
           /\ d # <<>> => Notices(d, b) = Notices(Tail(d), b) + Taken(Head(d), b)
           /\ Notices(d, b) = 0 => \A i \in 1..Len(d) : d[i].buf_idx # b
           /\ \A i \in 1..Len(d) : d[i].buf_idx = b => Notices(d, b) >= 1
  <1> DEFINE T == {m \in FrameMsg : m.buf_idx = b}
  <1>1. ASSUME NEW q \in Seq(FrameMsg) PROVE Notices(q, b) = Occurs(q, T)
    <2>1. \A i \in 1..Len(q) : q[i] \in FrameMsg
      BY ElementOfSeq
    <2>2. {i \in 1..Len(q) : q[i].buf_idx = b} = {i \in 1..Len(q) : q[i] \in T}
      BY <2>1
    <2> QED
      BY <2>2 DEF Notices, Occurs, Positions
  <1>2. <<>> \in Seq(FrameMsg) /\ Notices(<<>>, b) = 0
    BY <1>1, EmptySeq, OccursEmpty
  <1>3. ASSUME NEW m \in FrameMsg
        PROVE  Notices(Append(d, m), b) = Notices(d, b) + Taken(m, b)
    <2>1. Append(d, m) \in Seq(FrameMsg)
      BY AppendProperties
    <2>2. Occurs(Append(d, m), T) = Occurs(d, T) + (IF m \in T THEN 1 ELSE 0)
      BY OccursAppend
    <2> QED
      BY <2>1, <2>2, <1>1 DEF Taken
  <1>4. ASSUME d # <<>>
        PROVE  Notices(d, b) = Notices(Tail(d), b) + Taken(Head(d), b)
    <2>1. Tail(d) \in Seq(FrameMsg) /\ Head(d) \in FrameMsg
      BY <1>4, HeadTailProperties
    <2>2. Occurs(d, T) = Occurs(Tail(d), T) + (IF Head(d) \in T THEN 1 ELSE 0)
      BY <1>4, OccursTail
    <2> QED
      BY <2>1, <2>2, <1>1 DEF Taken
  <1>5. Notices(d, b) \in Nat
    BY <1>1, OccursType
  <1>6. \A i \in 1..Len(d) : d[i] \in FrameMsg
    BY ElementOfSeq
  <1>7. Notices(d, b) = 0 => \A i \in 1..Len(d) : d[i] \notin T
    BY <1>1, OccursNone
  <1>8. \A i \in 1..Len(d) : d[i] \in T => Notices(d, b) >= 1
    BY <1>1, OccursSome
  <1> QED
    BY <1>2, <1>3, <1>4, <1>5, <1>6, <1>7, <1>8

LEMMA ReturnsFacts ==
    ASSUME NEW u \in Seq(Buf), NEW b \in Buf
    PROVE  /\ Returns(u, b) \in Nat
           /\ Returns(<<>>, b) = 0
           /\ \A a \in Buf : Returns(Append(u, a), b) = Returns(u, b) + (IF a = b THEN 1 ELSE 0)
           /\ u # <<>> => Returns(u, b) = Returns(Tail(u), b) + (IF Head(u) = b THEN 1 ELSE 0)
  <1>1. \A q : Returns(q, b) = Occurs(q, {b})
    BY DEF Returns, Occurs, Positions
  <1>2. Returns(u, b) \in Nat /\ Returns(<<>>, b) = 0
    BY <1>1, OccursType, OccursEmpty
  <1>3. \A a \in Buf : Returns(Append(u, a), b) = Returns(u, b) + (IF a = b THEN 1 ELSE 0)
    BY <1>1, OccursAppend
  <1>4. u # <<>> => Returns(u, b) = Returns(Tail(u), b) + (IF Head(u) = b THEN 1 ELSE 0)
    BY <1>1, OccursTail
  <1> QED
    BY <1>2, <1>3, <1>4

-----------------------------------------------------------------------------
(* Where each reference is.  LeaseAccounting speaks of the clients that a slot
   has; to be kept it needs to know that the others have none on the way to the
   server, and what the stream of a client that connects starts with.          *)
OneSlot ==
    \A s, t \in Slot : client_fds[s] = client_fds[t] /\ client_fds[s] # NoClient => s = t

Quiet ==
    \A c \in Client :
        /\ ~Registered(c) => up[c] = <<>>
        /\ cpc[c] \in {"idle", "skip", "close"} => msg[c] = Hello
        /\ cstate[c] # "CONNECTED" => acquired_refs[c] = NoRefs

Greeted ==
    \A c \in Client : cstate[c] = "CONNECTING" =>
        /\ down[c] # <<>> => Head(down[c]) = Hello
        /\ Registered(c) => down[c] # <<>>

Once == \A c \in Client, b \in Buf : Tokens(c, b) <= 1

LeaseInv == OneSlot /\ Quiet /\ Greeted /\ Once /\ LeaseAccounting

ClientStep(c) ==
    \/ ClientConnect(c) \/ ClientAcquire(c) \/ ClientClose(c)
    \/ ClientCrash(c) \/ \E b \in Buf : Release(c, b)

LEMMA ClientKeepsServer ==
    ASSUME NEW c \in Client, ClientStep(c)
    PROVE  UNCHANGED <<serverVars, shmVars, content>>
  BY DEF ClientStep, ClientConnect, Connect, Connected, ConnectFails, ClientAcquire,
         Receive, ReceiveFails, SkipOld, RecvFails, TakeNewest,
         AcquireReturns, SyncTimeout, ClientClose, Disconnect,
         CloseRelease, CloseSocket, ClientCrash, ClientCloses, Release

LEMMA LeaseInit == Init => LeaseInv
  <1> SUFFICES ASSUME Init PROVE LeaseInv
    OBVIOUS
  <1>1. \A c \in Client, b \in Buf : Tokens(c, b) = 0
    <2> SUFFICES ASSUME NEW c \in Client, NEW b \in Buf PROVE Tokens(c, b) = 0
      OBVIOUS
    <2>1. Tokens(c, b) = Amount(<<>>, Hello, NoRefs, <<>>, b)
      BY TokensAmount DEF Init
    <2>2. Notices(<<>>, b) = 0 /\ Returns(<<>>, b) = 0
      BY EmptySeq, NoticesFacts, ReturnsFacts
    <2> QED
      BY <2>1, <2>2, SessionAssumption DEF Amount, Taken, NoRefs, Hello, NoBuf, Buf
  <1>2. \A s \in Slot : client_fds[s] = NoClient
    BY DEF Init
  <1> QED
    BY <1>1, <1>2 DEF Init, LeaseInv, OneSlot, Quiet, Greeted, Once, LeaseAccounting

(* A step of one client leaves what belongs to another as it is. *)
SameAs(x) ==
    /\ down'[x] = down[x] /\ up'[x] = up[x] /\ msg'[x] = msg[x]
    /\ acquired_refs'[x] = acquired_refs[x] /\ held'[x] = held[x]
    /\ cstate'[x] = cstate[x] /\ cpc'[x] = cpc[x] /\ last_frame_id'[x] = last_frame_id[x]

LEMMA ClientAlone ==
    ASSUME TypeInt, NEW c \in Client, ClientStep(c), NEW x \in Client, x # c
    PROVE  SameAs(x)
  <1> USE DEF SameAs
  <1>type. /\ down \in [Client -> Seq(FrameMsg)] /\ up \in [Client -> Seq(Buf)]
           /\ DOMAIN msg = Client /\ DOMAIN acquired_refs = Client /\ DOMAIN held = Client
           /\ DOMAIN cstate = Client /\ DOMAIN cpc = Client /\ DOMAIN last_frame_id = Client
    BY DEF TypeInt
  <1>1. ASSUME Connect(c) \/ Connected(c) \/ Disconnect(c) PROVE SameAs(x)
    BY <1>1, <1>type DEF Connect, Connected, Disconnect, netVars
  <1>2. ASSUME ConnectFails(c) \/ CloseSocket(c) \/ ClientCrash(c) PROVE SameAs(x)
    BY <1>2, <1>type DEF ConnectFails, CloseSocket, ClientCrash, ClientCloses
  <1>3. ASSUME Receive(c) \/ ReceiveFails(c) \/ SkipOld(c) \/ RecvFails(c)
        PROVE  SameAs(x)
    BY <1>3, <1>type DEF Receive, ReceiveFails, SkipOld, RecvFails, SetMsg, SendRelease, netVars
  <1>4. ASSUME TakeNewest(c) \/ AcquireReturns(c) \/ SyncTimeout(c) PROVE SameAs(x)
    BY <1>4, <1>type DEF TakeNewest, AcquireReturns, SyncTimeout, SetMsg, SendRelease, netVars
  <1>5. ASSUME CloseRelease(c) \/ \E b \in Buf : Release(c, b) PROVE SameAs(x)
    BY <1>5, <1>type DEF CloseRelease, Release, SendRelease, DropRef
  <1> QED
    BY <1>1, <1>2, <1>3, <1>4, <1>5 DEF ClientStep, ClientConnect, ClientAcquire, ClientClose

(* What a release message adds to the stream back to the server. *)
LEMMA SendReleaseReturns ==
    ASSUME TypeInt, NEW c \in Client, NEW a \in Buf, SendRelease(c, a), NEW b \in Buf
    PROVE  /\ up[c] \in Seq(Buf) /\ Returns(up[c], b) \in Nat
           /\ Registered(c) =>
                Returns(up'[c], b) = Returns(up[c], b) + (IF a = b THEN 1 ELSE 0)
           /\ \/ Returns(up'[c], b) = Returns(up[c], b)
              \/ Returns(up'[c], b) = Returns(up[c], b) + (IF a = b THEN 1 ELSE 0)
  <1>1. up \in [Client -> Seq(Buf)] /\ up[c] \in Seq(Buf)
    BY DEF TypeInt
  <1>2. /\ Returns(up[c], b) \in Nat
        /\ Returns(Append(up[c], a), b) = Returns(up[c], b) + (IF a = b THEN 1 ELSE 0)
    BY <1>1, ReturnsFacts
  <1> QED
    BY <1>1, <1>2 DEF SendRelease, Eof

(* A step of a client never makes more of its references, and loses one only in a
   notification whose fence was not received, or with the client.               *)
Conserved(c) ==
    /\ \A b \in Buf : Tokens(c, b)' <= Tokens(c, b)
    /\ Registered(c) /\ Open(c)' =>
         \A b \in Buf : Tokens(c, b)' = Tokens(c, b) \/ FenceRecvFails

LEMMA ClientConserves ==
    ASSUME TypeInt, StreamInv, LeaseInv, NEW c \in Client, ClientStep(c)
    PROVE  Conserved(c)
  <1> USE DEF Conserved
  <1>type. /\ down \in [Client -> Seq(FrameMsg)] /\ up \in [Client -> Seq(Buf)]
           /\ down[c] \in Seq(FrameMsg) /\ up[c] \in Seq(Buf) /\ msg[c] \in FrameMsg
           /\ acquired_refs \in [Client -> [Buf -> Nat]]
           /\ acquired_refs[c] \in [Buf -> Nat]
           /\ DOMAIN msg = Client /\ DOMAIN cstate = Client /\ DOMAIN cpc = Client
    BY DEF TypeInt
  <1>hand. \A b \in Buf : /\ Taken(Hello, b) = 0
                          /\ \A m : Taken(m, b) \in {0, 1}
    BY SessionAssumption DEF Taken, Hello, NoBuf, Buf
  <1>counts. \A b \in Buf : /\ Notices(down[c], b) \in Nat /\ Returns(up[c], b) \in Nat
                            /\ acquired_refs[c][b] \in Nat
                            /\ Notices(<<>>, b) = 0
                            /\ down[c] # <<>> => Notices(down[c], b) =
                                   Notices(Tail(down[c]), b) + Taken(Head(down[c]), b)
                            /\ Notices(Tail(down[c]), b) \in Nat \/ down[c] = <<>>
    BY <1>type, NoticesFacts, ReturnsFacts, HeadTailProperties
  <1>sum. \A b \in Buf :
            /\ Tokens(c, b) = Notices(down[c], b) + Taken(msg[c], b)
                                + acquired_refs[c][b] + Returns(up[c], b)
            /\ Tokens(c, b)' = Notices(down'[c], b) + Taken(msg'[c], b)
                                + acquired_refs'[c][b] + Returns(up'[c], b)
    BY TokensAmount DEF Amount
  <1>same. ASSUME UNCHANGED <<down, up, msg, acquired_refs>> PROVE Conserved(c)
    <2>1. \A b \in Buf : Tokens(c, b)' = Tokens(c, b) /\ Tokens(c, b) \in Nat
      BY <1>same, <1>counts, <1>hand, <1>sum
    <2> QED
      BY <2>1
  <1>1. ASSUME Connect(c) \/ Disconnect(c) \/ TakeNewest(c) PROVE Conserved(c)
    <2>1. UNCHANGED <<down, up, acquired_refs>>
      BY <1>1 DEF Connect, Disconnect, TakeNewest, netVars
    <2>2. msg' = msg
      BY <1>1, <1>type DEF Connect, Disconnect, TakeNewest, SetMsg, TypeInt
    <2> QED
      BY <2>1, <2>2, <1>same
  <1>2. ASSUME Connected(c) PROVE Conserved(c)
    <2>1. /\ down[c] # <<>> /\ down' = [down EXCEPT ![c] = Tail(@)]
          /\ UNCHANGED <<up, msg, acquired_refs>> /\ Head(down[c]) = Hello
      BY <1>2 DEF Connected, LeaseInv, Greeted
    <2>2. down'[c] = Tail(down[c]) /\ UNCHANGED <<up, msg, acquired_refs>>
      BY <2>1, <1>type
    <2>3. ASSUME NEW b \in Buf PROVE Tokens(c, b)' = Tokens(c, b) /\ Tokens(c, b) \in Nat
      BY <2>1, <2>2, <1>counts, <1>hand, <1>sum
    <2> QED
      BY <2>3
  <1>3. ASSUME ConnectFails(c) \/ CloseSocket(c) \/ ClientCrash(c) PROVE Conserved(c)
    <2>1. /\ down'[c] = <<>> /\ msg'[c] = Hello /\ acquired_refs'[c] = NoRefs
          /\ up'[c] = up[c] /\ cstate'[c] \in {"ERROR", "DISCONNECTED"}
      BY <1>3, <1>type DEF ConnectFails, CloseSocket, ClientCrash, ClientCloses
    <2>2. \A b \in Buf : Tokens(c, b)' <= Tokens(c, b)
      BY <2>1, <1>counts, <1>hand, <1>sum DEF NoRefs
    <2> QED
      BY <2>1, <2>2 DEF Open
  <1>4. ASSUME Receive(c) PROVE Conserved(c)
    <2>1. /\ down[c] # <<>> /\ down'[c] = Tail(down[c]) /\ msg'[c] = Head(down[c])
          /\ UNCHANGED <<up, acquired_refs>> /\ msg[c] = Hello
      BY <1>4, <1>type DEF Receive, SetMsg, LeaseInv, Quiet
    <2>2. \A b \in Buf : Tokens(c, b)' = Tokens(c, b) /\ Tokens(c, b) \in Nat
      BY <2>1, <1>counts, <1>hand, <1>sum
    <2> QED
      BY <2>2
  <1>release. ASSUME msg[c].buf_idx \in Buf, SendRelease(c, msg[c].buf_idx), NEW b \in Buf
              PROVE  /\ Returns(up'[c], b) \in Nat
                     /\ Returns(up'[c], b) <= Returns(up[c], b) + Taken(msg[c], b)
                     /\ Registered(c) =>
                          Returns(up'[c], b) = Returns(up[c], b) + Taken(msg[c], b)
    BY <1>release, SendReleaseReturns DEF Taken
  <1>5. ASSUME ReceiveFails(c) PROVE Conserved(c)
    <2>1. /\ down[c] # <<>> /\ down'[c] = Tail(down[c]) /\ msg'[c] = Hello
          /\ UNCHANGED <<up, acquired_refs>> /\ FenceRecvFails
      BY <1>5, <1>type DEF ReceiveFails, SetMsg
    <2>2. ASSUME NEW b \in Buf PROVE Tokens(c, b)' <= Tokens(c, b)
      BY <2>1, <1>counts, <1>hand, <1>sum
    <2> QED
      BY <2>1, <2>2
  <1>6. ASSUME RecvFails(c) PROVE Conserved(c)
    <2>1. UNCHANGED <<down, up, acquired_refs>> /\ msg[c] = Hello
      BY <1>6 DEF RecvFails, netVars, LeaseInv, Quiet
    <2>2. msg' = msg
      BY <1>6, <2>1, <1>type DEF RecvFails, SetMsg, TypeInt
    <2> QED
      BY <2>1, <2>2, <1>same
  <1>7. ASSUME SkipOld(c) \/ SyncTimeout(c) PROVE Conserved(c)
    <2>1. /\ UNCHANGED <<down, acquired_refs>> /\ msg'[c] = Hello
          /\ msg[c].buf_idx \in Buf /\ SendRelease(c, msg[c].buf_idx)
      BY <1>7, <1>type DEF SkipOld, SyncTimeout, SetMsg, StreamInv, InHand
    <2>2. ASSUME NEW b \in Buf
          PROVE  /\ Tokens(c, b)' <= Tokens(c, b)
                 /\ Registered(c) => Tokens(c, b)' = Tokens(c, b)
      BY <2>1, <1>release, <1>counts, <1>hand, <1>sum
    <2> QED
      BY <2>2
  <1>8. ASSUME AcquireReturns(c) PROVE Conserved(c)
    <2>1. /\ UNCHANGED <<down, up>> /\ msg'[c] = Hello /\ msg[c].buf_idx \in Buf
          /\ acquired_refs' = [acquired_refs EXCEPT ![c][msg[c].buf_idx] = @ + 1]
      BY <1>8, <1>type DEF AcquireReturns, SetMsg, StreamInv, InHand, netVars
    <2>2. \A b \in Buf : acquired_refs'[c][b] = acquired_refs[c][b] + Taken(msg[c], b)
      BY <2>1, <1>type DEF Taken
    <2>3. \A b \in Buf : Tokens(c, b)' = Tokens(c, b) /\ Tokens(c, b) \in Nat
      BY <2>1, <2>2, <1>counts, <1>hand, <1>sum
    <2> QED
      BY <2>3
  <1>9. ASSUME CloseRelease(c) \/ \E b \in Buf : Release(c, b) PROVE Conserved(c)
    <2>1. PICK a \in Buf : /\ SendRelease(c, a) /\ DropRef(c, a)
                           /\ acquired_refs[c][a] > 0 /\ UNCHANGED <<down, msg>>
      BY <1>9 DEF CloseRelease, Release
    <2>2. \A b \in Buf : acquired_refs'[c][b] =
                             acquired_refs[c][b] - (IF a = b THEN 1 ELSE 0)
      BY <2>1, <1>type DEF DropRef
    <2>3. ASSUME NEW b \in Buf
          PROVE  /\ Tokens(c, b)' <= Tokens(c, b)
                 /\ Registered(c) => Tokens(c, b)' = Tokens(c, b)
      <3>1. /\ Registered(c) => Returns(up'[c], b) = Returns(up[c], b) + (IF a = b THEN 1 ELSE 0)
            /\ \/ Returns(up'[c], b) = Returns(up[c], b)
               \/ Returns(up'[c], b) = Returns(up[c], b) + (IF a = b THEN 1 ELSE 0)
        BY <2>1, SendReleaseReturns
      <3>2. /\ Notices(down'[c], b) = Notices(down[c], b)
            /\ Taken(msg'[c], b) = Taken(msg[c], b)
        BY <2>1
      <3> QED
        <4>1. /\ Notices(down[c], b) \in Nat /\ Returns(up[c], b) \in Nat
              /\ acquired_refs[c][b] \in Nat /\ Taken(msg[c], b) \in {0, 1}
          BY <1>counts, <1>hand
        <4>2. acquired_refs'[c][b] = acquired_refs[c][b] - (IF a = b THEN 1 ELSE 0)
          BY <2>2
        <4>3. CASE a = b
          BY <4>1, <4>2, <4>3, <3>1, <3>2, <1>sum
        <4>4. CASE a # b
          BY <4>1, <4>2, <4>4, <3>1, <3>2, <1>sum
        <4> QED
          BY <4>3, <4>4
    <2> QED
      BY <2>3
  <1> QED
    BY <1>1, <1>2, <1>3, <1>4, <1>5, <1>6, <1>7, <1>8, <1>9
    DEF ClientStep, ClientConnect, ClientAcquire, ClientClose

LEMMA AmountType ==
    ASSUME NEW d \in Seq(FrameMsg), NEW m, NEW r \in [Buf -> Nat],
           NEW u \in Seq(Buf), NEW b \in Buf
    PROVE  Amount(d, m, r, u, b) \in Nat
  <1>1. Notices(d, b) \in Nat /\ Returns(u, b) \in Nat /\ r[b] \in Nat
    BY NoticesFacts, ReturnsFacts
  <1> QED
    BY <1>1 DEF Amount, Taken

LEMMA TokenNumber ==
    ASSUME TypeInt, NEW c \in Client, NEW b \in Buf
    PROVE  Tokens(c, b) \in Nat
  <1>1. /\ down[c] \in Seq(FrameMsg) /\ up[c] \in Seq(Buf)
        /\ acquired_refs[c] \in [Buf -> Nat]
    BY DEF TypeInt
  <1> QED
    BY <1>1, AmountType, TokensAmount

LEMMA TokensType ==
    ASSUME TypeInt, TypeInt', NEW c \in Client, NEW b \in Buf
    PROVE  Tokens(c, b) \in Nat /\ Tokens(c, b)' \in Nat
  <1>1. /\ down'[c] \in Seq(FrameMsg) /\ up'[c] \in Seq(Buf)
        /\ acquired_refs'[c] \in [Buf -> Nat]
    BY DEF TypeInt
  <1>2. Amount(down'[c], msg'[c], acquired_refs'[c], up'[c], b) \in Nat
    BY <1>1, AmountType
  <1> QED
    BY <1>2, TokenNumber, TokensAmount

LEMMA LeaseClientStep ==
    ASSUME Inv, LeaseInv, NEW c \in Client, ClientStep(c)
    PROVE  LeaseInv'
  <1> USE DEF Inv, LeaseInv
  <1>fds. UNCHANGED <<client_fds, client_refs>> /\ \A x : Registered(x)' = Registered(x)
    BY ClientKeepsServer DEF serverVars, Registered
  <1>alone. \A x \in Client : x # c => SameAs(x)
    BY ClientAlone
  <1>amounts. Conserved(c)
    BY ClientConserves
  <1>type. /\ DOMAIN msg = Client /\ DOMAIN cstate = Client /\ DOMAIN cpc = Client
           /\ down \in [Client -> Seq(FrameMsg)] /\ DOMAIN up = Client
           /\ DOMAIN acquired_refs = Client
           /\ client_fds \in [Slot -> Client \cup {NoClient}] /\ NoClient \notin Client
    BY SessionAssumption DEF TypeInt
  <1>open. Registered(c) /\ Open(c)' => Open(c)
    <2>1. Registered(c) => cstate[c] # "CREATED"
      BY <1>type DEF Registered, StreamInv, BacklogInv
    <2>2. CASE Connect(c)
      BY <2>1, <2>2 DEF Connect
    <2>3. CASE cstate' = cstate
      BY <2>3 DEF Open
    <2>4. CASE Connected(c) \/ ConnectFails(c) \/ CloseSocket(c) \/ ClientCrash(c)
      BY <2>4, <1>type DEF Connected, ConnectFails, CloseSocket, ClientCrash, ClientCloses, Open
    <2> QED
      BY <2>2, <2>3, <2>4
      DEF ClientStep, ClientConnect, ClientAcquire, ClientClose, Receive, ReceiveFails,
          SkipOld, RecvFails, TakeNewest, AcquireReturns, SyncTimeout, Disconnect,
          CloseRelease, Release
  (* Only a connected client gives references back, and it is not in the backlog. *)
  <1>up. ~Registered(c) => up'[c] = up[c]
    <2>1. cstate[c] = "CONNECTED" => ~Queued(c)
      BY DEF StreamInv, BacklogInv, Queued
    <2>2. ASSUME NEW b, SendRelease(c, b), cstate[c] = "CONNECTED", ~Registered(c)
          PROVE  up'[c] = up[c]
      BY <2>1, <2>2 DEF SendRelease, Eof
    <2>3. cpc[c] # "idle" => cstate[c] = "CONNECTED"
      BY DEF StreamInv, InHand
    <2>4. CASE \/ SkipOld(c) \/ SyncTimeout(c)
               \/ CloseRelease(c) \/ \E b \in Buf : Release(c, b)
      BY <2>2, <2>3, <2>4 DEF SkipOld, SyncTimeout, CloseRelease, Release
    <2>5. CASE up' = up
      BY <2>5
    <2> QED
      BY <2>4, <2>5
      DEF ClientStep, ClientConnect, ClientAcquire, ClientClose, Connect, Connected,
          ConnectFails, Receive, ReceiveFails, RecvFails, TakeNewest, AcquireReturns,
          Disconnect, CloseSocket, ClientCrash, ClientCloses, netVars
  <1>hand. /\ cpc'[c] \in {"idle", "skip", "close"} => msg'[c] = Hello
           /\ cstate'[c] # "CONNECTED" => acquired_refs'[c] = NoRefs
    <2>1. /\ cpc[c] \in {"idle", "skip", "close"} => msg[c] = Hello
          /\ cstate[c] # "CONNECTED" => acquired_refs[c] = NoRefs
          /\ cpc[c] # "idle" => cstate[c] = "CONNECTED"
      BY DEF Quiet, StreamInv, InHand
    <2>2. CASE Connect(c) \/ Connected(c) \/ Disconnect(c)
      BY <2>1, <2>2, <1>type DEF Connect, Connected, Disconnect
    <2>3. CASE ConnectFails(c) \/ CloseSocket(c) \/ ClientCrash(c)
      BY <2>3, <1>type DEF ConnectFails, CloseSocket, ClientCrash, ClientCloses
    <2>4. CASE \/ Receive(c) \/ ReceiveFails(c) \/ SkipOld(c) \/ RecvFails(c)
               \/ TakeNewest(c) \/ AcquireReturns(c) \/ SyncTimeout(c)
      BY <2>1, <2>4, <1>type DEF Receive, ReceiveFails, SkipOld, RecvFails,
                                 TakeNewest, AcquireReturns, SyncTimeout, SetMsg
    <2>5. CASE CloseRelease(c) \/ \E b \in Buf : Release(c, b)
      BY <2>1, <2>5 DEF CloseRelease, Release
    <2> QED
      BY <2>2, <2>3, <2>4, <2>5 DEF ClientStep, ClientConnect, ClientAcquire, ClientClose
  <1>hello. cstate'[c] = "CONNECTING" =>
              \/ down'[c] = <<>> /\ ~Registered(c)
              \/ down'[c] = down[c] /\ cstate[c] = "CONNECTING"
    <2>1. cstate[c] = "CREATED" => down[c] = <<>> /\ ~Registered(c)
      BY <1>type DEF StreamInv, BacklogInv, Registered
    <2>2. cpc[c] # "idle" => cstate[c] = "CONNECTED"
      BY DEF StreamInv, InHand
    <2>3. CASE Connect(c)
      BY <2>1, <2>3 DEF Connect
    <2>4. CASE Connected(c)
      BY <2>4, <1>type DEF Connected
    <2>5. CASE ConnectFails(c) \/ CloseSocket(c) \/ ClientCrash(c)
      BY <2>5, <1>type DEF ConnectFails, CloseSocket, ClientCrash, ClientCloses
    <2>6. CASE \/ Receive(c) \/ ReceiveFails(c) \/ SkipOld(c) \/ RecvFails(c)
               \/ TakeNewest(c) \/ AcquireReturns(c) \/ SyncTimeout(c) \/ Disconnect(c)
               \/ CloseRelease(c) \/ \E b \in Buf : Release(c, b)
      BY <2>2, <2>6 DEF Receive, ReceiveFails, SkipOld, RecvFails, TakeNewest,
                        AcquireReturns, SyncTimeout, Disconnect, CloseRelease, Release, netVars
    <2> QED
      BY <2>3, <2>5, <2>6, <2>4 DEF ClientStep, ClientConnect, ClientAcquire, ClientClose
  <1>1. OneSlot'
    BY <1>fds DEF OneSlot
  <1>2. Quiet'
    BY <1>fds, <1>alone, <1>up, <1>hand DEF Quiet, SameAs
  <1>3. Greeted'
    BY <1>fds, <1>alone, <1>hello DEF Greeted, SameAs
  <1>next. TypeInt'
    BY TypeStep DEF Next, ClientStep
  <1>tokens. ASSUME NEW x \in Client, NEW b \in Buf
             PROVE  /\ Tokens(x, b) \in Nat /\ Tokens(x, b)' \in Int
                    /\ Tokens(x, b)' <= Tokens(x, b)
                    /\ Registered(x) /\ Open(x)' => /\ Open(x)
                                                    /\ Tokens(x, b)' = Tokens(x, b) \/ FenceRecvFails
    <2>1. Tokens(x, b) \in Nat /\ Tokens(x, b)' \in Nat
      BY <1>next, TokensType
    <2>2. CASE x = c
      BY <2>1, <2>2, <1>amounts, <1>open DEF Conserved
    <2>3. CASE x # c
      BY <2>1, <2>3, <1>alone, TokensAmount DEF SameAs, Open
    <2> QED
      BY <2>2, <2>3
  <1>4. Once'
    BY <1>tokens DEF Once
  <1>5. LeaseAccounting'
    <2>1. ASSUME NEW s \in Slot, NEW b \in Buf, NEW x \in Client,
                 x = client_fds[s], Open(x)'
          PROVE  \/ Tokens(x, b)' = client_refs[s][b]
                 \/ FenceRecvFails /\ Tokens(x, b)' < client_refs[s][b]
      <3>1. Registered(x) /\ client_refs[s][b] \in Int
        BY <2>1 DEF Registered, TypeInt
      <3>2. /\ Tokens(x, b) \in Nat /\ Tokens(x, b)' \in Int /\ Open(x)
            /\ Tokens(x, b)' <= Tokens(x, b)
            /\ Tokens(x, b)' = Tokens(x, b) \/ FenceRecvFails
        BY <2>1, <3>1, <1>tokens
      <3>3. \/ Tokens(x, b) = client_refs[s][b]
            \/ FenceRecvFails /\ Tokens(x, b) < client_refs[s][b]
        BY <2>1, <3>2, <1>type DEF LeaseAccounting
      <3> QED
        BY <3>1, <3>2, <3>3
    <2> QED
      BY <2>1, <1>fds, <1>type DEF LeaseAccounting
  <1> QED
    BY <1>1, <1>2, <1>3, <1>4, <1>5

(* The steps of the server that move no reference. *)
LEMMA LeaseUnmoved ==
    ASSUME LeaseInv, UNCHANGED <<client_fds, client_refs, down, up, clientVars>>
    PROVE  LeaseInv'
  <1> USE DEF LeaseInv, clientVars
  <1>1. \A x : Registered(x)' = Registered(x) /\ Open(x)' = Open(x)
    BY DEF Registered, Open
  <1>2. \A x \in Client, b \in Buf : Tokens(x, b)' = Tokens(x, b)
    BY TokensAmount
  <1>3. OneSlot' /\ Quiet' /\ Greeted'
    BY <1>1 DEF OneSlot, Quiet, Greeted
  <1>4. Once'
    BY <1>2 DEF Once
  <1>5. LeaseAccounting'
    BY <1>2 DEF LeaseAccounting, Open, Tokens
  <1> QED
    BY <1>3, <1>4, <1>5

LEMMA LeaseAccept ==
    ASSUME Inv, LeaseInv, AcceptClient
    PROVE  LeaseInv'
  <1> USE DEF Inv, LeaseInv, clientVars
  <1>c. PICK c : c = Head(backlog)
    OBVIOUS
  <1>1. /\ backlog # <<>> /\ Open(c) /\ pc = "accept"
        /\ down' = [down EXCEPT ![c] = Append(@, Hello)]
        /\ UNCHANGED <<client_refs, up, clientVars>>
    BY <1>c DEF AcceptClient
  <1>2. PICK s \in Slot : /\ client_fds[s] = NoClient
                          /\ client_fds' = [client_fds EXCEPT ![s] = c]
    BY <1>c DEF AcceptClient, LowestFree, FreeSlots
  <1>3. c \in Client /\ c = backlog[1] /\ 1 \in 1..Len(backlog)
    BY <1>c, <1>1, TailElements, HeadTailProperties DEF TypeInt
  <1>4. /\ cstate[c] = "CONNECTING" /\ cpc[c] = "idle" /\ down[c] = <<>>
        /\ \A t \in Slot : client_fds[t] # c
    BY <1>1, <1>3 DEF Open, StreamInv, BacklogInv, InHand
  <1>5. up[c] = <<>> /\ msg[c] = Hello /\ acquired_refs[c] = NoRefs
    BY <1>3, <1>4 DEF Quiet, Registered
  <1>6. client_refs[s] = NoRefs
    BY <1>1, <1>2 DEF RefInv
  <1>type. /\ client_fds \in [Slot -> Client \cup {NoClient}] /\ NoClient \notin Client
           /\ down \in [Client -> Seq(FrameMsg)] /\ Hello \in FrameMsg
           /\ <<>> \in Seq(FrameMsg) /\ <<>> \in Seq(Buf)
    BY SessionAssumption, EmptySeq DEF TypeInt, Hello, FrameMsg
  <1>7. down'[c] = <<Hello>> /\ Head(down'[c]) = Hello /\ down'[c] # <<>>
    BY <1>1, <1>3, <1>4, <1>type
  <1>8. \A x \in Client : x # c => /\ down'[x] = down[x]
                                   /\ Registered(x)' = Registered(x)
    BY <1>1, <1>2, <1>3, <1>type DEF Registered
  <1>9. ASSUME NEW b \in Buf PROVE Tokens(c, b) = 0 /\ Tokens(c, b)' = 0
    <2>1. Notices(down[c], b) = 0 /\ Returns(up[c], b) = 0 /\ Returns(up'[c], b) = 0
      BY <1>1, <1>4, <1>5, <1>type, NoticesFacts, ReturnsFacts
    <2>2. Taken(Hello, b) = 0 /\ NoRefs[b] = 0
      BY SessionAssumption DEF Taken, Hello, NoBuf, Buf, NoRefs
    <2>3. down'[c] = Append(<<>>, Hello)
      BY <1>1, <1>3, <1>4, <1>type
    <2>4. Notices(Append(<<>>, Hello), b) = Notices(<<>>, b) + Taken(Hello, b)
      BY <1>type, NoticesFacts
    <2>5. Notices(down'[c], b) = 0
      BY <2>1, <2>2, <2>3, <2>4, <1>4
    <2> QED
      BY <2>1, <2>2, <2>5, <1>1, <1>3, <1>5, TokensAmount DEF Amount
  <1>10. \A x \in Client, b \in Buf : Tokens(x, b)' = Tokens(x, b)
    BY <1>1, <1>8, <1>9, TokensAmount
  <1>11. OneSlot'
    BY <1>2, <1>4, <1>type DEF OneSlot
  <1>12. Quiet'
    BY <1>1, <1>5, <1>8 DEF Quiet
  <1>13. Greeted'
    BY <1>1, <1>7, <1>8 DEF Greeted
  <1>14. Once'
    BY <1>10 DEF Once
  <1>15. LeaseAccounting'
    <2>1. ASSUME NEW t \in Slot, NEW b \in Buf, NEW x \in Client,
                 x = client_fds'[t], Open(x)'
          PROVE  \/ Tokens(x, b)' = client_refs'[t][b]
                 \/ FenceRecvFails /\ Tokens(x, b)' < client_refs'[t][b]
      <3>1. CASE t = s
        BY <3>1, <2>1, <1>1, <1>2, <1>3, <1>6, <1>9, <1>type DEF NoRefs
      <3>2. CASE t # s
        <4>1. client_fds[t] = x /\ Open(x)
          BY <3>2, <2>1, <1>1, <1>2, <1>type DEF Open
        <4> QED
          BY <4>1, <1>1, <1>10, <1>type DEF LeaseAccounting
      <3> QED
        BY <3>1, <3>2
    <2> QED
      BY <2>1, <1>2, <1>3, <1>type DEF LeaseAccounting
  <1> QED
    BY <1>11, <1>12, <1>13, <1>14, <1>15

LEMMA LeaseHandleRelease ==
    ASSUME Inv, LeaseInv, HandleRelease, TypeInt'
    PROVE  LeaseInv'
  <1> USE DEF Inv, LeaseInv, clientVars
  <1>c. PICK c : c = client_fds[slot]
    OBVIOUS
  <1>a. PICK a : a = Head(up[c])
    OBVIOUS
  <1>1. /\ c \in Client /\ slot \in Slot /\ up[c] # <<>> /\ pc = "drain"
        /\ up' = [up EXCEPT ![c] = Tail(@)]
        /\ client_refs[slot][a] # 0 =>
              client_refs' = [client_refs EXCEPT ![slot][a] = @ - 1]
        /\ UNCHANGED <<client_fds, down, clientVars>>
    BY <1>c, <1>a DEF HandleRelease, TypeInt
  <1>2. client_refs[slot][a] = 0 => client_refs' = client_refs
    BY <1>c, <1>a DEF HandleRelease
  <1>type. /\ up \in [Client -> Seq(Buf)] /\ up[c] \in Seq(Buf)
           /\ client_fds \in [Slot -> Client \cup {NoClient}] /\ NoClient \notin Client
           /\ client_refs \in [Slot -> [Buf -> {0, 1}]]
    BY <1>1, SessionAssumption DEF TypeInt, RefInv, Counted
  <1>3. a \in Buf
    BY <1>a, <1>1, <1>type, HeadTailProperties
  <1>4. \A x : Registered(x)' = Registered(x) /\ Open(x)' = Open(x)
    BY <1>1 DEF Registered, Open
  <1>5. ASSUME NEW b \in Buf
        PROVE  Returns(up'[c], b) = Returns(up[c], b) - (IF a = b THEN 1 ELSE 0)
    <2>1. Returns(up[c], b) = Returns(Tail(up[c]), b) + (IF a = b THEN 1 ELSE 0)
      BY <1>a, <1>1, <1>type, ReturnsFacts
    <2>2. Tail(up[c]) \in Seq(Buf) /\ up'[c] = Tail(up[c])
      BY <1>1, <1>type, HeadTailProperties
    <2>3. Returns(Tail(up[c]), b) \in Nat
      BY <2>2, ReturnsFacts
    <2> QED
      BY <2>1, <2>2, <2>3
  <1>6. ASSUME NEW b \in Buf
        PROVE  /\ Tokens(c, b) \in Nat /\ Tokens(c, b)' \in Nat
               /\ Tokens(c, b)' = Tokens(c, b) - (IF a = b THEN 1 ELSE 0)
    <2>1. Tokens(c, b) \in Nat /\ Tokens(c, b)' \in Nat
      BY <1>1, TokensType
    <2>2. /\ Notices(down[c], b) \in Nat /\ Returns(up[c], b) \in Nat
          /\ acquired_refs[c][b] \in Nat /\ Taken(msg[c], b) \in {0, 1}
      BY <1>1, <1>type, NoticesFacts, ReturnsFacts DEF TypeInt, Taken
    <2>3. /\ Tokens(c, b) = Notices(down[c], b) + Taken(msg[c], b)
                              + acquired_refs[c][b] + Returns(up[c], b)
          /\ Tokens(c, b)' = Notices(down[c], b) + Taken(msg[c], b)
                               + acquired_refs[c][b] + Returns(up'[c], b)
      BY <1>1, TokensAmount DEF Amount
    <2> QED
      BY <2>1, <2>2, <2>3, <1>5
  <1>7. \A x \in Client, b \in Buf : x # c => Tokens(x, b)' = Tokens(x, b)
    BY <1>1, <1>type, TokensAmount
  <1>8. OneSlot'
    BY <1>1 DEF OneSlot
  <1>9. Quiet'
    <2>1. \A x \in Client : ~Registered(x) => up'[x] = up[x]
      BY <1>c, <1>1, <1>type DEF Registered
    <2> QED
      BY <2>1, <1>1, <1>4 DEF Quiet
  <1>10. Greeted'
    BY <1>1, <1>4 DEF Greeted
  <1>11. Once'
    <2>1. ASSUME NEW x \in Client, NEW b \in Buf PROVE Tokens(x, b)' <= 1
      BY <1>6, <1>7 DEF Once
    <2> QED
      BY <2>1 DEF Once
  <1>12. LeaseAccounting'
    <2>1. ASSUME NEW t \in Slot, NEW b \in Buf, NEW x \in Client,
                 x = client_fds[t], Open(x)
          PROVE  \/ Tokens(x, b)' = client_refs'[t][b]
                 \/ FenceRecvFails /\ Tokens(x, b)' < client_refs'[t][b]
      <3>1. \A d \in Buf : \/ Tokens(x, d) = client_refs[t][d]
                           \/ FenceRecvFails /\ Tokens(x, d) < client_refs[t][d]
        BY <2>1, <1>type DEF LeaseAccounting
      <3>2. CASE t = slot
        <4>1. x = c
          BY <1>c, <3>2, <2>1
        <4>2. Tokens(c, a) >= 1
          BY <1>3, <1>6
        <4>refs. /\ client_refs[slot] \in [Buf -> {0, 1}]
                 /\ client_refs[slot][a] \in {0, 1}
          BY <1>1, <1>3, <1>type
        <4>3. client_refs[slot][a] = 1
          <5>1. /\ Tokens(c, a) \in Nat
                /\ \/ Tokens(c, a) = client_refs[slot][a]
                   \/ Tokens(c, a) < client_refs[slot][a]
            BY <4>1, <3>1, <3>2, <1>3, <1>6
          <5>2. Tokens(c, a) >= 1
            BY <4>2, <4>1
          <5>3. CASE client_refs[slot][a] = 0
            BY <5>1, <5>2, <5>3
          <5> QED
            BY <5>3, <4>refs
        <4>4. client_refs' = [client_refs EXCEPT ![slot][a] = @ - 1]
          BY <4>3, <1>1
        <4>5. client_refs'[slot][b] = client_refs[slot][b] - (IF a = b THEN 1 ELSE 0)
          <5>1. client_refs'[slot] = [client_refs[slot] EXCEPT ![a] = @ - 1]
            BY <4>4, <1>1, <1>type
          <5>2. client_refs[slot][b] \in {0, 1}
            BY <4>refs
          <5> QED
            BY <5>1, <5>2, <4>refs
        <4>6. client_refs[slot][b] \in Nat
          BY <1>1, <1>type
        <4>7. CASE a = b
          BY <4>1, <4>5, <4>6, <4>7, <3>1, <3>2, <1>6
        <4>8. CASE a # b
          BY <4>1, <4>5, <4>6, <4>8, <3>1, <3>2, <1>6
        <4> QED
          BY <4>7, <4>8
      <3>3. CASE t # slot
        <4>1. x # c
          BY <1>c, <3>3, <2>1, <1>1, <1>type DEF OneSlot
        <4>2. client_refs'[t] = client_refs[t]
          BY <3>3, <1>1, <1>2, <1>type
        <4> QED
          BY <4>1, <4>2, <3>1, <1>7
      <3> QED
        BY <3>2, <3>3
    <2> QED
      BY <2>1, <1>1, <1>4, <1>type DEF LeaseAccounting
  <1> QED
    BY <1>8, <1>9, <1>10, <1>11, <1>12

LEMMA LeaseDrop ==
    ASSUME Inv, LeaseInv, HandleEof \/ SendFail, TypeInt'
    PROVE  LeaseInv'
  <1> USE DEF Inv, LeaseInv, clientVars
  <1>c. PICK c : c = client_fds[slot]
    OBVIOUS
  <1>1. /\ c \in Client /\ slot \in Slot
        /\ client_fds' = [client_fds EXCEPT ![slot] = NoClient]
        /\ up' = [up EXCEPT ![c] = <<>>]
        /\ down' = [down EXCEPT ![c] = AfterClose(@)]
        /\ UNCHANGED clientVars
    BY <1>c DEF HandleEof, SendFail, DropClient, TypeInt
  <1>type. /\ up \in [Client -> Seq(Buf)] /\ up[c] \in Seq(Buf)
           /\ client_fds \in [Slot -> Client \cup {NoClient}] /\ NoClient \notin Client
           /\ client_refs \in [Slot -> [Buf -> Nat]] /\ <<>> \in Seq(Buf)
           /\ down \in [Client -> Seq(FrameMsg)]
    BY <1>1, EmptySeq, SessionAssumption DEF TypeInt
  <1>2. \A s \in Slot : s # slot => client_refs'[s] = client_refs[s]
    BY <1>1, <1>type DEF HandleEof, SendFail, DropClient, CountRef
  <1>3. /\ ~Registered(c)'
        /\ \A x \in Client : x # c => Registered(x)' = Registered(x)
    BY <1>c, <1>1, <1>type DEF OneSlot, Registered
  <1>4. \A x \in Client : x # c => up'[x] = up[x] /\ down'[x] = down[x]
    BY <1>1, <1>type
  <1>5. \A x \in Client, b \in Buf : x # c => Tokens(x, b)' = Tokens(x, b)
    BY <1>1, <1>4, TokensAmount
  <1>6. ASSUME NEW b \in Buf PROVE Tokens(c, b)' <= Tokens(c, b)
    <2>1. /\ Notices(down[c], b) \in Nat /\ Returns(up[c], b) \in Nat
          /\ acquired_refs[c][b] \in Nat /\ Taken(msg[c], b) \in {0, 1}
      BY <1>1, <1>type, NoticesFacts, ReturnsFacts DEF TypeInt, Taken
    <2>2. /\ up'[c] = <<>> /\ Returns(<<>>, b) = 0
          /\ Notices(down'[c], b) \in {Notices(down[c], b), 0}
      BY <1>1, <1>type, ReturnsFacts, ClosedStreams, NoticesFacts
    <2>3. /\ Tokens(c, b) = Notices(down[c], b) + Taken(msg[c], b)
                              + acquired_refs[c][b] + Returns(up[c], b)
          /\ Tokens(c, b)' = Notices(down'[c], b) + Taken(msg[c], b)
                               + acquired_refs[c][b] + Returns(up'[c], b)
      BY <1>1, TokensAmount DEF Amount
    <2> QED
      BY <2>1, <2>2, <2>3
  <1>7. OneSlot'
    BY <1>1, <1>type DEF OneSlot
  <1>8. Quiet'
    BY <1>1, <1>3, <1>4, <1>type DEF Quiet
  <1>9. Greeted'
    BY <1>1, <1>3, ClosedStreams DEF Greeted
  <1>10. Once'
    <2>1. ASSUME NEW x \in Client, NEW b \in Buf PROVE Tokens(x, b)' <= 1
      <3>1. Tokens(x, b) <= 1 /\ Tokens(x, b) \in Nat /\ Tokens(x, b)' \in Nat
        BY TokensType DEF Once
      <3>2. Tokens(x, b)' <= Tokens(x, b)
        BY <3>1, <1>5, <1>6
      <3> QED
        BY <3>1, <3>2
    <2> QED
      BY <2>1 DEF Once
  <1>11. LeaseAccounting'
    <2>1. ASSUME NEW t \in Slot, NEW b \in Buf, NEW x \in Client,
                 x = client_fds'[t], Open(x)'
          PROVE  \/ Tokens(x, b)' = client_refs'[t][b]
                 \/ FenceRecvFails /\ Tokens(x, b)' < client_refs'[t][b]
      <3>1. t # slot /\ client_fds[t] = x /\ Open(x)
        BY <2>1, <1>1, <1>type DEF Open
      <3>2. x # c
        BY <3>1, <1>c, <1>1, <1>type DEF OneSlot
      <3>3. client_refs'[t] = client_refs[t] /\ Tokens(x, b)' = Tokens(x, b)
        BY <3>1, <3>2, <1>2, <1>5
      <3> QED
        BY <3>1, <3>3, <1>type DEF LeaseAccounting
    <2> QED
      BY <2>1, <1>1, <1>type DEF LeaseAccounting
  <1> QED
    BY <1>7, <1>8, <1>9, <1>10, <1>11

LEMMA LeaseSend ==
    ASSUME Inv, LeaseInv, SendFrame
    PROVE  LeaseInv'
  <1> USE DEF Inv, LeaseInv, clientVars
  <1>c. PICK c : c = client_fds[slot]
    OBVIOUS
  <1>m. PICK m : m = [frame_id |-> frame_id, buf_idx |-> current_idx]
    OBVIOUS
  <1>a. PICK a : a = current_idx
    OBVIOUS
  <1>1. /\ c \in Client /\ slot \in Slot /\ Open(c) /\ a \in Buf /\ pc = "send"
        /\ client_refs' = [client_refs EXCEPT ![slot][a] = @ + 1]
        /\ down' = [down EXCEPT ![c] = Append(@, m)]
        /\ UNCHANGED <<client_fds, up, clientVars>>
    BY <1>c, <1>m, <1>a DEF SendFrame, CountRef, TypeInt
  <1>2. m \in FrameMsg /\ m.buf_idx = a
    BY <1>m, <1>a, SessionAssumption DEF TypeInt, FrameMsg
  <1>type. /\ down \in [Client -> Seq(FrameMsg)] /\ down[c] \in Seq(FrameMsg)
           /\ client_fds \in [Slot -> Client \cup {NoClient}] /\ NoClient \notin Client
           /\ client_refs \in [Slot -> [Buf -> {0, 1}]]
           /\ client_refs[slot] \in [Buf -> {0, 1}]
           /\ MaxClients \in Nat
    BY <1>1, SessionAssumption DEF TypeInt, RefInv, Counted
  <1>3. client_refs[slot][a] = 0
    BY <1>a, <1>1, <1>type DEF RefInv, Unsent, Slot
  <1>4. \A x : Registered(x)' = Registered(x) /\ Open(x)' = Open(x)
    BY <1>1 DEF Registered, Open
  <1>5. ASSUME NEW b \in Buf
        PROVE  /\ Tokens(c, b) \in Nat
               /\ Tokens(c, b)' = Tokens(c, b) + (IF a = b THEN 1 ELSE 0)
    <2>1. /\ Notices(down[c], b) \in Nat /\ Returns(up[c], b) \in Nat
          /\ acquired_refs[c][b] \in Nat /\ Taken(msg[c], b) \in {0, 1}
      BY <1>1, <1>type, NoticesFacts, ReturnsFacts DEF TypeInt, Taken
    <2>2. Notices(Append(down[c], m), b) = Notices(down[c], b) + Taken(m, b)
      BY <1>2, <1>type, NoticesFacts
    <2>3. down'[c] = Append(down[c], m) /\ Taken(m, b) = IF a = b THEN 1 ELSE 0
      BY <1>1, <1>2, <1>type DEF Taken
    <2>4. /\ Tokens(c, b) = Notices(down[c], b) + Taken(msg[c], b)
                              + acquired_refs[c][b] + Returns(up[c], b)
          /\ Tokens(c, b)' = Notices(down'[c], b) + Taken(msg[c], b)
                               + acquired_refs[c][b] + Returns(up[c], b)
      BY <1>1, TokensAmount DEF Amount
    <2>5. CASE a = b
      <3>1. Notices(down'[c], b) = Notices(down[c], b) + 1
        BY <2>2, <2>3, <2>5
      <3> QED
        BY <2>1, <2>4, <2>5, <3>1
    <2>6. CASE a # b
      BY <2>1, <2>2, <2>3, <2>4, <2>6
    <2> QED
      BY <2>5, <2>6
  <1>6. \A x \in Client, b \in Buf : x # c => Tokens(x, b)' = Tokens(x, b)
    BY <1>1, <1>type, TokensAmount
  (* The announced buffer is one the client has no reference to. *)
  <1>7. Tokens(c, a) = 0
    <2>1. \/ Tokens(c, a) = client_refs[slot][a]
          \/ Tokens(c, a) < client_refs[slot][a]
      BY <1>c, <1>1, <1>type DEF LeaseAccounting
    <2>2. Tokens(c, a) \in Nat
      BY <1>1, <1>5
    <2> QED
      BY <2>1, <2>2, <1>3
  <1>8. OneSlot'
    BY <1>1 DEF OneSlot
  <1>9. Quiet'
    BY <1>1, <1>4 DEF Quiet
  <1>10. Greeted'
    <2>1. Registered(c)
      BY <1>c, <1>1 DEF Registered
    <2>2. down[c] # <<>> => Head(Append(down[c], m)) = Head(down[c])
      <3> SUFFICES ASSUME down[c] # <<>>
                   PROVE  Head(Append(down[c], m)) = Head(down[c])
        OBVIOUS
      <3>1. Len(down[c]) \in Nat \ {0}
        BY <1>type, TailElements
      <3>2. Append(down[c], m)[1] = down[c][1]
        BY <3>1, <1>2, <1>type, AppendProperties
      <3>3. Append(down[c], m) # <<>> /\ Append(down[c], m) \in Seq(FrameMsg)
        BY <1>2, <1>type, AppendProperties
      <3> QED
        BY <3>2, <3>3, <1>type, HeadTailProperties
    <2>3. down'[c] = Append(down[c], m) /\ down'[c] # <<>>
      BY <1>1, <1>2, <1>type, AppendProperties
    <2>4. \A x \in Client : x # c => down'[x] = down[x]
      BY <1>1, <1>type
    <2> QED
      BY <2>1, <2>2, <2>3, <2>4, <1>1, <1>4 DEF Greeted
  <1>11. Once'
    <2>1. ASSUME NEW x \in Client, NEW b \in Buf PROVE Tokens(x, b)' <= 1
      <3>1. Tokens(x, b) <= 1
        BY DEF Once
      <3>2. CASE x = c /\ a = b
        BY <3>2, <1>5, <1>7
      <3>3. CASE x = c /\ a # b
        BY <3>1, <3>3, <1>5
      <3>4. CASE x # c
        BY <3>1, <3>4, <1>6
      <3> QED
        BY <3>2, <3>3, <3>4
    <2> QED
      BY <2>1 DEF Once
  <1>12. LeaseAccounting'
    <2>1. ASSUME NEW t \in Slot, NEW b \in Buf, NEW x \in Client,
                 x = client_fds[t], Open(x)
          PROVE  \/ Tokens(x, b)' = client_refs'[t][b]
                 \/ FenceRecvFails /\ Tokens(x, b)' < client_refs'[t][b]
      <3>1. \/ Tokens(x, b) = client_refs[t][b]
            \/ FenceRecvFails /\ Tokens(x, b) < client_refs[t][b]
        BY <2>1, <1>type DEF LeaseAccounting
      <3>slot. client_refs'[slot] = [client_refs[slot] EXCEPT ![a] = @ + 1]
        BY <1>1, <1>type
      <3>2. CASE t = slot /\ a = b
        <4>1. client_refs'[slot][b] = 1
          BY <3>2, <3>slot, <1>1, <1>3, <1>type
        <4>2. Tokens(c, b)' = 1
          BY <3>2, <1>5, <1>7
        <4> QED
          BY <4>1, <4>2, <3>2, <2>1, <1>c
      <3>3. CASE t = slot /\ a # b
        <4>1. client_refs'[slot][b] = client_refs[slot][b]
          BY <3>3, <3>slot, <1>1, <1>type
        <4>2. Tokens(c, b)' = Tokens(c, b)
          BY <3>3, <1>5
        <4> QED
          BY <4>1, <4>2, <3>1, <3>3, <2>1, <1>c
      <3>4. CASE t # slot
        <4>1. x # c
          BY <3>4, <2>1, <1>c, <1>1, <1>type DEF OneSlot
        <4>2. client_refs'[t] = client_refs[t]
          BY <3>4, <1>1, <1>type
        <4> QED
          BY <4>1, <4>2, <3>1, <1>6
      <3> QED
        BY <3>2, <3>3, <3>4
    <2> QED
      BY <2>1, <1>1, <1>4, <1>type DEF LeaseAccounting
  <1> QED
    BY <1>8, <1>9, <1>10, <1>11, <1>12

LEMMA LeaseGone ==
    ASSUME Inv, LeaseInv, ServerDestroy \/ ServerCrash, TypeInt'
    PROVE  LeaseInv'
  <1> USE DEF Inv, LeaseInv, clientVars
  <1>1. /\ client_fds' = [s \in Slot |-> NoClient]
        /\ up' = [c \in Client |-> <<>>]
        /\ \A x \in Client : down'[x] \in {down[x], <<>>}
        /\ UNCHANGED clientVars
    BY ClosedStreams DEF ServerDestroy, ServerCrash, ServerGone
  <1>2. \A x \in Client : ~Registered(x)'
    BY <1>1, SessionAssumption DEF Registered
  <1>3. ASSUME NEW x \in Client, NEW b \in Buf PROVE Tokens(x, b)' <= Tokens(x, b)
    <2>1. /\ Notices(down[x], b) \in Nat /\ Returns(up[x], b) \in Nat
          /\ acquired_refs[x][b] \in Nat /\ Taken(msg[x], b) \in {0, 1}
      BY NoticesFacts, ReturnsFacts DEF TypeInt, Taken
    <2>2. /\ up'[x] = <<>> /\ Returns(<<>>, b) = 0
          /\ Notices(down'[x], b) \in {Notices(down[x], b), 0}
      BY <1>1, EmptySeq, ReturnsFacts, NoticesFacts
    <2>3. /\ Tokens(x, b) = Notices(down[x], b) + Taken(msg[x], b)
                              + acquired_refs[x][b] + Returns(up[x], b)
          /\ Tokens(x, b)' = Notices(down'[x], b) + Taken(msg[x], b)
                               + acquired_refs[x][b] + Returns(up'[x], b)
      BY <1>1, TokensAmount DEF Amount
    <2> QED
      BY <2>1, <2>2, <2>3
  <1>4. Once'
    <2>1. ASSUME NEW x \in Client, NEW b \in Buf PROVE Tokens(x, b)' <= 1
      <3>1. Tokens(x, b) <= 1 /\ Tokens(x, b) \in Nat /\ Tokens(x, b)' \in Nat
        BY TokensType DEF Once
      <3> QED
        BY <3>1, <1>3
    <2> QED
      BY <2>1 DEF Once
  <1>5. OneSlot' /\ Quiet' /\ Greeted'
    BY <1>1, <1>2 DEF OneSlot, Quiet, Greeted
  <1>6. LeaseAccounting'
    BY <1>1 DEF LeaseAccounting
  <1> QED
    BY <1>4, <1>5, <1>6

LEMMA LeaseStep == Inv /\ LeaseInv /\ [Next]_vars => LeaseInv'
  <1> SUFFICES ASSUME Inv, LeaseInv, [Next]_vars PROVE LeaseInv'
    OBVIOUS
  <1>type. TypeInt'
    BY TypeStep DEF Inv
  <1>1. CASE AcceptClient
    BY <1>1, LeaseAccept
  <1>2. CASE HandleRelease
    BY <1>2, <1>type, LeaseHandleRelease
  <1>3. CASE HandleEof \/ SendFail
    BY <1>3, <1>type, LeaseDrop
  <1>4. CASE SendFrame
    BY <1>4, LeaseSend
  <1>5. CASE ServerDestroy \/ ServerCrash
    BY <1>5, <1>type, LeaseGone
  <1>6. CASE \/ StartPoll \/ AcceptRefuse \/ AcceptFail \/ AcceptDone \/ HandleNothing
             \/ BeginFrame \/ EndFrame \/ SkipSlot \/ UNCHANGED vars
    <2>1. UNCHANGED <<client_fds, client_refs, down, up, clientVars>>
      BY <1>6 DEF StartPoll, AcceptRefuse, AcceptFail, AcceptDone, HandleNothing,
                  BeginFrame, EndFrame, SkipSlot, vars, serverVars, netVars
    <2> QED
      BY <2>1, LeaseUnmoved
  <1>7. ASSUME NEW c \in Client, ClientStep(c) PROVE LeaseInv'
    BY <1>7, LeaseClientStep
  <1> QED
    BY <1>1, <1>2, <1>3, <1>4, <1>5, <1>6, <1>7
    DEF Next, ServerPoll, ServerPublish, AllEnded, ClientStep

LEMMA LeaseInvCorrect == Spec => [](Inv /\ LeaseInv)
  <1>1. Init => LeaseInv
    BY LeaseInit
  <1>2. Inv /\ LeaseInv /\ [Next]_vars => LeaseInv'
    BY LeaseStep
  <1> QED
    BY <1>1, <1>2, InvCorrect, PTL DEF Spec

(* The server's count of a connected client's references is what that client and
   the two streams have of them, for any number of clients and frames: a skipped
   notification, a fence that times out, a client that closes or a release sent
   at the same time as a notification neither lose a reference nor return it
   twice (session_consumer_acquire, session_release_acquired_refs,
   server_handle_client_releases, texlink_server_end_frame).                 *)
THEOREM LeaseAccountingCorrect == Spec => []LeaseAccounting
  <1>1. LeaseInv => LeaseAccounting
    BY DEF LeaseInv
  <1> QED
    BY <1>1, LeaseInvCorrect, PTL

-----------------------------------------------------------------------------
(* Places with different buffers are no more than there are buffers. *)
LEMMA FewPlaces ==
    ASSUME NEW n \in Nat, NEW I \in SUBSET (1..n), NEW f \in [I -> Buf],
           \A b \in Buf : Cardinality({i \in I : f[i] = b}) <= 1
    PROVE  IsFiniteSet(I) /\ Cardinality(I) <= FrameCount
  <1>1. IsFiniteSet(I)
    <2>1. IsFiniteSet(1..n)
      BY FS_Interval
    <2> QED
      BY <2>1, FS_Subset
  <1>2. ASSUME NEW i \in I, NEW j \in I, f[i] = f[j] PROVE i = j
    <2> DEFINE P == {k \in I : f[k] = f[i]}
    <2>1. IsFiniteSet(P) /\ i \in P /\ j \in P
      BY <1>1, <1>2, FS_Subset
    <2>2. Cardinality(P) <= 1 /\ Cardinality(P) \in Nat /\ Cardinality(P) # 0
      BY <2>1, FS_CardinalityType, FS_EmptySet
    <2>3. Cardinality(P) = 1
      BY <2>2
    <2>4. PICK x : P = {x}
      BY <2>1, <2>3, FS_Singleton
    <2> QED
      BY <2>1, <2>4
  <1>3. f \in Injection(I, Buf)
    BY <1>2, Fun_IsInj
  <1>4. IsFiniteSet(Buf) /\ Cardinality(Buf) = FrameCount
    <2>1. FrameCount - 1 \in Int /\ 0 \in Int
      BY SessionAssumption
    <2>2. IsFiniteSet(Buf) /\ Cardinality(Buf) = (FrameCount - 1) - 0 + 1
      BY <2>1, SessionAssumption, FS_Interval DEF Buf
    <2> QED
      BY <2>2, SessionAssumption
  <1> QED
    BY <1>1, <1>3, <1>4, FS_Injection

(* A stream holds at most a notification of each buffer and the handshake, the one
   back a release of each buffer: a few bytes, on which neither the sends of
   texlink_server_end_frame nor those of texlink_client_release_frame can block.   *)
StreamsBounded ==
    \A c \in Client : Len(down[c]) <= FrameCount + 1 /\ Len(up[c]) <= FrameCount

(* However long the session runs, neither process waits for the other to read. *)
THEOREM StreamsBoundedCorrect == Spec => []StreamsBounded
  <1>1. Inv /\ LeaseInv => StreamsBounded
    <2> SUFFICES ASSUME Inv, LeaseInv, NEW c \in Client
                 PROVE  Len(down[c]) <= FrameCount + 1 /\ Len(up[c]) <= FrameCount
      BY DEF StreamsBounded
    <2> USE DEF Inv, LeaseInv
    <2>1. /\ down[c] \in Seq(FrameMsg) /\ up[c] \in Seq(Buf) /\ msg[c] \in FrameMsg
          /\ acquired_refs[c] \in [Buf -> Nat]
      BY DEF TypeInt
    <2>2. PICK m, n \in Nat : m = Len(down[c]) /\ n = Len(up[c])
      BY <2>1, LenProperties
    <2>3. /\ \A i \in 1..m : down[c][i] \in FrameMsg
          /\ \A i \in 1..n : up[c][i] \in Buf
      BY <2>1, <2>2, ElementOfSeq
    <2>4. ASSUME NEW b \in Buf
          PROVE  Notices(down[c], b) <= 1 /\ Returns(up[c], b) <= 1
      <3>1. /\ Notices(down[c], b) \in Nat /\ Returns(up[c], b) \in Nat
            /\ Taken(msg[c], b) \in Nat /\ acquired_refs[c][b] \in Nat
        BY <2>1, NoticesFacts, ReturnsFacts DEF Taken
      <3>2. Notices(down[c], b) + Taken(msg[c], b) + acquired_refs[c][b]
                + Returns(up[c], b) <= 1
        BY TokensAmount DEF Once, Amount
      <3> QED
        BY <3>1, <3>2
    <2>5. n <= FrameCount
      <3> DEFINE f == [i \in 1..n |-> up[c][i]]
      <3>1. f \in [1..n -> Buf]
        BY <2>3
      <3>2. ASSUME NEW b \in Buf PROVE Cardinality({i \in 1..n : f[i] = b}) <= 1
        <4>1. {i \in 1..n : f[i] = b} = {i \in 1..Len(up[c]) : up[c][i] = b}
          BY <2>2
        <4> QED
          BY <2>4, <4>1 DEF Returns
      <3> HIDE DEF f
      <3>3. Cardinality(1..n) <= FrameCount
        BY <3>1, <3>2, FewPlaces
      <3>4. Cardinality(1..n) = n
        BY FS_Interval
      <3> QED
        BY <3>3, <3>4
    <2>6. m <= FrameCount + 1
      <3> DEFINE I == {i \in 1..m : down[c][i].buf_idx # NoBuf}
                 f == [i \in I |-> down[c][i].buf_idx]
      <3>1. f \in [I -> Buf]
        BY <2>3 DEF FrameMsg
      <3>2. ASSUME NEW b \in Buf PROVE Cardinality({i \in I : f[i] = b}) <= 1
        <4>1. b # NoBuf
          BY SessionAssumption DEF Buf, NoBuf
        <4>2. {i \in I : f[i] = b} = {i \in 1..Len(down[c]) : down[c][i].buf_idx = b}
          BY <2>2, <4>1
        <4> QED
          BY <2>4, <4>2 DEF Notices
      <3>3. I \in SUBSET (1..m)
        OBVIOUS
      <3>4. 2..m \subseteq I
        BY <2>2 DEF StreamInv, HelloFirst
      <3> HIDE DEF I, f
      <3>5. IsFiniteSet(I) /\ Cardinality(I) <= FrameCount
        BY <3>1, <3>2, <3>3, FewPlaces
      <3>6. Cardinality(2..m) <= Cardinality(I) /\ Cardinality(I) \in Nat
        BY <3>4, <3>5, FS_Subset, FS_CardinalityType
      <3>7. m >= 2 => Cardinality(2..m) = m - 1
        <4>1. 2 \in Int /\ m \in Int
          OBVIOUS
        <4>2. Cardinality(2..m) = IF 2 > m THEN 0 ELSE m - 2 + 1
          BY <4>1, FS_Interval
        <4> QED
          BY <4>2
      <3> QED
        BY <3>5, <3>6, <3>7, SessionAssumption
    <2> QED
      BY <2>2, <2>5, <2>6
  <1> QED
    BY <1>1, LeaseInvCorrect, PTL
=============================================================================
