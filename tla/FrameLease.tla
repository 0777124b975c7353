----------------------------- MODULE FrameLease -----------------------------
(***************************************************************************)
(* What a frame session promises, without sockets, counters or slots: a    *)
(* buffer is written by the producer, published as a numbered frame, lent  *)
(* to clients, and written again only when no client has it.  Session      *)
(* implements this (SessionProperties!Lease).                              *)
(***************************************************************************)
EXTENDS Integers, TLAPS

CONSTANTS Client, Buf, NoBuf

VARIABLES
    content,    \* the frame in each buffer; 0 when there is none or it is torn
    writer,     \* the buffer being written, or NoBuf
    published,  \* the number of the last published frame
    lease       \* what each client has: frames with the buffer they are in

vars == <<content, writer, published, lease>>

Init ==
    /\ content = [b \in Buf |-> 0]
    /\ writer = NoBuf
    /\ published = 0
    /\ lease = [c \in Client |-> {}]

Lent(b) == \E c \in Client : \E m \in lease[c] : m.buf_idx = b

StartWrite(b) ==
    /\ writer = NoBuf
    /\ ~Lent(b)
    /\ writer' = b
    /\ content' = [content EXCEPT ![b] = 0]
    /\ UNCHANGED <<published, lease>>

Publish ==
    /\ writer # NoBuf
    /\ published' = published + 1
    /\ content' = [content EXCEPT ![writer] = published + 1]
    /\ writer' = NoBuf
    /\ UNCHANGED lease

(* Only the frame just published is lent, and once to a client. *)
Lend(c, b) ==
    /\ writer = NoBuf
    /\ published > 0 /\ content[b] = published
    /\ \A m \in lease[c] : m.buf_idx # b
    /\ lease' = [lease EXCEPT
                   ![c] = @ \cup {[frame_id |-> published, buf_idx |-> b]}]
    /\ UNCHANGED <<content, writer, published>>

(* A client gives back some of what it has, or all of it when it ends. *)
Return(c, frames) ==
    /\ frames # {}
    /\ lease' = [lease EXCEPT ![c] = @ \ frames]
    /\ UNCHANGED <<content, writer, published>>

(* The producer ends, perhaps in the middle of a write: the buffer stays torn, and
   what clients were told of and have not read may be gone with it.              *)
Abandon ==
    /\ writer' = NoBuf
    /\ lease' = [c \in Client |-> lease[c] \cap lease'[c]]
    /\ UNCHANGED <<content, published>>

Next ==
    \/ \E b \in Buf : StartWrite(b)
    \/ Publish \/ Abandon
    \/ \E c \in Client : \/ \E b \in Buf : Lend(c, b)
                         \/ \E frames \in SUBSET lease[c] : Return(c, frames)

Spec == Init /\ [][Next]_vars

-----------------------------------------------------------------------------
Frame == [frame_id : Nat, buf_idx : Buf]

LeaseTypes ==
    /\ content \in [Buf -> Nat]
    /\ writer \in Buf \cup {NoBuf}
    /\ published \in Nat
    /\ lease \in [Client -> SUBSET Frame]

(* What a client has a lease on was published, is still in its buffer, whole, and is not
   being written; so two clients that have one buffer have the same frame.              *)
LeasesWhole ==
    \A c \in Client : \A m \in lease[c] :
        /\ m.frame_id \in 1..published
        /\ content[m.buf_idx] = m.frame_id
        /\ writer # m.buf_idx

(* The contract alone excludes that a frame is overwritten while somebody has it, for
   whatever implements it.                                                             *)
THEOREM LeasesWholeCorrect ==
    ASSUME NoBuf \notin Buf
    PROVE  Spec => []LeasesWhole
  <1>1. Init => LeaseTypes /\ LeasesWhole
    BY DEF Init, LeaseTypes, LeasesWhole
  <1>2. LeaseTypes /\ LeasesWhole /\ [Next]_vars => LeaseTypes' /\ LeasesWhole'
    <2> SUFFICES ASSUME LeaseTypes, LeasesWhole, [Next]_vars PROVE LeaseTypes' /\ LeasesWhole'
      OBVIOUS
    <2> USE DEF LeaseTypes, LeasesWhole, Frame
    <2>1. ASSUME NEW b \in Buf, StartWrite(b) PROVE LeaseTypes' /\ LeasesWhole'
      BY <2>1 DEF StartWrite, Lent
    <2>2. CASE Publish
      BY <2>2 DEF Publish
    <2>3. CASE Abandon
      BY <2>3 DEF Abandon
    <2>4. ASSUME NEW c \in Client, NEW b \in Buf, Lend(c, b) PROVE LeaseTypes' /\ LeasesWhole'
      BY <2>4 DEF Lend
    <2>5. ASSUME NEW c \in Client, NEW frames \in SUBSET lease[c], Return(c, frames)
          PROVE  LeaseTypes' /\ LeasesWhole'
      BY <2>5 DEF Return
    <2>6. CASE UNCHANGED vars
      BY <2>6 DEF vars
    <2> QED
      BY <2>1, <2>2, <2>3, <2>4, <2>5, <2>6 DEF Next
  <1> QED
    BY <1>1, <1>2, PTL DEF Spec
=============================================================================
