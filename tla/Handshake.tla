------------------------------ MODULE Handshake ------------------------------
(***************************************************************************)
(* What texlink_client_connect and the accept loop of texlink_server_poll  *)
(* promise each other, without streams, items or descriptors: a client     *)
(* that waits is turned away or given a slot and greeted, as a whole, and  *)
(* only a greeted client counts as connected.  Session, with its single    *)
(* Hello, and Connection, with all that is sent, both implement this       *)
(* (SessionProperties!Greeting, ConnectionProperties!Greeting).            *)
(***************************************************************************)
EXTENDS Naturals, TLAPS

CONSTANTS
    Client, NoClient,
    MaxClients,     \* the number of slots
    Unreliable      \* the server may lose a client that has not ended

Slot == 1..MaxClients

VARIABLES
    slots,      \* the client in each slot, or NoClient
    waiting,    \* clients whose connection was not accepted yet
    greeted,    \* clients that were sent everything, and have not read it yet
    phase,      \* what each client has come to
    running     \* the server runs

vars == <<slots, waiting, greeted, phase, running>>

Phases == {"new", "connecting", "connected", "ended"}

Init ==
    /\ slots = [s \in Slot |-> NoClient]
    /\ waiting = {} /\ greeted = {}
    /\ phase = [c \in Client |-> "new"]
    /\ running = TRUE

Goto(c, p) == phase' = [phase EXCEPT ![c] = p]
HasSlot(c) == \E s \in Slot : slots[s] = c

Arrive(c) ==
    /\ running /\ phase[c] = "new"
    /\ Goto(c, "connecting")
    /\ waiting' = waiting \cup {c}
    /\ UNCHANGED <<slots, greeted, running>>

(* Accepted, with a slot and everything that belongs to the handshake. *)
Admit(c, s) ==
    /\ c \in waiting /\ phase[c] = "connecting"
    /\ slots[s] = NoClient
    /\ slots' = [slots EXCEPT ![s] = c]
    /\ waiting' = waiting \ {c}
    /\ greeted' = greeted \cup {c}
    /\ UNCHANGED <<phase, running>>

(* Refused, or the greeting broke off: the client is not remembered. *)
TurnAway(c) ==
    /\ c \in waiting
    /\ waiting' = waiting \ {c}
    /\ UNCHANGED <<slots, greeted, phase, running>>

Enter(c) ==
    /\ c \in greeted
    /\ Goto(c, "connected")
    /\ greeted' = greeted \ {c}
    /\ UNCHANGED <<slots, waiting, running>>

(* The client fails, disconnects or dies, at any point. *)
End(c) ==
    /\ phase[c] # "ended"
    /\ Goto(c, "ended")
    /\ greeted' = greeted \ {c}
    /\ UNCHANGED <<slots, waiting, running>>

(* The client of a slot is given up.  If it lives it may not see its greeting. *)
Drop(s) ==
    /\ slots[s] # NoClient
    /\ phase[slots[s]] = "ended" \/ Unreliable
    /\ slots' = [slots EXCEPT ![s] = NoClient]
    /\ greeted' \in {greeted, greeted \ {slots[s]}}
    /\ UNCHANGED <<waiting, phase, running>>

(* The server ends.  Who was greeted may still read it, or may not. *)
Close ==
    /\ running
    /\ running' = FALSE
    /\ slots' = [s \in Slot |-> NoClient]
    /\ waiting' = {}
    /\ greeted' \subseteq greeted
    /\ UNCHANGED phase

Next ==
    \/ \E c \in Client : Arrive(c) \/ TurnAway(c) \/ Enter(c) \/ End(c)
    \/ \E c \in Client, s \in Slot : Admit(c, s)
    \/ \E s \in Slot : Drop(s)
    \/ Close

Spec == Init /\ [][Next]_vars

-----------------------------------------------------------------------------
(* Who has a slot has one, and was sent everything it needs to become connected; and
   unless connections break, a client that counts as connected has a slot, so that it
   is sent the frames and its end is noticed.                                         *)
Served ==
    /\ \A s, t \in Slot : slots[s] = slots[t] /\ slots[s] # NoClient => s = t
    /\ \A c \in Client : HasSlot(c) /\ phase[c] = "connecting" => c \in greeted
    /\ running /\ ~Unreliable => \A c \in Client : phase[c] = "connected" => HasSlot(c)

(* What keeps it: a client waits or has a slot, never both, and is greeted with it. *)
HandshakeInv ==
    /\ slots \in [Slot -> Client \cup {NoClient}]
    /\ phase \in [Client -> Phases]
    /\ waiting \subseteq Client /\ greeted \subseteq Client
    /\ \A c \in waiting : ~HasSlot(c) /\ phase[c] \in {"connecting", "ended"} /\ running
    /\ \A c \in greeted : phase[c] = "connecting" /\ c \notin waiting
    /\ \A c \in Client : phase[c] = "new" => ~HasSlot(c)
    /\ running /\ ~Unreliable => \A c \in greeted : HasSlot(c)
    /\ Served

(* However clients come and go, the handshake leaves nobody connected but not served, or
   served but waiting: session_connect returns, and the server knows whom it sends to.   *)
THEOREM ServedCorrect ==
    ASSUME NoClient \notin Client
    PROVE  Spec => []Served
  <1>1. Init => HandshakeInv
    BY DEF Init, HandshakeInv, Served, HasSlot, Phases
  <1>2. HandshakeInv /\ [Next]_vars => HandshakeInv'
    <2> SUFFICES ASSUME HandshakeInv, [Next]_vars PROVE HandshakeInv'
      OBVIOUS
    <2> USE DEF HandshakeInv, Served, HasSlot, Goto, Phases
    <2>1. ASSUME NEW c \in Client, Arrive(c) PROVE HandshakeInv'
      BY <2>1 DEF Arrive
    <2>2. ASSUME NEW c \in Client, TurnAway(c) PROVE HandshakeInv'
      BY <2>2 DEF TurnAway
    <2>3. ASSUME NEW c \in Client, Enter(c) PROVE HandshakeInv'
      BY <2>3 DEF Enter
    <2>4. ASSUME NEW c \in Client, End(c) PROVE HandshakeInv'
      BY <2>4 DEF End
    <2>5. ASSUME NEW c \in Client, NEW s \in Slot, Admit(c, s) PROVE HandshakeInv'
      BY <2>5 DEF Admit
    <2>6. ASSUME NEW s \in Slot, Drop(s) PROVE HandshakeInv'
      BY <2>6 DEF Drop
    <2>7. CASE Close
      BY <2>7 DEF Close
    <2>8. CASE UNCHANGED vars
      BY <2>8 DEF vars
    <2> QED
      BY <2>1, <2>2, <2>3, <2>4, <2>5, <2>6, <2>7, <2>8 DEF Next
  <1>3. HandshakeInv => Served
    BY DEF HandshakeInv
  <1> QED
    BY <1>1, <1>2, <1>3, PTL DEF Spec
=============================================================================
