---------------------------- MODULE NameService ----------------------------
(***************************************************************************)
(* What the registry promises, without locks, files and slots: names are   *)
(* bound to processes and paths, a name to one at most.  Binding a name    *)
(* takes it from whoever had it and touches no other name of a process     *)
(* that runs; unbinding gives up one name of one's own.  Only a process    *)
(* that dies, or cannot write, before its update is settled may lose more; *)
(* and when it has written a part, those who update after it may find      *)
(* bindings that nobody made, but still lose none.                         *)
(***************************************************************************)
CONSTANTS Name, Pid, Path, NoOne

VARIABLES
    bound,      \* the bindings
    alive,      \* the processes that run
    updating,   \* the process whose update is not settled yet
    intact      \* no update has ever been left half done

vars == <<bound, alive, updating, intact>>

Binding == [name : Name, pid : Pid, path : Path]

Init == bound = {} /\ alive = Pid /\ updating = NoOne /\ intact = TRUE

(* What an update makes of the bindings it has to keep. *)
Update(kept) == IF intact THEN bound' = kept ELSE kept \subseteq bound' /\ bound' \subseteq Binding

Named(bindings, n) == {b \in bindings : b.name = n}

(* A name is bound; bindings of dead processes may be forgotten with it. *)
Bind(n, p, x) ==
    LET new == [name |-> n, pid |-> p, path |-> x] IN
    /\ p \in alive
    /\ updating = NoOne /\ updating' = p
    /\ Update({b \in bound : b.name # n /\ b.pid \in alive} \cup {new})
    /\ Named(bound', n) = {new}
    /\ UNCHANGED <<alive, intact>>

Unbind(n, p) ==
    /\ p \in alive
    /\ updating = NoOne /\ updating' = p
    /\ Update({b \in bound : b.name # n \/ b.pid # p})
    /\ UNCHANGED <<alive, intact>>

(* The update breaks off: a part of the bindings is left, or nothing. *)
Break ==
    /\ bound' \subseteq bound
    /\ \/ bound' = {} /\ UNCHANGED intact
       \/ intact' = FALSE

(* The update is settled, or it fails. *)
Settle ==
    /\ updating # NoOne
    /\ updating' = NoOne
    /\ UNCHANGED <<bound, intact>> \/ Break
    /\ UNCHANGED alive

(* A process dies.  If its update was not settled, it breaks off, or the binding
   it was making goes alone.                                                     *)
Die(p) ==
    /\ alive' = alive \ {p}
    /\ IF updating = p
       THEN /\ updating' = NoOne
            /\ \/ Break
               \/ /\ \E n \in Name, x \in Path :
                        bound' = bound \ {[name |-> n, pid |-> p, path |-> x]}
                  /\ UNCHANGED intact
       ELSE UNCHANGED <<bound, updating, intact>>

Born(p) == alive' = alive \cup {p} /\ UNCHANGED <<bound, updating, intact>>

Next ==
    \/ \E n \in Name, p \in Pid : Unbind(n, p) \/ \E x \in Path : Bind(n, p, x)
    \/ \E p \in Pid : Die(p) \/ Born(p)
    \/ Settle

Spec == Init /\ [][Next]_vars
=============================================================================
