----------------------------- MODULE MCRegistry -----------------------------
(* The instances TLC checks: two names that differ after their last dot, and servers that
   have the default path of their name, the path of the other name, or no name.           *)
EXTENDS RegistryProperties, TLC

left == <<"cam", "left">>
right == <<"cam", "right">>
Names == {left, right}

Descs ==
    {[name |-> left, path |-> NoOne], [name |-> right, path |-> NoOne],
     [name |-> right, path |-> DefaultPath(left)], [name |-> NoOne, path |-> DefaultPath(right)]}
DefaultPaths == {[name |-> n, path |-> NoOne] : n \in Names}
Mixed == DefaultPaths \cup {[name |-> NoOne, path |-> DefaultPath(left)]}

(* The memory of a reader is empty, or holds an old entry of the first name. *)
Remains == {NoOne} \cup [name : {left}, pid : Pid, path : {DefaultPath(left)}]

Nothing == {NoOne}

Symmetry == Permutations(Server) \cup Permutations(Pid) \cup Permutations(Client)
=============================================================================
