------------------------------ MODULE MCSession ------------------------------
(* The instances TLC checks.  Clients are interchangeable: no action tells one
   from another except by the order in which they connect.                    *)
EXTENDS SessionProperties, TLC

Symmetry == Permutations(Client)
=============================================================================
