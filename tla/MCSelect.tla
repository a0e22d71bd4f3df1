------------------------------ MODULE MCSelect ------------------------------
(* Instances of Select: each thread reads a connection of its own. *)
EXTENDS Select

CONSTANTS a1, a2

OwnerTwo == (0 :> a1) @@ (1 :> a2)
=============================================================================
