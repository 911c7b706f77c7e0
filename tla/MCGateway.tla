------------------------------ MODULE MCGateway ------------------------------
(***************************************************************************)
(* Gateway on small instances: requests are interchangeable.               *)
(***************************************************************************)
EXTENDS Gateway, TLC

Symmetry == Permutations(Requests)
=============================================================================
