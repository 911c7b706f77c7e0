------------------------------- MODULE MCUpdate -------------------------------
(***************************************************************************)
(* UpdateService on small instances.  The comic numbers are 1 .. MaxID;    *)
(* RPCs are model values.                                                  *)
(***************************************************************************)
EXTENDS UpdateService, TLC

\* Update RPCs differ in nothing but their identity; sound for safety only.
Symmetry == Permutations(UpdateCalls)
=============================================================================
