------------------------------ MODULE MCLifecycle ------------------------------
(***************************************************************************)
(* Lifecycle of each of the three services, with one call of either kind.  *)
(***************************************************************************)
EXTENDS Lifecycle
=============================================================================
