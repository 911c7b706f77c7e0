------------------------------ MODULE MCDashboard ------------------------------
(***************************************************************************)
(* Dashboard with handlers of every kind under way together.               *)
(***************************************************************************)
EXTENDS Dashboard
=============================================================================
