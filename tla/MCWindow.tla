------------------------------ MODULE MCWindow ------------------------------
(* The instance of Window for TLC takes its bounds from the configurations. *)
EXTENDS Window
=============================================================================
