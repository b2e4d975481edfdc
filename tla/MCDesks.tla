-------------------------------- MODULE MCDesks --------------------------------
(* The instance of Desks for TLC. *)
EXTENDS Desks
=============================================================================
