------------------------------- MODULE MCReturns -------------------------------
(* Instances of Returns for TLC. *)
EXTENDS Returns

(* two units of the sub-order come back one after the other *)
OneByOneSpec ==
  ReturnsInit /\ (\A r \in ReturnIds : ret[r].st = "APPROVED" /\ ret[r].units = 1)
  /\ [][ReturnsNext]_retVars
=============================================================================
