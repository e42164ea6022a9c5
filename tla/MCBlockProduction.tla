------------------------- MODULE MCBlockProduction -------------------------
(* The producers, the schedules and the bounds are in the .cfg files.      *)
EXTENDS BlockProduction
=============================================================================
