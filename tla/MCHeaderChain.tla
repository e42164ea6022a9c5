--------------------------- MODULE MCHeaderChain ---------------------------
(* The producers, the schedules and the bounds are in the .cfg files.      *)
EXTENDS HeaderChain
=============================================================================
