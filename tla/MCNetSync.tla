----------------------------- MODULE MCNetSync -----------------------------
(* Two nodes; either the one that is behind dials the other, or it is      *)
(* dialled by it.                                                          *)
EXTENDS NetSync, TLC
CONSTANTS a, b
TwoOrder == <<a, b>>
TwoHeads == (a :> 1) @@ (b :> 5)
BehindDials == {<<a, b>>}
AheadDials == {<<b, a>>}
=============================================================================
