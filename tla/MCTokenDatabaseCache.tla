------------------------ MODULE MCTokenDatabaseCache ------------------------
(* TokenDatabaseCache with model values for its keys and values.           *)
EXTENDS TokenDatabaseCache, TLC

Symmetry == Permutations(TokenKeys) \cup Permutations(Values)
=============================================================================
