-------------------------- MODULE MCTokenDatabase --------------------------
(* TokenDatabase with model values for its keys and values.                *)
EXTENDS TokenDatabase, TLC

Symmetry == Permutations(TokenKeys) \cup Permutations(AssetKeys) \cup Permutations(Values)

(* A behaviour writes tokens or balances, not both.  The two column        *)
(* families share only the numbers of the savepoints: no operation reads   *)
(* one to change the other.                                                *)
OneFamily ==
    \/ /\ assets = [k \in AssetKeys |-> NoVal]
       /\ \A i \in DOMAIN wcache.ops : wcache.ops[i].vec = <<>>
    \/ /\ tokens = [k \in TokenKeys |-> NoVal]
       /\ \A i \in DOMAIN savepoints : savepoints[i].acts = <<>>
=============================================================================
