---------------------------- MODULE ForkDatabase ----------------------------
(***************************************************************************)
(* The fork database (libraries/chain/fork_database.cpp): the block states *)
(* that are not yet irreversible, the best of them, and the order in which *)
(* they leave it.  The operators below are its member functions, applied   *)
(* to B, the table of the blocks received, and to the fields of a node.    *)
(*                                                                         *)
(* A block's id is the hash of a header that holds the previous block's    *)
(* id, so an id stands for the whole chain below it: B[b].chain lists the  *)
(* ids from the genesis block (id 1) to b itself.  B[b].lib is the block   *)
(* state's dpos_irreversible_blocknum.  bft_irreversible_blocknum stays 0: *)
(* nothing in the program adds a header confirmation.                      *)
(***************************************************************************)
EXTENDS Integers, SequencesExt

Num(B, b)   == Len(B[b].chain)
Prev(B, b)  == IF Num(B, b) = 1 THEN 0 ELSE B[b].chain[Num(B, b) - 1]
Chain(B, b) == Range(B[b].chain)

(* The order of the by_lib_block_num index.                                *)
Better(B, x, y) == \/ B[x].lib > B[y].lib
                   \/ B[x].lib = B[y].lib /\ Num(B, x) > Num(B, y)

(* index holds the blocks, each with its place in the order of insertion.  *)
(* Mutant: the longest chain wins whatever is irreversible on it.          *)
BestByNum(B, index) ==
    IF DOMAIN index = {} THEN 0 ELSE
    CHOOSE b \in DOMAIN index : \A c \in DOMAIN index \ {b} :
        Num(B, b) > Num(B, c) \/ (Num(B, b) = Num(B, c) /\ index[b] < index[c])

(* The first entry of that index; equal keys keep their insertion order    *)
(* (0: the index is empty, which the code does not expect).                *)
Best(B, index) ==
    IF DOMAIN index = {} THEN 0 ELSE
    CHOOSE b \in DOMAIN index : \A c \in DOMAIN index \ {b} :
        Better(B, b, c) \/ (~Better(B, c, b) /\ index[b] < index[c])

Lowest(B, index) == {b \in DOMAIN index : \A c \in DOMAIN index : Num(B, b) <= Num(B, c)}

(* Mutant: the first block received of the lowest ones, of any fork.       *)
OldestAnyFork(B, index, marked) ==
    CHOOSE b \in Lowest(B, index) : \A c \in Lowest(B, index) : index[b] <= index[c]

(* The first entry of the by_block_num index: the lowest block, one of the *)
(* current chain before the others.                                        *)
Oldest(B, index, marked) ==
    LET lowest == Lowest(B, index)
        first  == IF lowest \cap marked = {} THEN lowest ELSE lowest \cap marked
    IN CHOOSE b \in first : \A c \in first : index[b] <= index[c]

(* remove: the block and every block built on it.                          *)
RemoveForks(B, index, b) == Restrict(index, {c \in DOMAIN index : b \notin Chain(B, c)})

(* prune of the oldest block: it is erased, and so is every other fork of  *)
(* its height.                                                             *)
Siblings(B, index, b) == {c \in DOMAIN index : c # b /\ Num(B, c) = Num(B, b)}

Prune(B, index, b) ==
    Restrict(index, {c \in DOMAIN index : c # b /\ Chain(B, c) \cap Siblings(B, index, b) = {}})

(* fetch_branch_from walks down to two blocks with the same previous block,*)
(* at this height; each branch holds one block at least, so the branches   *)
(* of a block and a descendant of it both hold the lower block itself.     *)
CommonNum(B, x, y) ==
    LET shared == {k \in 1..Num(B, x) : /\ k <= Num(B, y)
                                        /\ B[x].chain[k] = B[y].chain[k]}
        k == CHOOSE k \in shared : \A j \in shared : j <= k
    IN IF k = Num(B, x) \/ k = Num(B, y) THEN k - 1 ELSE k

Branch(B, x, k) == SubSeq(B[x].chain, k + 1, Num(B, x))

(* Both branches can be walked: get_block finds every block of them.       *)
BranchesKnown(B, index, x, y) ==
    LET k == CommonNum(B, x, y)
    IN Range(Branch(B, x, k)) \cup Range(Branch(B, y, k)) \subseteq DOMAIN index
=============================================================================
