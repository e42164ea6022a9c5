------------------------ MODULE ChainControllerProofs ------------------------
(***************************************************************************)
(* What the controller keeps between two calls, for every tree of blocks   *)
(* and every number of blocks: the inductive invariant of push_block and   *)
(* commit_block, and the proof that it holds until the first restart.      *)
(*                                                                         *)
(*   Tree      the table of blocks is a tree of chains                     *)
(*   OnPar     applied blocks, marks, reversible blocks and block log      *)
(*             belong to the chain of the head                             *)
(*   Rooted    the fork database holds the branches above the last         *)
(*             committed block, and only these                             *)
(*   Ranked    blocks are in the order in which they arrived               *)
(*   Top       the head is the first block of the by_lib_block_num order   *)
(*   Settled   a fork never reaches below what is committed                *)
(*                                                                         *)
(* The lemmas follow the code: what add inserts and prunes, what           *)
(* pop_block and apply_block do, the branches of a fork switch and its     *)
(* three outcomes, and the two calls as a whole.                           *)
(***************************************************************************)
EXTENDS ChainController, FoldProofs, SequenceTheorems, TLAPS

(* The blocks of a table and the i-th block of the chain of a block.       *)
Ids(B) == 1..Len(B)
At(B, b, i) == B[b].chain[i]

BlockRec == [chain : Seq(Nat), lib : Nat, good : BOOLEAN]

(* What arrival makes of the table: chains start with the genesis block,   *)
(* end with the block itself, and the chain of a block below is a part of  *)
(* the chain; irreversible numbers do not fall along a chain.              *)
TreeAt(B, b) ==
    /\ Num(B, b) >= 1 /\ At(B, b, 1) = 1 /\ At(B, b, Num(B, b)) = b /\ B[b].lib < Num(B, b)
    /\ \A i \in 1..Num(B, b) :
          /\ At(B, b, i) \in 1..b /\ Num(B, At(B, b, i)) = i /\ B[At(B, b, i)].lib <= B[b].lib
          /\ \A j \in 1..i : At(B, At(B, b, i), j) = At(B, b, j)

Tree(B) == B \in Seq(BlockRec) /\ Len(B) >= 1 /\ \A b \in Ids(B) : TreeAt(B, b)

(* The types of a table.                                                   *)
LEMMA TreeTypes ==
    ASSUME NEW B, Tree(B), NEW b \in Ids(B)
    PROVE  /\ Len(B) \in Nat /\ b \in Nat /\ B[b] \in BlockRec /\ B[b].chain \in Seq(Nat)
           /\ B[b].lib \in Nat /\ B[b].good \in BOOLEAN /\ Num(B, b) \in Nat
<1>1. B \in Seq(BlockRec) /\ Len(B) \in Nat
  BY DEF Tree
<1>2. B[b] \in BlockRec
  BY <1>1 DEF Ids
<1>3. B[b].chain \in Seq(Nat) /\ B[b].lib \in Nat /\ B[b].good \in BOOLEAN
  BY <1>2 DEF BlockRec
<1>4. Num(B, b) \in Nat
  BY <1>3 DEF Num
<1>5. b \in Nat
  BY <1>1 DEF Ids
<1> QED BY <1>1, <1>2, <1>3, <1>4, <1>5

(* The chain of a block.                                                   *)
LEMMA TreeFacts ==
    ASSUME NEW B, Tree(B), NEW b \in Ids(B)
    PROVE  /\ Num(B, b) \in Nat \ {0} /\ At(B, b, 1) = 1 /\ At(B, b, Num(B, b)) = b
           /\ B[b].lib \in Nat /\ B[b].lib < Num(B, b)
           /\ \A i \in 1..Num(B, b) :
                 /\ At(B, b, i) \in Ids(B) /\ At(B, b, i) <= b
                 /\ Num(B, At(B, b, i)) = i /\ B[At(B, b, i)].lib <= B[b].lib
                 /\ \A j \in 1..i : At(B, At(B, b, i), j) = At(B, b, j)
<1>1. TreeAt(B, b)
  BY DEF Tree
<1>2. Num(B, b) \in Nat /\ B[b].lib \in Nat /\ Len(B) \in Nat /\ b \in 1..Len(B)
  BY TreeTypes DEF Ids
<1>3. \A i \in 1..Num(B, b) : At(B, b, i) \in 1..Len(B) /\ At(B, b, i) <= b
  <2>1. \A i \in 1..Num(B, b) : At(B, b, i) \in 1..b
    BY <1>1 DEF TreeAt
  <2> QED BY <2>1, <1>2
<1> QED BY <1>1, <1>2, <1>3 DEF TreeAt, Ids

(* What is in the chain of a block, and which of it is the last below.     *)
LEMMA InChain ==
    ASSUME NEW B, Tree(B), NEW b \in Ids(B)
    PROVE  /\ Chain(B, b) = {At(B, b, i) : i \in 1..Num(B, b)}
           /\ \A c : c \in Chain(B, b) <=>
                       c \in Ids(B) /\ Num(B, c) <= Num(B, b) /\ At(B, b, Num(B, c)) = c
           /\ Prev(B, b) = IF Num(B, b) = 1 THEN 0 ELSE At(B, b, Num(B, b) - 1)
<1>1. B[b].chain \in Seq(Nat)
  BY TreeTypes
<1>2. Chain(B, b) = {At(B, b, i) : i \in 1..Num(B, b)}
  BY <1>1 DEF Chain, Num, At, Range
<1>3. ASSUME NEW c, c \in Chain(B, b)
      PROVE  c \in Ids(B) /\ Num(B, c) <= Num(B, b) /\ At(B, b, Num(B, c)) = c
  <2>1. PICK i \in 1..Num(B, b) : c = At(B, b, i)
    BY <1>2, <1>3
  <2>2. Num(B, b) \in Nat /\ c \in Ids(B) /\ Num(B, c) = i
    BY <2>1, TreeFacts
  <2> QED BY <2>1, <2>2
<1>4. ASSUME NEW c, c \in Ids(B), Num(B, c) <= Num(B, b), At(B, b, Num(B, c)) = c
      PROVE  c \in Chain(B, b)
  <2>1. Num(B, b) \in Nat /\ Num(B, c) \in Nat \ {0}
    BY <1>4, TreeFacts
  <2>2. Num(B, c) \in 1..Num(B, b)
    BY <2>1, <1>4
  <2> QED BY <2>2, <1>2, <1>4
<1>5. Prev(B, b) = IF Num(B, b) = 1 THEN 0 ELSE At(B, b, Num(B, b) - 1)
  BY DEF Prev, At
<1> QED BY <1>2, <1>3, <1>4, <1>5

(* Two chains that meet at a height are the same below.                    *)
LEMMA ChainsMeet ==
    ASSUME NEW B, Tree(B), NEW b \in Ids(B), NEW c \in Ids(B),
           NEW i \in 1..Num(B, b), i <= Num(B, c), At(B, b, i) = At(B, c, i), NEW j \in 1..i
    PROVE  At(B, b, j) = At(B, c, j)
<1>1. Num(B, c) \in Nat /\ Num(B, b) \in Nat
  BY TreeFacts
<1>2. i \in 1..Num(B, c)
  BY <1>1
<1>3. At(B, At(B, b, i), j) = At(B, b, j)
  BY TreeFacts
<1>4. At(B, At(B, c, i), j) = At(B, c, j)
  BY <1>2, TreeFacts
<1> QED BY <1>3, <1>4

-----------------------------------------------------------------------------

(* D is the table B with the block that arrives on p.                      *)
Arrived(B, D, p) ==
    /\ D \in Seq(BlockRec) /\ Len(D) = Len(B) + 1
    /\ \A c \in Ids(B) : D[c] = B[c]
    /\ D[Len(D)].chain = Append(B[p].chain, Len(D))
    /\ D[Len(D)].lib \in B[p].lib..Num(B, p)

(* Nothing changes for the blocks that were there.                         *)
LEMMA OldSame ==
    ASSUME NEW B, NEW D, NEW p \in Ids(B), Arrived(B, D, p), Tree(B), NEW c \in Ids(B)
    PROVE  /\ D[c] = B[c] /\ Num(D, c) = Num(B, c) /\ Chain(D, c) = Chain(B, c) /\ Prev(D, c) = Prev(B, c)
           /\ \A i : At(D, c, i) = At(B, c, i)
           /\ c \in Ids(D) /\ c # Len(D) /\ Len(D) \in Ids(D) /\ c < Len(D) /\ Len(D) \in Nat
<1>1. D[c] = B[c] /\ Len(D) = Len(B) + 1 /\ Len(B) \in Nat /\ c \in 1..Len(B)
  BY TreeTypes DEF Arrived, Ids
<1>2. c \in 1..Len(D) /\ c # Len(D) /\ Len(D) \in 1..Len(D) /\ c < Len(D) /\ Len(D) \in Nat
  BY <1>1
<1>3. D[c] = B[c]
  BY <1>1
<1> QED BY <1>2, <1>3 DEF Num, Chain, Prev, At, Ids

(* The chain of the new block.                                             *)
LEMMA NewChain ==
    ASSUME NEW B, NEW D, NEW p \in Ids(B), Arrived(B, D, p), Tree(B)
    PROVE  LET b == Len(D)
           IN /\ Num(D, b) = Num(B, p) + 1 /\ Num(D, b) \in Nat /\ At(D, b, Num(D, b)) = b
              /\ \A i \in 1..Num(B, p) : At(D, b, i) = At(B, p, i)
              /\ D[b].lib \in Nat /\ D[b].lib <= Num(B, p) /\ B[p].lib <= D[b].lib
              /\ Prev(D, b) = p
<1> DEFINE b == Len(D)
           s == B[p].chain
<1>1. s \in Seq(Nat) /\ Num(B, p) = Len(s) /\ Num(B, p) \in Nat \ {0} /\ B[p].lib \in Nat
  BY TreeTypes, TreeFacts DEF Num
<1>2. D[b].chain = Append(s, b) /\ D[b].lib \in B[p].lib..Num(B, p)
  BY DEF Arrived
<1>2a. b \in Nat
  BY OldSame
<1> HIDE DEF s, b
<1>3. Len(Append(s, b)) = Len(s) + 1 /\ Append(s, b)[Len(s) + 1] = b /\ \A i \in 1..Len(s) : Append(s, b)[i] = s[i]
  BY <1>1, <1>2a
<1>4. Num(D, b) = Num(B, p) + 1 /\ At(D, b, Num(D, b)) = b
  BY <1>1, <1>2, <1>3 DEF Num, At
<1>5. \A i \in 1..Num(B, p) : At(D, b, i) = At(B, p, i)
  BY <1>1, <1>2, <1>3 DEF At, s
<1>6. D[b].lib \in Nat /\ D[b].lib <= Num(B, p) /\ B[p].lib <= D[b].lib
  <2> DEFINE x == D[b].lib
             y == B[p].lib
             z == Num(B, p)
  <2>1. x \in y..z /\ y \in Nat /\ z \in Nat
    BY <1>1, <1>2
  <2> HIDE DEF x, y, z
  <2>2. x \in Nat /\ x <= z /\ y <= x
    BY <2>1
  <2> QED BY <2>2 DEF x, y, z
<1>7. Prev(D, b) = p
  <2>1. Num(D, b) # 1 /\ Num(D, b) - 1 = Num(B, p) /\ Num(B, p) \in 1..Num(B, p)
    BY <1>1, <1>4
  <2>2. At(D, b, Num(B, p)) = p
    BY <2>1, <1>5, TreeFacts
  <2> QED BY <2>1, <2>2 DEF Prev, At
<1>8. Num(D, b) \in Nat
  BY <1>1, <1>4
<1> QED BY <1>4, <1>5, <1>6, <1>7, <1>8 DEF b

(* The table stays a tree.                                                 *)
LEMMA TreeGrows ==
    ASSUME NEW B, NEW D, NEW p \in Ids(B), Arrived(B, D, p), Tree(B)
    PROVE  Tree(D)
<1> DEFINE b == Len(D)
<1>1. D \in Seq(BlockRec) /\ Len(D) = Len(B) + 1 /\ Len(B) \in Nat /\ Len(D) >= 1
  BY TreeTypes DEF Arrived
<1>2. ASSUME NEW c \in Ids(B)
      PROVE  TreeAt(D, c)
  <2>1. TreeAt(B, c)
    BY DEF Tree
  <2>2. Num(D, c) = Num(B, c) /\ D[c] = B[c] /\ \A i : At(D, c, i) = At(B, c, i)
    BY OldSame
  <2>3. \A i \in 1..Num(B, c) :
           /\ Num(D, At(B, c, i)) = Num(B, At(B, c, i)) /\ D[At(B, c, i)].lib = B[At(B, c, i)].lib
           /\ \A j : At(D, At(B, c, i), j) = At(B, At(B, c, i), j)
    <3> SUFFICES ASSUME NEW i \in 1..Num(B, c)
                 PROVE  /\ Num(D, At(B, c, i)) = Num(B, At(B, c, i)) /\ D[At(B, c, i)].lib = B[At(B, c, i)].lib
                        /\ \A j : At(D, At(B, c, i), j) = At(B, At(B, c, i), j)
      OBVIOUS
    <3>1. At(B, c, i) \in Ids(B)
      BY TreeFacts
    <3> QED BY <3>1, OldSame
  <2> QED BY <2>1, <2>2, <2>3 DEF TreeAt
<1>3. TreeAt(D, b)
  <2>0. /\ Num(D, b) = Num(B, p) + 1 /\ At(D, b, Num(D, b)) = b
        /\ \A i \in 1..Num(B, p) : At(D, b, i) = At(B, p, i)
        /\ D[b].lib \in Nat /\ D[b].lib <= Num(B, p) /\ B[p].lib <= D[b].lib
    BY NewChain
  <2>1. Num(B, p) \in Nat \ {0} /\ At(B, p, 1) = 1 /\ B[p].lib \in Nat
    BY TreeFacts
  <2>2. At(D, b, 1) = 1
    BY <2>0, <2>1
  <2>3. ASSUME NEW i \in 1..Num(D, b)
        PROVE  /\ At(D, b, i) \in 1..b /\ Num(D, At(D, b, i)) = i /\ D[At(D, b, i)].lib <= D[b].lib
               /\ \A j \in 1..i : At(D, At(D, b, i), j) = At(D, b, j)
    <3>1. CASE i = Num(D, b)
      <4>1. At(D, b, i) = b /\ b \in 1..b
        BY <3>1, <2>0, <1>1
      <4> QED BY <4>1, <3>1, <2>0
    <3>2. CASE i # Num(D, b)
      <4> DEFINE c == At(B, p, i)
      <4>1. i \in 1..Num(B, p)
        BY <3>2, <2>0, <2>1
      <4>2. At(D, b, i) = c /\ c \in Ids(B) /\ Num(B, c) = i /\ B[c].lib <= B[p].lib
        BY <4>1, <2>0, TreeFacts
      <4>2a. \A j \in 1..i : At(B, c, j) = At(B, p, j)
        BY <4>1, TreeFacts
      <4> HIDE DEF c
      <4>3. D[c] = B[c] /\ Num(D, c) = i /\ c \in 1..b /\ \A j : At(D, c, j) = At(B, c, j)
        <5>1. c < Len(D) /\ Len(D) \in Nat /\ c \in 1..Len(B)
          BY <4>2, OldSame DEF Ids
        <5>2. c \in 1..b
          BY <5>1, <1>1
        <5>3. D[c] = B[c] /\ Num(D, c) = Num(B, c)
          BY <4>2, OldSame
        <5>4. \A j : At(D, c, j) = At(B, c, j)
          BY <4>2, OldSame
        <5> QED BY <5>2, <5>3, <5>4, <4>2
      <4>4. B[c].lib \in Nat
        BY <4>2, TreeTypes
      <4>5. D[c].lib <= D[b].lib
        <5>1. D[c].lib = B[c].lib
          BY <4>3
        <5> QED BY <5>1, <4>2, <4>4, <2>0, <2>1
      <4>6. \A j \in 1..i : At(D, c, j) = At(D, b, j)
        <5>1. \A j \in 1..i : j \in 1..Num(B, p)
          BY <4>1, <2>1
        <5> QED BY <5>1, <4>2a, <4>3, <2>0
      <4> QED BY <4>2, <4>3, <4>5, <4>6
    <3> QED BY <3>1, <3>2
  <2>4. Num(D, b) >= 1 /\ D[b].lib < Num(D, b)
    BY <2>0, <2>1
  <2> HIDE DEF b
  <2> QED BY <2>0, <2>2, <2>3, <2>4 DEF TreeAt
<1>4. \A c \in Ids(D) : c \in Ids(B) \/ c = b
  BY <1>1 DEF Ids
<1> QED BY <1>1, <1>2, <1>3, <1>4 DEF Tree

(* The types of a node's state.                                            *)
Indexes == UNION {[S -> Nat] : S \in SUBSET Nat}
Node == [index : Indexes, fhead : Nat, marked : SUBSET Nat, head : Nat, applied : Seq(Nat),
         committed : Nat, reversible : SUBSET Nat, blog : Seq(Nat), broken : BOOLEAN]

(* The blocks that a node holds in its fork database.                      *)
Held(n) == DOMAIN n.index

(* The state databases, the marks, the reversible blocks and the block log *)
(* are those of the head's chain.                                          *)
Applied(B, n) == /\ Len(n.applied) = Num(B, n.head)
                 /\ \A i \in 1..Num(B, n.head) : n.applied[i] = At(B, n.head, i)
Marks(B, n) == Held(n) \cap n.marked = (Held(n) \cap Chain(B, n.head)) \ {1}
Unsettled(B, n) == n.reversible = {c \in Chain(B, n.head) : c # 1 /\ Num(B, c) > n.committed}
Logged(B, n) == /\ Len(n.blog) = IF n.committed = 0 THEN 1 ELSE n.committed
                /\ Len(n.blog) <= Num(B, n.head)
                /\ \A i \in 1..Len(n.blog) : n.blog[i] = At(B, n.head, i)

OnPar(B, n) ==
    /\ n \in Node /\ n.head \in Ids(B) /\ n.broken = FALSE /\ Held(n) \subseteq Ids(B)
    /\ n.marked \subseteq Ids(B)
    /\ Applied(B, n) /\ Marks(B, n) /\ Unsettled(B, n) /\ Logged(B, n)

(* The fields have their types.                                            *)
LEMMA NodeTypes ==
    ASSUME NEW n \in Node
    PROVE  /\ n.index \in Indexes /\ n.fhead \in Nat /\ n.marked \in SUBSET Nat /\ n.head \in Nat
           /\ n.applied \in Seq(Nat) /\ n.committed \in Nat /\ n.reversible \in SUBSET Nat
           /\ n.blog \in Seq(Nat) /\ n.broken \in BOOLEAN
BY DEF Node

(* The block below a block, and its chain.                                 *)
LEMMA ChainBelow ==
    ASSUME NEW B, Tree(B), NEW b \in Ids(B), NEW q, q = Prev(B, b), Num(B, b) # 1
    PROVE  /\ q \in Ids(B) /\ Num(B, q) = Num(B, b) - 1 /\ Num(B, q) \in Nat \ {0}
           /\ \A j \in 1..Num(B, q) : At(B, q, j) = At(B, b, j)
           /\ Chain(B, q) = Chain(B, b) \ {b} /\ b \in Chain(B, b)
           /\ \A c \in Chain(B, b) : Num(B, c) = Num(B, b) => c = b
           /\ b # 1
<1> DEFINE k == Num(B, b)
<1>1. k \in Nat \ {0} /\ At(B, b, k) = b /\ q = At(B, b, k - 1) /\ At(B, b, 1) = 1
  BY TreeFacts, InChain
<1>2. k - 1 \in 1..k
  BY <1>1
<1>3. q \in Ids(B) /\ Num(B, q) = k - 1 /\ \A j \in 1..(k - 1) : At(B, q, j) = At(B, b, j)
  BY <1>1, <1>2, TreeFacts
<1>4. \A c \in Chain(B, b) : c \in Ids(B) /\ Num(B, c) \in Nat \ {0} /\ Num(B, c) <= k /\ At(B, b, Num(B, c)) = c
  BY InChain, TreeFacts
<1>5. \A c \in Chain(B, b) : Num(B, c) = k => c = b
  BY <1>1, <1>4
<1>6. b \in Chain(B, b)
  <2>1. k \in 1..k
    BY <1>1
  <2> QED BY <2>1, <1>1, InChain
<1>7. ASSUME NEW c, c \in Chain(B, q)
      PROVE  c \in Chain(B, b) /\ c # b
  <2>1. c \in Ids(B) /\ Num(B, c) <= k - 1 /\ At(B, q, Num(B, c)) = c
    BY <1>3, <1>7, InChain
  <2>2. Num(B, c) \in Nat \ {0}
    BY <2>1, TreeFacts
  <2>3. Num(B, c) \in 1..(k - 1) /\ Num(B, c) <= k /\ Num(B, c) # k
    BY <2>1, <2>2, <1>1
  <2>4. At(B, b, Num(B, c)) = c
    BY <2>1, <2>3, <1>3
  <2>5. c \in Chain(B, b)
    BY <2>1, <2>3, <2>4, InChain
  <2> QED BY <2>3, <2>5
<1>8. ASSUME NEW c, c \in Chain(B, b), c # b
      PROVE  c \in Chain(B, q)
  <2>1. c \in Ids(B) /\ Num(B, c) \in Nat \ {0} /\ Num(B, c) <= k /\ At(B, b, Num(B, c)) = c
    BY <1>4, <1>8
  <2>2. Num(B, c) # k
    BY <1>5, <1>8
  <2>3. Num(B, c) \in 1..(k - 1) /\ Num(B, c) <= k - 1
    BY <2>1, <2>2, <1>1
  <2>4. At(B, q, Num(B, c)) = c
    BY <2>1, <2>3, <1>3
  <2> QED BY <2>1, <2>3, <2>4, <1>3, InChain
<1>9. Chain(B, q) = Chain(B, b) \ {b}
  BY <1>7, <1>8
<1>10. b # 1
  <2>1. 1 \in 1..k
    BY <1>1
  <2>2. Num(B, At(B, b, 1)) = 1
    BY <2>1, TreeFacts
  <2> QED BY <2>2, <1>1
<1>11. Num(B, q) \in Nat \ {0}
  BY <1>1, <1>3
<1> QED BY <1>3, <1>5, <1>6, <1>9, <1>10, <1>11

(* What is committed is not above the head.                                *)
LEMMA CommittedBelow ==
    ASSUME NEW B, Tree(B), NEW n, OnPar(B, n)
    PROVE  n.committed \in Nat /\ Num(B, n.head) \in Nat \ {0} /\ n.committed <= Num(B, n.head)
<1>1. n.committed \in Nat /\ n.blog \in Seq(Nat) /\ n.head \in Ids(B)
  BY NodeTypes DEF OnPar
<1>2. Num(B, n.head) \in Nat \ {0}
  BY <1>1, TreeFacts
<1>3. Len(n.blog) <= Num(B, n.head) /\ Len(n.blog) = IF n.committed = 0 THEN 1 ELSE n.committed
  BY DEF OnPar, Logged
<1> QED BY <1>1, <1>2, <1>3

-----------------------------------------------------------------------------
(* The fields after pop_block.                                             *)
LEMMA PopFields ==
    ASSUME NEW B, NEW n \in Node, NEW m, m = PopBlock(B, n)
    PROVE  /\ m.index = n.index /\ m.fhead = n.fhead /\ m.committed = n.committed /\ m.blog = n.blog
           /\ m.broken = n.broken /\ m.head = Prev(B, n.head) /\ m.marked = n.marked \ {n.head}
           /\ m.reversible = {r \in n.reversible : Num(B, r) # Num(B, n.head)}
           /\ m.applied = IF Len(n.applied) > n.committed THEN Front(n.applied) ELSE n.applied
           /\ Prev(B, n.head) \in Nat /\ Front(n.applied) \in Seq(Nat) => m \in Node
BY DEF PopBlock, Node

(* pop_block keeps everything on par, one block lower, unless the head is  *)
(* committed.                                                              *)
LEMMA PopOnPar ==
    ASSUME NEW B, Tree(B), NEW n, OnPar(B, n), n.committed < Num(B, n.head), Num(B, n.head) # 1
    PROVE  LET m == PopBlock(B, n)
           IN /\ OnPar(B, m) /\ m.head = Prev(B, n.head)
              /\ m.index = n.index /\ m.fhead = n.fhead /\ m.committed = n.committed
<1> DEFINE m == PopBlock(B, n)
           q == Prev(B, n.head)
           k == Num(B, n.head)
           s == n.applied
<1>0. n \in Node /\ n.head \in Ids(B) /\ n.broken = FALSE /\ Held(n) \subseteq Ids(B) /\ Ids(B) \subseteq Nat
  BY DEF OnPar, Ids
<1>1. /\ q \in Ids(B) /\ Num(B, q) = k - 1 /\ Num(B, q) \in Nat \ {0}
      /\ \A j \in 1..Num(B, q) : At(B, q, j) = At(B, n.head, j)
      /\ Chain(B, q) = Chain(B, n.head) \ {n.head} /\ n.head \in Chain(B, n.head)
      /\ \A c \in Chain(B, n.head) : Num(B, c) = k => c = n.head
      /\ n.head # 1
  BY <1>0, ChainBelow
<1>2. s \in Seq(Nat) /\ n.committed \in Nat /\ k \in Nat \ {0} /\ n.blog \in Seq(Nat)
  BY <1>0, NodeTypes, TreeFacts
<1>3. Len(s) = k /\ \A i \in 1..k : s[i] = At(B, n.head, i)
  BY DEF OnPar, Applied
<1>4. /\ Front(s) \in Seq(Nat) /\ Len(Front(s)) = k - 1 /\ \A i \in 1..(k - 1) : Front(s)[i] = s[i]
  <2> HIDE DEF s, k
  <2> QED BY <1>2, <1>3 DEF Front
<1>5. m \in Node
  BY <1>0, <1>1, <1>4, PopFields
<1>6. /\ m.index = n.index /\ m.fhead = n.fhead /\ m.committed = n.committed /\ m.blog = n.blog
      /\ m.broken = n.broken /\ m.head = q /\ m.marked = n.marked \ {n.head}
      /\ m.reversible = {r \in n.reversible : Num(B, r) # k}
      /\ m.applied = IF Len(s) > n.committed THEN Front(s) ELSE s
  BY <1>0, PopFields
<1> HIDE DEF m, q, k, s
<1>7. m.applied = Front(s)
  BY <1>2, <1>3, <1>6 DEF k
<1>8. Applied(B, m)
  <2>1. Num(B, m.head) = k - 1 /\ Len(m.applied) = k - 1
    BY <1>1, <1>4, <1>6, <1>7
  <2>2. ASSUME NEW i \in 1..(k - 1)
        PROVE  m.applied[i] = At(B, q, i)
    <3>1. i \in 1..k /\ i \in 1..Num(B, q)
      BY <1>1, <1>2
    <3> QED BY <3>1, <1>1, <1>3, <1>4, <1>7
  <2> QED BY <2>1, <2>2, <1>6 DEF Applied
<1>9. Marks(B, m)
  <2>1. Held(n) \cap n.marked = (Held(n) \cap Chain(B, n.head)) \ {1}
    BY DEF OnPar, Marks
  <2>2. Held(m) = Held(n)
    BY <1>6 DEF Held
  <2> HIDE DEF Held
  <2> QED BY <2>1, <2>2, <1>1, <1>6 DEF Marks
<1>10. Unsettled(B, m)
  <2>1. n.reversible = {c \in Chain(B, n.head) : c # 1 /\ Num(B, c) > n.committed}
    BY DEF OnPar, Unsettled
  <2>2. \A c \in Chain(B, n.head) : Num(B, c) # k <=> c # n.head
    BY <1>1 DEF k
  <2> QED BY <2>1, <2>2, <1>1, <1>6 DEF Unsettled
<1>11. Logged(B, m)
  <2>1. /\ Len(n.blog) = IF n.committed = 0 THEN 1 ELSE n.committed
        /\ \A i \in 1..Len(n.blog) : n.blog[i] = At(B, n.head, i)
    BY DEF OnPar, Logged
  <2>2. n.committed < k /\ k # 1
    BY DEF k
  <2>3. Len(n.blog) <= k - 1
    BY <2>1, <2>2, <1>2
  <2>4. ASSUME NEW i \in 1..Len(n.blog)
        PROVE  n.blog[i] = At(B, q, i)
    <3>1. i \in 1..Num(B, q)
      BY <2>1, <2>3, <1>1, <1>2
    <3> QED BY <3>1, <2>1, <1>1
  <2>5. Num(B, m.head) = k - 1 /\ m.head = q /\ m.blog = n.blog /\ m.committed = n.committed
    BY <1>1, <1>6
  <2> QED BY <2>1, <2>3, <2>4, <2>5 DEF Logged
<1>12. Held(m) \subseteq Ids(B) /\ m.marked \subseteq Ids(B)
  BY <1>0, <1>6 DEF Held, OnPar
<1>13. OnPar(B, m)
  BY <1>0, <1>1, <1>5, <1>6, <1>8, <1>9, <1>10, <1>11, <1>12 DEF OnPar
<1> QED BY <1>6, <1>13 DEF m, q

(* The fields after apply_block.                                           *)
LEMMA ApplyFields ==
    ASSUME NEW B, NEW n \in Node, NEW b \in Nat, NEW m, m = ApplyBlock(B, n, b)
    PROVE  /\ m.index = n.index /\ m.fhead = n.fhead /\ m.committed = n.committed /\ m.blog = n.blog
           /\ m.broken = n.broken /\ m.head = b /\ m.marked = n.marked \cup {b}
           /\ m.reversible = n.reversible \cup {b} /\ m.applied = Append(n.applied, b)
           /\ m \in Node
<1> DEFINE s == Append(n.applied, b)
<1>1. s \in Seq(Nat) /\ n.marked \cup {b} \in SUBSET Nat /\ n.reversible \cup {b} \in SUBSET Nat
  BY NodeTypes
<1>2. m = [n EXCEPT !.applied = s, !.reversible = @ \cup {b}, !.head = b, !.marked = @ \cup {b}]
  BY DEF ApplyBlock
<1> HIDE DEF s
<1>3. m \in Node
  BY <1>1, <1>2 DEF Node
<1>4. /\ m.index = n.index /\ m.fhead = n.fhead /\ m.committed = n.committed /\ m.blog = n.blog
      /\ m.broken = n.broken /\ m.head = b /\ m.marked = n.marked \cup {b}
      /\ m.reversible = n.reversible \cup {b} /\ m.applied = s
  BY <1>2 DEF Node
<1> QED BY <1>3, <1>4 DEF s

(* apply_block of a block on the head keeps everything on par.             *)
LEMMA ApplyOnPar ==
    ASSUME NEW B, Tree(B), NEW n, OnPar(B, n), NEW b \in Ids(B), Prev(B, b) = n.head
    PROVE  LET m == ApplyBlock(B, n, b)
           IN /\ OnPar(B, m) /\ m.head = b
              /\ m.index = n.index /\ m.fhead = n.fhead /\ m.committed = n.committed
<1> DEFINE m == ApplyBlock(B, n, b)
           h == n.head
           k == Num(B, b)
           s == n.applied
<1>0. n \in Node /\ h \in Ids(B) /\ n.broken = FALSE /\ Held(n) \subseteq Ids(B) /\ Ids(B) \subseteq Nat
  BY DEF OnPar, Ids
<1>0a. k # 1
  <2>1. h # 0
    BY <1>0 DEF Ids
  <2> QED BY <2>1, InChain
<1>1. /\ Num(B, h) = k - 1 /\ Num(B, h) \in Nat \ {0}
      /\ \A j \in 1..Num(B, h) : At(B, h, j) = At(B, b, j)
      /\ Chain(B, h) = Chain(B, b) \ {b} /\ b \in Chain(B, b) /\ b # 1
  BY <1>0, <1>0a, ChainBelow
<1>2. s \in Seq(Nat) /\ n.committed \in Nat /\ k \in Nat \ {0} /\ n.blog \in Seq(Nat) /\ b \in Nat /\ At(B, b, k) = b
  BY <1>0, NodeTypes, TreeFacts
<1>3. Len(s) = k - 1 /\ \A i \in 1..(k - 1) : s[i] = At(B, h, i)
  BY <1>1 DEF OnPar, Applied
<1>4. n.committed <= k - 1
  BY <1>1, CommittedBelow
<1>6. /\ m.index = n.index /\ m.fhead = n.fhead /\ m.committed = n.committed /\ m.blog = n.blog
      /\ m.broken = n.broken /\ m.head = b /\ m.marked = n.marked \cup {b}
      /\ m.reversible = n.reversible \cup {b} /\ m.applied = Append(s, b) /\ m \in Node
  BY <1>0, <1>2, ApplyFields
<1> HIDE DEF m, k, s
<1>8. Applied(B, m)
  <2>1. Len(Append(s, b)) = k /\ Append(s, b)[k] = b /\ \A i \in 1..(k - 1) : Append(s, b)[i] = s[i]
    BY <1>2, <1>3
  <2>2. ASSUME NEW i \in 1..k
        PROVE  Append(s, b)[i] = At(B, b, i)
    <3>1. CASE i = k
      BY <3>1, <2>1, <1>2
    <3>2. CASE i # k
      <4>1. i \in 1..(k - 1) /\ i \in 1..Num(B, h)
        BY <3>2, <1>1, <1>2
      <4> QED BY <4>1, <2>1, <1>1, <1>3
    <3> QED BY <3>1, <3>2
  <2>3. Num(B, m.head) = k /\ m.head = b
    BY <1>6 DEF k
  <2> QED BY <2>1, <2>2, <2>3, <1>6 DEF Applied
<1>9. Marks(B, m)
  <2>1. Held(n) \cap n.marked = (Held(n) \cap Chain(B, h)) \ {1}
    BY DEF OnPar, Marks
  <2>2. Held(m) = Held(n)
    BY <1>6 DEF Held
  <2> HIDE DEF Held, h
  <2> QED BY <2>1, <2>2, <1>1, <1>6 DEF Marks
<1>10. Unsettled(B, m)
  <2>1. n.reversible = {c \in Chain(B, h) : c # 1 /\ Num(B, c) > n.committed}
    BY DEF OnPar, Unsettled
  <2>2. Num(B, b) > n.committed
    BY <1>2, <1>4 DEF k
  <2> HIDE DEF h
  <2> QED BY <2>1, <2>2, <1>1, <1>6 DEF Unsettled
<1>11. Logged(B, m)
  <2>1. /\ Len(n.blog) = IF n.committed = 0 THEN 1 ELSE n.committed
        /\ Len(n.blog) <= k - 1
        /\ \A i \in 1..Len(n.blog) : n.blog[i] = At(B, h, i)
    BY <1>1 DEF OnPar, Logged
  <2>3. Len(n.blog) <= k
    BY <2>1, <1>2
  <2>4. ASSUME NEW i \in 1..Len(n.blog)
        PROVE  n.blog[i] = At(B, b, i)
    <3>1. i \in 1..Num(B, h)
      BY <2>1, <1>1, <1>2
    <3> QED BY <3>1, <2>1, <1>1
  <2>5. Num(B, m.head) = k /\ m.head = b /\ m.blog = n.blog /\ m.committed = n.committed
    BY <1>6 DEF k
  <2> QED BY <2>1, <2>3, <2>4, <2>5 DEF Logged
<1>12. Held(m) \subseteq Ids(B) /\ m.marked \subseteq Ids(B)
  BY <1>0, <1>6 DEF Held, OnPar
<1>13. OnPar(B, m)
  BY <1>0, <1>6, <1>8, <1>9, <1>10, <1>11, <1>12 DEF OnPar
<1> QED BY <1>6, <1>13 DEF m

(* g is the recursion with F, its i-th value in Q[i].                      *)
InStages(g, n, T, Q, b, F) ==
    /\ g \in [0..n -> T] /\ g[0] = b
    /\ \A i \in 1..n : g[i - 1] \in Q[i - 1] /\ g[i] = F[<<i, g[i - 1]>>]

Advances(n, Q, F) == \A i \in 1..n : \A x \in Q[i - 1] : F[<<i, x>>] \in Q[i]

(* A recursion whose i-th value stays in Q[i] has a solution.              *)
LEMMA Staged ==
    ASSUME NEW n \in Nat, NEW T, NEW Q \in [0..n -> SUBSET T], NEW b \in Q[0],
           NEW F \in [(1..n) \X T -> T], Advances(n, Q, F)
    PROVE  \E g : InStages(g, n, T, Q, b, F)
<1>0. b \in T
  OBVIOUS
<1>1. PICK g : Steps(g, n, T, b, F)
  BY <1>0, RecursionExists
<1>2. g \in [0..n -> T] /\ g[0] = b /\ \A i \in 1..n : g[i] = F[<<i, g[i - 1]>>]
  BY <1>1 DEF Steps
<1> DEFINE P == {k \in Nat : k <= n => g[k] \in Q[k]}
<1>3. 0 \in P
  BY <1>2
<1>4. ASSUME NEW k \in Nat, k \in P
      PROVE  k + 1 \in P
  <2> SUFFICES ASSUME k + 1 <= n
               PROVE  g[k + 1] \in Q[k + 1]
    OBVIOUS
  <2>1. k + 1 \in 1..n /\ (k + 1) - 1 = k /\ k <= n
    OBVIOUS
  <2>2. g[k] \in Q[k]
    BY <1>4, <2>1
  <2>3. g[k + 1] = F[<<k + 1, g[k]>>]
    BY <1>2, <2>1
  <2>4. \A x \in Q[(k + 1) - 1] : F[<<k + 1, x>>] \in Q[k + 1]
    BY <2>1 DEF Advances
  <2> QED BY <2>1, <2>2, <2>3, <2>4
<1>5. Nat \subseteq P
  <2> HIDE DEF P
  <2> QED BY <1>3, <1>4, NatSetInduction
<1>6. \A i \in 1..n : g[i - 1] \in Q[i - 1]
  <2> SUFFICES ASSUME NEW i \in 1..n
               PROVE  g[i - 1] \in Q[i - 1]
    OBVIOUS
  <2>1. i - 1 \in Nat /\ i - 1 <= n
    OBVIOUS
  <2> QED BY <1>5, <2>1
<1> QED BY <1>2, <1>6 DEF InStages

(* The nodes on par whose fork database is that of n, with head h.         *)
Beside(B, n, h) ==
    {m \in Node : /\ OnPar(B, m) /\ m.head = h /\ m.index = n.index /\ m.fhead = n.fhead
                  /\ m.committed = n.committed}

(* Popping a part of the head's chain that is not committed.               *)
LEMMA PopAllOnPar ==
    ASSUME NEW B, Tree(B), NEW n, OnPar(B, n), NEW bs, NEW k \in Nat \ {0},
           n.committed <= k, k <= Num(B, n.head), Len(bs) = Num(B, n.head) - k
    PROVE  PopAll(B, n, bs) \in Beside(B, n, At(B, n.head, k))
<1> DEFINE h == n.head
           K == Num(B, h)
           z == Len(bs)
           Q == [i \in 0..z |-> Beside(B, n, At(B, h, K - i))]
           T == {m \in Node : OnPar(B, m)}
           F == [w \in (1..z) \X T |-> IF PopBlock(B, w[2]) \in T THEN PopBlock(B, w[2]) ELSE n]
<1>1. n \in Node /\ h \in Ids(B)
  BY DEF OnPar
<1>2. K \in Nat \ {0} /\ At(B, h, K) = h /\ n.committed \in Nat
  BY <1>1, TreeFacts, NodeTypes
<1>3. z \in Nat /\ z = K - k
  BY <1>2
<1>4. n \in T /\ n \in Beside(B, n, At(B, h, K))
  BY <1>1, <1>2 DEF Beside
<1>5. \A c : Beside(B, n, c) \subseteq T
  BY DEF Beside
<1>6. ASSUME NEW i \in 1..z, NEW x \in Beside(B, n, At(B, h, K - (i - 1)))
      PROVE  PopBlock(B, x) \in Beside(B, n, At(B, h, K - i)) /\ PopBlock(B, x) \in T
  <2> DEFINE c == At(B, h, K - (i - 1))
  <2>1. /\ K - (i - 1) \in 1..K /\ K - i \in Nat \ {0} /\ K - (i - 1) # 1
        /\ n.committed < K - (i - 1) /\ (K - (i - 1)) - 1 = K - i /\ K - i \in 1..(K - (i - 1))
    BY <1>2, <1>3
  <2>2. c \in Ids(B) /\ Num(B, c) = K - (i - 1) /\ At(B, c, K - i) = At(B, h, K - i)
    <3>1. \A j \in 1..(K - (i - 1)) : At(B, c, j) = At(B, h, j)
      BY <1>1, <2>1, TreeFacts
    <3> HIDE DEF K
    <3> QED BY <1>1, <2>1, <3>1, TreeFacts DEF K
  <2> HIDE DEF c, h, K
  <2>3. OnPar(B, x) /\ x.head = c /\ x.index = n.index /\ x.fhead = n.fhead /\ x.committed = n.committed
    BY DEF Beside, c
  <2>4. Prev(B, c) = At(B, h, K - i)
    BY <2>1, <2>2, InChain
  <2>5. x.committed < Num(B, x.head) /\ Num(B, x.head) # 1
    BY <2>1, <2>2, <2>3
  <2> DEFINE m == PopBlock(B, x)
  <2>6. OnPar(B, m) /\ m.head = Prev(B, x.head) /\ m.index = x.index /\ m.fhead = x.fhead /\ m.committed = x.committed
    BY <2>3, <2>5, PopOnPar
  <2> HIDE DEF m
  <2>7. m \in Node
    BY <2>6 DEF OnPar
  <2>8. m \in Beside(B, n, At(B, h, K - i)) /\ m \in T
    BY <2>3, <2>4, <2>6, <2>7 DEF Beside
  <2> QED BY <2>8 DEF m, h, K
<1>7. F \in [(1..z) \X T -> T]
  BY <1>4
<1>8. Q \in [0..z -> SUBSET T]
  BY <1>5
<1>9. n \in Q[0]
  BY <1>2, <1>3, <1>4
<1>10. ASSUME NEW i \in 1..z, NEW x \in Q[i - 1]
       PROVE  F[<<i, x>>] = PopBlock(B, x) /\ PopBlock(B, x) \in Q[i]
  <2>1. i - 1 \in 0..z /\ i \in 0..z
    BY <1>3
  <2>2. x \in Beside(B, n, At(B, h, K - (i - 1)))
    BY <2>1, <1>10
  <2>3. x \in T
    BY <2>2, <1>5
  <2>4. PopBlock(B, x) \in Beside(B, n, At(B, h, K - i)) /\ PopBlock(B, x) \in T
    BY <2>2, <1>6
  <2>5. <<i, x>> \in (1..z) \X T /\ <<i, x>>[2] = x
    BY <2>3
  <2> HIDE DEF T, h, K
  <2> QED BY <2>1, <2>4, <2>5
<1> HIDE DEF F, Q, T, K, z, h
<1>10a. Advances(z, Q, F)
  BY <1>10 DEF Advances
<1>10b. PICK g : InStages(g, z, T, Q, n, F)
  BY <1>3, <1>7, <1>8, <1>9, <1>10a, Staged
<1>11. /\ g \in [0..z -> T] /\ g[0] = n
       /\ \A i \in 1..z : g[i - 1] \in Q[i - 1] /\ g[i] = F[<<i, g[i - 1]>>]
  BY <1>10b DEF InStages
<1>12. g = [i \in 0..z |-> IF i = 0 THEN n ELSE PopBlock(B, g[i - 1])]
  <2> SUFFICES ASSUME NEW i \in 0..z
               PROVE  g[i] = IF i = 0 THEN n ELSE PopBlock(B, g[i - 1])
    BY <1>11
  <2>1. CASE i = 0
    BY <2>1, <1>11
  <2>2. CASE i # 0
    <3>1. i \in 1..z
      BY <2>2, <1>3
    <3> QED BY <2>2, <3>1, <1>10, <1>11
  <2> QED BY <2>1, <2>2
<1> DEFINE f == CHOOSE f : f = [i \in 0..z |-> IF i = 0 THEN n ELSE PopBlock(B, f[i - 1])]
<1>13. f = [i \in 0..z |-> IF i = 0 THEN n ELSE PopBlock(B, f[i - 1])]
  BY <1>12
<1>14. PopAll(B, n, bs) = f[z]
  BY DEF PopAll, z
<1> HIDE DEF f
<1> DEFINE P == {i \in Nat : i <= z => f[i] \in Q[i]}
<1>15. 0 \in P
  BY <1>3, <1>9, <1>13
<1>16. ASSUME NEW i \in Nat, i \in P
       PROVE  i + 1 \in P
  <2> SUFFICES ASSUME i + 1 <= z
               PROVE  f[i + 1] \in Q[i + 1]
    OBVIOUS
  <2>1. i + 1 \in 1..z /\ (i + 1) - 1 = i /\ i <= z /\ i + 1 \in 0..z /\ i + 1 # 0
    BY <1>3
  <2>2. f[i] \in Q[(i + 1) - 1]
    BY <1>16, <2>1
  <2>3. f[i + 1] = PopBlock(B, f[i])
    BY <1>13, <2>1
  <2> QED BY <2>1, <2>2, <2>3, <1>10
<1>17. Nat \subseteq P
  <2> HIDE DEF P
  <2> QED BY <1>15, <1>16, NatSetInduction
<1>18. f[z] \in Q[z]
  BY <1>3, <1>17
<1>19. K - z = k
  BY <1>2, <1>3
<1> QED BY <1>3, <1>14, <1>18, <1>19 DEF Q, h

(* Applying the blocks of the chain of x that follow the head.             *)
LEMMA ApplyAllOnPar ==
    ASSUME NEW B, Tree(B), NEW n, OnPar(B, n), NEW bs, NEW x \in Ids(B),
           Num(B, n.head) <= Num(B, x), At(B, x, Num(B, n.head)) = n.head,
           Len(bs) \in Nat, Num(B, n.head) + Len(bs) <= Num(B, x),
           \A i \in 1..Len(bs) : bs[i] = At(B, x, Num(B, n.head) + i)
    PROVE  ApplyAll(B, n, bs) \in Beside(B, n, At(B, x, Num(B, n.head) + Len(bs)))
<1> DEFINE h == n.head
           K == Num(B, h)
           z == Len(bs)
           Q == [i \in 0..z |-> Beside(B, n, At(B, x, K + i))]
           T == {m \in Node : OnPar(B, m)}
           F == [w \in (1..z) \X T |-> IF ApplyBlock(B, w[2], bs[w[1]]) \in T
                                       THEN ApplyBlock(B, w[2], bs[w[1]]) ELSE n]
<1>1. n \in Node /\ h \in Ids(B)
  BY DEF OnPar
<1>2. K \in Nat \ {0} /\ At(B, x, K) = h /\ Num(B, x) \in Nat \ {0}
  BY <1>1, TreeFacts
<1>3. z \in Nat
  OBVIOUS
<1>4. n \in T /\ n \in Beside(B, n, At(B, x, K))
  BY <1>1, <1>2 DEF Beside
<1>5. \A c : Beside(B, n, c) \subseteq T
  BY DEF Beside
<1>6. ASSUME NEW i \in 1..z, NEW y \in Beside(B, n, At(B, x, K + (i - 1)))
      PROVE  ApplyBlock(B, y, bs[i]) \in Beside(B, n, At(B, x, K + i)) /\ ApplyBlock(B, y, bs[i]) \in T
  <2> DEFINE c == At(B, x, K + i)
  <2>1. /\ K + i \in 1..Num(B, x) /\ K + i # 1 /\ (K + i) - 1 = K + (i - 1) /\ K + (i - 1) \in 1..(K + i)
    BY <1>2, <1>3
  <2>2. c \in Ids(B) /\ Num(B, c) = K + i /\ At(B, c, K + (i - 1)) = At(B, x, K + (i - 1))
    <3>1. \A j \in 1..(K + i) : At(B, c, j) = At(B, x, j)
      BY <2>1, TreeFacts
    <3>2. c \in Ids(B) /\ Num(B, c) = K + i
      BY <2>1, TreeFacts
    <3> HIDE DEF K, c
    <3> QED BY <2>1, <3>1, <3>2
  <2>2a. bs[i] = c
    OBVIOUS
  <2> HIDE DEF c, h, K
  <2>3. /\ OnPar(B, y) /\ y.head = At(B, x, K + (i - 1)) /\ y.index = n.index
        /\ y.fhead = n.fhead /\ y.committed = n.committed
    BY DEF Beside
  <2>4. Prev(B, c) = At(B, x, K + (i - 1))
    BY <2>1, <2>2, InChain
  <2> DEFINE m == ApplyBlock(B, y, c)
  <2>6. OnPar(B, m) /\ m.head = c /\ m.index = y.index /\ m.fhead = y.fhead /\ m.committed = y.committed
    BY <2>2, <2>3, <2>4, ApplyOnPar
  <2> HIDE DEF m
  <2>7. m \in Node
    BY <2>6 DEF OnPar
  <2>8. m \in Beside(B, n, c) /\ m \in T
    BY <2>3, <2>6, <2>7 DEF Beside
  <2> QED BY <2>2a, <2>8 DEF m, c
<1>7. F \in [(1..z) \X T -> T]
  BY <1>4
<1>8. Q \in [0..z -> SUBSET T]
  BY <1>5
<1>9. n \in Q[0]
  BY <1>2, <1>3, <1>4
<1>10. ASSUME NEW i \in 1..z, NEW y \in Q[i - 1]
       PROVE  F[<<i, y>>] = ApplyBlock(B, y, bs[i]) /\ ApplyBlock(B, y, bs[i]) \in Q[i]
  <2>1. i - 1 \in 0..z /\ i \in 0..z
    BY <1>3
  <2>2. y \in Beside(B, n, At(B, x, K + (i - 1)))
    BY <2>1, <1>10
  <2>3. y \in T
    BY <2>2, <1>5
  <2>4. ApplyBlock(B, y, bs[i]) \in Beside(B, n, At(B, x, K + i)) /\ ApplyBlock(B, y, bs[i]) \in T
    BY <2>2, <1>6
  <2>5. <<i, y>> \in (1..z) \X T /\ <<i, y>>[2] = y /\ <<i, y>>[1] = i
    BY <2>3
  <2> HIDE DEF T, h, K
  <2> QED BY <2>1, <2>4, <2>5
<1> HIDE DEF F, Q, T, K, z, h
<1>10a. Advances(z, Q, F)
  BY <1>10 DEF Advances
<1>10b. PICK g : InStages(g, z, T, Q, n, F)
  BY <1>3, <1>7, <1>8, <1>9, <1>10a, Staged
<1>11. /\ g \in [0..z -> T] /\ g[0] = n
       /\ \A i \in 1..z : g[i - 1] \in Q[i - 1] /\ g[i] = F[<<i, g[i - 1]>>]
  BY <1>10b DEF InStages
<1>12. g = [i \in 0..z |-> IF i = 0 THEN n ELSE ApplyBlock(B, g[i - 1], bs[i])]
  <2> SUFFICES ASSUME NEW i \in 0..z
               PROVE  g[i] = IF i = 0 THEN n ELSE ApplyBlock(B, g[i - 1], bs[i])
    BY <1>11
  <2>1. CASE i = 0
    BY <2>1, <1>11
  <2>2. CASE i # 0
    <3>1. i \in 1..z
      BY <2>2, <1>3
    <3> QED BY <2>2, <3>1, <1>10, <1>11
  <2> QED BY <2>1, <2>2
<1> DEFINE f == CHOOSE f : f = [i \in 0..z |-> IF i = 0 THEN n ELSE ApplyBlock(B, f[i - 1], bs[i])]
<1>13. f = [i \in 0..z |-> IF i = 0 THEN n ELSE ApplyBlock(B, f[i - 1], bs[i])]
  BY <1>12
<1>14. ApplyAll(B, n, bs) = f[z]
  BY DEF ApplyAll, z
<1> HIDE DEF f
<1> DEFINE P == {i \in Nat : i <= z => f[i] \in Q[i]}
<1>15. 0 \in P
  BY <1>3, <1>9, <1>13
<1>16. ASSUME NEW i \in Nat, i \in P
       PROVE  i + 1 \in P
  <2> SUFFICES ASSUME i + 1 <= z
               PROVE  f[i + 1] \in Q[i + 1]
    OBVIOUS
  <2>1. i + 1 \in 1..z /\ (i + 1) - 1 = i /\ i <= z /\ i + 1 \in 0..z /\ i + 1 # 0
    BY <1>3
  <2>2. f[i] \in Q[(i + 1) - 1]
    BY <1>16, <2>1
  <2>3. f[i + 1] = ApplyBlock(B, f[i], bs[i + 1])
    BY <1>13, <2>1
  <2> QED BY <2>1, <2>2, <2>3, <1>10
<1>17. Nat \subseteq P
  <2> HIDE DEF P
  <2> QED BY <1>15, <1>16, NatSetInduction
<1>18. f[z] \in Q[z]
  BY <1>3, <1>17
<1> QED BY <1>3, <1>14, <1>18 DEF Q, h, K, z

(* x is the first block of S in the order of by_lib_block_num.             *)
Top(B, S, r, x) ==
    /\ x \in S
    /\ \A c \in S \ {x} : Better(B, x, c) \/ (~Better(B, c, x) /\ r[x] < r[c])

(* The order of blocks in numbers.                                         *)
LEMMA BetterNums ==
    ASSUME NEW B, Tree(B), NEW x \in Ids(B), NEW y \in Ids(B)
    PROVE  /\ B[x].lib \in Nat /\ B[y].lib \in Nat /\ Num(B, x) \in Nat /\ Num(B, y) \in Nat
           /\ Better(B, x, y) <=> \/ B[x].lib > B[y].lib
                                  \/ B[x].lib = B[y].lib /\ Num(B, x) > Num(B, y)
<1>1. B[x].lib \in Nat /\ B[y].lib \in Nat /\ Num(B, x) \in Nat /\ Num(B, y) \in Nat
  BY TreeTypes
<1> QED BY <1>1 DEF Better

(* Best finds the first block.                                             *)
LEMMA BestIs ==
    ASSUME NEW B, Tree(B), NEW S \in SUBSET Ids(B), NEW r \in [S -> Nat], NEW x, Top(B, S, r, x)
    PROVE  Best(B, r) = x
<1>1. x \in S /\ S # {} /\ DOMAIN r = S
  BY DEF Top
<1>2. ASSUME NEW y \in S, \A c \in S \ {y} : Better(B, y, c) \/ (~Better(B, c, y) /\ r[y] < r[c])
      PROVE  y = x
  <2> SUFFICES ASSUME y # x PROVE FALSE
    OBVIOUS
  <2>1. Better(B, y, x) \/ (~Better(B, x, y) /\ r[y] < r[x])
    BY <1>1, <1>2
  <2>2. Better(B, x, y) \/ (~Better(B, y, x) /\ r[x] < r[y])
    BY <1>2 DEF Top
  <2>3. x \in Ids(B) /\ y \in Ids(B) /\ r[x] \in Nat /\ r[y] \in Nat
    BY <1>1
  <2>4. ~(Better(B, x, y) /\ Better(B, y, x))
    BY <2>3, BetterNums
  <2> QED BY <2>1, <2>2, <2>3, <2>4
<1>3. \A c \in S \ {x} : Better(B, x, c) \/ (~Better(B, c, x) /\ r[x] < r[c])
  BY DEF Top
<1> DEFINE y == CHOOSE b \in DOMAIN r : \A c \in DOMAIN r \ {b} :
                  Better(B, b, c) \/ (~Better(B, c, b) /\ r[b] < r[c])
<1>4. y \in S /\ \A c \in S \ {y} : Better(B, y, c) \/ (~Better(B, c, y) /\ r[y] < r[c])
  BY <1>1, <1>3
<1>5. Best(B, r) = y
  BY <1>1 DEF Best
<1> HIDE DEF y
<1> QED BY <1>2, <1>4, <1>5

(* It stays the first of fewer blocks.                                     *)
LEMMA TopOfFewer ==
    ASSUME NEW B, NEW S, NEW r, NEW x, Top(B, S, r, x),
           NEW R \in SUBSET S, x \in R, NEW q, \A c \in R : q[c] = r[c]
    PROVE  Top(B, R, q, x)
BY DEF Top

(* No block is better than the first.                                      *)
LEMMA NoneBetter ==
    ASSUME NEW B, Tree(B), NEW S \in SUBSET Ids(B), NEW r, NEW x, Top(B, S, r, x), NEW c \in S
    PROVE  ~Better(B, c, x)
<1>1. x \in Ids(B) /\ c \in Ids(B)
  BY DEF Top
<1>2. c # x => Better(B, x, c) \/ ~Better(B, c, x)
  BY DEF Top
<1> QED BY <1>1, <1>2, BetterNums

-----------------------------------------------------------------------------

(* The held blocks from height lo on are a forest whose trees share what is*)
(* below.                                                                  *)
Rooted(B, S, lo) ==
    /\ S \subseteq Ids(B)
    /\ \A b \in S : Num(B, b) >= lo /\ \A i \in lo..Num(B, b) : At(B, b, i) \in S
    /\ \A b, c \in S : \A i \in 1..(lo - 1) : At(B, b, i) = At(B, c, i)

(* At the lowest number the marks are those of the head's chain.           *)
MarkedAt(B, S, lo, h, marked) ==
    \A c \in S : Num(B, c) = lo => (c \in marked <=> c \in Chain(B, h) /\ c # 1)

(* Of a rooted fork database with these marks, the oldest block that prune *)
(* takes is the block of the head's chain at the lowest number.            *)
LEMMA OldestIs ==
    ASSUME NEW B, Tree(B), NEW S \in SUBSET Ids(B), NEW r \in [S -> Nat], NEW marked,
           NEW lo \in Nat \ {0}, Rooted(B, S, lo), NEW h \in S, MarkedAt(B, S, lo, h, marked)
    PROVE  /\ Oldest(B, r, marked) = At(B, h, lo) /\ At(B, h, lo) \in S /\ Num(B, At(B, h, lo)) = lo
           /\ At(B, h, lo) \in Chain(B, h) /\ lo <= Num(B, h)
<1> DEFINE o == At(B, h, lo)
<1>0. \A c \in S : Num(B, c) = lo => (c \in marked <=> c \in Chain(B, h) /\ c # 1)
  BY DEF MarkedAt
<1>1. Num(B, h) \in Nat \ {0} /\ Num(B, h) >= lo /\ h \in Ids(B)
  BY TreeFacts DEF Rooted
<1>2. lo \in lo..Num(B, h) /\ lo \in 1..Num(B, h)
  BY <1>1
<1>3. o \in S
  BY <1>2 DEF Rooted
<1>4. Num(B, o) = lo /\ o \in Ids(B)
  BY <1>1, <1>2, TreeFacts
<1>5. o \in Chain(B, h)
  BY <1>1, <1>2, InChain
<1>6. \A c \in S : Num(B, c) \in Nat /\ lo <= Num(B, c)
  BY TreeTypes DEF Rooted
<1>7. Lowest(B, r) = {c \in S : Num(B, c) = lo}
  <2>1. DOMAIN r = S
    OBVIOUS
  <2>2. \A c \in S : (\A d \in S : Num(B, c) <= Num(B, d)) <=> Num(B, c) = lo
    BY <1>3, <1>4, <1>6
  <2> QED BY <2>1, <2>2 DEF Lowest
<1>8. \A c \in S : Num(B, c) = lo /\ c \in Chain(B, h) => c = o
  BY <1>1, InChain
<1>9. CASE o # 1
  <2>1. o \in marked
    BY <1>0, <1>3, <1>4, <1>5, <1>9
  <2>2. Lowest(B, r) \cap marked = {o}
    BY <1>0, <2>1, <1>3, <1>4, <1>7, <1>8
  <2>3. r[o] \in Nat
    BY <1>3
  <2>4. Oldest(B, r, marked) = CHOOSE b \in {o} : \A c \in {o} : r[b] <= r[c]
    BY <2>2 DEF Oldest
  <2> HIDE DEF o
  <2>5. o = CHOOSE b \in {o} : \A c \in {o} : r[b] <= r[c]
    BY <2>3
  <2> QED BY <2>4, <2>5, <1>1, <1>3, <1>4, <1>5 DEF o
<1>10. CASE o = 1
  <2>1. lo = 1
    <3>1. 1 \in 1..Num(B, h) /\ At(B, h, 1) = 1
      BY <1>1, TreeFacts
    <3>2. Num(B, 1) = 1
      BY <1>1, <3>1, TreeFacts
    <3> QED BY <3>2, <1>4, <1>10
  <2>2. \A c \in S : Num(B, c) = lo => c = 1
    <3> SUFFICES ASSUME NEW c \in S, Num(B, c) = 1 PROVE c = 1
      BY <2>1
    <3>1. c \in Ids(B)
      OBVIOUS
    <3> QED BY <3>1, TreeFacts
  <2>3. Lowest(B, r) = {o}
    BY <2>2, <1>3, <1>4, <1>7, <1>10
  <2>4. Lowest(B, r) \cap marked = {}
    BY <1>0, <2>3, <1>3, <1>4, <1>10
  <2>5. Oldest(B, r, marked) = CHOOSE b \in {o} : \A c \in {o} : r[b] <= r[c]
    BY <2>3, <2>4 DEF Oldest
  <2>6. r[o] \in Nat
    BY <1>3
  <2> HIDE DEF o
  <2>7. o = CHOOSE b \in {o} : \A c \in {o} : r[b] <= r[c]
    BY <2>6
  <2> QED BY <2>5, <2>7, <1>1, <1>3, <1>4, <1>5 DEF o
<1> QED BY <1>9, <1>10

(* An index cut to some blocks, and the blocks above o.                    *)
Cut(r, R) == [c \in R |-> r[c]]
Above(B, S, lo, o) == {c \in S : Num(B, c) > lo /\ At(B, c, lo) = o}

(* Pruning the lowest block of the head's chain leaves what is built on it,*)
(* and that is rooted one number higher.                                   *)
LEMMA PruneLeaves ==
    ASSUME NEW B, Tree(B), NEW S \in SUBSET Ids(B), NEW r \in [S -> Nat],
           NEW lo \in Nat \ {0}, Rooted(B, S, lo), NEW o \in S, Num(B, o) = lo
    PROVE  Prune(B, r, o) = Cut(r, Above(B, S, lo, o)) /\ Rooted(B, Above(B, S, lo, o), lo + 1)
<1> DEFINE R == {c \in S : Num(B, c) > lo /\ At(B, c, lo) = o}
           X == {c \in S : c # o /\ Chain(B, c) \cap Siblings(B, r, o) = {}}
<1>1. \A c \in S : c \in Ids(B) /\ Num(B, c) \in Nat /\ lo <= Num(B, c) /\ lo \in 1..Num(B, c)
  BY TreeTypes DEF Rooted
<1>2. Siblings(B, r, o) = {c \in S : c # o /\ Num(B, c) = lo}
  BY DEF Siblings
<1>3. \A c \in S : At(B, c, lo) \in S /\ Num(B, At(B, c, lo)) = lo /\ At(B, c, lo) \in Chain(B, c)
  <2> SUFFICES ASSUME NEW c \in S
               PROVE  At(B, c, lo) \in S /\ Num(B, At(B, c, lo)) = lo /\ At(B, c, lo) \in Chain(B, c)
    OBVIOUS
  <2>1. lo \in lo..Num(B, c)
    BY <1>1
  <2>2. At(B, c, lo) \in S
    BY <2>1 DEF Rooted
  <2> QED BY <2>2, <1>1, TreeFacts, InChain
<1>4. \A c \in S : Num(B, c) = lo => At(B, c, lo) = c
  <2> SUFFICES ASSUME NEW c \in S, Num(B, c) = lo PROVE At(B, c, lo) = c
    OBVIOUS
  <2> QED BY <1>1, TreeFacts
<1>5. ASSUME NEW c \in X
      PROVE  c \in R
  <2>1. At(B, c, lo) = o
    BY <1>2, <1>3
  <2>2. Num(B, c) # lo
    BY <2>1, <1>4
  <2> QED BY <2>1, <2>2, <1>1
<1>6. ASSUME NEW c \in R
      PROVE  c \in X
  <2>1. c # o
    BY <1>1
  <2>2. \A d \in Chain(B, c) : Num(B, d) = lo => d = o
    BY <1>1, InChain
  <2> QED BY <2>1, <2>2, <1>2
<1>7. X = R
  BY <1>5, <1>6
<1>8. Prune(B, r, o) = [c \in R |-> r[c]]
  <2>1. DOMAIN r = S
    OBVIOUS
  <2>2. Prune(B, r, o) = [c \in X |-> r[c]]
    BY <2>1 DEF Prune, Restrict
  <2> QED BY <2>2, <1>7
<1>9. Rooted(B, R, lo + 1)
  <2>1. R \subseteq Ids(B)
    OBVIOUS
  <2>2. ASSUME NEW b \in R
        PROVE  Num(B, b) >= lo + 1 /\ \A i \in (lo + 1)..Num(B, b) : At(B, b, i) \in R
    <3>1. Num(B, b) >= lo + 1
      BY <1>1
    <3>2. ASSUME NEW i \in (lo + 1)..Num(B, b)
          PROVE  At(B, b, i) \in R
      <4>1. i \in lo..Num(B, b) /\ i \in 1..Num(B, b) /\ lo \in 1..i /\ i > lo
        BY <1>1
      <4>2. At(B, b, i) \in S
        BY <4>1 DEF Rooted
      <4>3. Num(B, At(B, b, i)) = i /\ At(B, At(B, b, i), lo) = At(B, b, lo)
        BY <1>1, <4>1, TreeFacts
      <4> QED BY <4>1, <4>2, <4>3
    <3> QED BY <3>1, <3>2
  <2>3. ASSUME NEW b \in R, NEW c \in R, NEW i \in 1..((lo + 1) - 1)
        PROVE  At(B, b, i) = At(B, c, i)
    <3>1. CASE i = lo
      BY <3>1
    <3>2. CASE i # lo
      <4>1. i \in 1..(lo - 1)
        BY <3>2
      <4> QED BY <4>1 DEF Rooted
    <3> QED BY <3>1, <3>2
  <2> HIDE DEF R
  <2> QED BY <2>1, <2>2, <2>3 DEF Rooted
<1> QED BY <1>8, <1>9 DEF Cut, Above

(* The blocks that are not built on y.                                     *)
Free(B, S, y) == {c \in S : y \notin Chain(B, c)}

(* Removing a block with all that is built on it leaves the rest, which is *)
(* rooted as before.                                                       *)
LEMMA RemoveLeaves ==
    ASSUME NEW B, Tree(B), NEW S \in SUBSET Ids(B), NEW r \in [S -> Nat],
           NEW lo \in Nat \ {0}, Rooted(B, S, lo), NEW y
    PROVE  RemoveForks(B, r, y) = Cut(r, Free(B, S, y)) /\ Rooted(B, Free(B, S, y), lo)
<1> DEFINE R == {c \in S : y \notin Chain(B, c)}
<1>1. RemoveForks(B, r, y) = [c \in R |-> r[c]]
  BY DEF RemoveForks, Restrict
<1>2. ASSUME NEW b \in R, NEW i \in lo..Num(B, b)
      PROVE  At(B, b, i) \in R
  <2> DEFINE a == At(B, b, i)
  <2>1. a \in S /\ b \in Ids(B) /\ Num(B, b) \in Nat
    BY TreeTypes DEF Rooted
  <2>2. i \in 1..Num(B, b)
    BY <2>1
  <2>3. a \in Ids(B) /\ Num(B, a) = i /\ \A j \in 1..i : At(B, a, j) = At(B, b, j)
    BY <2>1, <2>2, TreeFacts
  <2>4. ASSUME y \in Chain(B, a)
        PROVE  FALSE
    <3>1. y \in Ids(B) /\ Num(B, y) <= i /\ At(B, a, Num(B, y)) = y
      BY <2>3, <2>4, InChain
    <3>2. Num(B, y) \in Nat \ {0}
      BY <3>1, TreeFacts
    <3>3. Num(B, y) \in 1..i /\ Num(B, y) <= Num(B, b)
      BY <3>1, <3>2, <2>1, <2>2
    <3>4. At(B, b, Num(B, y)) = y
      BY <3>1, <3>3, <2>3
    <3> QED BY <3>1, <3>3, <3>4, <2>1, InChain
  <2> QED BY <2>1, <2>4
<1>3. Rooted(B, R, lo)
  BY <1>2 DEF Rooted
<1> QED BY <1>1, <1>3 DEF Cut, Free

(* A block arrives on a block that is held.                                *)
LEMMA RootedGrows ==
    ASSUME NEW B, NEW D, NEW p \in Ids(B), Arrived(B, D, p), Tree(B),
           NEW S, NEW lo \in Nat \ {0}, Rooted(B, S, lo), p \in S
    PROVE  Rooted(D, S \cup {Len(D)}, lo) /\ Len(D) \notin S
<1> DEFINE b == Len(D)
           R == S \cup {b}
<1>1. \A c \in S : /\ c \in Ids(B) /\ c \in Ids(D) /\ c # b /\ Num(D, c) = Num(B, c)
                   /\ \A i : At(D, c, i) = At(B, c, i)
  <2>1. \A c \in S : c \in Ids(B)
    BY DEF Rooted
  <2> QED BY <2>1, OldSame
<1>2. /\ Num(D, b) = Num(B, p) + 1 /\ Num(D, b) \in Nat /\ At(D, b, Num(D, b)) = b
      /\ \A i \in 1..Num(B, p) : At(D, b, i) = At(B, p, i)
  BY NewChain
<1>3. b \in Ids(D)
  BY OldSame
<1>4. Num(B, p) \in Nat /\ Num(B, p) >= lo
  BY TreeTypes DEF Rooted
<1> HIDE DEF b
<1>5. ASSUME NEW c \in R
      PROVE  Num(D, c) >= lo /\ \A i \in lo..Num(D, c) : At(D, c, i) \in R
  <2>1. CASE c \in S
    BY <2>1, <1>1 DEF Rooted
  <2>2. CASE c = b
    <3>1. ASSUME NEW i \in lo..Num(D, b)
          PROVE  At(D, b, i) \in R
      <4>1. CASE i = Num(D, b)
        BY <4>1, <1>2
      <4>2. CASE i # Num(D, b)
        <5>1. i \in 1..Num(B, p) /\ i \in lo..Num(B, p)
          BY <4>2, <1>2, <1>4
        <5>2. At(B, p, i) \in S
          BY <5>1 DEF Rooted
        <5> QED BY <5>1, <5>2, <1>2
      <4> QED BY <4>1, <4>2
    <3>2. Num(D, b) >= lo
      BY <1>2, <1>4
    <3> QED BY <2>2, <3>1, <3>2
  <2> QED BY <2>1, <2>2
<1>6. ASSUME NEW c \in R, NEW i \in 1..(lo - 1)
      PROVE  At(D, c, i) = At(B, p, i)
  <2>1. CASE c \in S
    BY <2>1, <1>1 DEF Rooted
  <2>2. CASE c = b
    <3>1. i \in 1..Num(B, p)
      BY <1>4
    <3> QED BY <2>2, <3>1, <1>2
  <2> QED BY <2>1, <2>2
<1>7. R \subseteq Ids(D)
  BY <1>1, <1>3
<1>8. Rooted(D, R, lo)
  <2> HIDE DEF R
  <2> QED BY <1>5, <1>6, <1>7 DEF Rooted
<1> QED BY <1>1, <1>8 DEF b

(* An index with the block that arrived.                                   *)
Grown(S, r, b) == [c \in S \cup {b} |-> IF c = b THEN b ELSE r[c]]

(* After a block is added the first of the order is the new block if it is *)
(* better than the first one so far, and the first one so far otherwise.   *)
LEMMA TopGrows ==
    ASSUME NEW B, NEW D, NEW p \in Ids(B), Arrived(B, D, p), Tree(B),
           NEW S \in SUBSET Ids(B), NEW r \in [S -> Nat], \A c \in S : r[c] <= Len(B),
           NEW x, Top(B, S, r, x),
           NEW q, q = Grown(S, r, Len(D))
    PROVE  /\ Better(D, Len(D), x) => Top(D, S \cup {Len(D)}, q, Len(D))
           /\ ~Better(D, Len(D), x) => Top(D, S \cup {Len(D)}, q, x)
           /\ q \in [S \cup {Len(D)} -> Nat] /\ \A c \in S \cup {Len(D)} : q[c] <= Len(D)
<1> DEFINE b == Len(D)
<1>a. q = [c \in S \cup {Len(D)} |-> IF c = Len(D) THEN Len(D) ELSE r[c]]
  BY DEF Grown
<1>0. Len(D) = Len(B) + 1 /\ Len(B) \in Nat /\ Tree(D) /\ b \in Nat /\ b \in Ids(D)
  BY TreeTypes, TreeGrows, OldSame DEF Arrived
<1>1. \A c \in S : c \in Ids(B) /\ c \in Ids(D) /\ c # b /\ D[c] = B[c] /\ Num(D, c) = Num(B, c)
  BY OldSame
<1> HIDE DEF b
<1>2. x \in S /\ \A c \in S \ {x} : Better(B, x, c) \/ (~Better(B, c, x) /\ r[x] < r[c])
  BY DEF Top
<1>3. \A c \in S : (Better(D, x, c) <=> Better(B, x, c)) /\ (Better(D, c, x) <=> Better(B, c, x))
  BY <1>1, <1>2 DEF Better
<1>4. \A c \in S : q[c] = r[c] /\ q[c] \in Nat /\ q[c] < b
  <2> SUFFICES ASSUME NEW c \in S PROVE q[c] = r[c] /\ q[c] \in Nat /\ q[c] < b
    OBVIOUS
  <2>1. q[c] = r[c] /\ r[c] \in Nat /\ r[c] <= Len(B)
    BY <1>a, <1>1 DEF b
  <2> QED BY <2>1, <1>0 DEF b
<1>5. q[b] = b
  BY <1>a DEF b
<1>6. ASSUME Better(D, b, x)
      PROVE  Top(D, S \cup {b}, q, b)
  <2>1. ASSUME NEW c \in S
        PROVE  Better(D, b, c)
    <3>1. c = x \/ Better(D, x, c) \/ ~Better(D, c, x)
      BY <1>2, <1>3
    <3>2. x \in Ids(D) /\ c \in Ids(D) /\ b \in Ids(D)
      BY <1>0, <1>1, <1>2
    <3> DEFINE lb == D[b].lib
               lx == D[x].lib
               lc == D[c].lib
               nb == Num(D, b)
               nx == Num(D, x)
               nc == Num(D, c)
    <3>3. lb \in Nat /\ lx \in Nat /\ lc \in Nat /\ nb \in Nat /\ nx \in Nat /\ nc \in Nat
      BY <3>2, <1>0, TreeTypes
    <3>4. lb > lx \/ (lb = lx /\ nb > nx)
      BY <1>6 DEF Better
    <3>5. (lx = lc /\ nx = nc) \/ (lx > lc \/ (lx = lc /\ nx > nc)) \/ ~(lc > lx \/ (lc = lx /\ nc > nx))
      BY <3>1 DEF Better
    <3>6. lb > lc \/ (lb = lc /\ nb > nc)
      <4> HIDE DEF lb, lx, lc, nb, nx, nc
      <4> QED BY <3>3, <3>4, <3>5
    <3> QED BY <3>6 DEF Better
  <2> QED BY <2>1 DEF Top
<1>7. ASSUME ~Better(D, b, x)
      PROVE  Top(D, S \cup {b}, q, x)
  <2>1. q[x] < q[b]
    BY <1>2, <1>4, <1>5
  <2>2. \A c \in S \ {x} : Better(D, x, c) \/ (~Better(D, c, x) /\ q[x] < q[c])
    BY <1>2, <1>3, <1>4
  <2> QED BY <2>1, <2>2, <1>2, <1>7 DEF Top
<1>8. q \in [S \cup {b} -> Nat] /\ \A c \in S \cup {b} : q[c] <= b
  <2>1. q = [c \in S \cup {b} |-> q[c]]
    BY <1>a DEF b
  <2>2. \A c \in S \cup {b} : q[c] \in Nat /\ q[c] <= b
    BY <1>0, <1>4, <1>5
  <2> QED BY <2>1, <2>2
<1> QED BY <1>6, <1>7, <1>8 DEF b

(* A block that arrives leaves everything on par.                          *)
LEMMA OnParGrows ==
    ASSUME NEW B, NEW D, NEW p \in Ids(B), Arrived(B, D, p), Tree(B), NEW n, OnPar(B, n)
    PROVE  OnPar(D, n)
<1> DEFINE h == n.head
<1>1. /\ n \in Node /\ h \in Ids(B) /\ n.broken = FALSE /\ Held(n) \subseteq Ids(B) /\ n.marked \subseteq Ids(B)
      /\ Applied(B, n) /\ Marks(B, n) /\ Unsettled(B, n) /\ Logged(B, n)
  BY DEF OnPar
<1>2. Num(D, h) = Num(B, h) /\ Chain(D, h) = Chain(B, h) /\ \A i : At(D, h, i) = At(B, h, i)
  BY <1>1, OldSame
<1>3. \A c \in Ids(B) : c \in Ids(D) /\ Num(D, c) = Num(B, c)
  BY OldSame
<1>4. \A c \in Chain(B, h) : Num(D, c) = Num(B, c)
  BY <1>1, <1>3, InChain
<1>5. Applied(D, n)
  BY <1>1, <1>2 DEF Applied
<1>6. Marks(D, n)
  BY <1>1, <1>2 DEF Marks
<1>7. Unsettled(D, n)
  BY <1>1, <1>2, <1>4 DEF Unsettled
<1>8. Logged(D, n)
  BY <1>1, <1>2 DEF Logged
<1>9. h \in Ids(D) /\ Held(n) \subseteq Ids(D) /\ n.marked \subseteq Ids(D)
  BY <1>1, <1>3
<1> QED BY <1>1, <1>5, <1>6, <1>7, <1>8, <1>9 DEF OnPar

(* Nodes are equal when their fields are.                                  *)
LEMMA NodeEqual ==
    ASSUME NEW n \in Node, NEW m \in Node, n.index = m.index, n.fhead = m.fhead, n.marked = m.marked,
           n.head = m.head, n.applied = m.applied, n.committed = m.committed,
           n.reversible = m.reversible, n.blog = m.blog, n.broken = m.broken
    PROVE  n = m
BY DEF Node

(* A node with other marks, and with another index.                        *)
WithMarks(n, M) == [n EXCEPT !.marked = M]
WithIndex(n, q, x) == [n EXCEPT !.index = q, !.fhead = x, !.broken = FALSE]

MarksAre(m, n, M) ==
    /\ m \in Node /\ m.index = n.index /\ m.fhead = n.fhead /\ m.marked = M
    /\ m.head = n.head /\ m.applied = n.applied /\ m.committed = n.committed
    /\ m.reversible = n.reversible /\ m.blog = n.blog /\ m.broken = n.broken

IndexIs(m, n, q, x) ==
    /\ m \in Node /\ m.index = q /\ m.fhead = x /\ m.marked = n.marked
    /\ m.head = n.head /\ m.applied = n.applied /\ m.committed = n.committed
    /\ m.reversible = n.reversible /\ m.blog = n.blog /\ m.broken = FALSE

(* A node after a block is reported irreversible.                          *)
SettledAs(B, m, n, s) ==
    /\ m.index = n.index /\ m.fhead = n.fhead /\ m.head = n.head /\ m.marked = n.marked
    /\ m.broken = n.broken /\ m.applied = n.applied /\ m.committed = Num(B, s)
    /\ m.blog = (IF Num(B, s) > Len(n.blog) THEN Append(n.blog, s) ELSE n.blog)
    /\ m.reversible = {r \in n.reversible : Num(B, r) > Num(B, s)}
    /\ m \in Node

(* Other marks change no other field.                                      *)
LEMMA MarkFields ==
    ASSUME NEW n \in Node, NEW M \in SUBSET Nat
    PROVE  MarksAre(WithMarks(n, M), n, M)
<1> SUFFICES ASSUME NEW m, m = [n EXCEPT !.marked = M]
             PROVE  MarksAre(m, n, M)
  BY DEF WithMarks
<1>1. m \in Node
  BY DEF Node
<1>2. /\ m.index = n.index /\ m.fhead = n.fhead /\ m.marked = M
      /\ m.head = n.head /\ m.applied = n.applied /\ m.committed = n.committed
      /\ m.reversible = n.reversible /\ m.blog = n.blog /\ m.broken = n.broken
  BY DEF Node
<1> QED BY <1>1, <1>2 DEF MarksAre

(* Another index changes no field but the index and the fork database's    *)
(* head.                                                                   *)
LEMMA IndexFields ==
    ASSUME NEW n \in Node, NEW q \in Indexes, NEW x \in Nat
    PROVE  IndexIs(WithIndex(n, q, x), n, q, x)
<1> SUFFICES ASSUME NEW m, m = [n EXCEPT !.index = q, !.fhead = x, !.broken = FALSE]
             PROVE  IndexIs(m, n, q, x)
  BY DEF WithIndex
<1>1. m \in Node
  BY DEF Node
<1>2. /\ m.index = q /\ m.fhead = x /\ m.marked = n.marked
      /\ m.head = n.head /\ m.applied = n.applied /\ m.committed = n.committed
      /\ m.reversible = n.reversible /\ m.blog = n.blog /\ m.broken = FALSE
  BY DEF Node
<1> QED BY <1>1, <1>2 DEF IndexIs

(* q may replace the index of a node on par: what it adds has no mark.     *)
Replaces(B, n, R, q, x) ==
    /\ Tree(B) /\ OnPar(B, n) /\ R \in SUBSET Ids(B) /\ q \in [R -> Nat] /\ x \in Nat
    /\ \A c \in R : c \notin Held(n) => c \notin n.marked /\ c \notin Chain(B, n.head)

(* A change of the fork database's index alone leaves a node on par.       *)
LEMMA WithIndexOnPar ==
    ASSUME NEW B, NEW n, NEW R, NEW q, NEW x, Replaces(B, n, R, q, x)
    PROVE  /\ OnPar(B, WithIndex(n, q, x)) /\ Held(WithIndex(n, q, x)) = R
           /\ IndexIs(WithIndex(n, q, x), n, q, x) /\ q \in Indexes
<1>0. /\ Tree(B) /\ OnPar(B, n) /\ R \in SUBSET Ids(B) /\ q \in [R -> Nat] /\ x \in Nat
      /\ \A c \in R : c \notin Held(n) => c \notin n.marked /\ c \notin Chain(B, n.head)
  BY DEF Replaces
<1>1. n \in Node /\ n.head \in Ids(B) /\ n.marked \subseteq Ids(B)
  BY <1>0 DEF OnPar
<1>2. q \in Indexes
  <2>1. R \in SUBSET Nat
    BY <1>0 DEF Ids
  <2> QED BY <2>1, <1>0 DEF Indexes
<1> DEFINE m == WithIndex(n, q, x)
<1>3. IndexIs(m, n, q, x)
  BY <1>0, <1>1, <1>2, IndexFields
<1> HIDE DEF m
<1>4. /\ m.index = q /\ m.fhead = x /\ m.broken = FALSE /\ m.head = n.head /\ m.committed = n.committed
      /\ m.blog = n.blog /\ m.marked = n.marked /\ m.applied = n.applied /\ m.reversible = n.reversible
      /\ m \in Node
  BY <1>3 DEF IndexIs
<1>5. Held(m) = R
  BY <1>0, <1>4 DEF Held
<1>6. Marks(B, m)
  <2>1. Held(n) \cap n.marked = (Held(n) \cap Chain(B, n.head)) \ {1}
    BY <1>0 DEF OnPar, Marks
  <2>2. \A c \in R : c \in n.marked <=> c \in Chain(B, n.head) /\ c # 1
    BY <1>0, <2>1
  <2> QED BY <2>2, <1>4, <1>5 DEF Marks
<1>7. Applied(B, m) /\ Unsettled(B, m) /\ Logged(B, m)
  BY <1>0, <1>4 DEF OnPar, Applied, Unsettled, Logged
<1>8. OnPar(B, m)
  BY <1>0, <1>1, <1>4, <1>5, <1>6, <1>7 DEF OnPar
<1> QED BY <1>2, <1>3, <1>5, <1>8 DEF m

(* The fields after on_irreversible.                                       *)
LEMMA IrreversibleFields ==
    ASSUME NEW B, NEW n \in Node, NEW s \in Nat, Num(B, s) \in Nat, n.committed < Num(B, s),
           NEW m, m = OnIrreversible(B, n, s)
    PROVE  /\ m.index = n.index /\ m.fhead = n.fhead /\ m.head = n.head /\ m.marked = n.marked
           /\ m.broken = n.broken /\ m.applied = n.applied /\ m.committed = Num(B, s)
           /\ m.blog = (IF Num(B, s) > Len(n.blog) THEN Append(n.blog, s) ELSE n.blog)
           /\ m.reversible = {r \in n.reversible : Num(B, r) > Num(B, s)}
           /\ m \in Node
<1> DEFINE g == IF Num(B, s) > Len(n.blog) THEN Append(n.blog, s) ELSE n.blog
           v == {r \in n.reversible : Num(B, r) > Num(B, s)}
<1>1. g \in Seq(Nat) /\ v \in SUBSET Nat
  BY NodeTypes
<1>2. m = [n EXCEPT !.committed = IF n.committed < Num(B, s) THEN Num(B, s) ELSE n.committed,
                    !.blog = g, !.reversible = v]
  BY DEF OnIrreversible, Node
<1> HIDE DEF g, v
<1>3. m = [n EXCEPT !.committed = Num(B, s), !.blog = g, !.reversible = v]
  BY <1>2
<1>4. /\ m.index = n.index /\ m.fhead = n.fhead /\ m.head = n.head /\ m.marked = n.marked
      /\ m.broken = n.broken /\ m.applied = n.applied /\ m.committed = Num(B, s)
      /\ m.blog = g /\ m.reversible = v
  BY <1>3 DEF Node
<1>5. m \in Node
  BY <1>1, <1>3 DEF Node
<1> QED BY <1>4, <1>5 DEF g, v

(* on_irreversible of the next block of the head's chain throws nothing and*)
(* keeps everything on par.                                                *)
LEMMA IrreversibleOnPar ==
    ASSUME NEW B, Tree(B), NEW n, OnPar(B, n), n.committed + 1 <= Num(B, n.head),
           NEW s, s = At(B, n.head, n.committed + 1)
    PROVE  LET m == OnIrreversible(B, n, s)
           IN /\ LinksToBlog(B, n, s)
              /\ OnPar(B, m) /\ m.committed = n.committed + 1
              /\ m.index = n.index /\ m.fhead = n.fhead /\ m.head = n.head /\ m.marked = n.marked
<1> DEFINE m == OnIrreversible(B, n, s)
           h == n.head
           lo == n.committed + 1
           g == n.blog
<1>1. n \in Node /\ h \in Ids(B) /\ n.broken = FALSE /\ n.committed \in Nat /\ g \in Seq(Nat)
  BY NodeTypes DEF OnPar
<1>2. Num(B, h) \in Nat \ {0} /\ lo \in 1..Num(B, h) /\ lo \in Nat \ {0}
  BY <1>1, TreeFacts
<1>3. s \in Ids(B) /\ Num(B, s) = lo /\ (\A j \in 1..lo : At(B, s, j) = At(B, h, j)) /\ s \in Nat
  BY <1>1, <1>2, TreeFacts DEF Ids
<1>4. /\ Len(g) = (IF n.committed = 0 THEN 1 ELSE n.committed)
      /\ \A i \in 1..Len(g) : g[i] = At(B, h, i)
  BY DEF OnPar, Logged
<1>5. /\ m.index = n.index /\ m.fhead = n.fhead /\ m.head = h /\ m.marked = n.marked
      /\ m.broken = n.broken /\ m.applied = n.applied /\ m.committed = lo
      /\ m.blog = (IF lo > Len(g) THEN Append(g, s) ELSE g)
      /\ m.reversible = {r \in n.reversible : Num(B, r) > lo}
      /\ m \in Node
  <2>1. n.committed < Num(B, s) /\ Num(B, s) \in Nat
    BY <1>1, <1>3
  <2>2. n \in Node /\ s \in Nat /\ Num(B, s) = lo
    BY <1>1, <1>3
  <2>3. /\ m.index = n.index /\ m.fhead = n.fhead /\ m.head = n.head /\ m.marked = n.marked
        /\ m.broken = n.broken /\ m.applied = n.applied /\ m.committed = Num(B, s)
        /\ m.blog = (IF Num(B, s) > Len(n.blog) THEN Append(n.blog, s) ELSE n.blog)
        /\ m.reversible = {r \in n.reversible : Num(B, r) > Num(B, s)}
        /\ m \in Node
    <3> HIDE DEF m, lo
    <3> QED BY <2>1, <2>2, IrreversibleFields DEF m
  <2> HIDE DEF m, lo
  <2> QED BY <2>2, <2>3
<1>6. LinksToBlog(B, n, s)
  <2> SUFFICES ASSUME Num(B, s) > Len(g)
               PROVE  Num(B, s) = Len(g) + 1 /\ Prev(B, s) = Last(g)
    BY DEF LinksToBlog
  <2>1. lo = Len(g) + 1 /\ lo # 1 /\ lo - 1 = Len(g) /\ Len(g) \in 1..lo /\ Len(g) \in 1..Len(g)
    BY <1>1, <1>3, <1>4
  <2>2. Prev(B, s) = At(B, s, lo - 1)
    BY <1>3, <2>1, InChain
  <2>3. At(B, s, Len(g)) = At(B, h, Len(g)) /\ g[Len(g)] = At(B, h, Len(g))
    BY <2>1, <1>3, <1>4
  <2> HIDE DEF lo, g
  <2> QED BY <2>1, <2>2, <2>3, <1>3 DEF Last
<1> HIDE DEF m, lo, g
<1>7. Logged(B, m)
  <2>1. CASE n.committed = 0
    <3>1. lo = 1 /\ Len(g) = 1 /\ m.blog = g
      BY <2>1, <1>4, <1>5 DEF lo
    <3>2. Len(m.blog) = lo
      BY <3>1
    <3> QED BY <3>1, <3>2, <1>2, <1>4, <1>5 DEF Logged
  <2>2. CASE n.committed # 0
    <3>1. lo = Len(g) + 1 /\ Len(g) \in Nat /\ m.blog = Append(g, s)
      BY <2>2, <1>1, <1>4, <1>5 DEF lo
    <3>2. Len(m.blog) = lo /\ m.blog[lo] = s /\ \A i \in 1..Len(g) : m.blog[i] = g[i]
      BY <3>1, <1>1, <1>3
    <3>3. ASSUME NEW i \in 1..lo
          PROVE  m.blog[i] = At(B, h, i)
      <4>1. CASE i = lo
        BY <4>1, <3>2 DEF lo
      <4>2. CASE i # lo
        <5>1. i \in 1..Len(g)
          BY <4>2, <3>1
        <5> QED BY <5>1, <3>2, <1>4
      <4> QED BY <4>1, <4>2
    <3>4. lo # 0 /\ lo <= Num(B, h)
      BY <1>2
    <3> QED BY <3>2, <3>3, <3>4, <1>5 DEF Logged
  <2> QED BY <2>1, <2>2
<1>8. Unsettled(B, m)
  <2>1. n.reversible = {c \in Chain(B, h) : c # 1 /\ Num(B, c) > n.committed}
    BY DEF OnPar, Unsettled
  <2>2. \A c \in Chain(B, h) : Num(B, c) \in Nat
    BY <1>1, InChain, TreeTypes
  <2>3. \A c \in Chain(B, h) : Num(B, c) > lo => Num(B, c) > n.committed
    BY <2>2, <1>1 DEF lo
  <2> HIDE DEF h
  <2> QED BY <2>1, <2>3, <1>5 DEF Unsettled
<1>9. Held(m) = Held(n)
  BY <1>5 DEF Held
<1>10. Applied(B, m) /\ Marks(B, m) /\ Held(m) \subseteq Ids(B) /\ m.marked \subseteq Ids(B)
  BY <1>5, <1>9 DEF OnPar, Applied, Marks
<1>11. OnPar(B, m)
  BY <1>1, <1>5, <1>7, <1>8, <1>10 DEF OnPar
<1> QED BY <1>5, <1>6, <1>11 DEF m, lo

(* The height up to which two chains are the same.                         *)
LEMMA CommonFacts ==
    ASSUME NEW B, Tree(B), NEW x \in Ids(B), NEW y \in Ids(B)
    PROVE  LET k == CommonNum(B, x, y)
           IN /\ k \in Nat /\ k <= Num(B, x) /\ k <= Num(B, y)
              /\ \A i \in 1..k : At(B, x, i) = At(B, y, i)
              /\ x \notin Chain(B, y) /\ y \notin Chain(B, x) =>
                   /\ k >= 1 /\ k < Num(B, x) /\ k < Num(B, y)
                   /\ \A i \in 1..Num(B, x) : i <= Num(B, y) /\ At(B, x, i) = At(B, y, i) => i <= k
<1> DEFINE N == Num(B, x)
           M == Num(B, y)
           S == {k \in 1..N : k <= M /\ B[x].chain[k] = B[y].chain[k]}
           T == {N - k : k \in S}
           z == CHOOSE k \in S : \A j \in S : j <= k
<1>1. N \in Nat \ {0} /\ M \in Nat \ {0} /\ At(B, x, 1) = 1 /\ At(B, y, 1) = 1
      /\ At(B, x, N) = x /\ At(B, y, M) = y
  BY TreeFacts
<1> HIDE DEF N, M
<1>2. 1 \in S /\ S \subseteq 1..N
  <2>1. B[x].chain[1] = B[y].chain[1]
    BY <1>1 DEF At
  <2> QED BY <2>1, <1>1
<1>3. PICK t \in T : \A u \in T : t <= u
  <2>1. T \subseteq Nat
    BY <1>1, <1>2
  <2>2. T # {}
    BY <1>2
  <2> HIDE DEF T
  <2> QED BY <2>1, <2>2, LeastNat
<1>4. PICK w \in S : t = N - w
  BY <1>3
<1>5. \A j \in S : j <= w
  <2> SUFFICES ASSUME NEW j \in S PROVE j <= w
    OBVIOUS
  <2>1. N - w <= N - j /\ j \in 1..N /\ w \in 1..N
    BY <1>2, <1>3, <1>4
  <2> QED BY <2>1, <1>1
<1>6. z \in S /\ \A j \in S : j <= z
  <2> HIDE DEF S
  <2> QED BY <1>4, <1>5
<1>7. CommonNum(B, x, y) = IF z = N \/ z = M THEN z - 1 ELSE z
  BY DEF CommonNum, N, M
<1> HIDE DEF z
<1>8. z \in 1..N /\ z <= M /\ At(B, x, z) = At(B, y, z)
  BY <1>6 DEF At
<1>9. \A i \in 1..z : At(B, x, i) = At(B, y, i)
  BY <1>8, ChainsMeet DEF N, M
<1> DEFINE k == CommonNum(B, x, y)
<1>10. k \in Nat /\ k <= N /\ k <= M /\ k <= z
  BY <1>1, <1>7, <1>8
<1>11. \A i \in 1..k : At(B, x, i) = At(B, y, i)
  <2>1. \A i \in 1..k : i \in 1..z
    BY <1>8, <1>10
  <2> QED BY <2>1, <1>9
<1>12. ASSUME x \notin Chain(B, y), y \notin Chain(B, x)
       PROVE  /\ k >= 1 /\ k < N /\ k < M
              /\ \A i \in 1..N : i <= M /\ At(B, x, i) = At(B, y, i) => i <= k
  <2>1. z # N
    <3> SUFFICES ASSUME z = N PROVE FALSE
      OBVIOUS
    <3>1. At(B, y, N) = x /\ N <= M
      BY <1>1, <1>8
    <3> QED BY <3>1, <1>12, InChain DEF N, M
  <2>2. z # M
    <3> SUFFICES ASSUME z = M PROVE FALSE
      OBVIOUS
    <3>1. At(B, x, M) = y /\ M <= N
      BY <1>1, <1>8
    <3> QED BY <3>1, <1>12, InChain DEF N, M
  <2>3. k = z
    BY <2>1, <2>2, <1>7
  <2>4. \A i \in 1..N : i <= M /\ At(B, x, i) = At(B, y, i) => i \in S
    BY DEF At
  <2> HIDE DEF k, S
  <2> QED BY <2>1, <2>2, <2>3, <2>4, <1>1, <1>6, <1>8
<1> HIDE DEF k
<1> QED BY <1>10, <1>11, <1>12 DEF k, N, M

(* The last block that is committed, and the one above it, are below the   *)
(* irreversible number of some block.                                      *)
Settled(B, n) ==
    n.committed # 0 => \E c \in Ids(B) : /\ n.committed + 1 <= B[c].lib
                                         /\ At(B, c, n.committed + 1) = At(B, n.head, n.committed + 1)

(* Blocks are inserted when they arrive.                                   *)
Ranked(B, n) == \A c \in Held(n) : n.index[c] <= Len(B)

(* The invariant of a node that was not restarted.                         *)
ChainInv(B, n) ==
    /\ Tree(B) /\ OnPar(B, n) /\ Rooted(B, Held(n), n.committed + 1) /\ Ranked(B, n)
    /\ n.fhead = n.head /\ Top(B, Held(n), n.index, n.head) /\ Settled(B, n)

(* What the producers guarantee of the block that arrives on p.            *)
Fits(B, D, p, h) ==
    /\ \A c \in Ids(B) : \A i \in 1..B[c].lib : At(D, Len(D), i) = At(B, c, i)
    /\ p = h \/ D[Len(D)].lib <= CommonNum(B, p, h)

(* What add makes of a node: x is the better one of the head and the block *)
(* that arrived.                                                           *)
Added(D, n, m, x) ==
    /\ OnPar(D, m) /\ m.head = n.head /\ m.fhead = x /\ m.marked = n.marked
    /\ Rooted(D, Held(m), m.committed + 1) /\ Ranked(D, m)
    /\ Top(D, Held(m), m.index, x) /\ n.head \in Held(m)
    /\ Held(m) \subseteq Held(n) \cup {Len(D)}
    /\ \A c \in Held(m) : c # Len(D) => m.index[c] = n.index[c]
    /\ m.committed \in {n.committed, n.committed + 1}
    /\ m.committed # n.committed =>
          m.committed + 1 <= D[x].lib /\ At(D, x, m.committed + 1) = At(D, n.head, m.committed + 1)

(* What on_irreversible changes of a node, and what it leaves.             *)
LEMMA SettledFields ==
    ASSUME NEW B, NEW n \in Node, NEW s \in Nat, Num(B, s) \in Nat, n.committed < Num(B, s)
    PROVE  SettledAs(B, OnIrreversible(B, n, s), n, s)
<1> SUFFICES ASSUME NEW m, m = OnIrreversible(B, n, s)
             PROVE  SettledAs(B, m, n, s)
  OBVIOUS
<1> QED BY IrreversibleFields DEF SettledAs

(* A block that arrives is in no other chain and has no mark.              *)
LEMMA NewIsNew ==
    ASSUME NEW B, NEW D, NEW p \in Ids(B), Arrived(B, D, p), Tree(B), NEW n, OnPar(B, n)
    PROVE  Len(D) \notin n.marked /\ \A c \in Ids(B) : Len(D) \notin Chain(D, c)
<1>1. \A c \in Ids(B) : c # Len(D) /\ Chain(D, c) = Chain(B, c)
  BY OldSame
<1>2. n.marked \subseteq Ids(B)
  BY DEF OnPar
<1>3. \A c \in Ids(B) : Chain(B, c) \subseteq Ids(B)
  BY InChain
<1> QED BY <1>1, <1>2, <1>3

(* The better one shares its irreversible part with the head.              *)
LEMMA Shares ==
    ASSUME NEW B, NEW D, NEW p \in Ids(B), Arrived(B, D, p), Tree(B), NEW h \in Ids(B), Fits(B, D, p, h),
           NEW x \in {Len(D), h}, NEW i \in 1..D[x].lib
    PROVE  i <= Num(D, h) /\ i < Num(D, x) /\ At(D, x, i) = At(D, h, i)
<1>0. h \in Ids(D) /\ Len(D) \in Ids(D) /\ Tree(D)
  BY OldSame, TreeGrows
<1>1. D[x].lib \in Nat /\ Num(D, x) \in Nat /\ D[x].lib < Num(D, x) /\ Num(D, h) \in Nat
  BY <1>0, TreeFacts
<1>2. CASE x = h
  BY <1>1, <1>2
<1>3. CASE x = Len(D)
  <2>0. /\ Num(D, x) = Num(B, p) + 1 /\ \A j \in 1..Num(B, p) : At(D, x, j) = At(B, p, j)
        /\ D[x].lib <= Num(B, p) /\ Num(B, p) \in Nat
    BY <1>3, NewChain, TreeTypes
  <2>1. Num(D, h) = Num(B, h) /\ \A j : At(D, h, j) = At(B, h, j)
    BY OldSame
  <2>2. i <= Num(B, p) /\ At(D, x, i) = At(B, p, i)
    BY <2>0, <1>1
  <2>3. i <= Num(B, h) /\ At(B, p, i) = At(B, h, i)
    <3>1. CASE p = h
      BY <3>1, <2>2
    <3>2. CASE p # h
      <4> DEFINE k == CommonNum(B, p, h)
      <4>1. D[x].lib <= k
        BY <3>2, <1>3 DEF Fits
      <4>2. k \in Nat /\ k <= Num(B, h) /\ \A j \in 1..k : At(B, p, j) = At(B, h, j)
        BY CommonFacts
      <4> HIDE DEF k
      <4>3. i \in 1..k
        BY <4>1, <4>2, <1>1
      <4> QED BY <4>2, <4>3, <2>1, <1>1
    <3> QED BY <3>1, <3>2
  <2> QED BY <2>1, <2>2, <2>3, <1>1
<1> QED BY <1>2, <1>3

(* q is the index with block b, and x the first of its order.              *)
InsertsBest(D, n, M, b, q, x) ==
    /\ n \in Node /\ n.broken = FALSE /\ M \in SUBSET Nat /\ q \in Indexes /\ x \in Nat
    /\ q = Grown(Held(n), n.index, b) /\ Best(D, q) = x

(* A block that commit_block has marked before add is inserted as one      *)
(* without a mark is.                                                      *)
LEMMA InsertMarked ==
    ASSUME NEW D, NEW n, NEW M, NEW b, NEW q, NEW x, InsertsBest(D, n, M, b, q, x)
    PROVE  Inserted(D, WithMarks(n, M), b) = WithMarks(WithIndex(n, q, x), M)
<1>0. /\ n \in Node /\ n.broken = FALSE /\ M \in SUBSET Nat /\ q \in Indexes /\ x \in Nat
      /\ q = Grown(Held(n), n.index, b) /\ Best(D, q) = x
  BY DEF InsertsBest
<1> DEFINE u == WithMarks(n, M)
           m == WithIndex(n, q, x)
           w == WithMarks(m, M)
<1>1. MarksAre(u, n, M) /\ IndexIs(m, n, q, x)
  BY <1>0, MarkFields, IndexFields
<1>2. m \in Node
  BY <1>1 DEF IndexIs
<1>3. MarksAre(w, m, M)
  <2> HIDE DEF m
  <2> QED BY <1>0, <1>2, MarkFields
<1> HIDE DEF u, m, w
<1>4. Inserted(D, u, b) = [u EXCEPT !.index = q, !.fhead = x]
  <2>1. q = [c \in DOMAIN u.index \cup {b} |-> IF c = b THEN b ELSE u.index[c]]
    BY <1>0, <1>1 DEF Held, MarksAre, Grown
  <2> QED BY <2>1, <1>0 DEF Inserted
<1> DEFINE i == [u EXCEPT !.index = q, !.fhead = x]
<1>5. /\ i \in Node /\ i.index = q /\ i.fhead = x /\ i.marked = u.marked /\ i.head = u.head /\ i.applied = u.applied
      /\ i.committed = u.committed /\ i.reversible = u.reversible /\ i.blog = u.blog /\ i.broken = u.broken
  <2>1. u \in Node
    BY <1>1 DEF MarksAre
  <2> QED BY <2>1, <1>0 DEF Node
<1> HIDE DEF i
<1>6. /\ i.index = w.index /\ i.fhead = w.fhead /\ i.marked = w.marked /\ i.head = w.head /\ i.applied = w.applied
      /\ i.committed = w.committed /\ i.reversible = w.reversible /\ i.blog = w.blog /\ i.broken = w.broken
  BY <1>0, <1>1, <1>3, <1>5 DEF MarksAre, IndexIs
<1>7. w \in Node
  BY <1>3 DEF MarksAre
<1>8. i = w
  BY <1>5, <1>6, <1>7, NodeEqual
<1> QED BY <1>4, <1>8 DEF i, u, m, w

(* for what on_irreversible does                                           *)
LEMMA IrreversibleMarked ==
    ASSUME NEW D, NEW n \in Node, NEW M \in SUBSET Nat, NEW o \in Nat, Num(D, o) \in Nat, n.committed < Num(D, o)
    PROVE  OnIrreversible(D, WithMarks(n, M), o) = WithMarks(OnIrreversible(D, n, o), M)
<1> DEFINE u == WithMarks(n, M)
           v == OnIrreversible(D, u, o)
           m == OnIrreversible(D, n, o)
           w == WithMarks(m, M)
<1>1. MarksAre(u, n, M) /\ SettledAs(D, m, n, o)
  BY MarkFields, SettledFields
<1>2. u \in Node /\ u.committed < Num(D, o) /\ m \in Node
  BY <1>1 DEF MarksAre, SettledAs
<1>3. SettledAs(D, v, u, o)
  <2> HIDE DEF u
  <2> QED BY <1>2, SettledFields
<1>4. MarksAre(w, m, M)
  <2> HIDE DEF m
  <2> QED BY <1>2, MarkFields
<1> HIDE DEF u, v, m, w
<1>5. v.blog = w.blog /\ v.reversible = w.reversible
  BY <1>1, <1>3, <1>4 DEF MarksAre, SettledAs
<1>6. /\ v.index = w.index /\ v.fhead = w.fhead /\ v.marked = w.marked /\ v.head = w.head /\ v.applied = w.applied
      /\ v.committed = w.committed /\ v.broken = w.broken /\ v \in Node /\ w \in Node
  BY <1>1, <1>3, <1>4 DEF MarksAre, SettledAs
<1>7. v = w
  BY <1>5, <1>6, NodeEqual
<1> QED BY <1>7 DEF u, v, m, w

(* o is the oldest block, g the index that its pruning leaves.             *)
PrunesTo(D, n, M, o, g) ==
    /\ n \in Node /\ n.broken = FALSE /\ M \in SUBSET Nat /\ o \in Nat /\ Num(D, o) \in Nat
    /\ n.committed < Num(D, o) /\ Oldest(D, n.index, M) = o
    /\ g \in Indexes /\ Prune(D, n.index, o) = g /\ Best(D, g) = n.fhead

(* A mark that commit_block has set before add does not change what is     *)
(* pruned, as long as the oldest block is the same.                        *)
LEMMA PruneMarked ==
    ASSUME NEW D, NEW n, NEW M, NEW o, NEW g, PrunesTo(D, n, M, o, g)
    PROVE  PruneOldest(D, WithMarks(n, M)) = WithMarks(WithIndex(OnIrreversible(D, n, o), g, n.fhead), M)
<1> DEFINE u == WithMarks(n, M)
           v == OnIrreversible(D, n, o)
           w == WithMarks(v, M)
           m == WithIndex(v, g, n.fhead)
           j == WithMarks(m, M)
<1>a. /\ n \in Node /\ n.broken = FALSE /\ M \in SUBSET Nat /\ o \in Nat /\ Num(D, o) \in Nat
      /\ n.committed < Num(D, o) /\ Oldest(D, n.index, M) = o
      /\ g \in Indexes /\ Prune(D, n.index, o) = g /\ Best(D, g) = n.fhead
  BY DEF PrunesTo
<1>0. n.fhead \in Nat
  BY <1>a, NodeTypes
<1>1. MarksAre(u, n, M) /\ SettledAs(D, v, n, o) /\ OnIrreversible(D, u, o) = w
  BY <1>a, MarkFields, SettledFields, IrreversibleMarked
<1>2. v \in Node
  BY <1>1 DEF SettledAs
<1>3. MarksAre(w, v, M) /\ IndexIs(m, v, g, n.fhead)
  <2> HIDE DEF v
  <2> QED BY <1>a, <1>0, <1>2, MarkFields, IndexFields
<1>4. m \in Node /\ w \in Node
  BY <1>3 DEF IndexIs, MarksAre
<1>5. MarksAre(j, m, M)
  <2> HIDE DEF m
  <2> QED BY <1>a, <1>4, MarkFields
<1> HIDE DEF u, v, m, w, j
<1>6. PruneOldest(D, u) = [w EXCEPT !.index = g, !.fhead = n.fhead]
  <2>1. u.index = n.index /\ u.marked = M /\ w.fhead = n.fhead
    BY <1>a, <1>1, <1>3 DEF MarksAre, SettledAs
  <2>2. PruneOldest(D, u) =
          [OnIrreversible(D, u, o) EXCEPT !.index = g, !.fhead = IF Siblings(D, n.index, o) = {} THEN @ ELSE n.fhead]
    BY <2>1, <1>a DEF PruneOldest
  <2>3. PruneOldest(D, u) = [w EXCEPT !.index = g, !.fhead = IF Siblings(D, n.index, o) = {} THEN @ ELSE n.fhead]
    BY <2>2, <1>1
  <2>4. [w EXCEPT !.index = g, !.fhead = IF Siblings(D, n.index, o) = {} THEN @ ELSE n.fhead]
          = [w EXCEPT !.index = g, !.fhead = n.fhead]
    BY <2>1, <1>4 DEF Node
  <2> QED BY <2>3, <2>4
<1> DEFINE i == [w EXCEPT !.index = g, !.fhead = n.fhead]
<1>7. /\ i \in Node /\ i.index = g /\ i.fhead = n.fhead /\ i.marked = w.marked /\ i.head = w.head
      /\ i.applied = w.applied /\ i.committed = w.committed /\ i.reversible = w.reversible
      /\ i.blog = w.blog /\ i.broken = w.broken
  BY <1>a, <1>0, <1>4 DEF Node
<1> HIDE DEF i
<1>8. w.broken = FALSE
  BY <1>a, <1>1, <1>3 DEF MarksAre, SettledAs
<1>9. /\ i.index = j.index /\ i.fhead = j.fhead /\ i.marked = j.marked /\ i.head = j.head /\ i.applied = j.applied
      /\ i.committed = j.committed /\ i.reversible = j.reversible /\ i.blog = j.blog /\ i.broken = j.broken
      /\ j \in Node
  BY <1>3, <1>5, <1>7, <1>8 DEF MarksAre, IndexIs
<1>10. i = j
  BY <1>7, <1>9, NodeEqual
<1> QED BY <1>6, <1>10 DEF i, u, v, m, j

(* What add inserts: everything stays on par, and the block that would be  *)
(* pruned is the one of the head's chain above the committed ones.         *)
Inserts(D, n, m, M, x) ==
    /\ OnPar(D, m) /\ IndexIs(m, n, Grown(Held(n), n.index, Len(D)), x) /\ Held(m) = Held(n) \cup {Len(D)}
    /\ Rooted(D, Held(m), n.committed + 1) /\ Ranked(D, m) /\ Top(D, Held(m), m.index, x)
    /\ Inserted(D, WithMarks(n, M), Len(D)) = WithMarks(m, M)
    /\ Oldest(D, m.index, M) = At(D, n.head, n.committed + 1)
    /\ At(D, n.head, n.committed + 1) \in Held(m) /\ Num(D, At(D, n.head, n.committed + 1)) = n.committed + 1
    /\ n.committed + 1 <= Num(D, n.head)

(* A block arrives on p; the node may have marked it; x is the better one  *)
(* of it and the head.                                                     *)
Comes(B, D, p, n, M, x) ==
    /\ p \in Ids(B) /\ Arrived(B, D, p) /\ ChainInv(B, n) /\ p \in Held(n)
    /\ M \in {n.marked, n.marked \cup {Len(D)}}
    /\ x = IF Better(D, Len(D), n.head) THEN Len(D) ELSE n.head

(* add inserts the block that arrives: the node stays on par, the fork     *)
(* database rooted and in order, with the better one of block and head     *)
(* first.                                                                  *)
LEMMA InsertStep ==
    ASSUME NEW B, NEW D, NEW p, NEW n, NEW M, NEW x, Comes(B, D, p, n, M, x)
    PROVE  Inserts(D, n, WithIndex(n, Grown(Held(n), n.index, Len(D)), x), M, x)
<1> DEFINE b == Len(D)
           h == n.head
           S == Held(n)
           r == n.index
           lo == n.committed + 1
           R0 == S \cup {b}
           q == Grown(S, r, b)
           m == WithIndex(n, q, x)
<1>0. /\ p \in Ids(B) /\ Arrived(B, D, p) /\ ChainInv(B, n) /\ p \in S
      /\ M \in {n.marked, n.marked \cup {b}}
      /\ Better(D, b, h) => x = b
      /\ ~Better(D, b, h) => x = h
  BY DEF Comes
<1>1. /\ Tree(B) /\ OnPar(B, n) /\ Rooted(B, S, lo) /\ Ranked(B, n) /\ Top(B, S, r, h)
  BY <1>0 DEF ChainInv
<1>2. /\ n \in Node /\ h \in Ids(B) /\ n.broken = FALSE /\ S \subseteq Ids(B) /\ n.committed \in Nat
      /\ n.marked \in SUBSET Nat /\ r \in Indexes /\ n.marked \subseteq Ids(B)
  BY <1>1, NodeTypes DEF OnPar
<1>3. Tree(D) /\ OnPar(D, n) /\ b \in Ids(D) /\ b \in Nat /\ h \in Ids(D) /\ h \in Nat
  BY <1>0, <1>1, <1>2, TreeGrows, OnParGrows, OldSame DEF Ids
<1>4. r \in [S -> Nat]
  BY <1>2 DEF Held, Indexes
<1>5. \A c \in S : r[c] <= Len(B)
  BY <1>1 DEF Ranked
<1>5a. lo \in Nat \ {0}
  BY <1>2
<1> HIDE DEF b, h, S, r, lo, q, R0
<1>6. /\ Better(D, b, h) => Top(D, R0, q, b)
      /\ ~Better(D, b, h) => Top(D, R0, q, h)
      /\ q \in [R0 -> Nat] /\ \A c \in R0 : q[c] <= b
  <2>1. S \in SUBSET Ids(B)
    BY <1>2
  <2> QED BY <2>1, <1>0, <1>1, <1>4, <1>5, TopGrows DEF b, R0, q
<1>7. Rooted(D, R0, lo) /\ b \notin S
  BY <1>0, <1>1, <1>5a, RootedGrows DEF b, R0
<1>8. b \notin n.marked /\ b \notin Chain(D, h)
  BY <1>0, <1>1, <1>2, NewIsNew DEF b
<1>9. M \in SUBSET Nat
  BY <1>0, <1>2, <1>3
<1>10. x \in Ids(D) /\ Top(D, R0, q, x)
  BY <1>0, <1>3, <1>6
<1>11. R0 \in SUBSET Ids(D) /\ h \in R0
  BY <1>1, <1>7 DEF Rooted, Top, R0
<1>12. OnPar(D, m) /\ Held(m) = R0 /\ IndexIs(m, n, q, x) /\ q \in Indexes
  <2>1. \A c \in R0 : c \notin Held(n) => c \notin n.marked /\ c \notin Chain(D, n.head)
    BY <1>8 DEF R0, S, h
  <2>2. x \in Nat
    BY <1>10 DEF Ids
  <2>3. Replaces(D, n, R0, q, x)
    BY <2>1, <2>2, <1>3, <1>6, <1>11 DEF Replaces
  <2> QED BY <2>3, WithIndexOnPar
<1>13. Best(D, q) = x
  BY <1>3, <1>6, <1>10, <1>11, BestIs
<1>14. Inserted(D, WithMarks(n, M), b) = WithMarks(m, M)
  <2>1. q = Grown(Held(n), n.index, b)
    BY DEF q, S, r
  <2>2. x \in Nat
    BY <1>10 DEF Ids
  <2>3. InsertsBest(D, n, M, b, q, x)
    BY <2>1, <2>2, <1>2, <1>9, <1>12, <1>13 DEF InsertsBest
  <2> QED BY <2>3, InsertMarked
<1>15. /\ Oldest(D, q, M) = At(D, h, lo) /\ At(D, h, lo) \in R0 /\ Num(D, At(D, h, lo)) = lo
       /\ lo <= Num(D, h)
  <2>2. Num(D, b) > lo
    <3>1. Num(D, b) = Num(B, p) + 1 /\ Num(B, p) \in Nat
      BY <1>0, <1>1, NewChain, TreeTypes DEF b
    <3>2. Num(B, p) >= lo
      BY <1>0, <1>1 DEF Rooted
    <3> QED BY <3>1, <3>2, <1>5a
  <2>3. \A c \in R0 : Num(D, c) = lo => (c \in M <=> c \in Chain(D, h) /\ c # 1)
    <3> SUFFICES ASSUME NEW c \in R0, Num(D, c) = lo
                 PROVE  c \in M <=> c \in Chain(D, h) /\ c # 1
      OBVIOUS
    <3>1. c # b
      BY <2>2, <1>5a
    <3>2. c \in S /\ (c \in M <=> c \in n.marked)
      BY <3>1, <1>0 DEF R0
    <3>3. S \cap n.marked = (S \cap Chain(D, h)) \ {1}
      BY <1>3 DEF OnPar, Marks, S, h
    <3> QED BY <3>2, <3>3
  <2>4. MarkedAt(D, R0, lo, h, M)
    BY <2>3 DEF MarkedAt
  <2> QED BY <2>4, <1>3, <1>5a, <1>6, <1>7, <1>11, OldestIs
<1> HIDE DEF m
<1>16. m.index = q
  BY <1>12 DEF IndexIs
<1>17. Ranked(D, m)
  BY <1>6, <1>12, <1>16 DEF Ranked, b
<1>18. Rooted(D, Held(m), n.committed + 1) /\ Top(D, Held(m), m.index, x)
  BY <1>7, <1>10, <1>12, <1>16 DEF lo
<1>19. Inserts(D, n, m, M, x)
  BY <1>12, <1>14, <1>15, <1>16, <1>17, <1>18 DEF Inserts, b, h, lo, R0, S, q, r
<1> QED BY <1>19 DEF m, q, b, S, r

(* Two more blocks of the head's chain are irreversible for x.             *)
Prunes(D, n, m, M, x, h, lo) ==
    /\ Tree(D) /\ n.committed \in Nat /\ M \in SUBSET Nat /\ x \in Ids(D) /\ h = n.head
    /\ h \in Held(n) /\ h \in Ids(D) /\ Inserts(D, n, m, M, x) /\ lo = n.committed + 1
    /\ lo + 1 <= D[x].lib /\ lo + 1 <= Num(D, h) /\ lo + 1 < Num(D, x)
    /\ At(D, x, lo) = At(D, h, lo) /\ At(D, x, lo + 1) = At(D, h, lo + 1)

(* When two more blocks of the head's chain are irreversible, add prunes   *)
(* the oldest and reports it, and what it leaves is on par again.          *)
LEMMA PruneStep ==
    ASSUME NEW D, NEW n, NEW m, NEW M, NEW x, NEW h, NEW lo, Prunes(D, n, m, M, x, h, lo)
    PROVE  \E w : Added(D, n, w, x) /\ PruneOldest(D, WithMarks(m, M)) = WithMarks(w, M)
<1>a. /\ Tree(D) /\ n.committed \in Nat /\ M \in SUBSET Nat /\ x \in Ids(D) /\ h = n.head
      /\ h \in Held(n) /\ h \in Ids(D) /\ Inserts(D, n, m, M, x) /\ lo = n.committed + 1
  BY DEF Prunes
<1>b. /\ lo + 1 <= D[x].lib /\ lo + 1 <= Num(D, h) /\ lo + 1 < Num(D, x)
      /\ At(D, x, lo) = At(D, h, lo) /\ At(D, x, lo + 1) = At(D, h, lo + 1)
  BY DEF Prunes
<1> DEFINE o == At(D, h, lo)
           S == Held(m)
           R == Above(D, S, lo, o)
           g == Cut(m.index, R)
           v == OnIrreversible(D, m, o)
           w == WithIndex(v, g, x)
<1>1. /\ OnPar(D, m) /\ IndexIs(m, n, Grown(Held(n), n.index, Len(D)), x) /\ S = Held(n) \cup {Len(D)}
      /\ Rooted(D, S, lo) /\ Ranked(D, m) /\ Top(D, S, m.index, x)
      /\ Oldest(D, m.index, M) = o /\ o \in S /\ Num(D, o) = lo
  BY <1>a DEF Inserts
<1>2. /\ m \in Node /\ m.head = h /\ m.committed = n.committed /\ m.broken = FALSE /\ m.fhead = x /\ m.marked = n.marked
      /\ m.index = Grown(Held(n), n.index, Len(D))
  BY <1>a, <1>1 DEF IndexIs
<1>3. S \in SUBSET Ids(D) /\ m.index \in [S -> Nat]
  BY <1>1, <1>2, NodeTypes DEF OnPar, Held, Indexes
<1>4. lo \in Nat \ {0} /\ Num(D, x) \in Nat /\ Num(D, h) \in Nat /\ o \in Nat
  BY <1>a, <1>1, <1>3, TreeTypes DEF Ids
<1> HIDE DEF o, S
<1>5. x \in R /\ h \in R
  <2>1. Num(D, x) > lo /\ Num(D, h) > lo
    BY <1>b, <1>4
  <2>2. x \in S /\ h \in S
    BY <1>a, <1>1 DEF Top
  <2>3. At(D, h, lo) = o /\ At(D, x, lo) = o
    BY <1>b DEF o
  <2> QED BY <2>1, <2>2, <2>3 DEF Above
<1>6. Prune(D, m.index, o) = g /\ Rooted(D, R, lo + 1)
  <2> DEFINE r == m.index
  <2>1. /\ Tree(D) /\ S \in SUBSET Ids(D) /\ r \in [S -> Nat] /\ lo \in Nat \ {0}
        /\ Rooted(D, S, lo) /\ o \in S /\ Num(D, o) = lo
    BY <1>a, <1>1, <1>3, <1>4
  <2> HIDE DEF r
  <2>2. Prune(D, r, o) = Cut(r, Above(D, S, lo, o)) /\ Rooted(D, Above(D, S, lo, o), lo + 1)
    BY <2>1, PruneLeaves
  <2> QED BY <2>2 DEF r
<1>7. R \in SUBSET S /\ R \in SUBSET Ids(D) /\ g \in [R -> Nat] /\ \A c \in R : g[c] = m.index[c]
  BY <1>3 DEF Above, Cut
<1> HIDE DEF R, g
<1>8. Top(D, R, g, x)
  BY <1>1, <1>5, <1>7, TopOfFewer
<1>9. Best(D, g) = x
  BY <1>a, <1>7, <1>8, BestIs
<1>10. /\ OnPar(D, v) /\ v.committed = lo
       /\ v.index = m.index /\ v.fhead = x /\ v.head = h /\ v.marked = n.marked
  <2>1. m.committed + 1 <= Num(D, m.head) /\ o = At(D, m.head, m.committed + 1)
    BY <1>a, <1>b, <1>2, <1>4 DEF o
  <2>2. /\ OnPar(D, v) /\ v.committed = m.committed + 1
        /\ v.index = m.index /\ v.fhead = m.fhead /\ v.head = m.head /\ v.marked = m.marked
    BY <2>1, <1>a, <1>1, IrreversibleOnPar
  <2> HIDE DEF v
  <2> QED BY <2>2, <1>a, <1>2
<1> HIDE DEF v
<1>11. OnPar(D, w) /\ Held(w) = R /\ IndexIs(w, v, g, x) /\ g \in Indexes
  <2>1. Held(v) = S
    BY <1>10 DEF Held, S
  <2>2. \A c \in R : c \notin Held(v) => c \notin v.marked /\ c \notin Chain(D, v.head)
    BY <2>1, <1>7
  <2>3. x \in Nat
    BY <1>a DEF Ids
  <2>4. Replaces(D, v, R, g, x)
    BY <2>2, <2>3, <1>a, <1>7, <1>10 DEF Replaces
  <2> QED BY <2>4, WithIndexOnPar
<1>12. PruneOldest(D, WithMarks(m, M)) = WithMarks(w, M)
  <2>1. m.committed < Num(D, o) /\ Num(D, o) \in Nat /\ Best(D, g) = m.fhead
    BY <1>a, <1>1, <1>2, <1>4, <1>9
  <2>2. PruneOldest(D, WithMarks(m, M)) = WithMarks(WithIndex(v, g, m.fhead), M)
    <3>1. PrunesTo(D, m, M, o, g)
      BY <2>1, <1>a, <1>1, <1>2, <1>4, <1>6, <1>11 DEF PrunesTo
    <3> QED BY <3>1, PruneMarked DEF v
  <2> QED BY <2>2, <1>2
<1> HIDE DEF w
<1>13. /\ w.head = n.head /\ w.fhead = x /\ w.marked = n.marked /\ w.committed = lo /\ w.index = g
  BY <1>a, <1>10, <1>11 DEF IndexIs
<1>14. Ranked(D, w)
  BY <1>1, <1>7, <1>11, <1>13 DEF Ranked, S
<1>15. \A c \in Held(w) : c # Len(D) => w.index[c] = n.index[c]
  <2> SUFFICES ASSUME NEW c \in R, c # Len(D)
               PROVE  g[c] = n.index[c]
    BY <1>11, <1>13
  <2>1. c \in Held(n) \cup {Len(D)} /\ g[c] = Grown(Held(n), n.index, Len(D))[c]
    BY <1>1, <1>2, <1>7
  <2> QED BY <2>1 DEF Grown
<1>16. Held(w) \subseteq Held(n) \cup {Len(D)} /\ n.head \in Held(w)
  BY <1>a, <1>1, <1>5, <1>7, <1>11
<1>17. Added(D, n, w, x)
  <2>1. Rooted(D, Held(w), w.committed + 1) /\ Top(D, Held(w), w.index, x)
    BY <1>6, <1>8, <1>11, <1>13
  <2>2. w.committed + 1 <= D[x].lib /\ At(D, x, w.committed + 1) = At(D, n.head, w.committed + 1)
    BY <1>a, <1>b, <1>13
  <2>3. w.committed \in {n.committed, n.committed + 1}
    BY <1>a, <1>13
  <2>4. OnPar(D, w)
    BY <1>11
  <2> QED BY <2>1, <2>2, <2>3, <2>4, <1>13, <1>14, <1>15, <1>16 DEF Added
<1> QED BY <1>12, <1>17

(* What add does, whether the block that arrives is marked before or not.  *)
LEMMA AddStep ==
    ASSUME NEW B, NEW D, NEW p, NEW n, NEW M, NEW x, Comes(B, D, p, n, M, x), Fits(B, D, p, n.head)
    PROVE  /\ ~AddThrows(D, WithMarks(n, M), Len(D))
           /\ \E m : Added(D, n, m, x) /\ AddToForkDb(D, WithMarks(n, M), Len(D)) = WithMarks(m, M)
<1> DEFINE u == WithMarks(n, M)
           h == n.head
           lo == n.committed + 1
           m == WithIndex(n, Grown(Held(n), n.index, Len(D)), x)
           i == WithMarks(m, M)
           o == At(D, h, lo)
<1>0. /\ p \in Ids(B) /\ Arrived(B, D, p) /\ ChainInv(B, n)
      /\ M \in {n.marked, n.marked \cup {Len(D)}} /\ x \in {Len(D), h}
  BY DEF Comes
<1>1. /\ Tree(B) /\ OnPar(B, n) /\ Rooted(B, Held(n), lo) /\ Ranked(B, n) /\ Top(B, Held(n), n.index, h)
  BY <1>0 DEF ChainInv
<1>2. /\ n \in Node /\ h \in Ids(B) /\ n.committed \in Nat /\ n.marked \in SUBSET Nat /\ h \in Held(n)
  BY <1>1, NodeTypes DEF OnPar, Top
<1>3. Tree(D) /\ Len(D) \in Ids(D) /\ Len(D) \in Nat /\ h \in Ids(D)
  BY <1>0, <1>1, <1>2, TreeGrows, OldSame
<1>4. M \in SUBSET Nat /\ x \in {Len(D), h} /\ x \in Ids(D)
  BY <1>0, <1>2, <1>3
<1>5. Inserts(D, n, m, M, x)
  BY InsertStep
<1> HIDE DEF m, lo
<1>6. /\ OnPar(D, m) /\ IndexIs(m, n, Grown(Held(n), n.index, Len(D)), x) /\ Held(m) = Held(n) \cup {Len(D)}
      /\ Rooted(D, Held(m), lo) /\ Ranked(D, m) /\ Top(D, Held(m), m.index, x)
      /\ Inserted(D, u, Len(D)) = i /\ Oldest(D, m.index, M) = o /\ Num(D, o) = lo /\ lo <= Num(D, h)
  BY <1>5 DEF Inserts, lo
<1>7. /\ m \in Node /\ m.head = h /\ m.committed = n.committed /\ m.fhead = x /\ m.marked = n.marked
      /\ m.index = Grown(Held(n), n.index, Len(D))
  BY <1>6 DEF IndexIs
<1>8. MarksAre(i, m, M)
  BY <1>4, <1>7, MarkFields
<1> HIDE DEF u, i, o, h
<1>9. i.index = m.index /\ i.marked = M /\ i.fhead = x /\ i.blog = m.blog
  BY <1>7, <1>8 DEF MarksAre
<1>10. MustPrune(D, i) <=> lo < D[x].lib
  BY <1>6, <1>9 DEF MustPrune
<1>11. LinksToBlog(D, i, o)
  <2>1. m.committed + 1 <= Num(D, m.head) /\ o = At(D, m.head, m.committed + 1)
    BY <1>6, <1>7 DEF o, lo
  <2>2. LinksToBlog(D, m, o)
    BY <2>1, <1>3, <1>6, IrreversibleOnPar
  <2> QED BY <2>2, <1>9 DEF LinksToBlog
<1>12. ~AddThrows(D, u, Len(D))
  BY <1>6, <1>9, <1>11 DEF AddThrows
<1>13. AddToForkDb(D, u, Len(D)) = IF MustPrune(D, i) THEN PruneOldest(D, i) ELSE i
  BY <1>6, <1>12 DEF AddToForkDb
<1>14. CASE ~(lo < D[x].lib)
  <2>1. AddToForkDb(D, u, Len(D)) = i
    BY <1>10, <1>13, <1>14
  <2>2. \A c \in Held(m) : c # Len(D) => m.index[c] = n.index[c]
    BY <1>6, <1>7 DEF Grown
  <2>3. Rooted(D, Held(m), m.committed + 1)
    BY <1>6, <1>7 DEF lo
  <2>4. Held(m) \subseteq Held(n) \cup {Len(D)} /\ n.head \in Held(m)
    BY <1>2, <1>6 DEF h
  <2>5. Added(D, n, m, x)
    BY <2>2, <2>3, <2>4, <1>6, <1>7 DEF Added, h
  <2> QED BY <2>1, <2>5, <1>12 DEF i, u
<1>15. CASE lo < D[x].lib
  <2>0. D[x].lib \in Nat /\ lo \in Nat \ {0} /\ Num(D, x) \in Nat /\ Num(D, h) \in Nat
    BY <1>2, <1>3, <1>4, TreeFacts DEF lo
  <2>1. lo \in 1..D[x].lib /\ lo + 1 \in 1..D[x].lib /\ lo + 1 <= D[x].lib
    BY <2>0, <1>15
  <2>2. At(D, x, lo) = At(D, h, lo)
    BY <2>1, <1>0, <1>1, <1>2, Shares DEF h
  <2>3. lo + 1 <= Num(D, h) /\ lo + 1 < Num(D, x) /\ At(D, x, lo + 1) = At(D, h, lo + 1)
    BY <2>1, <1>0, <1>1, <1>2, Shares DEF h
  <2>4. PICK w : Added(D, n, w, x) /\ PruneOldest(D, WithMarks(m, M)) = WithMarks(w, M)
    <3>1. lo = n.committed + 1 /\ h = n.head
      BY DEF lo, h
    <3>2. Prunes(D, n, m, M, x, h, lo)
      BY <3>1, <2>1, <2>2, <2>3, <1>2, <1>3, <1>4, <1>5 DEF Prunes
    <3> QED BY <3>2, PruneStep
  <2>5. AddToForkDb(D, u, Len(D)) = WithMarks(w, M)
    BY <2>4, <1>10, <1>13, <1>15 DEF i
  <2> QED BY <2>4, <2>5, <1>12 DEF u
<1> QED BY <1>14, <1>15

(* Marks that are not changed.                                             *)
LEMMA MarksSame ==
    ASSUME NEW m \in Node
    PROVE  WithMarks(m, m.marked) = m
BY DEF WithMarks, Node

(* commit_block marks the block before it is applied, which marks it again.*)
LEMMA ApplyMarked ==
    ASSUME NEW D, NEW m \in Node, NEW b \in Nat
    PROVE  ApplyBlock(D, WithMarks(m, m.marked \cup {b}), b) = ApplyBlock(D, m, b)
<1> DEFINE u == WithMarks(m, m.marked \cup {b})
           v == ApplyBlock(D, u, b)
           w == ApplyBlock(D, m, b)
<1>1. m.marked \cup {b} \in SUBSET Nat
  BY NodeTypes
<1>2. MarksAre(u, m, m.marked \cup {b})
  BY <1>1, MarkFields
<1> HIDE DEF u
<1>3. u \in Node
  BY <1>2 DEF MarksAre
<1>4. /\ v.index = u.index /\ v.fhead = u.fhead /\ v.committed = u.committed /\ v.blog = u.blog
      /\ v.broken = u.broken /\ v.head = b /\ v.marked = u.marked \cup {b}
      /\ v.reversible = u.reversible \cup {b} /\ v.applied = Append(u.applied, b)
      /\ v \in Node
  BY <1>3, ApplyFields
<1>5. /\ w.index = m.index /\ w.fhead = m.fhead /\ w.committed = m.committed /\ w.blog = m.blog
      /\ w.broken = m.broken /\ w.head = b /\ w.marked = m.marked \cup {b}
      /\ w.reversible = m.reversible \cup {b} /\ w.applied = Append(m.applied, b)
      /\ w \in Node
  BY ApplyFields
<1> HIDE DEF v, w
<1>6. v.reversible = w.reversible /\ v.applied = w.applied /\ v.marked = w.marked
  BY <1>2, <1>4, <1>5 DEF MarksAre
<1>7. /\ v.index = w.index /\ v.fhead = w.fhead /\ v.committed = w.committed /\ v.blog = w.blog
      /\ v.broken = w.broken /\ v.head = w.head
  BY <1>2, <1>4, <1>5 DEF MarksAre
<1>8. v = w
  BY <1>4, <1>5, <1>6, <1>7, NodeEqual
<1> QED BY <1>8 DEF u, v, w

(* The blocks of a branch.                                                 *)
LEMMA BranchFacts ==
    ASSUME NEW B, Tree(B), NEW x \in Ids(B), NEW k \in Nat, k <= Num(B, x)
    PROVE  /\ Branch(B, x, k) \in Seq(Nat) /\ Len(Branch(B, x, k)) = Num(B, x) - k
           /\ \A i \in 1..(Num(B, x) - k) : Branch(B, x, k)[i] = At(B, x, k + i)
<1> DEFINE s == B[x].chain
           z == Num(B, x)
<1>1. s \in Seq(Nat) /\ z = Len(s) /\ z \in Nat
  BY TreeTypes DEF Num
<1>2. Branch(B, x, k) = SubSeq(s, k + 1, z)
  BY DEF Branch
<1>3. \A i : At(B, x, i) = s[i]
  BY DEF At
<1>4. k <= z
  OBVIOUS
<1> HIDE DEF s, z
<1>5. SubSeq(s, k + 1, z) = [i \in 1..(z - k) |-> s[k + i]]
  <2>1. (1 + z) - (k + 1) = z - k /\ \A i \in 1..(z - k) : (i + (k + 1)) - 1 = k + i
    BY <1>1
  <2>2. SubSeq(s, k + 1, z) = [i \in 1..((1 + z) - (k + 1)) |-> s[(i + (k + 1)) - 1]]
    BY <1>1
  <2> QED BY <2>1, <2>2
<1>6. \A i \in 1..(z - k) : s[k + i] \in Nat
  <2>1. \A i \in 1..(z - k) : k + i \in 1..Len(s)
    BY <1>1, <1>4
  <2> QED BY <2>1, <1>1
<1>7. z - k \in Nat
  BY <1>1, <1>4
<1> DEFINE f == [i \in 1..(z - k) |-> s[k + i]]
<1>8. f \in Seq(Nat) /\ Len(f) = z - k
  <2>1. f \in [1..(z - k) -> Nat]
    BY <1>6
  <2> HIDE DEF f
  <2> QED BY <2>1, <1>7
<1>9. \A i \in 1..(z - k) : f[i] = s[k + i]
  OBVIOUS
<1> QED BY <1>2, <1>3, <1>5, <1>8, <1>9 DEF z

(* The first of the blocks that were held stays the first of those left.   *)
LEMMA TopOld ==
    ASSUME NEW B, NEW D, NEW p \in Ids(B), Arrived(B, D, p), Tree(B),
           NEW S \in SUBSET Ids(B), NEW r, NEW x, Top(B, S, r, x),
           NEW R \in SUBSET S, x \in R, NEW q, \A c \in R : q[c] = r[c]
    PROVE  Top(D, R, q, x)
<1>1. \A c \in R : c \in Ids(B) /\ D[c] = B[c] /\ Num(D, c) = Num(B, c)
  BY OldSame
<1>2. \A c \in R : (Better(D, x, c) <=> Better(B, x, c)) /\ (Better(D, c, x) <=> Better(B, c, x))
  BY <1>1 DEF Better
<1>3. \A c \in R \ {x} : Better(B, x, c) \/ (~Better(B, c, x) /\ r[x] < r[c])
  BY DEF Top
<1> QED BY <1>2, <1>3 DEF Top

-----------------------------------------------------------------------------
(* What a call leaves: the invariant again, no more committed, and the head*)
(* on a chain that has the blocks committed and the next one.              *)
After(D, m, w) ==
    /\ ChainInv(D, w) /\ w.committed = m.committed
    /\ At(D, w.head, m.committed + 1) = At(D, m.head, m.committed + 1)

(* What is known after add.                                                *)
Ready(B, D, p, n, m, x) ==
    /\ Comes(B, D, p, n, n.marked, x) /\ Fits(B, D, p, n.head) /\ Added(D, n, m, x)

(* The facts about the node after add that the outcomes of                 *)
(* maybe_switch_forks need.                                                *)
LEMMA ReadyFacts ==
    ASSUME NEW B, NEW D, NEW p, NEW n, NEW m, NEW x, Ready(B, D, p, n, m, x)
    PROVE  /\ Tree(B) /\ Tree(D) /\ p \in Ids(B) /\ Arrived(B, D, p) /\ OnPar(D, m)
           /\ n.head \in Ids(B) /\ n.head \in Ids(D) /\ Len(D) \in Ids(D)
           /\ m \in Node /\ m.head = n.head /\ m.fhead = x /\ m.committed \in Nat /\ n.committed \in Nat
           /\ Held(m) \in SUBSET Ids(D) /\ m.index \in [Held(m) -> Nat]
           /\ Held(n) \in SUBSET Ids(B) /\ Top(B, Held(n), n.index, n.head)
           /\ Rooted(D, Held(m), m.committed + 1) /\ Top(D, Held(m), m.index, x)
           /\ n.head \in Held(m) /\ x \in Held(m) /\ x \in {n.head, Len(D)} /\ x \in Ids(D) /\ x \in Nat
           /\ m.committed + 1 <= Num(D, n.head) /\ m.committed + 1 <= Num(D, x)
           /\ Ranked(D, m) /\ \A c \in Held(m) : c \in Held(n) \/ c = Len(D)
           /\ \A c \in Held(m) : c # Len(D) => m.index[c] = n.index[c]
<1>1. /\ p \in Ids(B) /\ Arrived(B, D, p) /\ ChainInv(B, n) /\ x \in {n.head, Len(D)}
  BY DEF Ready, Comes
<1>2. /\ Tree(B) /\ OnPar(B, n) /\ Top(B, Held(n), n.index, n.head)
  BY <1>1 DEF ChainInv
<1>3. n \in Node /\ n.head \in Ids(B) /\ Held(n) \in SUBSET Ids(B) /\ n.committed \in Nat
  BY <1>2, NodeTypes DEF OnPar
<1>4. Tree(D) /\ n.head \in Ids(D) /\ Len(D) \in Ids(D)
  BY <1>1, <1>2, <1>3, TreeGrows, OldSame
<1>5. /\ OnPar(D, m) /\ m.head = n.head /\ m.fhead = x /\ Rooted(D, Held(m), m.committed + 1) /\ Ranked(D, m)
      /\ Top(D, Held(m), m.index, x) /\ n.head \in Held(m) /\ Held(m) \subseteq Held(n) \cup {Len(D)}
      /\ \A c \in Held(m) : c # Len(D) => m.index[c] = n.index[c]
  BY DEF Ready, Added
<1>6. m \in Node /\ Held(m) \in SUBSET Ids(D) /\ m.index \in Indexes /\ m.committed \in Nat
  BY <1>5, NodeTypes DEF OnPar
<1>7. m.index \in [Held(m) -> Nat]
  BY <1>6 DEF Held, Indexes
<1>8. x \in Held(m) /\ x \in Ids(D) /\ x \in Nat
  BY <1>5, <1>6 DEF Top, Ids
<1>9. m.committed + 1 <= Num(D, n.head) /\ m.committed + 1 <= Num(D, x)
  <2>1. Num(D, n.head) >= m.committed + 1 /\ Num(D, x) >= m.committed + 1
    BY <1>5, <1>8 DEF Rooted
  <2>2. Num(D, n.head) \in Nat /\ Num(D, x) \in Nat
    BY <1>4, <1>8, TreeTypes
  <2> QED BY <2>1, <2>2, <1>6
<1> QED BY <1>1, <1>2, <1>3, <1>4, <1>5, <1>6, <1>7, <1>8, <1>9

(* The next block above the committed ones stays settled.                  *)
LEMMA StaysSettled ==
    ASSUME NEW B, NEW D, NEW p, NEW n, NEW m, NEW x, Ready(B, D, p, n, m, x)
    PROVE  Settled(D, m)
<1> SUFFICES ASSUME m.committed # 0
             PROVE  \E c \in Ids(D) : /\ m.committed + 1 <= D[c].lib
                                      /\ At(D, c, m.committed + 1) = At(D, m.head, m.committed + 1)
  BY DEF Settled
<1>1. /\ Tree(B) /\ p \in Ids(B) /\ Arrived(B, D, p) /\ x \in Ids(D) /\ m.head = n.head /\ n.head \in Ids(B)
  BY ReadyFacts
<1>2. CASE m.committed # n.committed
  BY <1>1, <1>2 DEF Ready, Added
<1>3. CASE m.committed = n.committed
  <2>1. PICK c \in Ids(B) : n.committed + 1 <= B[c].lib /\ At(B, c, n.committed + 1) = At(B, n.head, n.committed + 1)
    BY <1>3 DEF Ready, Comes, ChainInv, Settled
  <2>2. c \in Ids(D) /\ D[c] = B[c] /\ (\A i : At(D, c, i) = At(B, c, i)) /\ \A i : At(D, n.head, i) = At(B, n.head, i)
    BY <1>1, OldSame
  <2> QED BY <2>1, <2>2, <1>1, <1>3
<1> QED BY <1>2, <1>3

(* A node that has the invariant after all.                                *)
LEMMA Concludes ==
    ASSUME NEW D, NEW m, NEW w, Tree(D), Settled(D, m), OnPar(D, w), w.committed = m.committed,
           Rooted(D, Held(w), m.committed + 1), Ranked(D, w), w.fhead = w.head,
           Top(D, Held(w), w.index, w.head),
           At(D, w.head, m.committed + 1) = At(D, m.head, m.committed + 1)
    PROVE  After(D, m, w)
<1>1. Settled(D, w)
  BY DEF Settled
<1> QED BY <1>1 DEF After, ChainInv

(* Blocks that leave the fork database with y, and what that makes of a    *)
(* node w that has the index of m.                                         *)
LEMMA InvalidateStep ==
    ASSUME NEW B, NEW D, NEW p, NEW n, NEW m, NEW x, Ready(B, D, p, n, m, x),
           NEW w, OnPar(D, w), w.index = m.index, w.committed = m.committed,
           NEW y, y \in Chain(D, Len(D)), y \notin Chain(D, n.head)
    PROVE  LET v == Invalidate(D, w, y)
           IN /\ OnPar(D, v) /\ v.head = w.head /\ v.fhead = n.head /\ v.committed = m.committed
              /\ Rooted(D, Held(v), m.committed + 1) /\ Ranked(D, v) /\ Top(D, Held(v), v.index, n.head)
<1> DEFINE h == n.head
           S == Held(m)
           lo == m.committed + 1
           r == m.index
           R == Free(D, S, y)
           g == Cut(r, R)
           v == Invalidate(D, w, y)
           u == WithIndex(w, g, h)
<1>1. /\ Tree(B) /\ Tree(D) /\ p \in Ids(B) /\ Arrived(B, D, p) /\ h \in Ids(D) /\ h \in Ids(B) /\ m.committed \in Nat
      /\ S \in SUBSET Ids(D) /\ r \in [S -> Nat] /\ Held(n) \in SUBSET Ids(B) /\ Top(B, Held(n), n.index, h)
      /\ Rooted(D, S, lo) /\ h \in S /\ Ranked(D, m) /\ (\A c \in S : c \in Held(n) \/ c = Len(D))
      /\ \A c \in S : c # Len(D) => r[c] = n.index[c]
  BY ReadyFacts
<1>2. lo \in Nat \ {0} /\ h \in Nat
  BY <1>1 DEF Ids
<1> HIDE DEF h, S, lo, r
<1>3. RemoveForks(D, r, y) = g /\ Rooted(D, R, lo)
  BY <1>1, <1>2, RemoveLeaves
<1>4. R \in SUBSET S /\ R \in SUBSET Ids(D) /\ h \in R /\ R \in SUBSET Held(n)
  <2>1. y \notin Chain(D, h)
    BY DEF h
  <2>2. Len(D) \notin R
    BY DEF Free
  <2>3. R \in SUBSET S /\ h \in R
    BY <2>1, <1>1 DEF Free
  <2> HIDE DEF R
  <2> QED BY <2>2, <2>3, <1>1
<1>5. g \in [R -> Nat] /\ \A c \in R : g[c] = r[c]
  BY <1>1, <1>4 DEF Cut
<1>6. \A c \in R : g[c] = n.index[c]
  <2>1. Len(D) \notin R
    BY DEF Free
  <2> HIDE DEF R, g
  <2> QED BY <2>1, <1>1, <1>4, <1>5
<1> HIDE DEF R, g
<1>7. Top(D, R, g, h)
  BY <1>1, <1>4, <1>6, TopOld
<1>8. Best(D, g) = h
  BY <1>1, <1>4, <1>5, <1>7, BestIs
<1>9. OnPar(D, u) /\ Held(u) = R /\ IndexIs(u, w, g, h)
  <2>1. Held(w) = S
    BY DEF Held, S
  <2>2. \A c \in R : c \notin Held(w) => c \notin w.marked /\ c \notin Chain(D, w.head)
    BY <2>1, <1>4
  <2>3. Tree(D) /\ R \in SUBSET Ids(D) /\ g \in [R -> Nat] /\ h \in Nat
    BY <1>1, <1>2, <1>4, <1>5
  <2>4. Replaces(D, w, R, g, h)
    BY <2>2, <2>3 DEF Replaces
  <2> QED BY <2>4, WithIndexOnPar
<1>10. v = u
  <2>1. RemoveForks(D, w.index, y) = g
    BY <1>3 DEF r
  <2>2. DOMAIN g # {}
    BY <1>4, <1>5
  <2>3. v = [w EXCEPT !.index = g, !.fhead = h, !.broken = DOMAIN g = {}]
    BY <2>1, <1>8 DEF Invalidate
  <2>4. (DOMAIN g = {}) = FALSE
    BY <2>2
  <2> QED BY <2>3, <2>4 DEF WithIndex
<1> HIDE DEF u
<1>11. u.head = w.head /\ u.fhead = h /\ u.committed = w.committed /\ u.index = g
  BY <1>9 DEF IndexIs
<1>12. Ranked(D, u)
  <2>1. \A c \in R : g[c] <= Len(D)
    <3>1. \A c \in S : r[c] <= Len(D)
      BY <1>1 DEF Ranked, S, r
    <3> QED BY <3>1, <1>4, <1>5
  <2> QED BY <2>1, <1>9, <1>11 DEF Ranked
<1>13. /\ OnPar(D, u) /\ u.head = w.head /\ u.fhead = h /\ u.committed = m.committed
       /\ Rooted(D, Held(u), lo) /\ Ranked(D, u) /\ Top(D, Held(u), u.index, h)
  BY <1>3, <1>7, <1>9, <1>11, <1>12
<1> HIDE DEF v
<1>14. /\ OnPar(D, v) /\ v.head = w.head /\ v.fhead = h /\ v.committed = m.committed
       /\ Rooted(D, Held(v), lo) /\ Ranked(D, v) /\ Top(D, Held(v), v.index, h)
  BY <1>10, <1>13
<1> QED BY <1>14 DEF v, h, lo

(* The new block is the better one and was not made on the head.           *)
Forked(B, D, p, n, m, x) == Ready(B, D, p, n, m, x) /\ x # n.head /\ Prev(D, x) # n.head

(* The fork point is above what is committed.                              *)
LEMMA ForkPoint ==
    ASSUME NEW B, NEW D, NEW p, NEW n, NEW m, NEW x, Forked(B, D, p, n, m, x), NEW k, k = CommonNum(D, x, n.head)
    PROVE  /\ x = Len(D) /\ k \in Nat \ {0} /\ k < Num(D, x) /\ k < Num(D, n.head) /\ m.committed + 1 <= k
           /\ \A i \in 1..k : At(D, x, i) = At(D, n.head, i)
           /\ \A i \in 1..Num(D, x) : i <= Num(D, n.head) /\ At(D, x, i) = At(D, n.head, i) => i <= k
<1> DEFINE h == n.head
           lo == m.committed + 1
<1>0. Ready(B, D, p, n, m, x) /\ x # h /\ Prev(D, x) # h
  BY DEF Forked
<1>1. /\ Tree(B) /\ Tree(D) /\ p \in Ids(B) /\ Arrived(B, D, p) /\ h \in Ids(D) /\ h \in Ids(B) /\ m.committed \in Nat
      /\ Held(n) \in SUBSET Ids(B) /\ Top(B, Held(n), n.index, h) /\ x = Len(D) /\ x \in Ids(D)
      /\ lo <= Num(D, h) /\ lo <= Num(D, x) /\ n.committed \in Nat
  BY <1>0, ReadyFacts
<1>2. OnPar(B, n) /\ p \in Held(n) /\ Settled(B, n) /\ Fits(B, D, p, h)
  BY <1>0 DEF Ready, Comes, ChainInv
<1>3. /\ Num(D, x) = Num(B, p) + 1 /\ (\A i \in 1..Num(B, p) : At(D, x, i) = At(B, p, i))
      /\ Prev(D, x) = p
  BY <1>1, NewChain
<1>4. Num(D, h) = Num(B, h) /\ \A i : At(D, h, i) = At(B, h, i)
  BY <1>1, OldSame
<1>5. Num(B, p) \in Nat /\ Num(B, h) \in Nat \ {0} /\ B[p].lib \in Nat /\ B[h].lib \in Nat
  BY <1>1, TreeFacts
<1>6. x \notin Chain(D, h)
  BY <1>1, <1>2, NewIsNew
<1> HIDE DEF h, lo
<1>7. h \notin Chain(D, x)
  <2> SUFFICES ASSUME h \in Chain(D, x) PROVE FALSE
    OBVIOUS
  <2>1. Num(D, h) <= Num(D, x) /\ At(D, x, Num(D, h)) = h
    BY <1>1, InChain
  <2>2. Num(D, h) # Num(D, x)
    <3>1. At(D, x, Num(D, x)) = x
      BY <1>1, TreeFacts
    <3> QED BY <3>1, <2>1, <1>0
  <2>3. Num(B, h) \in 1..Num(B, p) /\ Num(B, h) <= Num(B, p)
    BY <2>1, <2>2, <1>3, <1>4, <1>5
  <2>4. At(B, p, Num(B, h)) = h
    BY <2>1, <2>3, <1>3, <1>4
  <2>5. B[h].lib <= B[p].lib
    BY <2>3, <2>4, <1>1, TreeFacts
  <2>6. Num(B, h) # Num(B, p)
    <3>1. At(B, p, Num(B, p)) = p
      BY <1>1, TreeFacts
    <3> QED BY <3>1, <2>4, <1>0, <1>3
  <2>7. Better(B, p, h)
    BY <2>3, <2>5, <2>6, <1>5 DEF Better
  <2>8. ~Better(B, p, h)
    BY <1>1, <1>2, NoneBetter
  <2> QED BY <2>7, <2>8
<1>8. /\ k \in Nat /\ k >= 1 /\ k < Num(D, x) /\ k < Num(D, h)
      /\ (\A i \in 1..k : At(D, x, i) = At(D, h, i))
      /\ \A i \in 1..Num(D, x) : i <= Num(D, h) /\ At(D, x, i) = At(D, h, i) => i <= k
  <2>1. k = CommonNum(D, x, h)
    BY DEF h
  <2> QED BY <2>1, <1>1, <1>6, <1>7, CommonFacts
<1>9. lo \in Nat \ {0} /\ lo \in 1..Num(D, x)
  <2>1. Num(D, x) \in Nat
    BY <1>3, <1>5
  <2>2. lo \in Nat \ {0}
    BY <1>1 DEF lo
  <2> QED BY <2>1, <2>2, <1>1
<1>10. lo <= k
  <2>1. CASE m.committed = 0
    BY <2>1, <1>8 DEF lo
  <2>2. CASE m.committed # 0 /\ m.committed # n.committed
    <3>1. At(D, x, lo) = At(D, h, lo)
      BY <2>2, <1>0 DEF Ready, Added, lo, h
    <3> QED BY <3>1, <1>1, <1>8, <1>9
  <2>3. CASE m.committed # 0 /\ m.committed = n.committed
    <3>1. PICK c \in Ids(B) : lo <= B[c].lib /\ At(B, c, lo) = At(B, h, lo)
      BY <2>3, <1>2 DEF Settled, lo, h
    <3>2. B[c].lib \in Nat
      BY <1>1, TreeFacts
    <3>3. lo \in 1..B[c].lib
      BY <3>1, <3>2, <1>9
    <3>4. At(D, x, lo) = At(B, c, lo)
      BY <3>3, <1>1, <1>2 DEF Fits
    <3>5. At(D, x, lo) = At(D, h, lo)
      BY <3>1, <3>4, <1>4
    <3> QED BY <3>5, <1>1, <1>8, <1>9
  <2> QED BY <2>1, <2>2, <2>3
<1> QED BY <1>1, <1>8, <1>10 DEF h, lo

(* Every block of the two branches is known, and so is the one below.      *)
LEMMA BranchesHeld ==
    ASSUME NEW B, NEW D, NEW p, NEW n, NEW m, NEW x, Forked(B, D, p, n, m, x)
    PROVE  NoNullBranch(D, m) /\ CommonKnown(D, m, CommonNum(D, x, n.head))
<1> DEFINE h == n.head
           k == CommonNum(D, x, h)
           lo == m.committed + 1
           S == Held(m)
<1>0. Ready(B, D, p, n, m, x)
  BY DEF Forked
<1>1. /\ Tree(D) /\ h \in Ids(D) /\ x \in Ids(D) /\ m.head = h /\ m.fhead = x
      /\ Rooted(D, S, lo) /\ h \in S /\ x \in S /\ m.committed \in Nat
  BY <1>0, ReadyFacts
<1>2. k \in Nat \ {0} /\ k < Num(D, x) /\ k < Num(D, h) /\ lo <= k
  BY ForkPoint
<1>3. Num(D, x) \in Nat /\ Num(D, h) \in Nat /\ lo \in Nat
  BY <1>1, TreeTypes
<1> HIDE DEF k, lo, h, S
<1>4. ASSUME NEW y \in {x, h}
      PROVE  Range(Branch(D, y, k)) \subseteq S
  <2> SUFFICES ASSUME NEW c \in Range(Branch(D, y, k))
               PROVE  c \in S
    OBVIOUS
  <2>1. y \in Ids(D) /\ y \in S /\ k <= Num(D, y) /\ Num(D, y) \in Nat
    BY <1>1, <1>2, <1>3
  <2>2. /\ Branch(D, y, k) \in Seq(Nat) /\ Len(Branch(D, y, k)) = Num(D, y) - k
        /\ \A i \in 1..(Num(D, y) - k) : Branch(D, y, k)[i] = At(D, y, k + i)
    BY <2>1, <1>1, <1>2, BranchFacts
  <2>3. PICK i \in 1..(Num(D, y) - k) : c = Branch(D, y, k)[i]
    <3> DEFINE s == Branch(D, y, k)
    <3>1. DOMAIN s = 1..(Num(D, y) - k)
      <4>1. DOMAIN s = 1..Len(s)
        BY <2>2
      <4> QED BY <4>1, <2>2
    <3>2. c \in Range(s)
      OBVIOUS
    <3> HIDE DEF s
    <3>3. \E j \in DOMAIN s : c = s[j]
      BY <3>2 DEF Range
    <3> QED BY <3>1, <3>3 DEF s
  <2>4. k + i \in lo..Num(D, y)
    BY <2>1, <1>2, <1>3
  <2>5. At(D, y, k + i) \in S
    BY <2>1, <2>4, <1>1 DEF Rooted
  <2> QED BY <2>2, <2>3, <2>5
<1>5. BranchesKnown(D, m.index, x, h)
  <2>1. Range(Branch(D, x, k)) \subseteq S /\ Range(Branch(D, h, k)) \subseteq S
    BY <1>4
  <2> QED BY <2>1 DEF BranchesKnown, k, S, Held
<1>6. At(D, h, k) \in S
  <2>1. k \in lo..Num(D, h)
    BY <1>2, <1>3
  <2> QED BY <2>1, <1>1 DEF Rooted
<1>7. NoNullBranch(D, m)
  BY <1>1, <1>5 DEF NoNullBranch
<1>8. CommonKnown(D, m, k)
  <2>1. k > 0
    BY <1>2
  <2>2. D[m.head].chain[k] \in DOMAIN m.index
    BY <1>1, <1>6 DEF At, S, Held
  <2> QED BY <2>1, <2>2 DEF CommonKnown
<1> QED BY <1>7, <1>8 DEF k, h

(* The first blocks of a chain.                                            *)
LEMMA FirstOf ==
    ASSUME NEW s \in Seq(Nat), NEW j \in Nat, j <= Len(s)
    PROVE  /\ SubSeq(s, 1, j) \in Seq(Nat) /\ Len(SubSeq(s, 1, j)) = j
           /\ \A i \in 1..j : SubSeq(s, 1, j)[i] = s[i]
<1>1. SubSeq(s, 1, j) = [i \in 1..((1 + j) - 1) |-> s[(i + 1) - 1]]
  OBVIOUS
<1>2. (1 + j) - 1 = j /\ \A i \in 1..j : (i + 1) - 1 = i
  OBVIOUS
<1> DEFINE f == [i \in 1..j |-> s[i]]
<1>3. SubSeq(s, 1, j) = f
  BY <1>1, <1>2
<1>4. f \in [1..j -> Nat]
  <2>1. \A i \in 1..j : i \in 1..Len(s)
    OBVIOUS
  <2> QED BY <2>1
<1>5. \A i \in 1..j : f[i] = s[i]
  OBVIOUS
<1> HIDE DEF f
<1>6. f \in Seq(Nat) /\ Len(f) = j
  BY <1>4
<1> QED BY <1>3, <1>5, <1>6

(* The part of a branch before the first block that fails.                 *)
LEMMA BeforeBad ==
    ASSUME NEW s \in Seq(Nat), NEW j \in 1..Len(s)
    PROVE  /\ Len(SubSeq(s, 1, j - 1)) = j - 1
           /\ \A i \in 1..(j - 1) : SubSeq(s, 1, j - 1)[i] = s[i]
<1>1. j - 1 \in Nat /\ j - 1 <= Len(s)
  OBVIOUS
<1> QED BY <1>1, FirstOf

(* The least of a set of numbers.                                          *)
LEMMA MinIs ==
    ASSUME NEW S \in SUBSET Nat, S # {}
    PROVE  Min(S) \in S /\ \A y \in S : Min(S) <= y
<1>1. PICK x \in S : \A y \in S : x <= y
  BY LeastNat
<1> QED BY <1>1 DEF Min

(* The switch to the other branch, when all its blocks can be applied.     *)
LEMMA SwitchGood ==
    ASSUME NEW B, NEW D, NEW p, NEW n, NEW m, NEW x, Forked(B, D, p, n, m, x),
           NEW k, k = CommonNum(D, x, n.head)
    PROVE  LET popped == PopAll(D, m, Branch(D, n.head, k))
           IN /\ popped \in Beside(D, m, At(D, n.head, k))
              /\ ApplyAll(D, popped, Branch(D, x, k)) \in Beside(D, m, x)
              /\ After(D, m, ApplyAll(D, popped, Branch(D, x, k)))
<1> DEFINE h == n.head
           a == At(D, h, k)
           first == Branch(D, x, k)
           second == Branch(D, h, k)
           popped == PopAll(D, m, second)
           w == ApplyAll(D, popped, first)
<1>0. Ready(B, D, p, n, m, x)
  BY DEF Forked
<1>1. /\ Tree(D) /\ h \in Ids(D) /\ x \in Ids(D) /\ m.head = h /\ m.fhead = x /\ m.committed \in Nat
      /\ OnPar(D, m) /\ Rooted(D, Held(m), m.committed + 1) /\ Ranked(D, m) /\ Top(D, Held(m), m.index, x)
  BY <1>0, ReadyFacts
<1>2. /\ k \in Nat \ {0} /\ k < Num(D, x) /\ k < Num(D, h) /\ m.committed + 1 <= k
      /\ \A i \in 1..k : At(D, x, i) = At(D, h, i)
  BY ForkPoint
<1>3. Num(D, x) \in Nat /\ Num(D, h) \in Nat /\ k \in 1..k /\ k \in 1..Num(D, h) /\ k <= Num(D, x) /\ k <= Num(D, h)
      /\ m.committed <= k
  BY <1>1, <1>2, TreeTypes
<1>3a. Tree(D) /\ x \in Ids(D) /\ k \in Nat /\ k <= Num(D, x)
  BY <1>1, <1>2, <1>3
<1>4. /\ Len(first) = Num(D, x) - k /\ \A i \in 1..(Num(D, x) - k) : first[i] = At(D, x, k + i)
  BY <1>3a, BranchFacts
<1>5. Len(second) = Num(D, h) - k
  BY <1>1, <1>2, <1>3, BranchFacts
<1>6. Num(D, a) = k /\ a = At(D, x, k) /\ a \in Ids(D)
  BY <1>1, <1>2, <1>3, TreeFacts
<1> HIDE DEF h, a, first, second
<1>7. popped \in Beside(D, m, a)
  <2>1. k <= Num(D, m.head) /\ Len(second) = Num(D, m.head) - k
    BY <1>1, <1>3, <1>5
  <2>2. popped \in Beside(D, m, At(D, m.head, k))
    BY <2>1, <1>1, <1>2, <1>3, PopAllOnPar
  <2> QED BY <2>2, <1>1 DEF a
<1>8. /\ popped \in Node /\ OnPar(D, popped) /\ popped.head = a /\ popped.index = m.index
      /\ popped.fhead = x /\ popped.committed = m.committed
  BY <1>1, <1>7 DEF Beside
<1> HIDE DEF popped
<1>9. w \in Beside(D, popped, x)
  <2>1. /\ Num(D, popped.head) <= Num(D, x) /\ At(D, x, Num(D, popped.head)) = popped.head
        /\ Len(first) \in Nat /\ Num(D, popped.head) + Len(first) <= Num(D, x)
        /\ \A i \in 1..Len(first) : first[i] = At(D, x, Num(D, popped.head) + i)
    BY <1>2, <1>3, <1>4, <1>6, <1>8
  <2>2. w \in Beside(D, popped, At(D, x, Num(D, popped.head) + Len(first)))
    BY <2>1, <1>1, <1>8, ApplyAllOnPar
  <2>3. At(D, x, Num(D, popped.head) + Len(first)) = x
    <3>1. Num(D, popped.head) + Len(first) = Num(D, x)
      BY <1>2, <1>3, <1>4, <1>6, <1>8
    <3>2. At(D, x, Num(D, x)) = x
      BY <1>1, TreeFacts
    <3> QED BY <3>1, <3>2
  <2> QED BY <2>2, <2>3
<1>10. w \in Beside(D, m, x)
  BY <1>8, <1>9, <1>1 DEF Beside
<1>11. w \in Node /\ OnPar(D, w) /\ w.head = x /\ w.index = m.index /\ w.fhead = x /\ w.committed = m.committed
  BY <1>8, <1>9 DEF Beside
<1> HIDE DEF w
<1>12. After(D, m, w)
  <2>1. Held(w) = Held(m)
    BY <1>11 DEF Held
  <2>2. Settled(D, m)
    BY <1>0, StaysSettled
  <2>3. At(D, w.head, m.committed + 1) = At(D, m.head, m.committed + 1)
    <3>1. m.committed + 1 \in 1..k
      BY <1>1, <1>2
    <3> QED BY <3>1, <1>1, <1>2, <1>11
  <2>4. Rooted(D, Held(w), m.committed + 1) /\ Ranked(D, w) /\ Top(D, Held(w), w.index, w.head) /\ w.fhead = w.head
    BY <2>1, <1>1, <1>11 DEF Ranked
  <2> QED BY <2>2, <2>3, <2>4, <1>1, <1>11, Concludes
<1> QED BY <1>7, <1>10, <1>12 DEF w, popped, first, second, a, h

(* The switch that fails at the j-th block of the other branch: the node   *)
(* is back on its own one.                                                 *)
LEMMA SwitchBad ==
    ASSUME NEW B, NEW D, NEW p, NEW n, NEW m, NEW x, Forked(B, D, p, n, m, x),
           NEW k, k = CommonNum(D, x, n.head), NEW j \in 1..Len(Branch(D, x, k)),
           NEW popped, popped = PopAll(D, m, Branch(D, n.head, k)),
           NEW good, good = SubSeq(Branch(D, x, k), 1, j - 1),
           NEW done, done = ApplyAll(D, popped, good)
    PROVE  After(D, m, ApplyAll(D, PopAll(D, Invalidate(D, done, Branch(D, x, k)[j]), good), Branch(D, n.head, k)))
<1> DEFINE h == n.head
           a == At(D, h, k)
           first == Branch(D, x, k)
           second == Branch(D, h, k)
           y == first[j]
           e == At(D, x, (k + j) - 1)
           v == Invalidate(D, done, y)
           u == PopAll(D, v, good)
           w == ApplyAll(D, u, second)
<1>0. Ready(B, D, p, n, m, x)
  BY DEF Forked
<1>1. /\ Tree(D) /\ h \in Ids(D) /\ x \in Ids(D) /\ m.head = h /\ m.fhead = x /\ m.committed \in Nat /\ OnPar(D, m)
  BY <1>0, ReadyFacts
<1>2. /\ k \in Nat \ {0} /\ k < Num(D, x) /\ k < Num(D, h) /\ m.committed + 1 <= k
      /\ (\A i \in 1..k : At(D, x, i) = At(D, h, i)) /\ x = Len(D)
      /\ \A i \in 1..Num(D, x) : i <= Num(D, h) /\ At(D, x, i) = At(D, h, i) => i <= k
  BY ForkPoint
<1>3. Num(D, x) \in Nat /\ Num(D, h) \in Nat /\ k \in 1..k /\ k \in 1..Num(D, h) /\ k <= Num(D, x) /\ k <= Num(D, h)
      /\ m.committed <= k
  BY <1>1, <1>2, TreeTypes
<1>4. /\ first \in Seq(Nat) /\ Len(first) = Num(D, x) - k /\ \A i \in 1..(Num(D, x) - k) : first[i] = At(D, x, k + i)
  BY <1>1, <1>2, <1>3, BranchFacts
<1>5. Len(second) = Num(D, h) - k /\ \A i \in 1..(Num(D, h) - k) : second[i] = At(D, h, k + i)
  <2>1. Tree(D) /\ h \in Ids(D) /\ k \in Nat /\ k <= Num(D, h)
    BY <1>1, <1>2, <1>3
  <2> HIDE DEF h
  <2> QED BY <2>1, BranchFacts
<1>6. Num(D, a) = k /\ a = At(D, x, k) /\ a \in Ids(D)
  BY <1>1, <1>2, <1>3, TreeFacts
<1>7. popped \in Beside(D, m, a)
  BY SwitchGood
<1>8. j \in 1..Len(first)
  OBVIOUS
<1>8a. j \in Nat \ {0} /\ j <= Num(D, x) - k /\ j - 1 \in Nat
  <2> HIDE DEF first
  <2> QED BY <1>3, <1>4, <1>8
<1>9. Len(good) = j - 1 /\ \A i \in 1..(j - 1) : good[i] = first[i]
  <2> HIDE DEF first
  <2> QED BY <1>4, <1>8, BeforeBad DEF first
<1> HIDE DEF h, a, first, second, y, e
<1>10. /\ popped \in Node /\ OnPar(D, popped) /\ popped.head = a /\ popped.index = m.index
       /\ popped.fhead = x /\ popped.committed = m.committed
  BY <1>1, <1>7 DEF Beside
<1>11. (k + j) - 1 = k + (j - 1) /\ (k + j) - 1 \in 1..Num(D, x) /\ k + j \in 1..Num(D, x) /\ k + j > k
       /\ k <= (k + j) - 1 /\ (k + j) - 1 \in Nat /\ k \in 1..((k + j) - 1)
  <2> DEFINE z == Num(D, x)
  <2>1. z \in Nat /\ k \in Nat /\ k # 0 /\ j \in Nat /\ j # 0 /\ j <= z - k /\ k < z
    BY <1>2, <1>3, <1>8a
  <2> HIDE DEF z
  <2>2. (k + j) - 1 = k + (j - 1) /\ k + j > k /\ k <= (k + j) - 1 /\ (k + j) - 1 \in Nat
    BY <2>1
  <2>3. k + j <= z /\ (k + j) - 1 <= z /\ 1 <= k + j /\ 1 <= (k + j) - 1 /\ 1 <= k
    BY <2>1
  <2>4. (k + j) - 1 \in 1..z /\ k + j \in 1..z /\ k \in 1..((k + j) - 1)
    BY <2>1, <2>2, <2>3
  <2> QED BY <2>2, <2>4 DEF z
<1>12. done \in Beside(D, popped, e)
  <2>1. /\ Num(D, popped.head) <= Num(D, x) /\ At(D, x, Num(D, popped.head)) = popped.head
        /\ Len(good) \in Nat /\ Num(D, popped.head) + Len(good) <= Num(D, x)
        /\ Num(D, popped.head) + Len(good) = (k + j) - 1
    BY <1>3, <1>6, <1>8a, <1>9, <1>10, <1>11
  <2>2. \A i \in 1..Len(good) : good[i] = At(D, x, Num(D, popped.head) + i)
    <3> SUFFICES ASSUME NEW i \in 1..(j - 1) PROVE good[i] = At(D, x, k + i)
      BY <1>6, <1>9, <1>10
    <3>1. i \in 1..(Num(D, x) - k)
      BY <1>3, <1>8a
    <3> QED BY <3>1, <1>4, <1>9
  <2>3. done \in Beside(D, popped, At(D, x, Num(D, popped.head) + Len(good)))
    BY <2>1, <2>2, <1>1, <1>10, ApplyAllOnPar
  <2> QED BY <2>1, <2>3 DEF e
<1>13. /\ OnPar(D, done) /\ done.head = e /\ done.index = m.index /\ done.committed = m.committed
  BY <1>10, <1>12 DEF Beside
<1>14. y \in Chain(D, Len(D)) /\ y \notin Chain(D, n.head)
  <2>1. y = At(D, x, k + j) /\ Num(D, y) = k + j
    <3>1. y = At(D, x, k + j)
      <4>1. j \in 1..(Num(D, x) - k)
        BY <1>3, <1>8a
      <4> QED BY <4>1, <1>4 DEF y
    <3> QED BY <3>1, <1>1, <1>11, TreeFacts
  <2>2. y \in Chain(D, x)
    BY <2>1, <1>1, <1>11, InChain
  <2>3. ASSUME y \in Chain(D, h) PROVE FALSE
    <3>1. k + j <= Num(D, h) /\ At(D, h, k + j) = y
      BY <2>1, <2>3, <1>1, InChain
    <3>2. k + j <= k
      BY <3>1, <2>1, <1>2, <1>11
    <3> QED BY <3>2, <1>2, <1>8a
  <2> QED BY <2>2, <2>3, <1>2 DEF h
<1>15. /\ OnPar(D, v) /\ v.head = e /\ v.fhead = h /\ v.committed = m.committed
       /\ Rooted(D, Held(v), m.committed + 1) /\ Ranked(D, v) /\ Top(D, Held(v), v.index, h)
  <2>1. /\ OnPar(D, v) /\ v.head = done.head /\ v.fhead = n.head /\ v.committed = m.committed
        /\ Rooted(D, Held(v), m.committed + 1) /\ Ranked(D, v) /\ Top(D, Held(v), v.index, n.head)
    BY <1>0, <1>13, <1>14, InvalidateStep
  <2> HIDE DEF v
  <2> QED BY <2>1, <1>13 DEF h
<1> HIDE DEF v
<1>16. Num(D, e) = (k + j) - 1 /\ e \in Ids(D) /\ At(D, e, k) = a
  BY <1>1, <1>6, <1>11, TreeFacts DEF e
<1>17. u \in Beside(D, v, a)
  <2>1. v.committed <= k /\ k <= Num(D, v.head) /\ Len(good) = Num(D, v.head) - k
    <3>1. v.committed = m.committed /\ Num(D, v.head) = (k + j) - 1 /\ Len(good) = j - 1
      BY <1>9, <1>15, <1>16
    <3>2. m.committed <= k /\ k <= (k + j) - 1 /\ j - 1 = ((k + j) - 1) - k
      BY <1>2, <1>3, <1>8a
    <3> QED BY <3>1, <3>2
  <2>2. u \in Beside(D, v, At(D, v.head, k))
    BY <2>1, <1>1, <1>2, <1>15, PopAllOnPar
  <2> QED BY <2>2, <1>15, <1>16
<1>18. /\ OnPar(D, u) /\ u.head = a /\ u.index = v.index /\ u.fhead = h /\ u.committed = m.committed
  BY <1>15, <1>17 DEF Beside
<1> HIDE DEF u
<1>19. w \in Beside(D, u, h)
  <2>1. /\ Num(D, u.head) <= Num(D, h) /\ At(D, h, Num(D, u.head)) = u.head
        /\ Len(second) \in Nat /\ Num(D, u.head) + Len(second) <= Num(D, h)
        /\ \A i \in 1..Len(second) : second[i] = At(D, h, Num(D, u.head) + i)
    BY <1>2, <1>3, <1>5, <1>6, <1>18 DEF a
  <2>2. w \in Beside(D, u, At(D, h, Num(D, u.head) + Len(second)))
    BY <2>1, <1>1, <1>18, ApplyAllOnPar
  <2>3. At(D, h, Num(D, u.head) + Len(second)) = h
    <3>1. Num(D, u.head) + Len(second) = Num(D, h)
      BY <1>2, <1>3, <1>5, <1>6, <1>18
    <3>2. At(D, h, Num(D, h)) = h
      BY <1>1, TreeFacts
    <3> QED BY <3>1, <3>2
  <2> QED BY <2>2, <2>3
<1>20. /\ OnPar(D, w) /\ w.head = h /\ w.index = v.index /\ w.fhead = h /\ w.committed = m.committed
  BY <1>18, <1>19 DEF Beside
<1> HIDE DEF w
<1>21. After(D, m, w)
  <2>1. Held(w) = Held(v)
    BY <1>20 DEF Held
  <2>2. Settled(D, m)
    BY <1>0, StaysSettled
  <2>3. At(D, w.head, m.committed + 1) = At(D, m.head, m.committed + 1)
    BY <1>1, <1>20
  <2>4. Rooted(D, Held(w), m.committed + 1) /\ Ranked(D, w) /\ Top(D, Held(w), w.index, w.head) /\ w.fhead = w.head
    BY <2>1, <1>15, <1>20 DEF Ranked
  <2> QED BY <2>2, <2>3, <2>4, <1>1, <1>20, Concludes
<1> QED BY <1>21 DEF w, u, v, y, first, second, h

(* The fork switch, whether a block of the other branch fails or not.      *)
LEMMA SwitchStep ==
    ASSUME NEW B, NEW D, NEW p, NEW n, NEW m, NEW x, Forked(B, D, p, n, m, x)
    PROVE  After(D, m, SwitchForks(D, m))
<1> DEFINE h == n.head
           k == CommonNum(D, x, h)
           first == Branch(D, x, k)
           second == Branch(D, h, k)
           popped == PopAll(D, m, second)
           bad == {i \in DOMAIN first : ~D[first[i]].good}
           j == Min(bad)
           good == SubSeq(first, 1, j - 1)
           done == ApplyAll(D, popped, good)
<1>0. Ready(B, D, p, n, m, x)
  BY DEF Forked
<1>1. /\ Tree(D) /\ h \in Ids(D) /\ x \in Ids(D) /\ m.head = h /\ m.fhead = x
  BY <1>0, ReadyFacts
<1>2. CommonKnown(D, m, k)
  BY BranchesHeld
<1>3. After(D, m, ApplyAll(D, popped, first))
  BY SwitchGood
<1>4. k \in Nat /\ k <= Num(D, x)
  <2>1. k \in Nat \ {0} /\ k < Num(D, x)
    BY ForkPoint
  <2>2. Num(D, x) \in Nat
    BY <1>1, TreeTypes
  <2> HIDE DEF k
  <2> QED BY <2>1, <2>2
<1>5. first \in Seq(Nat)
  <2> HIDE DEF k
  <2> QED BY <1>1, <1>4, BranchFacts
<1>6. CASE bad = {}
  <2>1. SwitchForks(D, m) = ApplyAll(D, popped, first)
    <3> HIDE DEF k
    <3> QED BY <1>1, <1>2, <1>6 DEF SwitchForks, k
  <2> QED BY <2>1, <1>3
<1>7. CASE bad # {}
  <2>1. bad \in SUBSET Nat /\ bad \in SUBSET (1..Len(first))
    <3> HIDE DEF first
    <3> QED BY <1>5
  <2>2. j \in bad
    <3> HIDE DEF bad
    <3> QED BY <2>1, <1>7, MinIs
  <2>3. j \in 1..Len(first)
    <3> HIDE DEF first, bad, j
    <3> QED BY <2>1, <2>2
  <2>4. SwitchForks(D, m) = ApplyAll(D, PopAll(D, Invalidate(D, done, first[j]), good), second)
    <3>1. m.head = n.head
      BY <1>1
    <3> QED BY <1>1, <1>2, <1>7 DEF SwitchForks
  <2>5. After(D, m, ApplyAll(D, PopAll(D, Invalidate(D, done, first[j]), good), second))
    <3> HIDE DEF j
    <3> QED BY <2>3, SwitchBad
  <2> QED BY <2>4, <2>5
<1> QED BY <1>6, <1>7

(* A block that is applied on the head.                                    *)
LEMMA ApplyStep ==
    ASSUME NEW B, NEW D, NEW p, NEW n, NEW m, NEW x, Ready(B, D, p, n, m, x), Prev(D, x) = n.head
    PROVE  After(D, m, ApplyBlock(D, m, x))
<1> DEFINE h == n.head
           w == ApplyBlock(D, m, x)
<1>1. /\ Tree(D) /\ h \in Ids(D) /\ x \in Ids(D) /\ m.head = h /\ m.fhead = x /\ m.committed \in Nat /\ OnPar(D, m)
      /\ Rooted(D, Held(m), m.committed + 1) /\ Ranked(D, m) /\ Top(D, Held(m), m.index, x)
      /\ m.committed + 1 <= Num(D, h)
  BY ReadyFacts
<1>2. /\ OnPar(D, w) /\ w.head = x /\ w.index = m.index /\ w.fhead = m.fhead /\ w.committed = m.committed
  <2>1. Prev(D, x) = m.head
    BY <1>1
  <2>2. Tree(D) /\ OnPar(D, m) /\ x \in Ids(D)
    BY <1>1
  <2> QED BY <2>1, <2>2, ApplyOnPar
<1> HIDE DEF w, h
<1>3. Num(D, x) # 1
  <2>1. h # 0
    BY <1>1 DEF Ids
  <2>2. Prev(D, x) = h
    BY DEF h
  <2> QED BY <2>1, <2>2 DEF Prev
<1>4. \A i \in 1..Num(D, h) : At(D, h, i) = At(D, x, i)
  <2>1. h = Prev(D, x)
    BY DEF h
  <2> QED BY <2>1, <1>1, <1>3, ChainBelow
<1>5. m.committed + 1 \in 1..Num(D, h)
  <2>1. Num(D, h) \in Nat
    BY <1>1, TreeTypes
  <2> QED BY <2>1, <1>1
<1>6. At(D, w.head, m.committed + 1) = At(D, m.head, m.committed + 1)
  BY <1>1, <1>2, <1>4, <1>5
<1>7. Held(w) = Held(m)
  BY <1>2 DEF Held
<1>8. Settled(D, m)
  BY StaysSettled
<1>9. Rooted(D, Held(w), m.committed + 1) /\ Ranked(D, w) /\ Top(D, Held(w), w.index, w.head) /\ w.fhead = w.head
  BY <1>1, <1>2, <1>7 DEF Ranked
<1>10. After(D, m, w)
  BY <1>1, <1>2, <1>6, <1>8, <1>9, Concludes
<1> QED BY <1>10 DEF w

(* What the controller does after add.                                     *)
LEMMA MaybeSwitchStep ==
    ASSUME NEW B, NEW D, NEW p, NEW n, NEW m, NEW x, Ready(B, D, p, n, m, x)
    PROVE  NoNullBranch(D, m) /\ After(D, m, MaybeSwitchForks(D, m))
<1> DEFINE h == n.head
<1>1. /\ Tree(B) /\ Tree(D) /\ p \in Ids(B) /\ Arrived(B, D, p) /\ h \in Ids(D) /\ h \in Ids(B) /\ x \in Ids(D)
      /\ m.head = h /\ m.fhead = x /\ m.committed \in Nat /\ OnPar(D, m) /\ Len(D) \in Ids(D)
      /\ Rooted(D, Held(m), m.committed + 1) /\ Ranked(D, m) /\ Top(D, Held(m), m.index, x) /\ x \in {h, Len(D)}
  BY ReadyFacts
<1>2. Settled(D, m)
  BY StaysSettled
<1>3. Prev(D, h) # h
  <2>1. CASE Num(D, h) = 1
    <3>1. h # 0
      BY <1>1 DEF Ids
    <3> QED BY <3>1, <2>1 DEF Prev
  <2>2. CASE Num(D, h) # 1
    <3>1. Num(D, Prev(D, h)) = Num(D, h) - 1 /\ Num(D, h) \in Nat
      BY <2>2, <1>1, ChainBelow, TreeTypes
    <3> HIDE DEF h
    <3> QED BY <3>1
  <2> QED BY <2>1, <2>2
<1>4. CASE Prev(D, x) = h
  <2>1. NoNullBranch(D, m)
    BY <1>1, <1>4 DEF NoNullBranch
  <2>2. CASE CanApply(D, m, x)
    <3>1. MaybeSwitchForks(D, m) = ApplyBlock(D, m, x)
      BY <1>1, <1>4, <2>2 DEF MaybeSwitchForks
    <3>2. After(D, m, ApplyBlock(D, m, x))
      BY <1>4, ApplyStep
    <3> QED BY <2>1, <3>1, <3>2
  <2>3. CASE ~CanApply(D, m, x)
    <3> DEFINE v == Invalidate(D, m, x)
    <3>1. MaybeSwitchForks(D, m) = v
      BY <1>1, <1>4, <2>3 DEF MaybeSwitchForks
    <3>2. x = Len(D)
      BY <1>1, <1>3, <1>4
    <3>3. x \in Chain(D, Len(D)) /\ x \notin Chain(D, n.head)
      <4>1. x \in Chain(D, x)
        <5>1. At(D, x, Num(D, x)) = x
          BY <1>1, TreeFacts
        <5>2. Num(D, x) \in Nat
          BY <1>1, TreeTypes
        <5> QED BY <5>1, <5>2, <1>1, InChain
      <4>2. OnPar(B, n)
        BY DEF Ready, Comes, ChainInv
      <4> QED BY <4>1, <4>2, <3>2, <1>1, NewIsNew
    <3>4. /\ OnPar(D, v) /\ v.head = m.head /\ v.fhead = h /\ v.committed = m.committed
          /\ Rooted(D, Held(v), m.committed + 1) /\ Ranked(D, v) /\ Top(D, Held(v), v.index, h)
      BY <3>3, <1>1, InvalidateStep
    <3> HIDE DEF v
    <3>5. After(D, m, v)
      BY <3>4, <1>1, <1>2, Concludes
    <3> QED BY <2>1, <3>1, <3>5
  <2> QED BY <2>2, <2>3
<1>5. CASE x = h
  <2>1. NoNullBranch(D, m)
    BY <1>1, <1>5 DEF NoNullBranch
  <2>2. MaybeSwitchForks(D, m) = m
    BY <1>1, <1>3, <1>5 DEF MaybeSwitchForks
  <2>3. After(D, m, m)
    <3>1. m.fhead = m.head /\ Top(D, Held(m), m.index, m.head)
      BY <1>1, <1>5
    <3> QED BY <3>1, <1>1, <1>2, Concludes
  <2> QED BY <2>1, <2>2, <2>3
<1>6. CASE Prev(D, x) # h /\ x # h
  <2>1. Forked(B, D, p, n, m, x)
    BY <1>6 DEF Forked
  <2>2. NoNullBranch(D, m) /\ After(D, m, SwitchForks(D, m))
    BY <2>1, BranchesHeld, SwitchStep
  <2>3. MaybeSwitchForks(D, m) = SwitchForks(D, m)
    BY <1>1, <1>6 DEF MaybeSwitchForks
  <2> QED BY <2>2, <2>3
<1> QED BY <1>4, <1>5, <1>6

-----------------------------------------------------------------------------
(* How a call changes the node: the invariant holds again, nothing that was*)
(* committed is left.                                                      *)
Moves(B, D, n, w) ==
    /\ ChainInv(D, w) /\ n.committed <= w.committed
    /\ \A i \in 1..n.committed : At(D, w.head, i) = At(B, n.head, i)

(* What maybe_switch_forks leaves is what the call as a whole may do.      *)
LEMMA AfterMoves ==
    ASSUME NEW B, NEW D, NEW p, NEW n, NEW m, NEW x, Ready(B, D, p, n, m, x), NEW w, After(D, m, w)
    PROVE  Moves(B, D, n, w)
<1> DEFINE h == n.head
           lo == m.committed + 1
<1>1. /\ Tree(B) /\ Tree(D) /\ p \in Ids(B) /\ Arrived(B, D, p) /\ h \in Ids(D) /\ h \in Ids(B)
      /\ m.head = h /\ m.committed \in Nat /\ n.committed \in Nat /\ lo <= Num(D, h)
  BY ReadyFacts
<1>2. ChainInv(D, w) /\ w.committed = m.committed /\ At(D, w.head, lo) = At(D, h, lo)
  BY <1>1 DEF After
<1>3. m.committed \in {n.committed, n.committed + 1}
  BY DEF Ready, Added
<1>4. w.head \in Ids(D) /\ Num(D, w.head) >= lo
  <2>1. OnPar(D, w) /\ Rooted(D, Held(w), w.committed + 1) /\ Top(D, Held(w), w.index, w.head)
    BY <1>2 DEF ChainInv
  <2> QED BY <2>1, <1>2 DEF OnPar, Rooted, Top
<1>5. Num(D, h) \in Nat /\ Num(D, w.head) \in Nat
  BY <1>1, <1>4, TreeTypes
<1>6. lo \in 1..Num(D, w.head) /\ lo <= Num(D, h)
  BY <1>1, <1>4, <1>5
<1>7. \A i \in 1..lo : At(D, w.head, i) = At(D, h, i)
  <2> HIDE DEF lo, h
  <2> QED BY <1>1, <1>2, <1>4, <1>6, ChainsMeet
<1>8. \A i \in 1..n.committed : i \in 1..lo
  BY <1>1, <1>3
<1>9. \A i : At(D, h, i) = At(B, h, i)
  BY <1>1, OldSame
<1>10. n.committed <= w.committed
  BY <1>1, <1>2, <1>3
<1> HIDE DEF lo
<1> QED BY <1>2, <1>7, <1>8, <1>9, <1>10 DEF Moves

(* What push_block makes of a node.                                        *)
Pushed(D, n, b) ==
    LET m == AddToForkDb(D, n, b)
    IN IF DOMAIN m.index = {} THEN [m EXCEPT !.broken = TRUE]
       ELSE IF AddThrows(D, n, b) THEN m
       ELSE IF NoNullBranch(D, m) THEN MaybeSwitchForks(D, m)
       ELSE [m EXCEPT !.broken = TRUE]

(* push_block keeps the invariant and every committed block.               *)
LEMMA PushStep ==
    ASSUME NEW B, NEW D, NEW p \in Ids(B), Arrived(B, D, p), NEW n, ChainInv(B, n), p \in Held(n), Fits(B, D, p, n.head)
    PROVE  Moves(B, D, n, Pushed(D, n, Len(D)))
<1> DEFINE x == IF Better(D, Len(D), n.head) THEN Len(D) ELSE n.head
           M == n.marked
<1>1. Comes(B, D, p, n, M, x)
  BY DEF Comes
<1>2. n \in Node /\ WithMarks(n, M) = n
  <2>1. n \in Node
    BY DEF ChainInv, OnPar
  <2> QED BY <2>1, MarksSame
<1> HIDE DEF x
<1>3. /\ ~AddThrows(D, WithMarks(n, M), Len(D))
      /\ \E m : Added(D, n, m, x) /\ AddToForkDb(D, WithMarks(n, M), Len(D)) = WithMarks(m, M)
  BY <1>1, AddStep
<1>4. PICK m : Added(D, n, m, x) /\ AddToForkDb(D, n, Len(D)) = WithMarks(m, M)
  BY <1>2, <1>3
<1>5. Ready(B, D, p, n, m, x)
  BY <1>1, <1>4 DEF Ready
<1>6. m \in Node /\ m.marked = M /\ DOMAIN m.index # {}
  <2>1. n.head \in DOMAIN m.index
    BY <1>5, ReadyFacts DEF Held
  <2> QED BY <2>1, <1>4 DEF Added, OnPar
<1>7. AddToForkDb(D, n, Len(D)) = m
  BY <1>4, <1>6, MarksSame
<1>8. NoNullBranch(D, m) /\ After(D, m, MaybeSwitchForks(D, m))
  BY <1>5, MaybeSwitchStep
<1>9. Pushed(D, n, Len(D)) = MaybeSwitchForks(D, m)
  BY <1>2, <1>3, <1>6, <1>7, <1>8 DEF Pushed
<1>10. Moves(B, D, n, MaybeSwitchForks(D, m))
  BY <1>5, <1>8, AfterMoves
<1> QED BY <1>9, <1>10

(* What commit_block makes of a node.                                      *)
Committed(D, n, b) ==
    LET u == [n EXCEPT !.marked = @ \cup {b}]
        m == AddToForkDb(D, u, b)
    IN IF DOMAIN m.index = {} THEN [m EXCEPT !.broken = TRUE]
       ELSE IF AddThrows(D, u, b) THEN m
       ELSE IF m.fhead = b THEN ApplyBlock(D, m, b)
       ELSE [m EXCEPT !.head = m.fhead]

(* commit_block keeps the invariant and every committed block.             *)
LEMMA CommitStep ==
    ASSUME NEW B, NEW D, NEW n, ChainInv(B, n), Arrived(B, D, n.head), Fits(B, D, n.head, n.head)
    PROVE  Moves(B, D, n, Committed(D, n, Len(D)))
<1> DEFINE b == Len(D)
           h == n.head
           M == n.marked \cup {b}
           u == WithMarks(n, M)
<1>0. Tree(B) /\ OnPar(B, n) /\ h \in Held(n) /\ n \in Node /\ h \in Ids(B)
  BY DEF ChainInv, Top, OnPar
<1>0a. b \in Nat /\ b # h /\ Tree(D) /\ b \in Ids(D)
  BY <1>0, OldSame, TreeGrows
<1>1. Better(D, b, h)
  <2>1. Num(D, b) = Num(B, h) + 1 /\ B[h].lib <= D[b].lib /\ D[b].lib \in Nat /\ Num(B, h) \in Nat
    BY <1>0, NewChain, TreeTypes
  <2>2. Num(D, h) = Num(B, h) /\ D[h].lib = B[h].lib
    BY <1>0, OldSame
  <2>3. B[h].lib \in Nat
    BY <1>0, TreeTypes
  <2> HIDE DEF b, h
  <2> QED BY <2>1, <2>2, <2>3 DEF Better
<1>2. Comes(B, D, h, n, M, b) /\ Comes(B, D, h, n, n.marked, b)
  BY <1>0, <1>1 DEF Comes
<1> HIDE DEF b, M
<1>3. ~AddThrows(D, u, b) /\ \E m : Added(D, n, m, b) /\ AddToForkDb(D, u, b) = WithMarks(m, M)
  BY <1>2, AddStep DEF b
<1>4. PICK m : Added(D, n, m, b) /\ AddToForkDb(D, u, b) = WithMarks(m, M)
  BY <1>3
<1>5. Ready(B, D, h, n, m, b)
  BY <1>2, <1>4 DEF Ready
<1>6. m \in Node /\ m.marked = n.marked /\ DOMAIN m.index # {} /\ m.fhead = b
  <2>1. n.head \in DOMAIN m.index
    BY <1>5, ReadyFacts DEF Held
  <2> QED BY <2>1, <1>4 DEF Added, OnPar
<1>7. n.marked \in SUBSET Nat /\ M \in SUBSET Nat /\ M = m.marked \cup {b}
  BY <1>0, <1>0a, <1>6, NodeTypes DEF M
<1>8. MarksAre(WithMarks(m, M), m, M)
  BY <1>6, <1>7, MarkFields
<1>9. [n EXCEPT !.marked = @ \cup {b}] = u
  BY <1>0 DEF WithMarks, M, Node
<1> HIDE DEF u
<1>10. Committed(D, n, b) = ApplyBlock(D, WithMarks(m, M), b)
  <2> DEFINE q == WithMarks(m, M)
  <2>1. AddToForkDb(D, u, b) = q /\ q.index = m.index /\ q.fhead = b
    BY <1>4, <1>6, <1>8 DEF MarksAre
  <2> HIDE DEF q
  <2>2. Committed(D, n, b) = ApplyBlock(D, q, b)
    BY <2>1, <1>3, <1>6, <1>9 DEF Committed
  <2> QED BY <2>2 DEF q
<1>11. ApplyBlock(D, WithMarks(m, M), b) = ApplyBlock(D, m, b)
  BY <1>0a, <1>6, <1>7, ApplyMarked
<1>12. Prev(D, b) = n.head
  BY <1>0, NewChain DEF b
<1>13. Moves(B, D, n, ApplyBlock(D, m, b))
  BY <1>5, <1>12, ApplyStep, AfterMoves
<1> QED BY <1>10, <1>11, <1>13 DEF b

(* A sequence is a prefix when it agrees with the other one as far as it   *)
(* goes.                                                                   *)
LEMMA PrefixAgrees ==
    ASSUME NEW s \in Seq(Nat), NEW t \in Seq(Nat)
    PROVE  IsPrefix(s, t) <=> Len(s) <= Len(t) /\ \A i \in 1..Len(s) : s[i] = t[i]
<1> DEFINE z == Len(s)
<1>0. z \in Nat /\ Len(t) \in Nat
  OBVIOUS
<1>1. SubSeq(s, 1, z) = s
  <2>1. SubSeq(s, 1, z) \in Seq(Nat) /\ Len(SubSeq(s, 1, z)) = z /\ \A i \in 1..z : SubSeq(s, 1, z)[i] = s[i]
    BY FirstOf
  <2> QED BY <2>1, SeqEqual
<1>2. CASE z <= Len(t)
  <2> DEFINE u == SubSeq(t, 1, z)
  <2>1. u \in Seq(Nat) /\ Len(u) = z /\ \A i \in 1..z : u[i] = t[i]
    <3> HIDE DEF z
    <3> QED BY <1>0, <1>2, FirstOf
  <2>2. IsPrefix(s, t) <=> s = u
    BY <1>1, <1>2 DEF IsPrefix
  <2> HIDE DEF u
  <2>3. s = u <=> \A i \in 1..z : s[i] = u[i]
    BY <2>1, SeqEqual
  <2> QED BY <2>1, <2>2, <2>3, <1>2
<1>3. CASE ~(z <= Len(t))
  BY <1>3 DEF IsPrefix
<1> QED BY <1>2, <1>3

-----------------------------------------------------------------------------
(* The block that arrives is one that the lemmas are about.                *)
LEMMA BlockArrives ==
    ASSUME ~LateForks, ChainInv(blocks, node), NEW p \in DOMAIN node.index, NEW b \in NewBlocks(p),
           NEW D, D = Append(blocks, b)
    PROVE  p \in Ids(blocks) /\ Arrived(blocks, D, p) /\ Fits(blocks, D, p, node.head)
<1> DEFINE B == blocks
           z == Len(B)
<1>1. Tree(B) /\ OnPar(B, node)
  BY DEF ChainInv
<1>2. p \in Ids(B) /\ B \in Seq(BlockRec) /\ z \in Nat
  BY <1>1 DEF OnPar, Held, Tree
<1>3. B[p].chain \in Seq(Nat) /\ B[p].lib \in Nat /\ Num(B, p) \in Nat
  BY <1>1, <1>2, TreeTypes
<1>4. /\ b.chain = Append(B[p].chain, z + 1) /\ b.lib \in B[p].lib..Num(B, p) /\ b.good \in BOOLEAN
      /\ b \in [chain : {Append(B[p].chain, z + 1)}, lib : B[p].lib..Num(B, p), good : BOOLEAN]
      /\ ForkSettled(b, p)
  BY DEF NewBlocks
<1>5. b \in BlockRec
  <2>1. Append(B[p].chain, z + 1) \in Seq(Nat)
    BY <1>2, <1>3
  <2>2. \A i \in B[p].lib..Num(B, p) : i \in Nat
    BY <1>3
  <2> QED BY <2>1, <2>2, <1>4 DEF BlockRec
<1>6. D \in Seq(BlockRec) /\ Len(D) = z + 1 /\ D[z + 1] = b /\ \A c \in 1..z : D[c] = B[c]
  <2> HIDE DEF B
  <2> QED BY <1>2, <1>5 DEF B
<1>7. Arrived(B, D, p)
  BY <1>4, <1>6 DEF Arrived, Ids
<1>8. ASSUME NEW c \in Ids(B), NEW i \in 1..B[c].lib
      PROVE  At(D, Len(D), i) = At(B, c, i)
  <2> DEFINE s == B[c].chain
             l == B[c].lib
             f == SubSeq(s, 1, l)
  <2>1. s \in Seq(Nat) /\ l \in Nat /\ l < Num(B, c)
    BY <1>1, TreeTypes, TreeFacts
  <2>2. l <= Len(s)
    BY <2>1 DEF Num
  <2>3. B[c] \in Range(B)
    BY <1>2 DEF Range, Ids
  <2>4. IsPrefix(f, b.chain)
    BY <2>3, <1>4 DEF ForkSettled, Final
  <2>5. b.chain \in Seq(Nat)
    BY <1>5 DEF BlockRec
  <2>6. i \in 1..l /\ At(B, c, i) = s[i] /\ At(D, Len(D), i) = b.chain[i]
    BY <1>6 DEF At
  <2> HIDE DEF s, l
  <2>7. f \in Seq(Nat) /\ Len(f) = l /\ \A j \in 1..l : f[j] = s[j]
    BY <2>1, <2>2, FirstOf
  <2> HIDE DEF f
  <2>8. \A j \in 1..Len(f) : f[j] = b.chain[j]
    BY <2>4, <2>5, <2>7, PrefixAgrees
  <2> QED BY <2>6, <2>7, <2>8
<1>9. p = node.head \/ D[Len(D)].lib <= CommonNum(B, p, node.head)
  BY <1>4, <1>6 DEF ForkSettled
<1> QED BY <1>2, <1>7, <1>8, <1>9 DEF Fits

(* The inductive invariant: what holds until the first restart.            *)
Inv == restarts \in Nat /\ (restarts = 0 => ChainInv(blocks, node))

(* It holds of a new chain.                                                *)
LEMMA InvInit == Init => Inv
<1> SUFFICES ASSUME Init PROVE Inv
  OBVIOUS
<1> DEFINE B == blocks
           n == node
<1>1. B = <<Genesis>> /\ n = InitNode /\ restarts = 0
  BY DEF Init
<1>2. Len(B) = 1 /\ B[1] = Genesis /\ Genesis \in BlockRec /\ Ids(B) = {1}
  <2>1. Genesis \in BlockRec
    BY DEF Genesis, BlockRec
  <2> QED BY <2>1, <1>1 DEF Ids
<1>3. B \in Seq(BlockRec)
  BY <1>1, <1>2
<1>4. B[1].chain = <<1>> /\ B[1].lib = 0 /\ Num(B, 1) = 1 /\ At(B, 1, 1) = 1
  BY <1>2 DEF Genesis, Num, At
<1>5. Chain(B, 1) = {1}
  BY <1>4 DEF Chain, Range
<1> HIDE DEF B
<1>6. Tree(B)
  <2>1. TreeAt(B, 1)
    BY <1>4 DEF TreeAt
  <2> QED BY <2>1, <1>2, <1>3 DEF Tree
<1>7. /\ n.index = [b \in {1} |-> 1] /\ n.fhead = 1 /\ n.marked = {} /\ n.head = 1 /\ n.applied = <<1>>
      /\ n.committed = 0 /\ n.reversible = {} /\ n.blog = <<1>> /\ n.broken = FALSE
  BY <1>1 DEF InitNode
<1>8. n \in Node
  <2>1. [b \in {1} |-> 1] \in Indexes
    <3>1. [b \in {1} |-> 1] \in [{1} -> Nat] /\ {1} \in SUBSET Nat
      OBVIOUS
    <3> QED BY <3>1 DEF Indexes
  <2>2. <<1>> \in Seq(Nat)
    OBVIOUS
  <2> QED BY <2>1, <2>2, <1>1 DEF InitNode, Node
<1> HIDE DEF n
<1>9. Held(n) = {1} /\ n.index[1] = 1
  BY <1>7 DEF Held
<1>10. OnPar(B, n)
  <2>1. Applied(B, n)
    BY <1>4, <1>7 DEF Applied
  <2>2. Marks(B, n)
    BY <1>5, <1>7, <1>9 DEF Marks
  <2>3. Unsettled(B, n)
    BY <1>5, <1>7 DEF Unsettled
  <2>4. Logged(B, n)
    BY <1>4, <1>7 DEF Logged
  <2> QED BY <2>1, <2>2, <2>3, <2>4, <1>2, <1>7, <1>8, <1>9 DEF OnPar
<1>11. Rooted(B, Held(n), n.committed + 1)
  <2>1. \A i \in 1..1 : i = 1
    OBVIOUS
  <2>2. 0 + 1 = 1 /\ 1 - 1 = 0 /\ \A i \in 1..0 : FALSE
    OBVIOUS
  <2> QED BY <2>1, <2>2, <1>2, <1>4, <1>7, <1>9 DEF Rooted
<1>12. Ranked(B, n) /\ Top(B, Held(n), n.index, n.head) /\ Settled(B, n)
  BY <1>2, <1>7, <1>9 DEF Ranked, Top, Settled
<1>13. ChainInv(B, n)
  BY <1>6, <1>7, <1>10, <1>11, <1>12 DEF ChainInv
<1> QED BY <1>1, <1>13 DEF Inv, B, n

(* One step of a node that was not restarted.                              *)
LEMMA StepMoves ==
    ASSUME ~LateForks, ChainInv(blocks, node), Next, ~Restart
    PROVE  Moves(blocks, blocks', node, node')
<1>1. CASE PushBlock
  <2>1. PICK p \in DOMAIN node.index : \E b \in NewBlocks(p) :
           /\ blocks' = Append(blocks, b) /\ node' = Pushed(Append(blocks, b), node, Len(Append(blocks, b)))
    BY <1>1 DEF PushBlock, Pushed
  <2>2. PICK b \in NewBlocks(p) :
           /\ blocks' = Append(blocks, b) /\ node' = Pushed(Append(blocks, b), node, Len(Append(blocks, b)))
    BY <2>1
  <2> DEFINE D == Append(blocks, b)
  <2>3. p \in Ids(blocks) /\ Arrived(blocks, D, p) /\ Fits(blocks, D, p, node.head)
    BY BlockArrives
  <2>4. blocks' = D /\ node' = Pushed(D, node, Len(D)) /\ p \in Held(node)
    BY <2>2 DEF Held
  <2> HIDE DEF D
  <2>5. Moves(blocks, D, node, Pushed(D, node, Len(D)))
    BY <2>3, <2>4, PushStep
  <2> QED BY <2>4, <2>5
<1>2. CASE CommitBlock
  <2>1. PICK b \in NewBlocks(node.head) :
           /\ blocks' = Append(blocks, b) /\ node' = Committed(Append(blocks, b), node, Len(Append(blocks, b)))
    BY <1>2 DEF CommitBlock, Committed
  <2> DEFINE D == Append(blocks, b)
  <2>2. node.head \in DOMAIN node.index
    BY DEF ChainInv, Top, Held
  <2>3. Arrived(blocks, D, node.head) /\ Fits(blocks, D, node.head, node.head)
    BY <2>2, BlockArrives
  <2>4. blocks' = D /\ node' = Committed(D, node, Len(D))
    BY <2>1
  <2> HIDE DEF D
  <2>5. Moves(blocks, D, node, Committed(D, node, Len(D)))
    BY <2>3, CommitStep
  <2> QED BY <2>4, <2>5
<1> QED BY <1>1, <1>2 DEF Next

(* Only a restart counts as one, and none is undone.                       *)
LEMMA RestartsCounted ==
    ASSUME restarts \in Nat, [Next]_vars
    PROVE  restarts' \in Nat /\ (restarts' = 0 => restarts = 0 /\ ~Restart)
<1>1. CASE Restart
  <2>1. restarts' = restarts + 1
    BY <1>1 DEF Restart
  <2> QED BY <2>1
<1>2. CASE ~Restart
  BY <1>2 DEF Next, PushBlock, CommitBlock, vars
<1> QED BY <1>1, <1>2

(* Every step keeps the invariant.                                         *)
LEMMA InvNext == ~LateForks => (Inv /\ [Next]_vars => Inv')
<1> SUFFICES ASSUME ~LateForks, Inv, [Next]_vars, restarts' = 0 PROVE ChainInv(blocks, node)'
  BY RestartsCounted DEF Inv
<1>1. ChainInv(blocks, node) /\ ~Restart
  BY RestartsCounted DEF Inv
<1>2. CASE Next
  BY <1>1, <1>2, StepMoves DEF Moves
<1>3. CASE UNCHANGED vars
  BY <1>1, <1>3 DEF vars
<1> QED BY <1>2, <1>3

(* The greatest of a set of numbers, when it is known.                     *)
LEMMA MaxIs ==
    ASSUME NEW S \in SUBSET Nat, NEW z \in S, \A y \in S : y <= z
    PROVE  Max(S) = z
<1>1. \A y \in S : z >= y
  OBVIOUS
<1>2. Max(S) \in S /\ \A y \in S : Max(S) >= y
  BY <1>1 DEF Max
<1> DEFINE m == Max(S)
<1>3. m \in Nat /\ z \in Nat /\ m >= z /\ m <= z
  BY <1>2
<1> HIDE DEF m
<1>4. m = z
  BY <1>3
<1> QED BY <1>4 DEF m

(* init would accept the node: the reversible blocks end at the head.      *)
LEMMA InitWouldAccept ==
    ASSUME ChainInv(blocks, node)
    PROVE  InitAccepts(node)
<1> DEFINE B == blocks
           n == node
           h == n.head
           z == Num(B, h)
           N == {Num(B, r) : r \in n.reversible}
<1>1. Tree(B) /\ OnPar(B, n) /\ n.fhead = h
  BY DEF ChainInv
<1>2. n \in Node /\ h \in Ids(B) /\ n.committed \in Nat /\ n.blog \in Seq(Nat)
  BY <1>1, NodeTypes DEF OnPar
<1>3. z \in Nat \ {0} /\ At(B, h, z) = h /\ n.committed <= z
  BY <1>1, <1>2, TreeFacts, CommittedBelow
<1>4. n.reversible = {c \in Chain(B, h) : c # 1 /\ Num(B, c) > n.committed}
  BY <1>1 DEF OnPar, Unsettled
<1>5. /\ Len(n.blog) = (IF n.committed = 0 THEN 1 ELSE n.committed) /\ Len(n.blog) <= z /\ Len(n.blog) \in Nat
  BY <1>1, <1>2 DEF OnPar, Logged
<1>6. Len(n.applied) = z
  BY <1>1 DEF OnPar, Applied
<1>7. \A c \in Chain(B, h) : c \in Ids(B) /\ Num(B, c) \in Nat /\ Num(B, c) <= z
  BY <1>1, <1>2, InChain, TreeTypes
<1>8. h \in Chain(B, h) /\ (z = 1 <=> h = 1)
  <2>1. h \in Chain(B, h)
    BY <1>1, <1>2, <1>3, InChain
  <2>2. z = 1 => h = 1
    BY <1>1, <1>2, <1>3, TreeFacts
  <2>3. h = 1 => z = 1
    <3>1. 1 \in 1..z /\ At(B, h, 1) = 1
      BY <1>1, <1>2, <1>3, TreeFacts
    <3>2. Num(B, At(B, h, 1)) = 1
      BY <3>1, <1>1, <1>2, TreeFacts
    <3> QED BY <3>1, <3>2
  <2> QED BY <2>1, <2>2, <2>3
<1> HIDE DEF B, n, h, z
<1>9. CASE n.reversible = {}
  <2>1. h = 1 \/ ~(z > n.committed)
    BY <1>4, <1>8, <1>9 DEF z
  <2>2. Len(n.blog) = z
    BY <2>1, <1>2, <1>3, <1>5, <1>8
  <2> QED BY <2>2, <1>1, <1>3, <1>6, <1>9 DEF InitAccepts, B, n, z
<1>10. CASE n.reversible # {}
  <2>1. PICK r \in n.reversible : TRUE
    BY <1>10
  <2>2. r \in Chain(B, h) /\ r # 1 /\ Num(B, r) > n.committed /\ Num(B, r) \in Nat /\ Num(B, r) <= z
    BY <2>1, <1>4, <1>7
  <2>3. z > n.committed
    BY <2>2, <1>2, <1>3
  <2>4. h # 1
    <3> SUFFICES ASSUME h = 1 PROVE FALSE
      OBVIOUS
    <3>1. z = 1 /\ Chain(B, h) = {At(B, h, i) : i \in 1..1}
      BY <1>1, <1>2, <1>8, InChain DEF z
    <3>2. At(B, h, 1) = 1
      BY <1>1, <1>2, TreeFacts
    <3> QED BY <3>1, <3>2, <2>2
  <2>5. h \in n.reversible
    BY <2>3, <2>4, <1>4, <1>8 DEF z
  <2>6. N \in SUBSET Nat /\ z \in N /\ \A y \in N : y <= z
    <3>1. \A c \in n.reversible : Num(B, c) \in Nat /\ Num(B, c) <= z
      BY <1>4, <1>7
    <3> QED BY <3>1, <2>5 DEF z
  <2>7. Max(N) = z
    <3> HIDE DEF N
    <3> QED BY <2>6, MaxIs
  <2> QED BY <2>7, <1>1, <1>3, <1>6, <1>10 DEF InitAccepts, B, n, z
<1> QED BY <1>9, <1>10

(* What the invariant says of a state.                                     *)
LEMMA InvFacts ==
    ASSUME ChainInv(blocks, node)
    PROVE  HeadIsBest /\ StateMatchesHead /\ MarksFollowHead /\ ReversibleIsTail /\ NeverBroken /\ BlogIsPrefix
<1> DEFINE h == node.head
           s == HeadChain
<1>1. /\ Tree(blocks) /\ OnPar(blocks, node) /\ Top(blocks, Held(node), node.index, h) /\ node.fhead = h
      /\ ChainInv(blocks, node)
  BY DEF ChainInv
<1>2. /\ node \in Node /\ h \in Ids(blocks) /\ Held(node) \in SUBSET Ids(blocks)
      /\ node.applied \in Seq(Nat) /\ node.blog \in Seq(Nat)
  BY <1>1, NodeTypes DEF OnPar
<1>3. s \in Seq(Nat) /\ Len(s) = Num(blocks, h) /\ (\A i : s[i] = At(blocks, h, i)) /\ Range(s) = Chain(blocks, h)
  BY <1>1, <1>2, TreeTypes DEF HeadChain, Num, At, Chain
<1>4. HeadIsBest
  <2>1. h \in DOMAIN node.index
    BY <1>1 DEF Top, Held
  <2>2. \A b \in DOMAIN node.index : ~Better(blocks, b, h)
    BY <1>1, <1>2, NoneBetter DEF Held
  <2>3. InitAccepts(node)
    BY <1>1, InitWouldAccept
  <2> QED BY <2>1, <2>2, <2>3, <1>1 DEF HeadIsBest
<1>5. StateMatchesHead
  <2>1. Len(node.applied) = Len(s) /\ \A i \in 1..Len(node.applied) : node.applied[i] = s[i]
    BY <1>1, <1>3 DEF OnPar, Applied
  <2> HIDE DEF s
  <2>2. node.applied = s
    BY <2>1, <1>2, <1>3, SeqEqual
  <2> QED BY <2>2 DEF StateMatchesHead, s
<1>6. MarksFollowHead
  BY <1>1, <1>3 DEF MarksFollowHead, OnPar, Marks, Held
<1>7. ReversibleIsTail
  BY <1>1, <1>3 DEF ReversibleIsTail, OnPar, Unsettled
<1>8. NeverBroken
  BY <1>1 DEF NeverBroken, OnPar
<1>9. BlogIsPrefix
  <2>1. Len(node.blog) <= Len(s) /\ \A i \in 1..Len(node.blog) : node.blog[i] = s[i]
    BY <1>1, <1>3 DEF OnPar, Logged
  <2> HIDE DEF s
  <2>2. IsPrefix(node.blog, s)
    BY <2>1, <1>2, <1>3, PrefixAgrees
  <2> QED BY <2>2 DEF BlogIsPrefix, s
<1> QED BY <1>4, <1>5, <1>6, <1>7, <1>8, <1>9

(* A step of the node is a step of the finalized chain.                    *)
LEMMA StepFinal ==
    ASSUME ~LateForks, ChainInv(blocks, node), Next, ~Restart
    PROVE  FinalizedChain!Next
<1> DEFINE B == blocks
           D == blocks'
           n == node
           w == node'
           s == HeadChain
           t == D[w.head].chain
           k == n.committed
           f == SubSeq(s, 1, k)
<1>1. Moves(B, D, n, w) /\ ChainInv(B, n)
  BY StepMoves
<1>2. /\ ChainInv(D, w) /\ k <= w.committed /\ \A i \in 1..k : At(D, w.head, i) = At(B, n.head, i)
  BY <1>1 DEF Moves
<1>3. Tree(B) /\ OnPar(B, n) /\ Tree(D) /\ OnPar(D, w)
  BY <1>1, <1>2 DEF ChainInv
<1>4. n.head \in Ids(B) /\ w.head \in Ids(D)
  BY <1>3 DEF OnPar
<1>5. s \in Seq(Nat) /\ Len(s) = Num(B, n.head) /\ \A i : s[i] = At(B, n.head, i)
  BY <1>3, <1>4, TreeTypes DEF HeadChain, Num, At
<1>6. t \in Seq(Nat) /\ Len(t) = Num(D, w.head) /\ \A i : t[i] = At(D, w.head, i)
  BY <1>3, <1>4, TreeTypes DEF Num, At
<1>7. k \in Nat /\ k <= Num(B, n.head)
  BY <1>3, CommittedBelow
<1>8. w.committed \in Nat /\ w.committed <= Num(D, w.head)
  <2> HIDE DEF D, w
  <2> QED BY <1>3, CommittedBelow
<1>9. s' = t
  BY DEF HeadChain
<1> HIDE DEF s, t, k, B, D, n, w
<1>10. f \in Seq(Nat) /\ Len(f) = k /\ \A i \in 1..k : f[i] = s[i]
  BY <1>5, <1>7, FirstOf
<1> HIDE DEF f
<1>11. IsPrefix(f, t)
  <2>1. Len(f) <= Len(t)
    <3>1. Num(D, w.head) \in Nat
      BY <1>6
    <3> QED BY <3>1, <1>2, <1>6, <1>7, <1>8, <1>10
  <2>2. \A i \in 1..Len(f) : f[i] = t[i]
    BY <1>2, <1>5, <1>6, <1>10
  <2> QED BY <2>1, <2>2, <1>6, <1>10, PrefixAgrees
<1>12. w.committed >= k /\ w.committed <= Len(t)
  BY <1>2, <1>6, <1>7, <1>8
<1>13. IsPrefix(SubSeq(HeadChain, 1, node.committed), HeadChain')
  BY <1>9, <1>11 DEF f, s, k, n
<1>14. node'.committed >= node.committed /\ node'.committed <= Len(HeadChain')
  BY <1>9, <1>12 DEF s, k, n, w
<1> QED BY <1>13, <1>14 DEF FinalizedChain!Next, FinalizedChain!IsPrefix, IsPrefix

(* The invariant of every state.                                           *)
LEMMA InvAlways == ~LateForks => (Spec => []Inv)
<1> SUFFICES ASSUME ~LateForks PROVE Spec => []Inv
  OBVIOUS
<1>1. Init => Inv
  BY InvInit
<1>2. Inv /\ [Next]_vars => Inv'
  BY InvNext
<1> QED BY <1>1, <1>2, PTL DEF Spec

(* The controller's head is the best block of the fork database after every*)
(* push_block and commit_block of a node that was not restarted, whatever  *)
(* forks were built, switched to or refused half way, and init would accept*)
(* what is on disk.                                                        *)
THEOREM BestFollowed == ~LateForks => (Spec => []HeadIsBest)
<1> SUFFICES ASSUME ~LateForks PROVE Spec => []HeadIsBest
  OBVIOUS
<1>1. Inv => HeadIsBest
  <2>1. restarts # 0 => HeadIsBest
    BY DEF HeadIsBest
  <2> QED BY <2>1, InvFacts DEF Inv
<1>2. Spec => []Inv
  BY InvAlways
<1> QED BY <1>1, <1>2, PTL

(* The state databases hold the effects of exactly the blocks of the head's*)
(* chain, in their order: a fork switch pops and applies what it should,   *)
(* and one that fails puts everything back (maybe_switch_forks, pop_block, *)
(* apply_block).                                                           *)
THEOREM StateFollows == ~LateForks => (Spec => [](restarts = 0 => StateMatchesHead))
<1> SUFFICES ASSUME ~LateForks PROVE Spec => [](restarts = 0 => StateMatchesHead)
  OBVIOUS
<1>1. Inv => (restarts = 0 => StateMatchesHead)
  BY InvFacts DEF Inv
<1>2. Spec => []Inv
  BY InvAlways
<1> QED BY <1>1, <1>2, PTL

(* Of the blocks of the fork database exactly those of the head's chain are*)
(* marked, on which prune and get_block_in_current_chain_by_num rely.      *)
THEOREM MarksFollow == ~LateForks => (Spec => []MarksFollowHead)
<1> SUFFICES ASSUME ~LateForks PROVE Spec => []MarksFollowHead
  OBVIOUS
<1>1. Inv => MarksFollowHead
  <2>1. restarts # 0 => MarksFollowHead
    BY DEF MarksFollowHead
  <2> QED BY <2>1, InvFacts DEF Inv
<1>2. Spec => []Inv
  BY InvAlways
<1> QED BY <1>1, <1>2, PTL

(* The reversible block database is the part of the head's chain above the *)
(* last committed block, through every fork switch and every call of       *)
(* on_irreversible.                                                        *)
THEOREM ReversibleKept == ~LateForks => (Spec => [](restarts = 0 => ReversibleIsTail))
<1> SUFFICES ASSUME ~LateForks PROVE Spec => [](restarts = 0 => ReversibleIsTail)
  OBVIOUS
<1>1. Inv => (restarts = 0 => ReversibleIsTail)
  BY InvFacts DEF Inv
<1>2. Spec => []Inv
  BY InvAlways
<1> QED BY <1>1, <1>2, PTL

(* The fork database is never empty when its first entry is taken, and no  *)
(* branch of a fork switch leads through a block it has dropped: neither is*)
(* checked in add, prune, remove and fetch_branch_from.                    *)
THEOREM NeverBreaks == ~LateForks => (Spec => [](restarts = 0 => NeverBroken))
<1> SUFFICES ASSUME ~LateForks PROVE Spec => [](restarts = 0 => NeverBroken)
  OBVIOUS
<1>1. Inv => (restarts = 0 => NeverBroken)
  BY InvFacts DEF Inv
<1>2. Spec => []Inv
  BY InvAlways
<1> QED BY <1>1, <1>2, PTL

(* The block log is the lower part of the head's chain: no fork switch     *)
(* leaves a block that on_irreversible has written.                        *)
THEOREM BlogKept == ~LateForks => (Spec => [](restarts = 0 => BlogIsPrefix))
<1> SUFFICES ASSUME ~LateForks PROVE Spec => [](restarts = 0 => BlogIsPrefix)
  OBVIOUS
<1>1. Inv => (restarts = 0 => BlogIsPrefix)
  BY InvFacts DEF Inv
<1>2. Spec => []Inv
  BY InvAlways
<1> QED BY <1>1, <1>2, PTL

(* Seen from outside, a node that is never restarted implements the        *)
(* finalized chain: every push_block and commit_block extends or replaces  *)
(* its chain above the last committed block, never below, and commits only *)
(* forward.                                                                *)
THEOREM ChainFinal == ~LateForks /\ MaxRestarts = 0 => (Spec => FinalizedChainSpec)
<1> SUFFICES ASSUME ~LateForks, MaxRestarts = 0 PROVE Spec => FinalizedChainSpec
  OBVIOUS
<1>1. Init => FinalizedChain!Init /\ restarts = 0
  BY DEF Init, FinalizedChain!Init, HeadChain, InitNode, Genesis
<1>2. restarts = 0 => ~Restart
  BY DEF Restart
<1>3. restarts = 0 /\ [Next]_vars => (restarts = 0)'
  BY <1>2 DEF Next, PushBlock, CommitBlock, vars
<1>4. Inv /\ restarts = 0 /\ [Next]_vars => [FinalizedChain!Next]_<<HeadChain, node.committed>>
  <2>1. ASSUME Inv, restarts = 0, Next PROVE FinalizedChain!Next
    <3>1. ChainInv(blocks, node) /\ ~Restart
      BY <2>1, <1>2 DEF Inv
    <3> QED BY <2>1, <3>1, StepFinal
  <2>2. ASSUME UNCHANGED vars PROVE UNCHANGED <<HeadChain, node.committed>>
    BY <2>2 DEF vars, HeadChain
  <2> QED BY <2>1, <2>2
<1>5. Spec => []Inv
  BY InvAlways
<1> QED BY <1>1, <1>3, <1>4, <1>5, PTL DEF Spec, FinalizedChainSpec, FinalizedChain!Spec
=============================================================================
