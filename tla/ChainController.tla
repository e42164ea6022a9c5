-------------------------- MODULE ChainController --------------------------
(***************************************************************************)
(* How the controller (libraries/chain/controller.cpp) follows the best    *)
(* fork: blocks are added to the fork database, which reports the oldest   *)
(* ones irreversible while it adds; then the controller applies the new    *)
(* block, or pops its own branch and applies the other one, and goes back  *)
(* when a block of it fails.  One thread runs all of it, so each call of   *)
(* the controller is one action.                                           *)
(*                                                                         *)
(* Which blocks are irreversible is decided by the producers' headers      *)
(* (block_header_state); here every block comes with a number, restricted  *)
(* only by what the producers guarantee (Agrees and, unless LateForks,     *)
(* ForkSettled).                                                           *)
(***************************************************************************)
EXTENDS ForkDatabase

CONSTANTS MaxBlocks,     \* bound: blocks seen, the genesis block included
          MaxRestarts,   \* bound: clean restarts
          LateForks      \* may a fork win that was made before the last
                         \* irreversible block?

ASSUME ChainControllerAssumption ==
    MaxBlocks \in Nat \ {0} /\ MaxRestarts \in Nat /\ LateForks \in BOOLEAN

VARIABLES
    blocks,    \* every block received or produced, in order of arrival
    node,      \* the node's state, below
    restarts   \* clean restarts so far

(* index, fhead, marked: the fork database, its head, and its blocks that  *)
(* are marked in_current_chain; head: the controller's head; applied: the  *)
(* blocks whose effects the state databases hold, committed of which can no*)
(* longer be undone; reversible: the blocks in the reversible block        *)
(* database; blog: the block log; broken: a null pointer was followed.     *)
vars == <<blocks, node, restarts>>

Genesis  == [chain |-> <<1>>, lib |-> 0, good |-> TRUE]
InitNode == [index |-> [b \in {1} |-> 1], fhead |-> 1, marked |-> {}, head |-> 1,
             applied |-> <<1>>, committed |-> 0, reversible |-> {}, blog |-> <<1>>,
             broken |-> FALSE]

Init == blocks = <<Genesis>> /\ node = InitNode /\ restarts = 0

-----------------------------------------------------------------------------
(* on_irreversible throws when the block does not link to the block log,   *)
LinksToBlog(B, n, s) ==
    Num(B, s) > Len(n.blog) => Num(B, s) = Len(n.blog) + 1 /\ Prev(B, s) = Last(n.blog)

(* Mutant: the state databases are committed up to the controller's head.  *)
OnIrreversibleCommitsHead(B, n, s) ==
    [n EXCEPT !.committed = Num(B, n.head),
              !.blog = IF Num(B, s) > Len(@) THEN Append(@, s) ELSE @,
              !.reversible = {r \in @ : Num(B, r) > Num(B, s)}]

(* Mutant: a block reported again is logged again.                         *)
OnIrreversibleLogsAgain(B, n, s) ==
    [n EXCEPT !.committed = IF @ < Num(B, s) THEN Num(B, s) ELSE @,
              !.blog = Append(@, s),
              !.reversible = {r \in @ : Num(B, r) > Num(B, s)}]

(* and else commits the state databases up to the block, logs it and       *)
(* clears the reversible blocks up to it.                                  *)
OnIrreversible(B, n, s) ==
    [n EXCEPT !.committed = IF @ < Num(B, s) THEN Num(B, s) ELSE @,
              !.blog = IF Num(B, s) > Len(@) THEN Append(@, s) ELSE @,
              !.reversible = {r \in @ : Num(B, r) > Num(B, s)}]

(* fork_database::add: the block is inserted, the head chosen again, and   *)
(* the oldest block pruned when it is below the head's irreversible number.*)
Inserted(B, n, b) ==
    LET index == [c \in DOMAIN n.index \cup {b} |-> IF c = b THEN b ELSE n.index[c]]
    IN [n EXCEPT !.index = index, !.fhead = Best(B, index)]

MustPrune(B, m) == Num(B, Oldest(B, m.index, m.marked)) < B[m.fhead].lib

PruneOldest(B, m) ==
    LET o == Oldest(B, m.index, m.marked)
        index == Prune(B, m.index, o)
    IN [OnIrreversible(B, m, o) EXCEPT
           !.index = index,
           !.fhead = IF Siblings(B, m.index, o) = {} THEN @ ELSE Best(B, index)]

(* add throws, with the block inserted, when on_irreversible does.         *)
AddThrows(B, n, b) ==
    LET m == Inserted(B, n, b)
    IN MustPrune(B, m) /\ ~LinksToBlog(B, m, Oldest(B, m.index, m.marked))

AddToForkDb(B, n, b) ==
    LET m == Inserted(B, n, b)
    IN IF MustPrune(B, m) /\ ~AddThrows(B, n, b) THEN PruneOldest(B, m) ELSE m

-----------------------------------------------------------------------------
(* apply_block, and what its callers do when it succeeds.                  *)
CanApply(B, n, b) == B[b].good /\ Len(n.applied) = Num(B, n.head)

ApplyBlock(B, n, b) ==
    [n EXCEPT !.applied = Append(@, b), !.reversible = @ \cup {b},
              !.head = b, !.marked = @ \cup {b}]

(* Mutant: a popped block stays marked.                                    *)
PopBlockKeepsMark(B, n) ==
    [n EXCEPT !.head = Prev(B, n.head),
              !.reversible = {r \in @ : Num(B, r) # Num(B, n.head)},
              !.applied = IF Len(@) > n.committed THEN Front(@) ELSE @]

(* Mutant: popping a block leaves it in the reversible block database.     *)
PopBlockKeepsReversible(B, n) ==
    [n EXCEPT !.head = Prev(B, n.head),
              !.marked = @ \ {n.head},
              !.applied = IF Len(@) > n.committed THEN Front(@) ELSE @]

(* The mark is removed and pop_block undoes one revision; the undo of a    *)
(* committed revision does nothing.                                        *)
PopBlock(B, n) ==
    [n EXCEPT !.head = Prev(B, n.head),
              !.marked = @ \ {n.head},
              !.reversible = {r \in @ : Num(B, r) # Num(B, n.head)},
              !.applied = IF Len(@) > n.committed THEN Front(@) ELSE @]

PopAll(B, n, bs) ==
    LET popped[i \in 0..Len(bs)] == IF i = 0 THEN n ELSE PopBlock(B, popped[i - 1])
    IN popped[Len(bs)]

ApplyAll(B, n, bs) ==
    LET done[i \in 0..Len(bs)] == IF i = 0 THEN n ELSE ApplyBlock(B, done[i - 1], bs[i])
    IN done[Len(bs)]

(* set_validity(b, false).                                                 *)
Invalidate(B, n, b) ==
    LET index == RemoveForks(B, n.index, b)
    IN [n EXCEPT !.index = index, !.fhead = Best(B, index), !.broken = DOMAIN index = {}]

(* The branch of the controller's head is popped.  pop_block throws at its *)
(* lowest block, after the mark of that one is removed too, when the block *)
(* below has left the fork database.                                       *)
CommonKnown(B, n, k) == k > 0 /\ B[n.head].chain[k] \in DOMAIN n.index

PopRefused(B, n, k) ==
    LET m == PopAll(B, n, Tail(Branch(B, n.head, k))) IN [m EXCEPT !.marked = @ \ {m.head}]

(* Mutant: after a failed switch the old branch is not applied again.      *)
SwitchForksNoReapply(B, n) ==
    LET k      == CommonNum(B, n.fhead, n.head)
        first  == Branch(B, n.fhead, k)
        second == Branch(B, n.head, k)
        popped == PopAll(B, n, second)
        bad    == {i \in DOMAIN first : ~B[first[i]].good}
        good   == IF bad = {} THEN first ELSE SubSeq(first, 1, Min(bad) - 1)
        done   == ApplyAll(B, popped, good)
    IN IF ~CommonKnown(B, n, k) THEN PopRefused(B, n, k)
       ELSE IF bad = {} THEN done
       ELSE PopAll(B, Invalidate(B, done, first[Min(bad)]), good)

(* The fork switch: pop the own branch, apply the other one; at the first  *)
(* block that fails drop it, pop what was applied and apply the own branch *)
(* again.                                                                  *)
SwitchForks(B, n) ==
    LET k      == CommonNum(B, n.fhead, n.head)
        first  == Branch(B, n.fhead, k)
        second == Branch(B, n.head, k)
        popped == PopAll(B, n, second)
        bad    == {i \in DOMAIN first : ~B[first[i]].good}
        good   == IF bad = {} THEN first ELSE SubSeq(first, 1, Min(bad) - 1)
        done   == ApplyAll(B, popped, good)
    IN IF ~CommonKnown(B, n, k) THEN PopRefused(B, n, k)
       ELSE IF bad = {} THEN done
       ELSE ApplyAll(B, PopAll(B, Invalidate(B, done, first[Min(bad)]), good), second)

(* get_block of a block that has left the fork database gives a null       *)
(* pointer, which the walk along the branches dereferences.                *)
NoNullBranch(B, n) == \/ n.fhead = n.head \/ Prev(B, n.fhead) = n.head
                      \/ BranchesKnown(B, n.index, n.fhead, n.head)

MaybeSwitchForks(B, n) ==
    IF Prev(B, n.fhead) = n.head
    THEN IF CanApply(B, n, n.fhead) THEN ApplyBlock(B, n, n.fhead)
         ELSE Invalidate(B, n, n.fhead)
    ELSE IF n.fhead = n.head THEN n ELSE SwitchForks(B, n)

-----------------------------------------------------------------------------
(* What the producers guarantee (external: the signed headers).  The blocks*)
(* irreversible on two chains are the same, as far as both go.             *)
Final(b) == SubSeq(b.chain, 1, b.lib)
Agrees(b) == \A c \in Range(blocks) : \/ IsPrefix(Final(b), Final(c))
                                      \/ IsPrefix(Final(c), Final(b))

(* They build on what they know to be irreversible, and no block above the *)
(* fork is irreversible yet when a node first sees the fork win.           *)
ForkSettled(b, p) ==
    /\ \A c \in Range(blocks) : IsPrefix(Final(c), b.chain)
    /\ p = node.head \/ b.lib <= CommonNum(blocks, p, node.head)

(* A block built on p, with a header the fork database accepts.            *)
NewBlocks(p) ==
    {b \in [chain : {Append(blocks[p].chain, Len(blocks) + 1)},
            lib   : blocks[p].lib..Num(blocks, p),
            good  : BOOLEAN] :
        Agrees(b) /\ (LateForks \/ ForkSettled(b, p))}

(* push_block: a block arrives.  One that does not link, or is known, is   *)
(* refused and changes nothing.                                            *)
PushBlock ==
    /\ ~node.broken /\ Len(blocks) < MaxBlocks
    /\ \E p \in DOMAIN node.index : \E b \in NewBlocks(p) :
          LET B == Append(blocks, b)
              n == AddToForkDb(B, node, Len(B))
          IN /\ blocks' = B
             /\ node' = IF DOMAIN n.index = {} THEN [n EXCEPT !.broken = TRUE]
                        ELSE IF AddThrows(B, node, Len(B)) THEN n
                        ELSE IF NoNullBranch(B, n) THEN MaybeSwitchForks(B, n)
                        ELSE [n EXCEPT !.broken = TRUE]
    /\ UNCHANGED restarts

(* commit_block of a block the node produced on its own head.  The head is *)
(* taken from the fork database before it is compared with the block.      *)
CommitBlock ==
    /\ ~node.broken /\ Len(blocks) < MaxBlocks
    /\ Len(node.applied) = Num(blocks, node.head)
    /\ \E b \in NewBlocks(node.head) :
          LET B == Append(blocks, b)
              m == [node EXCEPT !.marked = @ \cup {Len(B)}]
              n == AddToForkDb(B, m, Len(B))
          IN /\ b.good
             /\ blocks' = B
             /\ node' = IF DOMAIN n.index = {} THEN [n EXCEPT !.broken = TRUE]
                        ELSE IF AddThrows(B, m, Len(B)) THEN n
                        ELSE IF n.fhead = Len(B) THEN ApplyBlock(B, n, Len(B))
                        ELSE [n EXCEPT !.head = n.fhead]
    /\ UNCHANGED restarts

(* close writes the fork database, then reports its oldest block if that is*)
(* irreversible.  The next start reads the blocks back in the order of     *)
(* their hashes and takes the head from the fork database; init refuses to *)
(* start when the reversible blocks do not end there.                      *)
ClosedNode == LET o == Oldest(blocks, node.index, node.marked)
              IN IF Num(blocks, o) <= blocks[node.fhead].lib
                 THEN OnIrreversible(blocks, node, o) ELSE node

InitAccepts(n) ==
    /\ IF n.reversible = {} THEN Len(n.blog) = Num(blocks, n.fhead)
       ELSE Num(blocks, n.fhead) = Max({Num(blocks, r) : r \in n.reversible})
    /\ Len(n.applied) >= Num(blocks, n.fhead)

(* The fork database saves its blocks in the order of a hash table.  Only  *)
(* the order of blocks of the same number can be told.                     *)
Level(b) == {c \in DOMAIN node.index : Num(blocks, c) = Num(blocks, b)}

ReadBack ==
    {index \in [DOMAIN node.index -> 1..Max({Cardinality(Level(b)) : b \in DOMAIN node.index})] :
        \A b \in DOMAIN node.index : {index[c] : c \in Level(b)} = 1..Cardinality(Level(b))}

Restart ==
    /\ ~node.broken /\ restarts < MaxRestarts
    /\ LET o == Oldest(blocks, node.index, node.marked)
       IN Num(blocks, o) <= blocks[node.fhead].lib => LinksToBlog(blocks, node, o)
    /\ InitAccepts(ClosedNode)
    /\ \E index \in ReadBack :
          node' = [ClosedNode EXCEPT !.index = index, !.head = node.fhead,
                                     !.applied = SubSeq(@, 1, Num(blocks, node.fhead))]
    /\ restarts' = restarts + 1
    /\ UNCHANGED blocks

Next == PushBlock \/ CommitBlock \/ Restart

Spec == Init /\ [][Next]_vars
-----------------------------------------------------------------------------
HeadChain == blocks[node.head].chain

(* The controller follows the best block: after every call no block of the *)
(* fork database is better than its head, the two heads are the same, and  *)
(* the next start accepts what it finds (maybe_switch_forks, init).  After *)
(* a restart equally good blocks may have changed places, and a switch to  *)
(* one whose fork point is pruned is refused half way.                     *)
HeadIsBest == restarts = 0 => /\ node.head \in DOMAIN node.index
                              /\ \A b \in DOMAIN node.index : ~Better(blocks, b, node.head)
                              /\ node.head = node.fhead
                              /\ InitAccepts(node)

(* The state databases hold the effects of exactly the blocks of the       *)
(* head's chain, in order, also after a fork switch that failed half way   *)
(* (maybe_switch_forks, pop_block, apply_block).                           *)
StateMatchesHead == node.applied = HeadChain

(* get_block_in_current_chain_by_num relies on the marks: of the blocks in *)
(* the fork database exactly those of the head's chain are marked (the     *)
(* genesis block never is); under the same condition.                      *)
MarksFollowHead == restarts = 0 =>
    DOMAIN node.index \cap node.marked = (DOMAIN node.index \cap Range(HeadChain)) \ {1}

(* The reversible block database holds the blocks of the head's chain that *)
(* are not committed, whatever was popped and applied again: replay starts *)
(* from it.                                                                *)
ReversibleIsTail ==
    node.reversible = {b \in Range(HeadChain) : b # 1 /\ Num(blocks, b) > node.committed}

(* The fork database never loses the chain that the node is on: it is never*)
(* empty when its first entry is taken as the head, and get_block finds    *)
(* every block of the branches of a fork switch (add, prune, remove,       *)
(* fetch_branch_from, none of which checks).                               *)
NeverBroken == ~node.broken

(* The block log is the lower part of the head's chain: no block that the  *)
(* node reported irreversible is ever left by a fork switch.               *)
BlogIsPrefix == IsPrefix(node.blog, HeadChain)

(* Seen from outside, the node extends or replaces the part of its chain   *)
(* above the last block reported, never the part below.                    *)
FinalizedChain == INSTANCE FinalizedChain WITH chain <- HeadChain, final <- node.committed
FinalizedChainSpec == FinalizedChain!Spec
=============================================================================
