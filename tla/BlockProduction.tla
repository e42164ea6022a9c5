-------------------------- MODULE BlockProduction --------------------------
(***************************************************************************)
(* Producers on several nodes make blocks on forks they may not have told  *)
(* each other about (producer_plugin.cpp).  A node keeps a watermark for   *)
(* each of its producers, the number of the last block that one signed:    *)
(* the producer makes no block up to it and confirms only blocks above it. *)
(* On this rests that the blocks irreversible on two forks are the same.   *)
(*                                                                         *)
(* A block is its header state (block_header_state) with the chain of ids  *)
(* below it, as in ForkDatabase.  Time is the order in which the blocks    *)
(* were made: no two producers own the same slot.                          *)
(***************************************************************************)
EXTENDS ForkDatabase, BlockHeaderState

CONSTANTS Genesis,       \* the producer of the first blocks
          First,         \* the schedule it hands over to: a set of producers
          Second,        \* a schedule that is pending after that, {} for none
          Nodes,         \* the nodes, each named by the set of producers it runs
          MaxBlocks,     \* bound: blocks made, the first ones included
          MaxRestarts    \* bound: restarts of producer nodes

ASSUME BlockProductionAssumption ==
    /\ IsFiniteSet(First) /\ First # {} /\ Genesis \notin First
    /\ IsFiniteSet(Second) /\ UNION Nodes = First \cup Second
    /\ \A N, M \in Nodes : N = M \/ N \cap M = {}
    /\ MaxBlocks \in Nat /\ MaxRestarts \in Nat

VARIABLES blocks,        \* every block made, in order of time
          node,          \* the state of each node, below
          restarts       \* restarts so far

(* head: the node's best block; mark: the watermark of each producer, 0 for*)
(* none; signed: the last block that the node signed a confirmation of     *)
(* (_last_signed_block_num); start: the last block made before it started. *)
vars == <<blocks, node, restarts>>

-----------------------------------------------------------------------------
(* The next slot's producer matters to on_block only while a schedule is   *)
(* pending; it is a property of the block's timestamp.                     *)
NextSlots(h) == IF h.pending.producers = {} THEN {h.producer} ELSE h.active.producers

Block(B, parent, h, n, q) ==
    [hdr |-> h, chain |-> Append(B[parent].chain, Len(B) + 1), lib |-> h.lib,
     confirmed |-> n, next |-> q]

(* Mutant: producers that were active before are new as well.              *)
OnBlockMarksAll(B, N, s, b) ==
    LET h     == B[b].hdr
        ahead == MaybePromotePending(GenerateNext(h, B[b].next))
        known == \/ b <= s.start \/ b <= s.signed
                 \/ s.signed # 0 /\ h.num <= Num(B, s.signed)
        new   == IF ahead.active.version = h.active.version THEN {} ELSE ahead.active.producers
    IN IF known THEN s
       ELSE [s EXCEPT !.signed = IF (N \cap h.active.producers) \ {h.producer} = {} THEN @ ELSE b,
                      !.mark = [p \in N |-> IF p \in new THEN h.num ELSE @[p]]]

(* on_block of a node N in state s: a block that is news gets a signed     *)
(* confirmation, and the header of the next slot tells whether a schedule  *)
(* becomes active that has new producers of this node.                     *)
OnBlock(B, N, s, b) ==
    LET h     == B[b].hdr
        ahead == MaybePromotePending(GenerateNext(h, B[b].next))
        known == \/ b <= s.start \/ b <= s.signed
                 \/ s.signed # 0 /\ h.num <= Num(B, s.signed)
        new   == IF ahead.active.version = h.active.version THEN {}
                 ELSE ahead.active.producers \ h.active.producers
    IN IF known THEN s
       ELSE [s EXCEPT !.signed = IF (N \cap h.active.producers) \ {h.producer} = {} THEN @ ELSE b,
                      !.mark = [p \in N |-> IF p \in new THEN h.num ELSE @[p]]]

OnBlocks(B, N, s, bs) ==
    LET after[i \in 0..Len(bs)] == IF i = 0 THEN s ELSE OnBlock(B, N, after[i - 1], bs[i])
    IN after[Len(bs)]

(* The first blocks.  The genesis block's producer hands over to First: the*)
(* schedule is proposed in block 2, pending from block 3 and active from   *)
(* block 4; Second is proposed in block 3 and pending from block 5.        *)
FirstBlocks ==
    LET h1 == GenesisHeader({Genesis})
        h2 == Started(h1, Genesis, 0)
        h3 == SetNewProducers(Started(h2, Genesis, 0), [version |-> 1, producers |-> First])
        h4 == Started(h3, Genesis, 0)
        p  == CHOOSE p \in First : TRUE
        h5 == SetNewProducers(Started(h4, p, 1), [version |-> 2, producers |-> Second])
        hs == IF Second = {} THEN <<h1, h2, h3, h4>> ELSE <<h1, h2, h3, h4, h5>>
    IN [i \in DOMAIN hs |->
          [hdr |-> hs[i], chain |-> [j \in 1..i |-> j], lib |-> hs[i].lib,
           confirmed |-> IF i = 5 THEN 1 ELSE 0,
           next |-> hs[i].producer]]

FirstNode(N) ==
    LET n == Len(FirstBlocks)
        s == OnBlocks(FirstBlocks, N,
                      [head |-> n, mark |-> [p \in N |-> 0], signed |-> 0, start |-> 1],
                      [j \in 1..n |-> j])
        p == FirstBlocks[n].hdr.producer
    IN IF p \in N THEN [s EXCEPT !.mark[p] = n] ELSE s

Init == /\ blocks = FirstBlocks
        /\ node = [N \in Nodes |-> FirstNode(N)]
        /\ restarts = 0

-----------------------------------------------------------------------------
(* Mutant: the block at the watermark is confirmed again.                  *)
BlocksToConfirmInclusive(mark, h) ==
    IF mark # 0 /\ mark <= h.num THEN (h.num - mark + 1) % 65536 ELSE 0

(* start_block of the producer plugin: none without a watermark, and a     *)
(* number of 16 bits.                                                      *)
BlocksToConfirm(mark, h) == IF mark # 0 /\ mark < h.num THEN (h.num - mark) % 65536 ELSE 0

(* It is p's turn, and its watermark does not forbid the number.           *)
MayProduce(mark, h, p) == p \in h.active.producers /\ mark < h.num + 1

(* produce_block of producer p on the head of its node N.                  *)
ProduceBlock(N, p) ==
    LET s == node[N]
        h == blocks[s.head].hdr
        n == BlocksToConfirm(s.mark[p], h)
        b == Started(h, p, n)
    IN /\ Len(blocks) < MaxBlocks
       /\ MayProduce(s.mark[p], h, p)
       /\ b.lib >= h.lib
       /\ \E q \in NextSlots(b) :
             LET B == Append(blocks, Block(blocks, s.head, b, n, q))
             IN /\ blocks' = B
                /\ node' = [node EXCEPT ![N] = [OnBlock(B, N, @, Len(B)) EXCEPT !.head = Len(B),
                                                                               !.mark[p] = b.num]]
       /\ UNCHANGED restarts

(* A node receives the blocks of a better fork and applies those above the *)
(* last block that the fork shares with its own chain.                     *)
Shared(N, b) ==
    {i \in 1..Num(blocks, b) : blocks[b].chain[i] \in Chain(blocks, node[N].head)}

ReceiveBlocks(N, b) ==
    /\ Better(blocks, b, node[N].head)
    /\ LET branch == Branch(blocks, b, Max(Shared(N, b)))
       IN node' = [node EXCEPT ![N] = [OnBlocks(blocks, N, @, branch) EXCEPT !.head = b]]
    /\ UNCHANGED <<blocks, restarts>>

(* The watermarks are kept in memory only.                                 *)
RestartNode(N) ==
    /\ restarts < MaxRestarts
    /\ node' = [node EXCEPT ![N] = [@ EXCEPT !.mark = [p \in N |-> 0], !.signed = 0,
                                             !.start = Len(blocks)]]
    /\ restarts' = restarts + 1
    /\ UNCHANGED blocks

Next == \E N \in Nodes : \/ \E p \in N : ProduceBlock(N, p)
                         \/ \E b \in DOMAIN blocks : ReceiveBlocks(N, b)
                         \/ RestartNode(N)

Spec == Init /\ [][Next]_vars
-----------------------------------------------------------------------------
(* The numbers of the blocks that block b confirms, its own included.      *)
Confirms(b) == (blocks[b].hdr.num - blocks[b].confirmed)..blocks[b].hdr.num

(* While its node runs, a producer confirms each block number once,        *)
(* whatever forks it worked on (the watermarks of the producer plugin).  A *)
(* restart forgets them: then it may sign a number again on another fork.  *)
(* It holds for schedules that bring in nobody new.  For a producer that   *)
(* becomes active on two forks it does not (MCWatermarks, TwoForks).       *)
ConfirmsOnce ==
    \A N \in Nodes :
        LET made == {b \in (node[N].start + 1)..Len(blocks) : blocks[b].hdr.producer \in N}
        IN \A b, c \in made : b < c /\ blocks[b].hdr.producer = blocks[c].hdr.producer
                                => Confirms(b) \cap Confirms(c) = {}

(* No block confirms a range that its chain has from the producer already, *)
(* for which next refuses its header.                                      *)
NoneRefused ==
    \A b \in 2..Len(blocks) :
        ~DoubleConfirms(blocks[Prev(blocks, b)].hdr, blocks[b].hdr.producer, blocks[b].confirmed)

(* Until a node loses its watermarks in a restart, the other nodes accept  *)
(* the header of every block that a producer makes, on any fork.  It holds *)
(* for schedules that bring in nobody new (MCWatermarks, MissedSlot).      *)
HeadersAccepted == restarts = 0 => NoneRefused
=============================================================================
