--------------------------- MODULE FinalizedChain ---------------------------
(***************************************************************************)
(* What the chain promises its observers (irreversible_block signal, block *)
(* log, history): a chain of blocks of which a growing part is final, and  *)
(* is never replaced.                                                      *)
(***************************************************************************)
EXTENDS Naturals, SequencesExt

VARIABLES chain,   \* the blocks from the genesis block to the head
          final    \* how many of them are final

Init == Len(chain) = 1 /\ final = 0

(* A step may finalize more of the chain and replace the rest of it.       *)
Next == /\ final' >= final /\ final' <= Len(chain')
        /\ IsPrefix(SubSeq(chain, 1, final), chain')

Spec == Init /\ [][Next]_<<chain, final>>
=============================================================================
