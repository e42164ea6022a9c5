---------------------------- MODULE HeaderChain ----------------------------
(***************************************************************************)
(* One chain of headers with the schedule changes its blocks carry: how    *)
(* start_block (controller.cpp) builds the header state of a block on the  *)
(* one below, turns a schedule that was proposed by a transaction into the *)
(* pending one and that into the active one, and which block it declares   *)
(* irreversible on the way.                                                *)
(***************************************************************************)
EXTENDS BlockHeaderState

CONSTANTS Producers,
          Genesis,       \* the only producer of the first schedule
          Schedules,     \* the schedules that may be proposed: sets of producers
          Lazy,          \* may a producer confirm fewer blocks than it could?
          MaxNum,        \* bound: highest block number
          MaxVersion     \* bound: highest schedule version

ASSUME HeaderChainAssumption ==
    /\ Genesis \in Producers
    /\ Schedules \subseteq SUBSET Producers /\ {} \notin Schedules
    /\ IsFiniteSet(Producers) /\ Lazy \in BOOLEAN
    /\ MaxNum \in Nat /\ MaxVersion \in Nat

VARIABLES head,          \* header state of the newest block
          proposal,      \* global_property_object: the proposed schedule and its
                         \* block; num = 0 for none
          past           \* history: for each block who confirmed it, how many must,
                         \* and the block that it declared irreversible

vars == <<head, proposal, past>>

NoProposal == [num |-> 0, schedule |-> NoSchedule]

Init == /\ head = GenesisHeader({Genesis})
        /\ proposal = NoProposal
        /\ past = <<[by |-> {}, required |-> 0, lib |-> 0]>>

-----------------------------------------------------------------------------
(* The rest of start_block: a proposed schedule becomes the pending one    *)
(* when the block that proposed it is irreversible, there is no other, and *)
(* none just became active.                                                *)
TakesProposal(h, p, n) ==
    /\ proposal.num # 0 /\ proposal.num <= Started(h, p, n).lib
    /\ Started(h, p, n).pending.producers = {}
    /\ ~Promotes(SetConfirmed(GenerateNext(h, p), n))

(* A block that other nodes accept: producer p confirms n blocks below it. *)
NewBlock(p, n) ==
    LET h == Started(head, p, n)
        new == [by |-> {}, required |-> RequiredConfs(head), lib |-> h.lib]
    IN /\ head.num < MaxNum
       /\ ~DoubleConfirms(head, p, n)
       /\ Lazy \/ n = head.num - 1 \/ DoubleConfirms(head, p, n + 1)
       /\ IF TakesProposal(head, p, n)
          THEN /\ CanSetNewProducers(h, proposal.schedule)
               /\ head' = SetNewProducers(h, proposal.schedule)
               /\ proposal' = NoProposal
          ELSE head' = h /\ UNCHANGED proposal
       /\ past' = [i \in 1..(head.num + 1) |->
                     LET c == Append(past, new)[i]
                     IN IF i >= head.num + 1 - n THEN [c EXCEPT !.by = @ \cup {p}] ELSE c]

(* Mutant: a schedule that is still pending is not looked at.              *)
SetProposedProducersOnActive(S) ==
    /\ head.num > 1
    /\ proposal.num \in {0, head.num}
    /\ proposal.num # 0 => proposal.schedule.producers # S
    /\ head.active.producers # S
    /\ proposal' = [num |-> head.num,
                    schedule |-> [version |-> head.active.version + 1, producers |-> S]]
    /\ UNCHANGED <<head, past>>

(* set_proposed_producers, called by a transaction of the newest block: a  *)
(* proposal of an earlier block must become pending first.                 *)
SetProposedProducers(S) ==
    LET latest == IF head.pending.producers = {} THEN head.active ELSE head.pending
    IN /\ head.num > 1
       /\ proposal.num \in {0, head.num}
       /\ proposal.num # 0 => proposal.schedule.producers # S
       /\ latest.producers # S
       /\ latest.version < MaxVersion
       /\ proposal' = [num |-> head.num,
                       schedule |-> [version |-> latest.version + 1, producers |-> S]]
       /\ UNCHANGED <<head, past>>

Next == \/ \E p \in head.active.producers : \E n \in 0..(head.num - 1) : NewBlock(p, n)
        \/ \E S \in Schedules : SetProposedProducers(S)

Spec == Init /\ [][Next]_vars
-----------------------------------------------------------------------------
(* The irreversible block is at most the proposed one, which is below the  *)
(* blocks whose confirmations are tracked, and these end at the newest one.*)
(* Each of them still misses confirmations, in the eight bits of a count:  *)
(* a block that misses none is proposed and not counted down again.        *)
Window == /\ head.lib <= head.proposed
          /\ \A i \in DOMAIN head.confirmCount : head.confirmCount[i] \in 1..255
          /\ head.proposed + Len(head.confirmCount) <= head.num

(* A block is proposed as irreversible only when enough different producers*)
(* confirmed it, each in a header of its own: more than two thirds of the  *)
(* schedule that made the block, across schedule changes too (next's       *)
(* producer_double_confirm, set_confirmed).                                *)
ProposedConfirmed ==
    head.proposed # 0 =>
        LET c == past[head.proposed] IN Cardinality(c.by) >= c.required

(* A proposed schedule can always become the pending one when its turn     *)
(* comes: set_new_producers would throw in start_block of every node.      *)
ProposalFits ==
    proposal.num # 0 =>
        LET latest == IF head.pending.producers = {} THEN head.active ELSE head.pending
        IN proposal.schedule.version = latest.version + 1

(* A new block is better than the one below in the order of the fork       *)
(* database, so that commit_block's assertion holds: "committed block did  *)
(* not become the new head in fork database".                              *)
BlockBecomesHead == \A i \in 2..head.num : past[i - 1].lib <= past[i].lib
=============================================================================
