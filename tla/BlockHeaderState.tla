-------------------------- MODULE BlockHeaderState --------------------------
(***************************************************************************)
(* The header state of a block (block_header_state.cpp): what the headers  *)
(* of a chain say about its producers and about which blocks of it are     *)
(* irreversible.  Each operator is a member function and returns the       *)
(* header state it leaves:                                                 *)
(*   num, producer : the block's number and who produced it                *)
(*   active, pending : producer schedules [version, producers]; a pending  *)
(*       schedule without producers is none                                *)
(*   pendingNum    : the block that announced the pending schedule         *)
(*   lastProduced, impliedIrb : for each producer the last block it made,  *)
(*       and the number that was proposed as irreversible when it made it  *)
(*   confirmCount  : confirmations still missing, for the blocks above the *)
(*       proposed one, oldest first                                        *)
(*   proposed, lib : dpos_proposed_irreversible_blocknum and               *)
(*       dpos_irreversible_blocknum                                        *)
(* The slots of a schedule are left out: any producer may be the next one, *)
(* after empty slots.                                                      *)
(***************************************************************************)
EXTENDS Integers, FiniteSets, SequencesExt

CONSTANT MaxTracked      \* maximum_tracked_dpos_confirmations

ASSUME MaxTrackedAssumption == MaxTracked \in Nat \ {0}

NoSchedule == [version |-> 0, producers |-> {}]

(* initialize_fork_db: the first schedule is pending as well as active.    *)
GenesisHeader(producers) ==
    LET schedule == [version |-> 0, producers |-> producers] IN
    [num |-> 1, producer |-> CHOOSE p \in producers : TRUE,
     active |-> schedule, pending |-> schedule, pendingNum |-> 0,
     lastProduced |-> <<>>, impliedIrb |-> <<>>, confirmCount |-> <<>>,
     proposed |-> 0, lib |-> 0]

(* How many producers must confirm a block made on h.                       *)
RequiredConfs(h) == (Cardinality(h.active.producers) * 2) \div 3 + 1

(* calc_dpos_last_irreversible: the number one third into the sorted list. *)
CalcDposLastIrreversible(irb) ==
    LET k == (Cardinality(DOMAIN irb) - 1) \div 3
        Below(v) == {p \in DOMAIN irb : irb[p] < v}
        UpTo(v)  == {p \in DOMAIN irb : irb[p] <= v}
    IN CHOOSE v \in {irb[p] : p \in DOMAIN irb} : Cardinality(Below(v)) <= k /\ k < Cardinality(UpTo(v))

(* f[p] := v, for a p that f may not know yet.                             *)
With(f, p, v) == [q \in DOMAIN f \cup {p} |-> IF q = p THEN v ELSE f[q]]

(* generate_next: the template of the next block, made by producer p.      *)
GenerateNext(h, p) ==
    LET irb    == With(h.impliedIrb, p, h.proposed)
        counts == IF Len(h.confirmCount) < MaxTracked THEN h.confirmCount ELSE Tail(h.confirmCount)
    IN [h EXCEPT !.num = @ + 1,
                 !.producer = p,
                 !.lastProduced = With(@, p, h.num + 1),
                 !.impliedIrb = irb,
                 !.lib = CalcDposLastIrreversible(irb),
                 !.confirmCount = Append(counts, RequiredConfs(h))]

(* Mutant: the blocks below the proposed one are still tracked.            *)
SetConfirmedKeepsBelow(h, n) ==
    LET counts == h.confirmCount
        len    == Len(counts)
        within == {i \in DOMAIN counts : len - i <= n}
        done   == {i \in within : counts[i] = 1}
        left   == [i \in DOMAIN counts |-> IF i \in within THEN counts[i] - 1 ELSE counts[i]]
        top    == Max(done)
    IN IF done = {} THEN [h EXCEPT !.confirmCount = left]
       ELSE [h EXCEPT !.proposed = h.num - (len - top),
                      !.confirmCount = left]

(* set_confirmed: the block confirms itself and n blocks below.  The first *)
(* one, from above, that misses no confirmation any more is proposed, and  *)
(* the blocks up to it are no longer tracked.                              *)
SetConfirmed(h, n) ==
    LET counts == h.confirmCount
        len    == Len(counts)
        within == {i \in DOMAIN counts : len - i <= n}
        done   == {i \in within : counts[i] = 1}
        left   == [i \in DOMAIN counts |-> IF i \in within THEN counts[i] - 1 ELSE counts[i]]
        top    == Max(done)
    IN IF done = {} THEN [h EXCEPT !.confirmCount = left]
       ELSE [h EXCEPT !.proposed = h.num - (len - top),
                      !.confirmCount = SubSeq(left, top + 1, len)]

(* maybe_promote_pending: the pending schedule becomes active when the     *)
(* block that announced it is irreversible.                                *)
Promotes(h) == h.pending.producers # {} /\ h.lib >= h.pendingNum

(* Mutant: producers that are new start from zero.                         *)
MaybePromotePendingFromZero(h) ==
    LET Kept(f) == [p \in h.pending.producers |-> IF p \in DOMAIN f THEN f[p] ELSE 0]
    IN IF ~Promotes(h) THEN h
       ELSE [h EXCEPT !.active = h.pending,
                      !.pending = NoSchedule,
                      !.lastProduced = With(Kept(@), h.producer, h.num),
                      !.impliedIrb = Kept(@)]

MaybePromotePending(h) ==
    LET Kept(f) == [p \in h.pending.producers |-> IF p \in DOMAIN f THEN f[p] ELSE h.lib]
    IN IF ~Promotes(h) THEN h
       ELSE [h EXCEPT !.active = h.pending,
                      !.pending = NoSchedule,
                      !.lastProduced = With(Kept(@), h.producer, h.num),
                      !.impliedIrb = Kept(@)]

(* set_new_producers, and what it asserts.                                 *)
CanSetNewProducers(h, schedule) ==
    schedule.version = h.active.version + 1 /\ h.pending.producers = {}

SetNewProducers(h, schedule) == [h EXCEPT !.pending = schedule, !.pendingNum = h.num]

(* Mutant: the block that its producer confirmed last is not counted.      *)
DoubleConfirmsBelow(h, p, n) ==
    p \in DOMAIN h.lastProduced /\ h.lastProduced[p] > h.num + 1 - n

(* next refuses a header that confirms a block its producer has confirmed  *)
(* before.  The code subtracts 32 bit numbers without a check: n is at most*)
(* the block's number in the headers that producers of this program make.  *)
DoubleConfirms(h, p, n) ==
    p \in DOMAIN h.lastProduced /\ h.lastProduced[p] >= h.num + 1 - n

(* start_block, and next for a header that was received: the template, its *)
(* confirmations, and the schedule that becomes active.                    *)
Started(h, p, n) == MaybePromotePending(SetConfirmed(GenerateNext(h, p), n))
=============================================================================
