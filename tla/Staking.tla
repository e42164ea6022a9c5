------------------------------ MODULE Staking ------------------------------
(***************************************************************************)
(* Staking (evt_contract_staking.hpp): stakers buy units of validators     *)
(* with frozen balances, units grow in value when a validator receives its *)
(* bonus, and are given back in two steps.  The controller counts periods  *)
(* of blocks, and the plugin of a validator's node (staking_plugin.cpp)    *)
(* asks for the bonus once a period.                                       *)
(*                                                                         *)
(* Balances are counted in the smallest amount and net values in Fine      *)
(* parts of it, as the symbols have different precision.  A day is a block *)
(* long.                                                                   *)
(***************************************************************************)
EXTENDS Integers, Sequences, FiniteSets, Functions

CONSTANTS Stakers, Validators,
          Hosts,          \* the validators whose node runs the plugin
          Funds, Supply,  \* what every staker and the pool of the fungible hold at the start
          Fine, One,      \* see above; the first net value
          Gains,          \* what a net value may grow by: the formula of recvstkbonus
          FixedRoi, Commission,  \* ratios num/den
          Thresholds, UnitThreshold, PendingDays,
          Cycles, CycleLen,      \* cycles_per_period and blocks_per_cycle
          Words,                 \* bound: what an uninitialised number may be
          Amounts, FixedDays,    \* bound: what is staked, and for how long
          MaxShares, MaxNet, MaxBlock  \* bounds: shares of a staker, net value,
                                       \* pending block

PeriodLen == Cycles * CycleLen

ASSUME StakingAssumption ==
    /\ IsFiniteSet(Stakers) /\ IsFiniteSet(Validators)
    /\ Funds \in [Stakers -> Nat] /\ Supply \in Nat
    /\ {Fine, One, Cycles, CycleLen, FixedRoi.den, Commission.den} \subseteq Nat \ {0}
    /\ Gains \subseteq Nat /\ {FixedRoi.num, Commission.num} \subseteq Nat
    /\ Commission.num <= Commission.den
    /\ Words \subseteq Nat /\ Thresholds \subseteq Nat /\ Amounts \subseteq Nat \ {0} /\ FixedDays \subseteq Nat

VARIABLES acct,    \* property_stakes of the stakers, and gained: what the units
                   \* are worth that toactivetkns credited
          vali,    \* the validators there are, with the balance of their address
          pool,    \* the stake pool and the balance of the fungible's pool
          block,   \* the pending block
          start,   \* staking_ctx.period_start_num; 0: staking is not enabled
          plugin   \* the staking plugin of a validator's node, and the block at which
                   \* it started

vars == <<acct, vali, pool, block, start, plugin>>

(* The numbers of a plugin are not initialised.                            *)
Started(at) == [current : Words, last : Words, booted : {at}]

Init == /\ acct = [u \in Stakers |-> [amount |-> Funds[u], frozen |-> 0, gained |-> 0,
                                      shares |-> <<>>, pending |-> <<>>]]
        /\ vali = <<>>
        /\ pool = [amount |-> Supply, total |-> 0, threshold |-> 0]
        /\ block = 1 /\ start = 0
        /\ plugin \in [Hosts -> Started(0)]

-----------------------------------------------------------------------------
SumOf(q, Value(_)) == SumFunction([i \in DOMAIN q |-> Value(q[i])])

Units(q) == SumOf(q, LAMBDA s : s.units)

(* The amount that so many units are worth at a net value.                 *)
Floor(units, net) == (units * net) \div Fine
Ceil(units, net) == (units * net + Fine - 1) \div Fine

(* What shares are worth, in Fine parts, at the net values they were       *)
(* bought for.                                                             *)
Worth(q) == SumOf(q, LAMBDA s : s.units * s.net)

(* Mutant: a share that is taken as a whole stays.                         *)
TakeFromKept(r, s, may) ==
    LET n == IF s \notin may THEN 0 ELSE IF s.units < r.left THEN s.units ELSE r.left
    IN [left |-> r.left - n,
        rest |-> Append(r.rest, IF n = s.units THEN s ELSE [s EXCEPT !.units = @ - n]),
        taken |-> IF n = 0 THEN r.taken
                  ELSE Append(r.taken, [s EXCEPT !.units = n, !.time = block])]

(* One turn of the loops of unstaketkns.                                   *)
TakeFrom(r, s, may) ==
    LET n == IF s \notin may THEN 0 ELSE IF s.units < r.left THEN s.units ELSE r.left
    IN [left |-> r.left - n,
        rest |-> IF n = s.units THEN r.rest ELSE Append(r.rest, [s EXCEPT !.units = @ - n]),
        taken |-> IF n = 0 THEN r.taken
                  ELSE Append(r.taken, [s EXCEPT !.units = n, !.time = block])]

(* The loops: take units from the shares that may be taken, in their       *)
(* order.                                                                  *)
Take(q, units, may) ==
    LET after[i \in 0..Len(q)] ==
            IF i = 0 THEN [left |-> units, rest |-> <<>>, taken |-> <<>>]
            ELSE TakeFrom(after[i - 1], q[i], may)
    IN after[Len(q)]

-----------------------------------------------------------------------------
Newstakepool == \E t \in Thresholds :
    /\ start = 0
    /\ pool' = [pool EXCEPT !.threshold = t] /\ start' = block
    /\ UNCHANGED <<acct, vali, block, plugin>>

Updstakepool == \E t \in Thresholds :
    /\ start > 0 /\ pool' = [pool EXCEPT !.threshold = t]
    /\ UNCHANGED <<acct, vali, block, start, plugin>>

Newvalidator(v) ==
    /\ v \notin DOMAIN vali
    /\ vali' = [w \in DOMAIN vali \cup {v} |->
                  IF w = v THEN [units |-> 0, net |-> One, amount |-> 0] ELSE vali[w]]
    /\ UNCHANGED <<acct, pool, block, start, plugin>>

Valiwithdraw(v, u, n) ==
    /\ n <= vali[v].amount
    /\ vali' = [vali EXCEPT ![v].amount = @ - n]
    /\ acct' = [acct EXCEPT ![u].amount = @ + n]
    /\ UNCHANGED <<pool, block, start, plugin>>

(* Mutant: rounded up.                                                     *)
BoughtUp(n, net) == (n * Fine + net - 1) \div net

(* How many units an amount buys.                                          *)
Bought(n, net) == (n * Fine) \div net

Staketkns(u, v, n, days) ==
    LET units == Bought(n, vali[v].net)
        total == Ceil(units, vali[v].net)
    IN /\ acct[u].amount >= n /\ n * Fine >= vali[v].net
       /\ start > 0 /\ n >= pool.threshold
       /\ Len(acct[u].shares \o acct[u].pending) < MaxShares
       /\ vali' = [vali EXCEPT ![v].units = @ + units]
       /\ pool' = [pool EXCEPT !.total = @ + total]
       /\ acct' = [acct EXCEPT
            ![u].amount = @ - total, ![u].frozen = @ + total,
            ![u].shares = Append(@, [validator |-> v, units |-> units, net |-> vali[v].net,
                                     time |-> block, days |-> days])]
       /\ UNCHANGED <<block, start, plugin>>

Matured(s) == s.days > 0 /\ s.time + s.days <= block

Extra(s) == IF Matured(s) THEN (s.units * FixedRoi.num) \div FixedRoi.den ELSE 0

(* Mutant: the units of the validator are not updated.                     *)
CreditedNothing(v, units) == vali

(* The units are credited to the validator of the call, whatever validator *)
(* the shares are of.                                                      *)
Credited(v, units) == [vali EXCEPT ![v].units = @ + units]

(* The validator is looked for only when there are units to credit.        *)
Toactivetkns(u, v) ==
    LET q == acct[u].shares
        gained == SumOf(q, LAMBDA s : Floor(Extra(s), s.net))
        units == SumOf(q, Extra)
        worth == SumOf(q, LAMBDA s : Extra(s) * s.net)
        active(s) == IF Matured(s) THEN [s EXCEPT !.units = @ + Extra(s), !.days = 0] ELSE s
    IN /\ start > 0 /\ (units # 0 => v \in DOMAIN vali)
       /\ acct' = [acct EXCEPT ![u].shares = [i \in DOMAIN q |-> active(q[i])],
                               ![u].gained = @ + worth]
       /\ pool' = [pool EXCEPT !.total = @ + gained]
       /\ vali' = IF units = 0 THEN vali ELSE Credited(v, units)
       /\ UNCHANGED <<block, start, plugin>>

Propose(u, v, units) ==
    LET q == acct[u].shares
        t == Take(q, units, {s \in Range(q) : s.validator = v /\ s.days = 0})
    IN /\ t.left = 0 /\ Len(t.rest \o acct[u].pending \o t.taken) <= MaxShares
       /\ acct' = [acct EXCEPT ![u].shares = t.rest, ![u].pending = @ \o t.taken]
       /\ UNCHANGED <<vali, pool, block, start, plugin>>

Cancel(u, v, units) ==
    LET q == acct[u].pending
        t == Take(q, units, {s \in Range(q) : s.validator = v})
    IN /\ t.left = 0 /\ Len(t.rest \o acct[u].shares \o t.taken) <= MaxShares
       /\ acct' = [acct EXCEPT ![u].pending = t.rest, ![u].shares = @ \o t.taken]
       /\ UNCHANGED <<vali, pool, block, start, plugin>>

(* What a validator keeps of what a share gained.                          *)
Diff(s, net) == Floor(s.units, net - s.net)
Fee(s, net) == (Diff(s, net) * Commission.num) \div Commission.den

(* What settling shares unfreezes.                                         *)
Unfrozen(q) == SumOf(q, LAMBDA s : Floor(s.units, s.net))

(* The staker's part of the gain leaves the pool for his account, which is *)
(* then written again as it was read before: it is lost.                   *)
Settle(u, v, units) ==
    LET q == acct[u].pending
        t == Take(q, units, {s \in Range(q) : s.validator = v /\ s.time + PendingDays <= block})
        net == vali[v].net
        frozen == Unfrozen(t.taken)
        fee == SumOf(t.taken, LAMBDA s : Fee(s, net))
        bonus == SumOf(t.taken, LAMBDA s : Diff(s, net)) - fee
    IN /\ t.left = 0 /\ start > 0 /\ pool.amount >= bonus + fee
       /\ acct' = [acct EXCEPT ![u].amount = @ + frozen, ![u].frozen = @ - frozen,
                               ![u].pending = t.rest]
       /\ pool' = [pool EXCEPT !.amount = @ - bonus - fee, !.total = @ - frozen - bonus]
       /\ vali' = [vali EXCEPT ![v].units = @ - units, ![v].amount = @ + fee]
       /\ UNCHANGED <<block, start, plugin>>

(* The last cycle of the period, in which bonuses are received.            *)
LastCycle(num, from) == num >= from + (Cycles - 1) * CycleLen /\ num < from + PeriodLen

(* How often within the cycle is not checked.                              *)
Recvstkbonus(v, gain) ==
    /\ start > 0 /\ LastCycle(block, start) /\ vali[v].units >= UnitThreshold
    /\ vali[v].net + gain <= MaxNet
    /\ vali' = [vali EXCEPT ![v].net = @ + gain]
    /\ pool' = [pool EXCEPT !.total = @ + (2 * gain * vali[v].units + Fine) \div (2 * Fine)]
    /\ UNCHANGED <<acct, block, start, plugin>>

-----------------------------------------------------------------------------
(* Mutant: the period ends a block late.                                   *)
NextStartLate(num) == IF start > 0 /\ num = start + PeriodLen + 1 THEN num ELSE start

(* check_and_update_staking_ctx.                                           *)
NextStart(num) == IF start > 0 /\ num = start + PeriodLen THEN num ELSE start

(* Mutant: the last block of the cycle is waited for.                      *)
SendsLate(p) ==
    /\ p.last # start /\ p.current >= start /\ block > start + Cycles * CycleLen - 2

(* applied_block of the plugin: whether it sends recvstkbonus, for the     *)
(* next block.  Whether that succeeds is not looked at.                    *)
Sends(p) ==
    p.last # start /\ p.current >= start /\ block > start + (Cycles - 1) * CycleLen

Seen(p) ==
    IF Sends(p) THEN [p EXCEPT !.last = start]
    ELSE IF p.last # start /\ p.current < start THEN [p EXCEPT !.current = start]
    ELSE p

(* The pending block is accepted, and the next one started.                *)
NewBlock ==
    /\ block < MaxBlock /\ block' = block + 1 /\ start' = NextStart(block + 1)
    /\ plugin' = [v \in Hosts |-> Seen(plugin[v])]
    /\ UNCHANGED <<acct, vali, pool>>

(* Bound: once for every node.                                             *)
RestartNode(v) ==
    /\ plugin[v].booted = 0
    /\ \E p \in Started(block) : plugin' = [plugin EXCEPT ![v] = p]
    /\ UNCHANGED <<acct, vali, pool, block, start>>

Next == \/ Newstakepool \/ Updstakepool \/ NewBlock
        \/ (\E v \in Validators : Newvalidator(v)) \/ (\E v \in Hosts : RestartNode(v))
        \/ \E v \in DOMAIN vali, g \in Gains : Recvstkbonus(v, g)
        \/ \E u \in Stakers, v \in DOMAIN vali, n \in Amounts :
              \/ Valiwithdraw(v, u, n)
              \/ \E d \in FixedDays : Staketkns(u, v, n, d)
              \/ Propose(u, v, n) \/ Cancel(u, v, n) \/ Settle(u, v, n)
        \/ \E u \in Stakers, v \in Validators : Toactivetkns(u, v)

Spec == Init /\ [][Next]_vars
-----------------------------------------------------------------------------
TotalOver(S, Value(_)) == SumFunction([x \in S |-> Value(x)])

(* No unit is lost or made by splitting, cancelling and settling shares:   *)
(* the validators' total_units add up to what the stakers hold, pending or *)
(* not.  (Of a single validator that is not so: Credited.)                 *)
UnitsCounted ==
    TotalOver(DOMAIN vali, LAMBDA v : vali[v].units) =
        TotalOver(Stakers, LAMBDA u : Units(acct[u].shares \o acct[u].pending))

(* However shares are split and whatever is rounded, what the shares of a  *)
(* staker are worth is covered by what he froze and by what toactivetkns   *)
(* credited to him, so he never unfreezes more.  (It need not be covered   *)
(* by the rounded amounts that toactivetkns adds to the pool: those may be *)
(* less by one for every share.)                                           *)
FrozenCovers ==
    \A u \in Stakers :
        Worth(acct[u].shares \o acct[u].pending) <= Fine * acct[u].frozen + acct[u].gained

(* Nothing is made: the balances, frozen ones included, never grow         *)
(* together, and no balance is negative, although amounts are rounded up   *)
(* when they are staked.  (They shrink together when a staker's bonus is   *)
(* lost, see Settle; units that toactivetkns credited are paid out of a    *)
(* frozen balance that becomes negative.)                                  *)
NothingMade ==
    /\ TotalOver(Stakers, LAMBDA u : acct[u].amount + acct[u].frozen)
          + TotalOver(DOMAIN vali, LAMBDA v : vali[v].amount) + pool.amount
        <= TotalOver(Stakers, LAMBDA u : Funds[u]) + Supply
    /\ \A u \in Stakers : acct[u].amount >= 0

(* The assertions of recvstkbonus on staking_ctx: the pending block is     *)
(* always in the current period, so they never fail.                       *)
PeriodCurrent == start > 0 => start <= block /\ block < start + PeriodLen

(* A plugin marks the period as received when it sends.  What it sends is  *)
(* for a block in which the bonus can be received, unless the node was     *)
(* started in the last cycle.                                              *)
SentInTime ==
    [][\A v \in Hosts :
          start > 0 /\ block' > block /\ plugin[v].booted <= start + (Cycles - 1) * CycleLen
              => (plugin'[v].last # plugin[v].last => LastCycle(block', start))]_vars
=============================================================================
