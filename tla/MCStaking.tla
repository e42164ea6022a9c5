---- MODULE MCStaking ----
EXTENDS Staking, TLC
CONSTANTS alice, v, w
MCFunds == alice :> 2
MCHalf == [num |-> 1, den |-> 2]

(* The time of an active share is never read, that of a pending one only   *)
(* until it can be settled, and the total of the pool only by the formula  *)
(* that Gains stands for.  The numbers of a plugin are only compared with  *)
(* the start of the period, and MaxBlock allows one more.                  *)
MCView ==
    LET active(s) == IF s.days = 0 THEN [s EXCEPT !.time = 0] ELSE s
        ripe(s) == IF s.time + PendingDays <= block THEN [s EXCEPT !.time = 0] ELSE s
        each(q, f(_)) == [i \in DOMAIN q |-> f(q[i])]
    IN <<[u \in Stakers |-> [acct[u] EXCEPT !.shares = each(@, active), !.pending = each(@, ripe)]],
         vali, [pool EXCEPT !.total = 0], block, start,
         IF start = 0 THEN plugin
         ELSE [h \in Hosts |-> <<plugin[h].current >= start, plugin[h].current >= start + PeriodLen,
                                 plugin[h].last = start, plugin[h].last = start + PeriodLen,
                                 plugin[h].booted = 0,
                                 plugin[h].booted <= start + (Cycles - 1) * CycleLen>>]>>

(* The pool and the validators come first.                                 *)
MCSetUp == block > 1 => start > 0 /\ DOMAIN vali = Validators
====
