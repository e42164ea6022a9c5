--------------------------- MODULE StakingProofs ---------------------------
(***************************************************************************)
(* Theorems about staking, for any number of stakers and validators and    *)
(* any sequence of operations: the books (units, frozen balances and       *)
(* balances add up whatever is rounded), and the periods of blocks.        *)
(***************************************************************************)
EXTENDS Staking, FoldProofs

(* The records of the state.                                               *)
Share == [validator : Validators, units : Nat, net : Nat \ {0}, time : Nat, days : Nat]

(* The shares that can be held when x are the validators: the net value of *)
(* a share's validator has not fallen since it was bought.                 *)
Held(x) == {s \in Share : s.validator \in DOMAIN x /\ s.net <= x[s.validator].net}

Account(x) == [amount : Nat, frozen : Int, gained : Nat,
               shares : Seq(Held(x)), pending : Seq(Held(x))]

Valis == UNION {[D -> [units : Int, net : Nat \ {0}, amount : Nat]] : D \in SUBSET Validators}

(* The types of the variables.                                             *)
TypeOK ==
    /\ acct \in [Stakers -> Account(vali)]
    /\ vali \in Valis
    /\ pool \in [amount : Nat, total : Int, threshold : Nat]
    /\ block \in Nat \ {0} /\ start \in Nat
    /\ plugin \in [Hosts -> [current : Nat, last : Nat, booted : Nat]]

-----------------------------------------------------------------------------
(* Division by a positive number.                                          *)
LEMMA DivFacts ==
    ASSUME NEW a \in Nat, NEW d \in Nat \ {0}
    PROVE  a \div d \in Nat /\ d * (a \div d) <= a /\ a < d * (a \div d) + d
OBVIOUS

(* The lengths of a period.                                                *)
LEMMA Periods ==
    /\ PeriodLen \in Nat \ {0} /\ (Cycles - 1) * CycleLen \in Nat
    /\ (Cycles - 1) * CycleLen + CycleLen = PeriodLen
<1>1. Cycles \in Nat \ {0} /\ CycleLen \in Nat \ {0}
  BY StakingAssumption
<1> QED BY <1>1 DEF PeriodLen

(* Where the plugin of a node stands that was started before the last      *)
(* cycle.                                                                  *)
Requests ==
    \A v \in Hosts : LET p == plugin[v]
                         last == start + (Cycles - 1) * CycleLen
                     IN start > 0 /\ p.booted <= last =>
                          /\ block > last + 1 => p.last = start
                          /\ block > last => p.last = start \/ p.current >= start

(* The inductive invariant of the periods.                                 *)
Clock == /\ block \in Nat \ {0} /\ start \in Nat
         /\ plugin \in [Hosts -> [current : Nat, last : Nat, booted : Nat]]
         /\ PeriodCurrent /\ Requests

(* The plugin of a node that was just started.                             *)
LEMMA StartedPlugin ==
    ASSUME NEW at \in Nat, NEW p \in Started(at)
    PROVE  p \in [current : Nat, last : Nat, booted : Nat] /\ p.booted = at
<1>1. Words \subseteq Nat
  BY StakingAssumption
<1>2. p \in [current : Words, last : Words, booted : {at}]
  BY DEF Started
<1> QED BY <1>1, <1>2

(* The initial state satisfies Clock.                                      *)
LEMMA ClockInit == Init => Clock
<1> SUFFICES ASSUME Init PROVE Clock
  OBVIOUS
<1>1. plugin \in [Hosts -> Started(0)] /\ block = 1 /\ start = 0
  BY DEF Init
<1>2. plugin \in [Hosts -> [current : Nat, last : Nat, booted : Nat]]
  BY <1>1, StartedPlugin
<1> QED BY <1>1, <1>2 DEF Clock, PeriodCurrent, Requests

(* Every step preserves Clock: a period ends exactly when its last block   *)
(* is accepted, and a plugin of a node that was up in time has sent before *)
(* the last cycle is a block old.                                          *)
LEMMA ClockNext == ASSUME Clock, [Next]_vars PROVE Clock'
<1> USE DEF Clock
<1>0. CASE Newstakepool
  BY <1>0, Periods DEF Newstakepool, PeriodCurrent, Requests
<1>1. CASE NewBlock
  BY <1>1, Periods DEF NewBlock, PeriodCurrent, Requests, NextStart, Seen, Sends
<1>2. ASSUME NEW v \in Hosts, RestartNode(v) PROVE Clock'
  <2>1. PICK p \in Started(block) : plugin' = [plugin EXCEPT ![v] = p]
    BY <1>2 DEF RestartNode
  <2>2. p \in [current : Nat, last : Nat, booted : Nat] /\ p.booted = block
    BY <2>1, StartedPlugin
  <2> QED BY <1>2, <2>1, <2>2, Periods DEF RestartNode, PeriodCurrent, Requests
<1>3. CASE UNCHANGED <<block, start, plugin>>
  BY <1>3 DEF PeriodCurrent, Requests
<1>4. CASE Updstakepool
  BY <1>3, <1>4 DEF Updstakepool
<1>5. ASSUME NEW v \in Validators, Newvalidator(v) PROVE Clock'
  BY <1>3, <1>5 DEF Newvalidator
<1>6. ASSUME NEW v \in DOMAIN vali, NEW g \in Gains, Recvstkbonus(v, g) PROVE Clock'
  BY <1>3, <1>6 DEF Recvstkbonus
<1>7. ASSUME NEW u \in Stakers, NEW v \in DOMAIN vali, NEW n \in Amounts,
             \/ Valiwithdraw(v, u, n) \/ \E d \in FixedDays : Staketkns(u, v, n, d)
             \/ Propose(u, v, n) \/ Cancel(u, v, n) \/ Settle(u, v, n)
      PROVE  Clock'
  BY <1>3, <1>7 DEF Valiwithdraw, Staketkns, Propose, Cancel, Settle
<1>8. ASSUME NEW u \in Stakers, NEW v \in Validators, Toactivetkns(u, v) PROVE Clock'
  BY <1>3, <1>8 DEF Toactivetkns
<1>9. CASE UNCHANGED vars
  BY <1>3, <1>9 DEF vars
<1> HIDE DEF Clock
<1> QED BY <1>0, <1>1, <1>2, <1>4, <1>5, <1>6, <1>7, <1>8, <1>9 DEF Next

(* The pending block is always within the current period, whatever the     *)
(* lengths: the assertions of recvstkbonus on staking_ctx never fail.      *)
THEOREM BlockInPeriod == Spec => []PeriodCurrent
<1>1. Clock => PeriodCurrent
  BY DEF Clock
<1> QED BY <1>1, ClockInit, ClockNext, PTL DEF Spec

(* When a cycle has at least three blocks, what the plugin of a node sends *)
(* that was started before the last cycle is for a block of that cycle, in *)
(* which recvstkbonus is accepted.  (With shorter cycles the block after   *)
(* the next may be the next period's.)                                     *)
THEOREM BonusRequested == CycleLen >= 3 => (Spec => SentInTime)
<1> SUFFICES ASSUME CycleLen >= 3 PROVE Spec => SentInTime
  OBVIOUS
<1> DEFINE InTime == \A v \in Hosts :
              start > 0 /\ block' > block /\ plugin[v].booted <= start + (Cycles - 1) * CycleLen
                  => (plugin'[v].last # plugin[v].last => LastCycle(block', start))
<1>1. ASSUME Clock, [Next]_vars PROVE [InTime]_vars
  <2>1. CASE block' = block
    BY <1>1, <2>1 DEF Clock
  <2>2. CASE NewBlock
    <3>1. CycleLen \in Nat
      BY StakingAssumption
    <3> QED BY <1>1, <2>2, <3>1, Periods
        DEF NewBlock, Clock, PeriodCurrent, Requests, Seen, Sends, LastCycle
  <2>3. block' = block \/ NewBlock
    <3>1. CASE Next
      <4>1. CASE Newstakepool \/ Updstakepool \/ \E v \in Validators : Newvalidator(v)
        BY <4>1 DEF Newstakepool, Updstakepool, Newvalidator
      <4>2. ASSUME NEW v \in DOMAIN vali, NEW g \in Gains, Recvstkbonus(v, g) PROVE block' = block
        BY <4>2 DEF Recvstkbonus
      <4>3. ASSUME NEW u \in Stakers, NEW v \in DOMAIN vali, NEW n \in Amounts,
                   \/ Valiwithdraw(v, u, n) \/ \E d \in FixedDays : Staketkns(u, v, n, d)
                   \/ Propose(u, v, n) \/ Cancel(u, v, n) \/ Settle(u, v, n)
            PROVE  block' = block
        BY <4>3 DEF Valiwithdraw, Staketkns, Propose, Cancel, Settle
      <4>4. ASSUME NEW u \in Stakers, NEW v \in Validators, Toactivetkns(u, v)
            PROVE  block' = block
        BY <4>4 DEF Toactivetkns
      <4>5. ASSUME NEW v \in Hosts, RestartNode(v) PROVE block' = block
        BY <4>5 DEF RestartNode
      <4> QED BY <3>1, <4>1, <4>2, <4>3, <4>4, <4>5 DEF Next
    <3> QED BY <1>1, <3>1 DEF vars
  <2> QED BY <2>1, <2>2, <2>3
<1> QED BY <1>1, ClockInit, ClockNext, PTL DEF Spec, SentInTime

-----------------------------------------------------------------------------
(* What the shares of a sequence contribute.                               *)
UnitsAt(q) == [i \in 1..Len(q) |-> q[i].units]
WorthAt(q) == [i \in 1..Len(q) |-> q[i].units * q[i].net]

(* Units and Worth are sums over the positions of a sequence.              *)
LEMMA SumsOver ==
    ASSUME NEW q \in Seq(Share)
    PROVE  /\ Units(q) = SumFunctionOnSet(UnitsAt(q), 1..Len(q))
           /\ Worth(q) = SumFunctionOnSet(WorthAt(q), 1..Len(q))
           /\ \A i \in 1..Len(q) : UnitsAt(q)[i] \in Nat /\ WorthAt(q)[i] \in Nat
<1>1. DOMAIN q = 1..Len(q)
  OBVIOUS
<1>2. Units(q) = SumFunctionOnSet(UnitsAt(q), 1..Len(q))
  BY <1>1 DEF Units, SumOf, SumFunction, UnitsAt
<1>3. Worth(q) = SumFunctionOnSet(WorthAt(q), 1..Len(q))
  BY <1>1 DEF Worth, SumOf, SumFunction, WorthAt
<1>4. \A i \in 1..Len(q) : q[i] \in Share
  OBVIOUS
<1> QED BY <1>2, <1>3, <1>4 DEF UnitsAt, WorthAt, Share

(* They are natural numbers.                                               *)
LEMMA SumsNat ==
    ASSUME NEW q \in Seq(Share)
    PROVE  Units(q) \in Nat /\ Worth(q) \in Nat
<1>1. IsFiniteSet(1..Len(q))
  BY FS_Interval
<1> QED BY <1>1, SumsOver, SumNat

(* Nothing is worth nothing.                                               *)
LEMMA SumsEmpty == Units(<<>>) = 0 /\ Worth(<<>>) = 0
<1>1. <<>> \in Seq(Share) /\ 1..Len(<<>>) = {}
  OBVIOUS
<1> QED BY <1>1, SumsOver, SumEmpty, Zenon

(* A share adds its units and their worth.                                 *)
LEMMA SumsAppend ==
    ASSUME NEW q \in Seq(Share), NEW s \in Share
    PROVE  Units(Append(q, s)) = Units(q) + s.units /\ Worth(Append(q, s)) = Worth(q) + s.units * s.net
<1> DEFINE r == Append(q, s)  n == Len(q)
<1>1. r \in Seq(Share) /\ Len(r) = n + 1 /\ n \in Nat /\ Len(q) = n
      /\ \A i \in 1..n : r[i] = q[i] /\ r[n + 1] = s
  OBVIOUS
<1>2. /\ \A i \in 1..n : UnitsAt(q)[i] = UnitsAt(r)[i] /\ WorthAt(q)[i] = WorthAt(r)[i]
      /\ UnitsAt(r)[n + 1] = s.units /\ WorthAt(r)[n + 1] = s.units * s.net
  <2>1. \A i \in 1..n : i \in 1..(n + 1)
    OBVIOUS
  <2>2. n + 1 \in 1..(n + 1) /\ r[n + 1] = s
    OBVIOUS
  <2> HIDE DEF r, n
  <2> QED BY <1>1, <2>1, <2>2 DEF UnitsAt, WorthAt
<1>3. /\ \A i \in 1..(n + 1) : UnitsAt(r)[i] \in Int /\ WorthAt(r)[i] \in Int
      /\ \A i \in 1..n : UnitsAt(q)[i] \in Int /\ WorthAt(q)[i] \in Int
  <2> HIDE DEF r, n
  <2> QED BY <1>1, SumsOver
<1> HIDE DEF r, n
<1>4. /\ SumFunctionOnSet(UnitsAt(r), 1..(n + 1)) = SumFunctionOnSet(UnitsAt(r), 1..n) + s.units
      /\ SumFunctionOnSet(WorthAt(r), 1..(n + 1)) = SumFunctionOnSet(WorthAt(r), 1..n) + s.units * s.net
  BY <1>1, <1>2, <1>3, SumNext
<1>5. /\ SumFunctionOnSet(UnitsAt(q), 1..n) = SumFunctionOnSet(UnitsAt(r), 1..n)
      /\ SumFunctionOnSet(WorthAt(q), 1..n) = SumFunctionOnSet(WorthAt(r), 1..n)
  <2>1. IsFiniteSet(1..n)
    BY <1>1, FS_Interval
  <2> QED BY <1>2, <1>3, <2>1, SumSame
<1>6. Units(r) = Units(q) + s.units /\ Worth(r) = Worth(q) + s.units * s.net
  BY <1>1, <1>4, <1>5, SumsOver DEF n
<1> QED BY <1>6 DEF r

(* The sums of two sequences of shares.                                    *)
LEMMA SumsConcat ==
    ASSUME NEW p \in Seq(Share), NEW q \in Seq(Share)
    PROVE  Units(p \o q) = Units(p) + Units(q) /\ Worth(p \o q) = Worth(p) + Worth(q)
<1> DEFINE r == p \o q  m == Len(p)  n == Len(q)
<1>1. /\ r \in Seq(Share) /\ Len(r) = m + n /\ m \in Nat /\ n \in Nat /\ Len(p) = m /\ Len(q) = n
      /\ \A i \in 1..m : i \in 1..(m + n) /\ r[i] = p[i]
      /\ \A i \in 1..n : m + i \in 1..(m + n) /\ r[m + i] = q[i]
  OBVIOUS
<1> HIDE DEF r, m, n
<1>2. /\ \A i \in 1..m : UnitsAt(r)[i] = UnitsAt(p)[i] /\ WorthAt(r)[i] = WorthAt(p)[i]
      /\ \A i \in 1..n : UnitsAt(r)[m + i] = UnitsAt(q)[i] /\ WorthAt(r)[m + i] = WorthAt(q)[i]
  BY <1>1 DEF UnitsAt, WorthAt
<1>3. /\ \A i \in 1..m : UnitsAt(p)[i] \in Int /\ WorthAt(p)[i] \in Int
      /\ \A i \in 1..n : UnitsAt(q)[i] \in Int /\ WorthAt(q)[i] \in Int
  BY <1>1, SumsOver
<1>4. Joined(UnitsAt(r), UnitsAt(p), m, UnitsAt(q), n)
  BY <1>2, <1>3 DEF Joined
<1>5. Joined(WorthAt(r), WorthAt(p), m, WorthAt(q), n)
  BY <1>2, <1>3 DEF Joined
<1>6. SumFunctionOnSet(UnitsAt(r), 1..(m + n)) =
        SumFunctionOnSet(UnitsAt(p), 1..m) + SumFunctionOnSet(UnitsAt(q), 1..n)
  BY <1>1, <1>4, SumConcat
<1>7. SumFunctionOnSet(WorthAt(r), 1..(m + n)) =
        SumFunctionOnSet(WorthAt(p), 1..m) + SumFunctionOnSet(WorthAt(q), 1..n)
  BY <1>1, <1>5, SumConcat
<1>8. Units(r) = Units(p) + Units(q) /\ Worth(r) = Worth(p) + Worth(q)
  BY <1>1, <1>6, <1>7, SumsOver
<1> QED BY <1>8 DEF r

(* What defines the function in Take.                                      *)
IsTake(g, q, units, may) == g = [i \in 0..Len(q) |->
    IF i = 0 THEN [left |-> units, rest |-> <<>>, taken |-> <<>>]
    ELSE TakeFrom(g[i - 1], q[i], may)]

(* The shares that may be taken, in part and with another time.            *)
PartsOf(x, may) == {s \in Held(x) : \E m \in may : s.validator = m.validator}

(* The states of the loop.                                                 *)
Loop(x, may) == [left : Nat, rest : Seq(Held(x)), taken : Seq(PartsOf(x, may))]

(* Held shares and their parts are shares.                                 *)
LEMMA HeldShares ==
    ASSUME NEW x
    PROVE  /\ Held(x) \subseteq Share /\ Seq(Held(x)) \subseteq Seq(Share)
           /\ \A may : PartsOf(x, may) \subseteq Held(x) /\ Seq(PartsOf(x, may)) \subseteq Seq(Share)
<1>1. Held(x) \subseteq Share /\ \A may : PartsOf(x, may) \subseteq Held(x)
  BY DEF Held, Share, PartsOf
<1> QED BY <1>1

(* One turn of the loop of unstaketkns only moves units from the share     *)
(* that is looked at to what is taken.                                     *)
LEMMA TakeFromSums ==
    ASSUME NEW x, NEW may, NEW r \in Loop(x, may), NEW s \in Held(x), block \in Nat
    PROVE  LET t == TakeFrom(r, s, may)
           IN /\ t \in Loop(x, may)
              /\ t.left + Units(t.taken) = r.left + Units(r.taken)
              /\ Units(t.rest) + Units(t.taken) = Units(r.rest) + Units(r.taken) + s.units
              /\ Worth(t.rest) + Worth(t.taken) = Worth(r.rest) + Worth(r.taken) + s.units * s.net
<1> DEFINE n == IF s \notin may THEN 0 ELSE IF s.units < r.left THEN s.units ELSE r.left
           a == [s EXCEPT !.units = @ - n]
           c == [s EXCEPT !.units = n, !.time = block]
           t == TakeFrom(r, s, may)
<1>1. r.left \in Nat /\ r.rest \in Seq(Held(x)) /\ r.taken \in Seq(PartsOf(x, may))
  BY DEF Loop
<1>2. s \in Share
  BY HeldShares
<1>3. n \in Nat /\ n <= s.units /\ n <= r.left /\ s.units \in Nat /\ s.net \in Nat
  BY <1>1, <1>2 DEF Share
<1>4. /\ a.units = s.units - n /\ a.net = s.net /\ a.validator = s.validator
      /\ c.units = n /\ c.net = s.net /\ c.validator = s.validator
  BY <1>2 DEF Share
<1>5. a \in Held(x) /\ c \in Held(x)
  <2>1. a \in Share /\ c \in Share
    <3>1. s.units - n \in Nat
      BY <1>3
    <3> HIDE DEF n
    <3> QED BY <1>2, <1>3, <3>1 DEF Share
  <2> HIDE DEF a, c
  <2> QED BY <1>4, <2>1 DEF Held, Share
<1>6. n # 0 => c \in PartsOf(x, may)
  <2> HIDE DEF a, c
  <2> QED BY <1>4, <1>5 DEF PartsOf
<1>7. /\ t.left = r.left - n
      /\ t.rest = IF n = s.units THEN r.rest ELSE Append(r.rest, a)
      /\ t.taken = IF n = 0 THEN r.taken ELSE Append(r.taken, c)
      /\ t = [left |-> t.left, rest |-> t.rest, taken |-> t.taken]
  BY DEF TakeFrom
<1> HIDE DEF n, a, c, t
<1>8. t \in Loop(x, may)
  <2>1. t.left \in Nat
    BY <1>1, <1>3, <1>7
  <2>2. t.rest \in Seq(Held(x))
    BY <1>1, <1>5, <1>7
  <2>3. t.taken \in Seq(PartsOf(x, may))
    BY <1>1, <1>6, <1>7
  <2> QED BY <1>7, <2>1, <2>2, <2>3 DEF Loop
<1>9. r.rest \in Seq(Share) /\ r.taken \in Seq(Share) /\ a \in Share /\ c \in Share
  BY <1>1, <1>5, HeldShares
<1>10. Units(r.rest) \in Nat /\ Units(r.taken) \in Nat /\ Worth(r.rest) \in Nat /\ Worth(r.taken) \in Nat
  BY <1>9, SumsNat
<1>11. Units(t.taken) = Units(r.taken) + n /\ Worth(t.taken) = Worth(r.taken) + n * s.net
  BY <1>3, <1>4, <1>7, <1>9, <1>10, SumsAppend
<1>12. /\ Units(t.rest) = Units(r.rest) + (s.units - n)
       /\ Worth(t.rest) = Worth(r.rest) + (s.units - n) * s.net
  <2>1. CASE n = s.units
    BY <2>1, <1>3, <1>7, <1>10
  <2>2. CASE n # s.units
    BY <2>2, <1>4, <1>7, <1>9, SumsAppend
  <2> QED BY <2>1, <2>2
<1>13. (s.units - n) * s.net + n * s.net = s.units * s.net
  BY <1>3
<1>14. n * s.net \in Nat /\ (s.units - n) * s.net \in Nat
  BY <1>3
<1>15. t.left + Units(t.taken) = r.left + Units(r.taken)
  BY <1>1, <1>3, <1>7, <1>10, <1>11
<1>16. Units(t.rest) + Units(t.taken) = Units(r.rest) + Units(r.taken) + s.units
  BY <1>3, <1>10, <1>11, <1>12
<1>17. Worth(t.rest) + Worth(t.taken) = Worth(r.rest) + Worth(r.taken) + s.units * s.net
  <2> DEFINE w == n * s.net
             y == (s.units - n) * s.net
             z == s.units * s.net
  <2>1. w \in Nat /\ y \in Nat /\ y + w = z
    BY <1>13, <1>14
  <2>2. Worth(t.rest) = Worth(r.rest) + y /\ Worth(t.taken) = Worth(r.taken) + w
    BY <1>11, <1>12
  <2> HIDE DEF w, y, z
  <2>3. Worth(t.rest) + Worth(t.taken) = Worth(r.rest) + Worth(r.taken) + z
    BY <1>10, <2>1, <2>2
  <2> QED BY <2>3 DEF z
<1> QED BY <1>8, <1>15, <1>16, <1>17 DEF t

(* The loops of unstaketkns: what is left to take, what is taken and what  *)
(* stays add up, in units and in worth.                                    *)
LEMMA TakeSums ==
    ASSUME NEW x, NEW q \in Seq(Held(x)), NEW units \in Nat, NEW may, block \in Nat
    PROVE  LET t == Take(q, units, may)
           IN /\ t \in Loop(x, may)
              /\ t.left + Units(t.taken) = units
              /\ Units(t.rest) + Units(t.taken) = Units(q)
              /\ Worth(t.rest) + Worth(t.taken) = Worth(q)
<1> DEFINE n == Len(q)
           T == Loop(x, may)
           none == [left |-> units, rest |-> <<>>, taken |-> <<>>]
           F == [p \in (1..n) \X T |-> TakeFrom(p[2], q[p[1]], may)]
<1>1. n \in Nat /\ \A i \in 1..n : q[i] \in Held(x)
  OBVIOUS
<1>2. none \in T
  BY DEF Loop
<1>3. F \in [(1..n) \X T -> T]
  <2> SUFFICES ASSUME NEW p \in (1..n) \X T
               PROVE  TakeFrom(p[2], q[p[1]], may) \in T
    OBVIOUS
  <2>1. p[2] \in Loop(x, may) /\ q[p[1]] \in Held(x)
    OBVIOUS
  <2> QED BY <2>1, TakeFromSums
<1>3a. PICK h : Steps(h, n, T, none, F)
  <2> HIDE DEF n, T, none, F
  <2> QED BY <1>1, <1>2, <1>3, RecursionExists
<1>4. h \in [0..n -> T] /\ h[0] = none /\ \A i \in 1..n : h[i] = F[<<i, h[i - 1]>>]
  <2> HIDE DEF n, T, none, F
  <2> QED BY <1>3a DEF Steps
<1>5. \A i \in 1..n : F[<<i, h[i - 1]>>] = TakeFrom(h[i - 1], q[i], may)
  <2> SUFFICES ASSUME NEW i \in 1..n
               PROVE  F[<<i, h[i - 1]>>] = TakeFrom(h[i - 1], q[i], may)
    OBVIOUS
  <2>1. <<i, h[i - 1]>> \in (1..n) \X T
    <3>1. i - 1 \in 0..n
      BY <1>1
    <3> HIDE DEF T, n, F, none
    <3> QED BY <1>4, <3>1
  <2> HIDE DEF T, n
  <2> QED BY <2>1 DEF F
<1>6. IsTake(h, q, units, may)
  <2>1. h = [i \in 0..n |-> IF i = 0 THEN none ELSE TakeFrom(h[i - 1], q[i], may)]
    <3>1. \A i \in 0..n : i = 0 \/ i \in 1..n
      BY <1>1
    <3> HIDE DEF n, T, none, F
    <3> QED BY <1>4, <1>5, <3>1
  <2> QED BY <2>1 DEF IsTake
<1> DEFINE g == CHOOSE g : IsTake(g, q, units, may)
<1>7. IsTake(g, q, units, may) /\ Take(q, units, may) = g[n]
  <2>1. IsTake(g, q, units, may)
    BY <1>6
  <2>2. Take(q, units, may) = g[n]
    BY DEF Take, IsTake
  <2> QED BY <2>1, <2>2
<1> HIDE DEF g
<1> DEFINE Sums(i) ==
      /\ g[i] \in Loop(x, may)
      /\ g[i].left + Units(g[i].taken) = units
      /\ Units(g[i].rest) + Units(g[i].taken) = SumFunctionOnSet(UnitsAt(q), 1..i)
      /\ Worth(g[i].rest) + Worth(g[i].taken) = SumFunctionOnSet(WorthAt(q), 1..i)
    P == {i \in Nat : i <= n => Sums(i)}
<1>8. 0 \in P
  <2>1. g[0] = none
    BY <1>1, <1>7 DEF IsTake
  <2>2. 1..0 = {}
    OBVIOUS
  <2> QED BY <1>2, <2>1, <2>2, SumsEmpty, SumEmpty
<1>9. ASSUME NEW i \in Nat, i \in P
      PROVE  i + 1 \in P
  <2> SUFFICES ASSUME i + 1 <= n
               PROVE  Sums(i + 1)
    OBVIOUS
  <2> DEFINE k == i + 1
  <2>1. k \in 1..n /\ q[k] \in Held(x) /\ k # 0 /\ k \in 0..n /\ k - 1 = i
    BY <1>1
  <2>2. Sums(i)
    <3> HIDE DEF Sums
    <3> QED BY <1>9
  <2>3. g[k] = TakeFrom(g[i], q[k], may)
    <3> HIDE DEF k
    <3> QED BY <1>7, <2>1 DEF IsTake
  <2>4. /\ g[k] \in Loop(x, may)
        /\ g[k].left + Units(g[k].taken) = g[i].left + Units(g[i].taken)
        /\ Units(g[k].rest) + Units(g[k].taken) = Units(g[i].rest) + Units(g[i].taken) + q[k].units
        /\ Worth(g[k].rest) + Worth(g[k].taken)
              = Worth(g[i].rest) + Worth(g[i].taken) + q[k].units * q[k].net
    <3>1. g[i] \in Loop(x, may)
      BY <2>2
    <3> HIDE DEF Sums, k, n
    <3>2. \A r \in Loop(x, may), s \in Held(x) : \A t : t = TakeFrom(r, s, may) =>
            /\ t \in Loop(x, may)
            /\ t.left + Units(t.taken) = r.left + Units(r.taken)
            /\ Units(t.rest) + Units(t.taken) = Units(r.rest) + Units(r.taken) + s.units
            /\ Worth(t.rest) + Worth(t.taken) = Worth(r.rest) + Worth(r.taken) + s.units * s.net
      BY TakeFromSums
    <3> QED BY <2>1, <2>3, <3>1, <3>2
  <2>5. /\ SumFunctionOnSet(UnitsAt(q), 1..(i + 1)) = SumFunctionOnSet(UnitsAt(q), 1..i) + UnitsAt(q)[i + 1]
        /\ SumFunctionOnSet(WorthAt(q), 1..(i + 1)) = SumFunctionOnSet(WorthAt(q), 1..i) + WorthAt(q)[i + 1]
    <3>1. \A j \in 1..(i + 1) : UnitsAt(q)[j] \in Int /\ WorthAt(q)[j] \in Int
      BY HeldShares, SumsOver, <1>1
    <3> QED BY <3>1, SumNext
  <2>6. UnitsAt(q)[k] = q[k].units /\ WorthAt(q)[k] = q[k].units * q[k].net
    BY <2>1 DEF UnitsAt, WorthAt
  <2> QED BY <2>2, <2>4, <2>5, <2>6
<1>10. Sums(n)
  <2>1. Nat \subseteq P
    <3> HIDE DEF P
    <3> QED BY <1>8, <1>9, NatSetInduction
  <2> HIDE DEF Sums
  <2> QED BY <1>1, <2>1
<1>11. Units(q) = SumFunctionOnSet(UnitsAt(q), 1..n) /\ Worth(q) = SumFunctionOnSet(WorthAt(q), 1..n)
  BY HeldShares, SumsOver
<1> HIDE DEF n
<1> QED BY <1>7, <1>10, <1>11

-----------------------------------------------------------------------------
(* Accounts, and the sums of the properties.                               *)
Accounts == [Stakers -> [amount : Nat, frozen : Int, gained : Nat, shares : Seq(Share), pending : Seq(Share)]]

UnitsOf(a, u) == Units(a[u].shares \o a[u].pending)
MoneyOf(a, u) == a[u].amount + a[u].frozen
HeldUnits(a) == TotalOver(Stakers, LAMBDA u : Units(a[u].shares \o a[u].pending))
Money(a) == TotalOver(Stakers, LAMBDA u : a[u].amount + a[u].frozen)
SoldUnits(x) == TotalOver(DOMAIN x, LAMBDA v : x[v].units)
Fees(x) == TotalOver(DOMAIN x, LAMBDA v : x[v].amount)

(* The sums of one account.                                                *)
LEMMA AccountSums ==
    ASSUME NEW a \in Accounts, NEW u \in Stakers
    PROVE  /\ UnitsOf(a, u) = Units(a[u].shares) + Units(a[u].pending)
           /\ Worth(a[u].shares \o a[u].pending) = Worth(a[u].shares) + Worth(a[u].pending)
           /\ Units(a[u].shares) \in Nat /\ Units(a[u].pending) \in Nat
           /\ Worth(a[u].shares) \in Nat /\ Worth(a[u].pending) \in Nat
           /\ UnitsOf(a, u) \in Int /\ MoneyOf(a, u) \in Int
<1>2. a[u].shares \in Seq(Share) /\ a[u].pending \in Seq(Share)
  BY DEF Accounts
<1>3. a[u].amount \in Nat /\ a[u].frozen \in Int
  BY DEF Accounts
<1>4. /\ UnitsOf(a, u) = Units(a[u].shares) + Units(a[u].pending)
      /\ Worth(a[u].shares \o a[u].pending) = Worth(a[u].shares) + Worth(a[u].pending)
  BY <1>2, SumsConcat DEF UnitsOf
<1>5. /\ Units(a[u].shares) \in Nat /\ Units(a[u].pending) \in Nat
      /\ Worth(a[u].shares) \in Nat /\ Worth(a[u].pending) \in Nat
  BY <1>2, SumsNat
<1>6. MoneyOf(a, u) \in Int
  BY <1>3 DEF MoneyOf
<1> QED BY <1>4, <1>5, <1>6

(* The sums over all accounts when only one changes.                       *)
LEMMA AccountChange ==
    ASSUME NEW a \in Accounts, NEW b \in Accounts, NEW u \in Stakers,
           \A w \in Stakers \ {u} : b[w] = a[w]
    PROVE  /\ HeldUnits(b) = HeldUnits(a) - UnitsOf(a, u) + UnitsOf(b, u)
           /\ Money(b) = Money(a) - MoneyOf(a, u) + MoneyOf(b, u)
           /\ HeldUnits(a) \in Int /\ Money(a) \in Int
<1> DEFINE f(c) == [w \in Stakers |-> UnitsOf(c, w)]
           h(c) == [w \in Stakers |-> MoneyOf(c, w)]
<1>1. \A c \in Accounts, w \in Stakers : f(c)[w] \in Int /\ h(c)[w] \in Int
  BY AccountSums
<1>2. \A w \in Stakers \ {u} : f(b)[w] = f(a)[w] /\ h(b)[w] = h(a)[w]
  BY DEF UnitsOf, MoneyOf
<1>3. \A c : HeldUnits(c) = SumFunctionOnSet(f(c), Stakers) /\ Money(c) = SumFunctionOnSet(h(c), Stakers)
  BY DEF HeldUnits, Money, TotalOver, SumFunction, UnitsOf, MoneyOf
<1>4. IsFiniteSet(Stakers)
  BY StakingAssumption
<1>5. \A c : f(c)[u] = UnitsOf(c, u) /\ h(c)[u] = MoneyOf(c, u)
  OBVIOUS
<1> HIDE DEF f, h
<1>6. SumFunctionOnSet(f(b), Stakers) = SumFunctionOnSet(f(a), Stakers) - f(a)[u] + f(b)[u]
  <2>1. DifferAt(f(a), f(b), Stakers, u)
    BY <1>1, <1>2 DEF DifferAt
  <2> QED BY <1>4, <2>1, SumChanged
<1>7. SumFunctionOnSet(h(b), Stakers) = SumFunctionOnSet(h(a), Stakers) - h(a)[u] + h(b)[u]
  <2>1. DifferAt(h(a), h(b), Stakers, u)
    BY <1>1, <1>2 DEF DifferAt
  <2> QED BY <1>4, <2>1, SumChanged
<1>8. SumFunctionOnSet(f(a), Stakers) \in Int /\ SumFunctionOnSet(h(a), Stakers) \in Int
  BY <1>1, <1>4, SumInt
<1> QED BY <1>3, <1>5, <1>6, <1>7, <1>8

(* The sums over the validators are integers.                              *)
LEMMA ValidatorSums ==
    ASSUME NEW x \in Valis
    PROVE  SoldUnits(x) \in Int /\ Fees(x) \in Int
<1> DEFINE f == [w \in DOMAIN x |-> x[w].units]
           h == [w \in DOMAIN x |-> x[w].amount]
<1>1. IsFiniteSet(DOMAIN x) /\ \A w \in DOMAIN x : x[w].units \in Int /\ x[w].amount \in Int
  BY StakingAssumption, FS_Subset DEF Valis
<1>2. SoldUnits(x) = SumFunctionOnSet(f, DOMAIN x) /\ Fees(x) = SumFunctionOnSet(h, DOMAIN x)
  BY DEF SoldUnits, Fees, TotalOver, SumFunction
<1>3. \A w \in DOMAIN x : f[w] \in Int /\ h[w] \in Int
  BY <1>1
<1> HIDE DEF f, h
<1> QED BY <1>1, <1>2, <1>3, SumInt

(* The sums over the validators when only one changes.                     *)
LEMMA ValidatorChange ==
    ASSUME NEW x \in Valis, NEW y \in Valis, NEW v \in DOMAIN x, DOMAIN y = DOMAIN x,
           \A w \in DOMAIN x \ {v} : y[w] = x[w]
    PROVE  /\ SoldUnits(y) = SoldUnits(x) - x[v].units + y[v].units
           /\ Fees(y) = Fees(x) - x[v].amount + y[v].amount
<1> DEFINE D == DOMAIN x
           f == [w \in D |-> x[w].units]
           g == [w \in D |-> y[w].units]
           h == [w \in D |-> x[w].amount]
           k == [w \in D |-> y[w].amount]
<1>1. IsFiniteSet(D) /\ \A w \in D : /\ x[w].units \in Int /\ x[w].amount \in Int
                                     /\ y[w].units \in Int /\ y[w].amount \in Int
  BY StakingAssumption, FS_Subset DEF Valis
<1>2. \A w \in D : f[w] \in Int /\ h[w] \in Int /\ g[w] \in Int /\ k[w] \in Int
  BY <1>1
<1>3. \A w \in D \ {v} : g[w] = f[w] /\ k[w] = h[w]
  OBVIOUS
<1>4. /\ SoldUnits(x) = SumFunctionOnSet(f, D) /\ Fees(x) = SumFunctionOnSet(h, D)
      /\ SoldUnits(y) = SumFunctionOnSet(g, D) /\ Fees(y) = SumFunctionOnSet(k, D)
  BY DEF SoldUnits, Fees, TotalOver, SumFunction
<1>5. /\ f[v] = x[v].units /\ g[v] = y[v].units
      /\ h[v] = x[v].amount /\ k[v] = y[v].amount /\ v \in D
  OBVIOUS
<1> HIDE DEF f, g, h, k, D
<1>6. SumFunctionOnSet(g, D) = SumFunctionOnSet(f, D) - f[v] + g[v]
  <2>1. DifferAt(f, g, D, v)
    BY <1>2, <1>3 DEF DifferAt
  <2> QED BY <1>1, <1>5, <2>1, SumChanged
<1>7. SumFunctionOnSet(k, D) = SumFunctionOnSet(h, D) - h[v] + k[v]
  <2>1. DifferAt(h, k, D, v)
    BY <1>2, <1>3 DEF DifferAt
  <2> QED BY <1>1, <1>5, <2>1, SumChanged
<1> QED BY <1>4, <1>5, <1>6, <1>7

(* A new validator adds nothing to the sums.                               *)
LEMMA ValidatorAdded ==
    ASSUME NEW x \in Valis, NEW y \in Valis, NEW v \in Validators, v \notin DOMAIN x,
           DOMAIN y = DOMAIN x \cup {v}, \A w \in DOMAIN x : y[w] = x[w],
           y[v].units = 0, y[v].amount = 0
    PROVE  SoldUnits(y) = SoldUnits(x) /\ Fees(y) = Fees(x)
<1> DEFINE D == DOMAIN x  E == DOMAIN y
           f == [w \in D |-> x[w].units]
           g == [w \in E |-> y[w].units]
           h == [w \in D |-> x[w].amount]
           k == [w \in E |-> y[w].amount]
<1>1. IsFiniteSet(D) /\ IsFiniteSet(E)
      /\ (\A w \in D : x[w].units \in Int /\ x[w].amount \in Int)
      /\ \A w \in E : y[w].units \in Int /\ y[w].amount \in Int
  BY StakingAssumption, FS_Subset DEF Valis
<1>2. /\ \A w \in D : f[w] \in Int /\ h[w] \in Int /\ g[w] = f[w] /\ k[w] = h[w]
      /\ \A w \in E : g[w] \in Int /\ k[w] \in Int
      /\ g[v] = 0 /\ k[v] = 0
  BY <1>1
<1>3. /\ SoldUnits(x) = SumFunctionOnSet(f, D) /\ Fees(x) = SumFunctionOnSet(h, D)
      /\ SoldUnits(y) = SumFunctionOnSet(g, E) /\ Fees(y) = SumFunctionOnSet(k, E)
  BY DEF SoldUnits, Fees, TotalOver, SumFunction
<1>4. E \ {v} = D /\ v \in E
  OBVIOUS
<1> HIDE DEF f, g, h, k, D, E
<1>5. /\ SumFunctionOnSet(g, E) = g[v] + SumFunctionOnSet(g, D)
      /\ SumFunctionOnSet(k, E) = k[v] + SumFunctionOnSet(k, D)
  <2>1. /\ SumFunctionOnSet(g, E) = g[v] + SumFunctionOnSet(g, E \ {v})
        /\ SumFunctionOnSet(k, E) = k[v] + SumFunctionOnSet(k, E \ {v})
    BY <1>1, <1>2, <1>4, SumTakeOne
  <2> QED BY <1>4, <2>1, Zenon
<1>6. SumFunctionOnSet(g, D) = SumFunctionOnSet(f, D) /\ SumFunctionOnSet(k, D) = SumFunctionOnSet(h, D)
  BY <1>1, <1>2, SumSame
<1>7. SumFunctionOnSet(f, D) \in Int /\ SumFunctionOnSet(h, D) \in Int
  BY <1>1, <1>2, SumInt
<1> QED BY <1>2, <1>3, <1>5, <1>6, <1>7

(* What there was at the start.                                            *)
Supplied == TotalOver(Stakers, LAMBDA u : Funds[u]) + Supply

(* The books: what is proved to hold of the sums.                          *)
Books == /\ UnitsCounted /\ FrozenCovers /\ NothingMade

(* A share that is held stays one when net values grow and validators are  *)
(* added.                                                                  *)
LEMMA HeldGrows ==
    ASSUME NEW x \in Valis, NEW y \in Valis, DOMAIN x \subseteq DOMAIN y,
           \A v \in DOMAIN x : x[v].net <= y[v].net
    PROVE  /\ Held(x) \subseteq Held(y) /\ Seq(Held(x)) \subseteq Seq(Held(y))
           /\ Account(x) \subseteq Account(y)
<1>1. /\ \A v \in DOMAIN x : x[v].net \in Nat
      /\ \A v \in DOMAIN y : y[v].net \in Nat
  BY DEF Valis
<1>2. Held(x) \subseteq Held(y)
  BY <1>1 DEF Held, Share
<1> QED BY <1>2 DEF Account

(* Accounts whose shares are held are accounts.                            *)
LEMMA PlainAccounts ==
    ASSUME NEW x, NEW a \in [Stakers -> Account(x)]
    PROVE  a \in Accounts
BY HeldShares DEF Account, Accounts

(* A step that changes one account and one validator keeps the books when  *)
(* the differences agree.                                                  *)
LEMMA StepBooks ==
    ASSUME TypeOK, TypeOK', Books, NEW u \in Stakers, NEW v \in DOMAIN vali,
           DOMAIN vali' = DOMAIN vali,
           \A w \in Stakers \ {u} : acct'[w] = acct[w],
           \A w \in DOMAIN vali \ {v} : vali'[w] = vali[w],
           vali'[v].units - vali[v].units = UnitsOf(acct', u) - UnitsOf(acct, u),
           Worth(acct'[u].shares \o acct'[u].pending) - (Fine * acct'[u].frozen + acct'[u].gained)
              <= Worth(acct[u].shares \o acct[u].pending) - (Fine * acct[u].frozen + acct[u].gained),
           MoneyOf(acct', u) + vali'[v].amount + pool'.amount
              <= MoneyOf(acct, u) + vali[v].amount + pool.amount
    PROVE  Books'
<1>1. /\ acct \in Accounts /\ acct' \in Accounts /\ vali \in Valis /\ vali' \in Valis
      /\ pool.amount \in Int /\ pool'.amount \in Int
  BY PlainAccounts DEF TypeOK
<1>2. /\ HeldUnits(acct') = HeldUnits(acct) - UnitsOf(acct, u) + UnitsOf(acct', u)
      /\ Money(acct') = Money(acct) - MoneyOf(acct, u) + MoneyOf(acct', u)
      /\ HeldUnits(acct) \in Int /\ Money(acct) \in Int
  BY <1>1, AccountChange
<1>3. /\ SoldUnits(vali') = SoldUnits(vali) - vali[v].units + vali'[v].units
      /\ Fees(vali') = Fees(vali) - vali[v].amount + vali'[v].amount
  BY <1>1, ValidatorChange
<1>4. SoldUnits(vali) \in Int /\ Fees(vali) \in Int
  BY <1>1, ValidatorSums
<1>5. /\ UnitsOf(acct, u) \in Int /\ UnitsOf(acct', u) \in Int
      /\ MoneyOf(acct, u) \in Int /\ MoneyOf(acct', u) \in Int
  BY <1>1, AccountSums
<1>6. /\ vali[v].units \in Int /\ vali[v].amount \in Int
      /\ vali'[v].units \in Int /\ vali'[v].amount \in Int
  BY <1>1 DEF Valis
<1>7. UnitsCounted'
  <2>1. SoldUnits(vali) = HeldUnits(acct)
    BY DEF Books, UnitsCounted, SoldUnits, HeldUnits
  <2>2. SoldUnits(vali') = HeldUnits(acct')
    BY <1>2, <1>3, <1>4, <1>5, <1>6, <2>1
  <2> QED BY <2>2 DEF UnitsCounted, SoldUnits, HeldUnits, TotalOver
<1>8. NothingMade'
  <2>1. Money(acct) + Fees(vali) + pool.amount <= Supplied
    BY DEF Books, NothingMade, Money, Fees, Supplied
  <2>2. Supplied \in Int
    <3> DEFINE f == [w \in Stakers |-> Funds[w]]
    <3>1. IsFiniteSet(Stakers) /\ Supply \in Int /\ \A w \in Stakers : f[w] \in Int
      BY StakingAssumption
    <3>2. Supplied = SumFunctionOnSet(f, Stakers) + Supply
      BY DEF Supplied, TotalOver, SumFunction
    <3> HIDE DEF f
    <3> QED BY <3>1, <3>2, SumInt
  <2>3. Money(acct') + Fees(vali') + pool'.amount <= Supplied
    BY <1>1, <1>2, <1>3, <1>4, <1>5, <1>6, <2>1, <2>2
  <2>4. \A w \in Stakers : acct'[w].amount >= 0
    BY <1>1 DEF Accounts
  <2> QED BY <2>3, <2>4 DEF NothingMade, Money, Fees, Supplied, TotalOver
<1>9. FrozenCovers'
  <2> SUFFICES ASSUME NEW w \in Stakers
               PROVE  Worth(acct'[w].shares \o acct'[w].pending)
                         <= Fine * acct'[w].frozen + acct'[w].gained
    BY DEF FrozenCovers
  <2>1. CASE w # u
    BY <2>1 DEF Books, FrozenCovers
  <2>2. CASE w = u
    <3>1. /\ Worth(acct[u].shares \o acct[u].pending) \in Int
          /\ Worth(acct'[u].shares \o acct'[u].pending) \in Int
      BY <1>1, AccountSums
    <3>2. /\ Fine * acct[u].frozen + acct[u].gained \in Int
          /\ Fine * acct'[u].frozen + acct'[u].gained \in Int
      <4>1. /\ acct[u].frozen \in Int /\ acct[u].gained \in Int
            /\ acct'[u].frozen \in Int /\ acct'[u].gained \in Int
        BY <1>1 DEF Accounts
      <4>2. Fine \in Int
        BY StakingAssumption
      <4> QED BY <4>1, <4>2
    <3>3. Worth(acct[u].shares \o acct[u].pending) <= Fine * acct[u].frozen + acct[u].gained
      BY DEF Books, FrozenCovers
    <3> DEFINE p == Fine * acct[u].frozen + acct[u].gained
               q == Fine * acct'[u].frozen + acct'[u].gained
    <3> HIDE DEF p, q
    <3>4. Worth(acct'[u].shares \o acct'[u].pending) <= q
      BY <3>1, <3>2, <3>3 DEF p, q
    <3> QED BY <2>2, <3>4 DEF q
  <2> QED BY <2>1, <2>2
<1> QED BY <1>7, <1>8, <1>9 DEF Books

(* A step that leaves accounts, validators and the balance of the pool     *)
(* alone keeps the books.                                                  *)
LEMMA OthersBooks ==
    ASSUME TypeOK, Books, UNCHANGED <<acct, vali>>, pool'.amount = pool.amount
    PROVE  Books'
BY DEF Books, UnitsCounted, FrozenCovers, NothingMade, TotalOver

(* Such are newstakepool, updstakepool, the start of a block and of a      *)
(* node.                                                                   *)
LEMMA FrameBooks ==
    ASSUME TypeOK, Books,
           \/ Newstakepool \/ Updstakepool \/ NewBlock \/ \E v \in Hosts : RestartNode(v)
           \/ UNCHANGED vars
    PROVE  TypeOK' /\ Books'
<1>1. CASE Newstakepool \/ Updstakepool
  <2>1. /\ UNCHANGED <<acct, vali, block, plugin>> /\ pool'.amount = pool.amount
        /\ pool' \in [amount : Nat, total : Int, threshold : Nat] /\ start' \in Nat
    BY <1>1, StakingAssumption DEF TypeOK, Newstakepool, Updstakepool
  <2> QED BY <2>1, OthersBooks DEF TypeOK
<1>2. CASE NewBlock
  <2>1. UNCHANGED <<acct, vali, pool>> /\ block' \in Nat \ {0} /\ start' \in Nat
    BY <1>2 DEF TypeOK, NewBlock, NextStart
  <2>2. plugin' \in [Hosts -> [current : Nat, last : Nat, booted : Nat]]
    BY <1>2 DEF TypeOK, NewBlock, Seen
  <2> QED BY <2>1, <2>2, OthersBooks DEF TypeOK
<1>3. CASE \E v \in Hosts : RestartNode(v)
  <2>1. UNCHANGED <<acct, vali, pool, block, start>>
    BY <1>3 DEF RestartNode
  <2>2. plugin' \in [Hosts -> [current : Nat, last : Nat, booted : Nat]]
    BY <1>3, StartedPlugin DEF TypeOK, RestartNode
  <2> QED BY <2>1, <2>2, OthersBooks DEF TypeOK
<1>4. CASE UNCHANGED vars
  BY <1>4, OthersBooks DEF TypeOK, vars
<1> QED BY <1>1, <1>2, <1>3, <1>4

(* A step that leaves the accounts and the sums over the validators alone  *)
(* keeps the books.                                                        *)
LEMMA TotalsBooks ==
    ASSUME Books, UNCHANGED acct, pool'.amount = pool.amount,
           SoldUnits(vali') = SoldUnits(vali), Fees(vali') = Fees(vali)
    PROVE  Books'
<1>1. UnitsCounted'
  <2>1. SoldUnits(vali) = HeldUnits(acct)
    BY DEF Books, UnitsCounted, SoldUnits, HeldUnits
  <2>2. SoldUnits(vali') = HeldUnits(acct')
    BY <2>1
  <2> QED BY <2>2 DEF UnitsCounted, SoldUnits, HeldUnits, TotalOver
<1>2. NothingMade'
  <2>1. Money(acct) + Fees(vali) + pool.amount <= Supplied
    BY DEF Books, NothingMade, Money, Fees, Supplied
  <2>2. Money(acct') + Fees(vali') + pool'.amount <= Supplied
    BY <2>1
  <2>3. \A w \in Stakers : acct'[w].amount >= 0
    BY DEF Books, NothingMade
  <2> QED BY <2>2, <2>3 DEF NothingMade, Money, Fees, Supplied, TotalOver
<1>3. FrozenCovers'
  BY DEF Books, FrozenCovers
<1> QED BY <1>1, <1>2, <1>3 DEF Books

(* newvalidator.                                                           *)
LEMMA NewvalidatorBooks ==
    ASSUME TypeOK, Books, NEW v \in Validators, Newvalidator(v)
    PROVE  TypeOK' /\ Books'
<1> DEFINE new == [units |-> 0, net |-> One, amount |-> 0]
<1>1. new \in [units : Int, net : Nat \ {0}, amount : Nat]
  BY StakingAssumption
<1>2. /\ DOMAIN vali' = DOMAIN vali \cup {v} /\ v \notin DOMAIN vali
      /\ \A w \in DOMAIN vali : vali'[w] = vali[w]
      /\ vali'[v] = new
      /\ vali' = [w \in DOMAIN vali \cup {v} |-> vali'[w]]
      /\ UNCHANGED <<acct, pool, block, start, plugin>>
  BY DEF Newvalidator
<1>3. vali \in Valis /\ vali' \in Valis
  <2>1. PICK D \in SUBSET Validators : vali \in [D -> [units : Int, net : Nat \ {0}, amount : Nat]]
    BY DEF TypeOK, Valis
  <2>2. vali' \in [D \cup {v} -> [units : Int, net : Nat \ {0}, amount : Nat]]
    <3> HIDE DEF new
    <3> QED BY <1>1, <1>2, <2>1
  <2>3. D \cup {v} \in SUBSET Validators
    OBVIOUS
  <2> QED BY <2>1, <2>2, <2>3 DEF Valis
<1>4. Account(vali) \subseteq Account(vali')
  <2>1. \A w \in DOMAIN vali : vali[w].net <= vali'[w].net
    BY <1>2, <1>3 DEF Valis
  <2> QED BY <1>2, <1>3, <2>1, HeldGrows
<1>5. TypeOK'
  BY <1>2, <1>3, <1>4 DEF TypeOK
<1>6. SoldUnits(vali') = SoldUnits(vali) /\ Fees(vali') = Fees(vali)
  <2>1. vali'[v].units = 0 /\ vali'[v].amount = 0
    BY <1>2
  <2> QED BY <1>2, <1>3, <2>1, ValidatorAdded
<1>7. Books'
  BY <1>2, <1>6, TotalsBooks
<1> QED BY <1>5, <1>7

(* A validator is changed, and its net value does not fall.                *)
LEMMA ValidatorUpdated ==
    ASSUME TypeOK, NEW v \in DOMAIN vali, vali' = [vali EXCEPT ![v] = vali'[v]],
           vali'[v] \in [units : Int, net : Nat \ {0}, amount : Nat],
           vali'[v].net >= vali[v].net
    PROVE  /\ vali \in Valis /\ vali' \in Valis
           /\ DOMAIN vali' = DOMAIN vali
           /\ \A w \in DOMAIN vali \ {v} : vali'[w] = vali[w]
           /\ Account(vali) \subseteq Account(vali')
<1>1. PICK D \in SUBSET Validators : vali \in [D -> [units : Int, net : Nat \ {0}, amount : Nat]]
  BY DEF TypeOK, Valis
<1>2. vali' \in [D -> [units : Int, net : Nat \ {0}, amount : Nat]]
  BY <1>1
<1>3. vali \in Valis /\ vali' \in Valis
  BY <1>1, <1>2 DEF Valis
<1>4. DOMAIN vali' = DOMAIN vali /\ \A w \in DOMAIN vali \ {v} : vali'[w] = vali[w]
  OBVIOUS
<1>5. \A w \in DOMAIN vali : vali[w].net <= vali'[w].net
  <2> SUFFICES ASSUME NEW w \in DOMAIN vali PROVE vali[w].net <= vali'[w].net
    OBVIOUS
  <2>1. vali[w].net \in Nat /\ vali'[v].net \in Nat
    BY <1>1
  <2> QED BY <1>4, <2>1
<1>6. Account(vali) \subseteq Account(vali')
  BY <1>3, <1>4, <1>5, HeldGrows
<1> QED BY <1>3, <1>4, <1>6

(* The types after a step that changes one account and one validator.      *)
LEMMA OneUpdated ==
    ASSUME TypeOK, NEW u \in Stakers, NEW v \in DOMAIN vali,
           acct' = [acct EXCEPT ![u] = acct'[u]], vali' = [vali EXCEPT ![v] = vali'[v]],
           vali'[v] \in [units : Int, net : Nat \ {0}, amount : Nat],
           vali'[v].net >= vali[v].net, acct'[u] \in Account(vali),
           pool' \in [amount : Nat, total : Int, threshold : Nat],
           UNCHANGED <<block, start, plugin>>
    PROVE  /\ TypeOK'
           /\ DOMAIN vali' = DOMAIN vali
           /\ \A w \in Stakers \ {u} : acct'[w] = acct[w]
           /\ \A w \in DOMAIN vali \ {v} : vali'[w] = vali[w]
<1>1. /\ vali' \in Valis /\ DOMAIN vali' = DOMAIN vali
      /\ \A w \in DOMAIN vali \ {v} : vali'[w] = vali[w]
      /\ Account(vali) \subseteq Account(vali')
  BY ValidatorUpdated
<1>2. acct \in [Stakers -> Account(vali)]
  BY DEF TypeOK
<1>3. acct' \in [Stakers -> Account(vali)] /\ \A w \in Stakers \ {u} : acct'[w] = acct[w]
  BY <1>2
<1>4. acct' \in [Stakers -> Account(vali')]
  BY <1>1, <1>3
<1> QED BY <1>1, <1>3, <1>4 DEF TypeOK

(* recvstkbonus.                                                           *)
LEMMA RecvstkbonusBooks ==
    ASSUME TypeOK, Books, NEW v \in DOMAIN vali, NEW g \in Gains, Recvstkbonus(v, g)
    PROVE  TypeOK' /\ Books'
<1>1. vali[v] \in [units : Int, net : Nat \ {0}, amount : Nat] /\ g \in Nat /\ Fine \in Nat \ {0}
  BY StakingAssumption DEF TypeOK, Valis
<1>2. /\ vali' = [vali EXCEPT ![v] = vali'[v]]
      /\ vali'[v] \in [units : Int, net : Nat \ {0}, amount : Nat]
      /\ vali'[v].net >= vali[v].net /\ vali'[v].units = vali[v].units
      /\ vali'[v].amount = vali[v].amount
  BY <1>1 DEF Recvstkbonus
<1>3. /\ pool' \in [amount : Nat, total : Int, threshold : Nat] /\ pool'.amount = pool.amount
      /\ UNCHANGED <<acct, block, start, plugin>>
  <2>1. (2 * g * vali[v].units + Fine) \div (2 * Fine) \in Int
    BY <1>1
  <2> DEFINE more == (2 * g * vali[v].units + Fine) \div (2 * Fine)
  <2>2. pool' = [pool EXCEPT !.total = @ + more] /\ UNCHANGED <<acct, block, start, plugin>>
    BY DEF Recvstkbonus
  <2> HIDE DEF more
  <2>3. more \in Int
    BY <2>1 DEF more
  <2> QED BY <2>2, <2>3 DEF TypeOK
<1>4. /\ vali \in Valis /\ vali' \in Valis /\ DOMAIN vali' = DOMAIN vali
      /\ \A w \in DOMAIN vali \ {v} : vali'[w] = vali[w]
      /\ Account(vali) \subseteq Account(vali')
  BY <1>2, ValidatorUpdated
<1>5. TypeOK'
  BY <1>3, <1>4 DEF TypeOK
<1>6. SoldUnits(vali') = SoldUnits(vali) /\ Fees(vali') = Fees(vali)
  <2>1. SoldUnits(vali) \in Int /\ Fees(vali) \in Int
    BY <1>4, ValidatorSums
  <2>2. /\ SoldUnits(vali') = SoldUnits(vali) - vali[v].units + vali'[v].units
        /\ Fees(vali') = Fees(vali) - vali[v].amount + vali'[v].amount
    BY <1>4, ValidatorChange
  <2>3. vali[v].units \in Int /\ vali[v].amount \in Int
    BY <1>1
  <2> QED BY <1>2, <2>1, <2>2, <2>3
<1> QED BY <1>3, <1>5, <1>6, TotalsBooks

(* The types of an account and a validator, one by one.                    *)
LEMMA Types ==
    ASSUME TypeOK, NEW u \in Stakers, NEW v \in DOMAIN vali
    PROVE  /\ acct[u].amount \in Nat /\ acct[u].frozen \in Int /\ acct[u].gained \in Nat
           /\ acct[u].shares \in Seq(Held(vali)) /\ acct[u].pending \in Seq(Held(vali))
           /\ acct[u].shares \in Seq(Share) /\ acct[u].pending \in Seq(Share)
           /\ acct[u] = [amount |-> acct[u].amount, frozen |-> acct[u].frozen,
                         gained |-> acct[u].gained, shares |-> acct[u].shares,
                         pending |-> acct[u].pending]
           /\ vali[v].units \in Int /\ vali[v].net \in Nat \ {0} /\ vali[v].amount \in Nat
           /\ vali[v] = [units |-> vali[v].units, net |-> vali[v].net, amount |-> vali[v].amount]
           /\ v \in Validators
           /\ pool.amount \in Nat /\ pool.total \in Int /\ block \in Nat
<1>1. acct[u] \in Account(vali) /\ vali \in Valis /\ block \in Nat
      /\ pool \in [amount : Nat, total : Int, threshold : Nat]
  BY DEF TypeOK
<1>2. vali[v] \in [units : Int, net : Nat \ {0}, amount : Nat] /\ v \in Validators
  BY <1>1 DEF Valis
<1>3. /\ acct[u].amount \in Nat /\ acct[u].frozen \in Int /\ acct[u].gained \in Nat
      /\ acct[u].shares \in Seq(Held(vali)) /\ acct[u].pending \in Seq(Held(vali))
      /\ acct[u] = [amount |-> acct[u].amount, frozen |-> acct[u].frozen,
                    gained |-> acct[u].gained, shares |-> acct[u].shares,
                    pending |-> acct[u].pending]
  BY <1>1 DEF Account
<1> QED BY <1>1, <1>2, <1>3, HeldShares

(* The records of a validator and of the pool.                             *)
ValiRecord == [units : Int, net : Nat \ {0}, amount : Nat]
PoolRecord == [amount : Nat, total : Int, threshold : Nat]

(* A step that changes one account u and one validator v.                  *)
OneChanged(u, v) ==
    /\ acct' = [acct EXCEPT ![u] = acct'[u]] /\ acct'[u] \in Account(vali)
    /\ vali' = [vali EXCEPT ![v] = vali'[v]] /\ vali'[v] \in ValiRecord
    /\ vali'[v].net = vali[v].net
    /\ pool' \in PoolRecord /\ UNCHANGED <<block, start, plugin>>

(* It changes the units on both sides alike, and makes nothing.            *)
Balanced(u, v) ==
    LET a == acct[u]  b == acct'[u]  x == vali[v]  y == vali'[v]
    IN /\ Units(b.shares) + Units(b.pending) + x.units = Units(a.shares) + Units(a.pending) + y.units
       /\ Worth(b.shares) + Worth(b.pending) + Fine * a.frozen + a.gained
             <= Worth(a.shares) + Worth(a.pending) + Fine * b.frozen + b.gained
       /\ b.amount + b.frozen + y.amount + pool'.amount <= a.amount + a.frozen + x.amount + pool.amount

(* What the steps below are shown to be: a balanced change of one account  *)
(* and one validator.                                                      *)
LEMMA ChangeBooks ==
    ASSUME TypeOK, Books, NEW u \in Stakers, NEW v \in DOMAIN vali, OneChanged(u, v), Balanced(u, v)
    PROVE  TypeOK' /\ Books'
<1> DEFINE a == acct[u]  b == acct'[u]  x == vali[v]  y == vali'[v]
<1>1. /\ a.amount \in Nat /\ a.frozen \in Int /\ a.gained \in Nat
      /\ x.units \in Int /\ x.net \in Nat \ {0} /\ x.amount \in Nat /\ pool.amount \in Nat
  BY Types
<1>2. /\ b.amount \in Nat /\ b.frozen \in Int /\ b.gained \in Nat
      /\ y.units \in Int /\ y.net = x.net /\ y.amount \in Nat /\ pool'.amount \in Nat
  BY DEF OneChanged, Account, ValiRecord, PoolRecord
<1>3. y.net >= x.net
  BY <1>1, <1>2
<1>4. /\ TypeOK' /\ DOMAIN vali' = DOMAIN vali
      /\ \A w \in Stakers \ {u} : acct'[w] = acct[w]
      /\ \A w \in DOMAIN vali \ {v} : vali'[w] = vali[w]
  BY <1>3, OneUpdated DEF OneChanged, ValiRecord, PoolRecord
<1>5. acct \in Accounts /\ acct' \in Accounts
  BY <1>4, PlainAccounts DEF TypeOK
<1>6. /\ UnitsOf(acct, u) = Units(a.shares) + Units(a.pending)
      /\ Worth(a.shares \o a.pending) = Worth(a.shares) + Worth(a.pending)
      /\ Units(a.shares) \in Nat /\ Units(a.pending) \in Nat
      /\ Worth(a.shares) \in Nat /\ Worth(a.pending) \in Nat
  BY <1>5, AccountSums
<1>7. /\ UnitsOf(acct', u) = Units(b.shares) + Units(b.pending)
      /\ Worth(b.shares \o b.pending) = Worth(b.shares) + Worth(b.pending)
      /\ Units(b.shares) \in Nat /\ Units(b.pending) \in Nat
      /\ Worth(b.shares) \in Nat /\ Worth(b.pending) \in Nat
  BY <1>5, AccountSums
<1>8. y.units - x.units = UnitsOf(acct', u) - UnitsOf(acct, u)
  BY <1>1, <1>2, <1>6, <1>7 DEF Balanced
<1>9. Worth(b.shares \o b.pending) - (Fine * b.frozen + b.gained)
        <= Worth(a.shares \o a.pending) - (Fine * a.frozen + a.gained)
  <2> DEFINE f == Fine * a.frozen
             g == Fine * b.frozen
  <2>1. f \in Int /\ g \in Int
    BY <1>1, <1>2, StakingAssumption
  <2>2. Worth(b.shares) + Worth(b.pending) + f + a.gained
          <= Worth(a.shares) + Worth(a.pending) + g + b.gained
    BY DEF Balanced
  <2> HIDE DEF f, g, a, b
  <2>3. (Worth(b.shares) + Worth(b.pending)) - (g + b.gained)
          <= (Worth(a.shares) + Worth(a.pending)) - (f + a.gained)
    BY <1>1, <1>2, <1>6, <1>7, <2>1, <2>2
  <2> QED BY <1>6, <1>7, <2>3 DEF f, g
<1>10. MoneyOf(acct', u) + y.amount + pool'.amount <= MoneyOf(acct, u) + x.amount + pool.amount
  BY <1>1, <1>2 DEF MoneyOf, Balanced
<1> QED BY <1>4, <1>8, <1>9, <1>10, StepBooks

(* valiwithdraw.                                                           *)
LEMMA ValiwithdrawBooks ==
    ASSUME TypeOK, Books, NEW u \in Stakers, NEW v \in DOMAIN vali, NEW n \in Amounts,
           Valiwithdraw(v, u, n)
    PROVE  TypeOK' /\ Books'
<1> DEFINE a == acct[u]  b == acct'[u]  x == vali[v]  y == vali'[v]
<1>1. n \in Nat /\ Fine \in Nat
  BY StakingAssumption
<1>2. a \in Account(vali) /\ x \in ValiRecord /\ pool \in PoolRecord
  BY DEF TypeOK, Valis, ValiRecord, PoolRecord
<1>3. /\ acct' = [acct EXCEPT ![u] = b] /\ b = [a EXCEPT !.amount = @ + n]
      /\ vali' = [vali EXCEPT ![v] = y] /\ y = [x EXCEPT !.amount = @ - n] /\ n <= x.amount
      /\ UNCHANGED <<pool, block, start, plugin>>
  BY DEF Valiwithdraw, TypeOK
<1>4. /\ b \in Account(vali) /\ b.amount = a.amount + n /\ b.frozen = a.frozen
      /\ b.gained = a.gained /\ b.shares = a.shares /\ b.pending = a.pending
  <2> DEFINE H == Seq(Held(vali))
  <2>1. /\ a \in [amount : Nat, frozen : Int, gained : Nat, shares : H, pending : H]
        /\ a.amount \in Nat /\ a.frozen \in Int /\ a.gained \in Nat /\ a.shares \in H /\ a.pending \in H
    BY <1>2 DEF Account
  <2>2. a.amount + n \in Nat
    BY <1>1, <2>1
  <2> HIDE DEF H, a, b
  <2>3. b = [a EXCEPT !.amount = a.amount + n]
    BY <1>3
  <2>4. /\ b \in [amount : Nat, frozen : Int, gained : Nat, shares : H, pending : H]
        /\ b.amount = a.amount + n /\ b.frozen = a.frozen
        /\ b.gained = a.gained /\ b.shares = a.shares /\ b.pending = a.pending
    BY <2>1, <2>2, <2>3
  <2> QED BY <2>4 DEF Account, H
<1>5. y \in ValiRecord /\ y.net = x.net /\ y.units = x.units /\ y.amount = x.amount - n
  BY <1>1, <1>2, <1>3 DEF ValiRecord
<1>6. OneChanged(u, v)
  BY <1>2, <1>3, <1>4, <1>5 DEF OneChanged
<1>7. Balanced(u, v)
  <2>1. /\ a.amount \in Nat /\ a.frozen \in Int /\ a.gained \in Nat
        /\ x.units \in Int /\ x.amount \in Nat /\ pool.amount \in Nat
        /\ Units(a.shares) \in Nat /\ Units(a.pending) \in Nat
        /\ Worth(a.shares) \in Nat /\ Worth(a.pending) \in Nat
    BY Types, SumsNat
  <2>2. Fine * a.frozen \in Int
    BY <1>1, <2>1
  <2> QED BY <1>1, <1>3, <1>4, <1>5, <2>1, <2>2 DEF Balanced
<1> QED BY <1>6, <1>7, ChangeBooks

(* The units that an amount buys are not worth more than what is frozen    *)
(* for them, and that is not more than the amount.                         *)
LEMMA Priced ==
    ASSUME NEW n \in Nat, NEW net \in Nat \ {0}
    PROVE  LET units == Bought(n, net) total == Ceil(units, net)
           IN /\ units \in Nat /\ total \in Nat /\ total <= n
              /\ units * net <= Fine * total
<1> DEFINE units == Bought(n, net)
           b == units * net
           total == Ceil(units, net)
<1>0. Fine \in Nat \ {0}
  BY StakingAssumption
<1>1. n * Fine \in Nat
  BY <1>0
<1>2. units \in Nat /\ net * units <= n * Fine
  BY <1>1, DivFacts DEF Bought
<1> HIDE DEF units
<1>3. b \in Nat /\ b <= n * Fine
  BY <1>2
<1>4. total = (b + Fine - 1) \div Fine
  BY DEF Ceil
<1> HIDE DEF b, total
<1>5. b + Fine - 1 \in Nat
  BY <1>0, <1>3
<1>6. total \in Nat /\ Fine * total <= b + Fine - 1 /\ b + Fine - 1 < Fine * total + Fine
  BY <1>0, <1>4, <1>5, DivFacts
<1>7. Fine * total \in Nat /\ b <= Fine * total
  BY <1>0, <1>3, <1>6
<1>8. total <= n
  <2>1. Fine * total < Fine * (n + 1)
    BY <1>0, <1>3, <1>6
  <2> QED BY <1>0, <1>6, <2>1
<1> QED BY <1>2, <1>6, <1>7, <1>8 DEF units, total, b

(* staketkns.                                                              *)
LEMMA StaketknsBooks ==
    ASSUME TypeOK, Books, NEW u \in Stakers, NEW v \in DOMAIN vali, NEW n \in Amounts,
           NEW days \in FixedDays, Staketkns(u, v, n, days)
    PROVE  TypeOK' /\ Books'
<1> DEFINE a == acct[u]  b == acct'[u]  x == vali[v]  y == vali'[v]
           units == Bought(n, x.net)
           total == Ceil(units, x.net)
           s == [validator |-> v, units |-> units, net |-> x.net, time |-> block, days |-> days]
<1>1. n \in Nat /\ days \in Nat /\ Fine \in Nat \ {0}
  BY StakingAssumption
<1>2. a \in Account(vali) /\ x \in ValiRecord /\ pool \in PoolRecord
  BY DEF TypeOK, Valis, ValiRecord, PoolRecord
<1>3. /\ a.amount \in Nat /\ a.frozen \in Int /\ a.gained \in Nat
      /\ x.units \in Int /\ x.amount \in Nat /\ x.net \in Nat \ {0} /\ pool.amount \in Nat
      /\ block \in Nat /\ v \in Validators
  BY Types
<1>4. units \in Nat /\ total \in Nat /\ total <= n /\ units * x.net <= Fine * total
  BY <1>1, <1>3, Priced
<1>5. /\ acct' = [acct EXCEPT ![u] = b]
      /\ b = [a EXCEPT !.amount = @ - total, !.frozen = @ + total, !.shares = Append(@, s)]
      /\ vali' = [vali EXCEPT ![v] = y] /\ y = [x EXCEPT !.units = @ + units]
      /\ pool' = [pool EXCEPT !.total = @ + total]
      /\ a.amount >= n /\ UNCHANGED <<block, start, plugin>>
  BY DEF Staketkns, TypeOK
<1> HIDE DEF units, total
<1>6. s \in Held(vali) /\ s \in Share /\ s.units = units /\ s.net = x.net
  <2>1. s \in Share
    <3> HIDE DEF x
    <3> QED BY <1>1, <1>3, <1>4 DEF Share
  <2>2. s.validator = v /\ s.net = x.net /\ s.units = units
    OBVIOUS
  <2>3. s.net <= vali[s.validator].net
    BY <1>3, <2>2
  <2> HIDE DEF s
  <2> QED BY <2>1, <2>2, <2>3 DEF Held
<1> HIDE DEF s
<1>7. /\ b \in Account(vali) /\ b.amount = a.amount - total /\ b.frozen = a.frozen + total
      /\ b.gained = a.gained /\ b.shares = Append(a.shares, s) /\ b.pending = a.pending
  <2> DEFINE H == Seq(Held(vali))
             sh == Append(a.shares, s)
  <2>1. a \in [amount : Nat, frozen : Int, gained : Nat, shares : H, pending : H]
    BY <1>2 DEF Account
  <2>2. a.amount - total \in Nat /\ a.frozen + total \in Int
    BY <1>1, <1>3, <1>4, <1>5
  <2>3. sh \in H
    BY <1>6, <2>1
  <2>4. b = [a EXCEPT !.amount = a.amount - total, !.frozen = a.frozen + total, !.shares = sh]
    BY <1>5
  <2> HIDE DEF H, a, b, sh
  <2>5. /\ b \in [amount : Nat, frozen : Int, gained : Nat, shares : H, pending : H]
        /\ b.amount = a.amount - total /\ b.frozen = a.frozen + total
        /\ b.gained = a.gained /\ b.shares = sh /\ b.pending = a.pending
    BY <2>1, <2>2, <2>3, <2>4
  <2> QED BY <2>5 DEF Account, H, sh
<1>7a. /\ b.amount = a.amount - total /\ b.frozen = a.frozen + total
       /\ b.gained = a.gained /\ b.pending = a.pending
  BY <1>7
<1>8. y \in ValiRecord /\ y.net = x.net /\ y.units = x.units + units /\ y.amount = x.amount
  BY <1>2, <1>3, <1>4, <1>5 DEF ValiRecord
<1>9. pool' \in PoolRecord /\ pool'.amount = pool.amount
  BY <1>2, <1>4, <1>5 DEF PoolRecord
<1>10. OneChanged(u, v)
  BY <1>5, <1>7, <1>8, <1>9 DEF OneChanged
<1>11. Balanced(u, v)
  <2>1. /\ Units(a.shares) \in Nat /\ Units(a.pending) \in Nat
        /\ Worth(a.shares) \in Nat /\ Worth(a.pending) \in Nat
    BY Types, SumsNat
  <2>2. Units(b.shares) = Units(a.shares) + units /\ Worth(b.shares) = Worth(a.shares) + units * x.net
    <3>1. a.shares \in Seq(Share) /\ s \in Share /\ s.units = units /\ s.net = x.net
      BY <1>6, Types
    <3>2. b.shares = Append(a.shares, s)
      BY <1>7
    <3> HIDE DEF a, b, x
    <3> QED BY <3>1, <3>2, SumsAppend
  <2> DEFINE c == units * x.net  d == Fine * total  f == Fine * a.frozen
  <2>3. c \in Int /\ d \in Int /\ f \in Int /\ c <= d
    BY <1>1, <1>3, <1>4
  <2>4. Fine * b.frozen = f + d
    BY <1>1, <1>3, <1>4, <1>7
  <2>5. Worth(b.shares) = Worth(a.shares) + c
    BY <2>2
  <2> HIDE DEF c, d, f, a, b, x, y
  <2>6. Worth(b.shares) + Worth(b.pending) + f + a.gained
          <= Worth(a.shares) + Worth(a.pending) + (f + d) + b.gained
    BY <1>3, <1>7a, <2>1, <2>3, <2>5
  <2>7. Worth(b.shares) + Worth(b.pending) + Fine * a.frozen + a.gained
          <= Worth(a.shares) + Worth(a.pending) + Fine * b.frozen + b.gained
    BY <2>4, <2>6 DEF f
  <2>8. Units(b.shares) + Units(b.pending) + x.units = Units(a.shares) + Units(a.pending) + y.units
    BY <1>3, <1>4, <1>7a, <1>8, <2>1, <2>2
  <2>9. b.amount + b.frozen + y.amount + pool'.amount <= a.amount + a.frozen + x.amount + pool.amount
    BY <1>3, <1>4, <1>7a, <1>8, <1>9
  <2> QED BY <2>7, <2>8, <2>9 DEF Balanced, a, b, x, y
<1> QED BY <1>10, <1>11, ChangeBooks

(* Shares of an account become pending or are held again.                  *)
LEMMA MoveBooks ==
    ASSUME TypeOK, Books, NEW u \in Stakers, NEW v \in DOMAIN vali,
           OneChanged(u, v), vali' = vali, pool' = pool,
           acct'[u].amount = acct[u].amount, acct'[u].frozen = acct[u].frozen,
           acct'[u].gained = acct[u].gained,
           Units(acct'[u].shares) + Units(acct'[u].pending)
              = Units(acct[u].shares) + Units(acct[u].pending),
           Worth(acct'[u].shares) + Worth(acct'[u].pending)
              = Worth(acct[u].shares) + Worth(acct[u].pending)
    PROVE  TypeOK' /\ Books'
<1> DEFINE a == acct[u]  x == vali[v]
<1>1. /\ a.amount \in Nat /\ a.frozen \in Int /\ a.gained \in Nat
      /\ x.units \in Int /\ x.amount \in Nat /\ pool.amount \in Nat
  BY Types
<1>2. /\ Units(a.shares) \in Nat /\ Units(a.pending) \in Nat
      /\ Worth(a.shares) \in Nat /\ Worth(a.pending) \in Nat
  BY Types, SumsNat
<1>3. Fine * a.frozen \in Int
  BY <1>1, StakingAssumption
<1>4. Balanced(u, v)
  BY <1>1, <1>2, <1>3 DEF Balanced
<1> QED BY <1>4, ChangeBooks

(* unstaketkns, propose.                                                   *)
LEMMA ProposeBooks ==
    ASSUME TypeOK, Books, NEW u \in Stakers, NEW v \in DOMAIN vali, NEW n \in Amounts,
           Propose(u, v, n)
    PROVE  TypeOK' /\ Books'
<1> DEFINE a == acct[u]  b == acct'[u]
           may == {s \in Range(a.shares) : s.validator = v /\ s.days = 0}
           t == Take(a.shares, n, may)
<1>1. n \in Nat /\ block \in Nat
  BY StakingAssumption DEF TypeOK
<1>2. a.shares \in Seq(Held(vali)) /\ a.pending \in Seq(Held(vali))
  BY Types
<1>3. /\ acct' = [acct EXCEPT ![u] = b]
      /\ b = [a EXCEPT !.shares = t.rest, !.pending = @ \o t.taken]
      /\ UNCHANGED <<vali, pool, block, start, plugin>>
  BY DEF Propose, TypeOK
<1> HIDE DEF may
<1>4. /\ t \in Loop(vali, may) /\ Units(t.rest) + Units(t.taken) = Units(a.shares)
      /\ Worth(t.rest) + Worth(t.taken) = Worth(a.shares)
  BY <1>1, <1>2, TakeSums
<1> HIDE DEF t
<1>5. t.rest \in Seq(Held(vali)) /\ t.taken \in Seq(Held(vali))
  BY <1>4, HeldShares DEF Loop
<1>6. a.pending \o t.taken \in Seq(Held(vali))
  BY <1>2, <1>5
<1>7. /\ b \in Account(vali) /\ b.amount = a.amount /\ b.frozen = a.frozen
      /\ b.gained = a.gained /\ b.shares = t.rest /\ b.pending = a.pending \o t.taken
  <2> DEFINE H == Seq(Held(vali))
             pe == a.pending \o t.taken
             sh == t.rest
  <2>1. a \in [amount : Nat, frozen : Int, gained : Nat, shares : H, pending : H]
    BY DEF TypeOK, Account
  <2>2. b = [a EXCEPT !.shares = sh, !.pending = pe] /\ sh \in H /\ pe \in H
    BY <1>3, <1>5, <1>6
  <2> HIDE DEF H, a, b, pe, sh
  <2>3. /\ b \in [amount : Nat, frozen : Int, gained : Nat, shares : H, pending : H]
        /\ b.amount = a.amount /\ b.frozen = a.frozen
        /\ b.gained = a.gained /\ b.shares = sh /\ b.pending = pe
    BY <2>1, <2>2
  <2> QED BY <2>3 DEF Account, H, sh, pe
<1>8. OneChanged(u, v)
  <2>1. vali' = [vali EXCEPT ![v] = vali'[v]] /\ vali'[v] \in ValiRecord /\ vali'[v].net = vali[v].net
        /\ pool' \in PoolRecord
    BY <1>3 DEF TypeOK, Valis, ValiRecord, PoolRecord
  <2> QED BY <1>3, <1>7, <2>1 DEF OneChanged
<1>9. /\ Units(b.pending) = Units(a.pending) + Units(t.taken)
      /\ Worth(b.pending) = Worth(a.pending) + Worth(t.taken)
  <2>1. a.pending \in Seq(Share) /\ t.taken \in Seq(Share)
    BY <1>2, <1>5, HeldShares
  <2> QED BY <1>7, <2>1, SumsConcat
<1>10. /\ Units(a.pending) \in Nat /\ Units(t.taken) \in Nat /\ Units(t.rest) \in Nat
       /\ Worth(a.pending) \in Nat /\ Worth(t.taken) \in Nat /\ Worth(t.rest) \in Nat
  BY <1>2, <1>5, HeldShares, SumsNat
<1>11. /\ Units(b.shares) + Units(b.pending) = Units(a.shares) + Units(a.pending)
       /\ Worth(b.shares) + Worth(b.pending) = Worth(a.shares) + Worth(a.pending)
  <2>1. b.shares = t.rest
    BY <1>7
  <2> HIDE DEF a, b
  <2> QED BY <1>4, <1>9, <1>10, <2>1
<1> QED BY <1>3, <1>7, <1>8, <1>11, MoveBooks

(* unstaketkns, cancel.                                                    *)
LEMMA CancelBooks ==
    ASSUME TypeOK, Books, NEW u \in Stakers, NEW v \in DOMAIN vali, NEW n \in Amounts,
           Cancel(u, v, n)
    PROVE  TypeOK' /\ Books'
<1> DEFINE a == acct[u]  b == acct'[u]
           may == {s \in Range(a.pending) : s.validator = v}
           t == Take(a.pending, n, may)
<1>1. n \in Nat /\ block \in Nat
  BY StakingAssumption DEF TypeOK
<1>2. a.shares \in Seq(Held(vali)) /\ a.pending \in Seq(Held(vali))
  BY Types
<1>3. /\ acct' = [acct EXCEPT ![u] = b]
      /\ b = [a EXCEPT !.pending = t.rest, !.shares = @ \o t.taken]
      /\ UNCHANGED <<vali, pool, block, start, plugin>>
  BY DEF Cancel, TypeOK
<1> HIDE DEF may
<1>4. /\ t \in Loop(vali, may) /\ Units(t.rest) + Units(t.taken) = Units(a.pending)
      /\ Worth(t.rest) + Worth(t.taken) = Worth(a.pending)
  BY <1>1, <1>2, TakeSums
<1> HIDE DEF t
<1>5. t.rest \in Seq(Held(vali)) /\ t.taken \in Seq(Held(vali))
  BY <1>4, HeldShares DEF Loop
<1>6. a.shares \o t.taken \in Seq(Held(vali))
  BY <1>2, <1>5
<1>7. /\ b \in Account(vali) /\ b.amount = a.amount /\ b.frozen = a.frozen
      /\ b.gained = a.gained /\ b.shares = a.shares \o t.taken /\ b.pending = t.rest
  <2> DEFINE H == Seq(Held(vali))
             sh == a.shares \o t.taken
             pe == t.rest
  <2>1. a \in [amount : Nat, frozen : Int, gained : Nat, shares : H, pending : H]
    BY DEF TypeOK, Account
  <2>2. b = [a EXCEPT !.pending = pe, !.shares = sh] /\ sh \in H /\ pe \in H
    BY <1>3, <1>5, <1>6
  <2> HIDE DEF H, a, b, pe, sh
  <2>3. /\ b \in [amount : Nat, frozen : Int, gained : Nat, shares : H, pending : H]
        /\ b.amount = a.amount /\ b.frozen = a.frozen
        /\ b.gained = a.gained /\ b.shares = sh /\ b.pending = pe
    BY <2>1, <2>2
  <2> QED BY <2>3 DEF Account, H, sh, pe
<1>8. OneChanged(u, v)
  <2>1. vali' = [vali EXCEPT ![v] = vali'[v]] /\ vali'[v] \in ValiRecord /\ vali'[v].net = vali[v].net
        /\ pool' \in PoolRecord
    BY <1>3 DEF TypeOK, Valis, ValiRecord, PoolRecord
  <2> QED BY <1>3, <1>7, <2>1 DEF OneChanged
<1>9. /\ Units(b.shares) = Units(a.shares) + Units(t.taken)
      /\ Worth(b.shares) = Worth(a.shares) + Worth(t.taken)
  <2>1. a.shares \in Seq(Share) /\ t.taken \in Seq(Share)
    BY <1>2, <1>5, HeldShares
  <2> QED BY <1>7, <2>1, SumsConcat
<1>10. /\ Units(a.shares) \in Nat /\ Units(t.taken) \in Nat /\ Units(t.rest) \in Nat
       /\ Worth(a.shares) \in Nat /\ Worth(t.taken) \in Nat /\ Worth(t.rest) \in Nat
  BY <1>2, <1>5, HeldShares, SumsNat
<1>11. /\ Units(b.shares) + Units(b.pending) = Units(a.shares) + Units(a.pending)
       /\ Worth(b.shares) + Worth(b.pending) = Worth(a.shares) + Worth(a.pending)
  <2>1. b.pending = t.rest
    BY <1>7
  <2> HIDE DEF a, b
  <2> QED BY <1>4, <1>9, <1>10, <2>1
<1> QED BY <1>3, <1>7, <1>8, <1>11, MoveBooks

(* What a matured share is credited.                                       *)
LEMMA ExtraNat ==
    ASSUME NEW s \in Share, block \in Nat
    PROVE  Extra(s) \in Nat
<1> DEFINE d == s.units * FixedRoi.num
<1>1. s.units \in Nat /\ FixedRoi.num \in Nat /\ FixedRoi.den \in Nat \ {0}
  BY StakingAssumption DEF Share
<1>2. d \in Nat
  BY <1>1
<1> HIDE DEF d
<1>3. d \div FixedRoi.den \in Nat
  BY <1>1, <1>2, DivFacts
<1> QED BY <1>3 DEF Extra, d

(* A share after toactivetkns.                                             *)
Active(s) == IF Matured(s) THEN [s EXCEPT !.units = @ + Extra(s), !.days = 0] ELSE s

(* A share after toactivetkns.                                             *)
LEMMA ActiveShare ==
    ASSUME NEW x, NEW s \in Held(x), block \in Nat
    PROVE  /\ Active(s) \in Held(x) /\ Active(s).units = s.units + Extra(s) /\ Active(s).net = s.net
<1>1. s \in Share /\ Extra(s) \in Nat
  BY HeldShares, ExtraNat
<1>2. s.units \in Nat /\ s.units + Extra(s) \in Nat /\ s.days \in Nat
  BY <1>1 DEF Share
<1>3. CASE Matured(s)
  <2> DEFINE e == s.units + Extra(s)
             r == [s EXCEPT !.units = e, !.days = 0]
  <2>1. e \in Nat /\ Active(s) = r
    BY <1>2, <1>3 DEF Active
  <2> HIDE DEF e
  <2>2. r \in Share /\ r.units = e /\ r.net = s.net /\ r.validator = s.validator
    BY <1>1, <2>1 DEF Share
  <2> HIDE DEF r
  <2> QED BY <2>1, <2>2 DEF Held, e
<1>4. CASE ~Matured(s)
  <2>1. Active(s) = s /\ Extra(s) = 0
    BY <1>4 DEF Active, Extra
  <2> QED BY <1>2, <2>1
<1> QED BY <1>3, <1>4

(* The shares after toactivetkns have the units that are credited to the   *)
(* validator, and their worth grows by what gained grows by.               *)
LEMMA ActiveSums ==
    ASSUME NEW x, NEW q \in Seq(Held(x)), block \in Nat
    PROVE  LET sh == [i \in DOMAIN q |-> Active(q[i])]
               units == SumOf(q, Extra)
               worth == SumOf(q, LAMBDA s : Extra(s) * s.net)
           IN /\ sh \in Seq(Held(x)) /\ units \in Nat /\ worth \in Nat
              /\ SumOf(q, LAMBDA s : Floor(Extra(s), s.net)) \in Nat
              /\ Units(sh) = Units(q) + units /\ Worth(sh) = Worth(q) + worth
<1> DEFINE n == Len(q)
           sh == [i \in DOMAIN q |-> Active(q[i])]
           f == [i \in 1..n |-> Extra(q[i])]
           g == [i \in 1..n |-> Extra(q[i]) * q[i].net]
           h == [i \in 1..n |-> Floor(Extra(q[i]), q[i].net)]
<1>1. DOMAIN q = 1..n /\ n \in Nat /\ IsFiniteSet(1..n) /\ \A i \in 1..n : q[i] \in Held(x)
  BY FS_Interval
<1>2. \A i \in 1..n : /\ Active(q[i]) \in Held(x) /\ Active(q[i]).units = q[i].units + Extra(q[i])
                      /\ Active(q[i]).net = q[i].net
  BY <1>1, ActiveShare
<1>3. \A i \in 1..n : Extra(q[i]) \in Nat /\ q[i].units \in Nat /\ q[i].net \in Nat
  <2> SUFFICES ASSUME NEW i \in 1..n
               PROVE  Extra(q[i]) \in Nat /\ q[i].units \in Nat /\ q[i].net \in Nat
    OBVIOUS
  <2>1. q[i] \in Share
    BY <1>1, HeldShares
  <2> QED BY <2>1, ExtraNat DEF Share
<1>4. /\ SumOf(q, Extra) = SumFunctionOnSet(f, 1..n)
      /\ SumOf(q, LAMBDA s : Extra(s) * s.net) = SumFunctionOnSet(g, 1..n)
      /\ SumOf(q, LAMBDA s : Floor(Extra(s), s.net)) = SumFunctionOnSet(h, 1..n)
  BY <1>1 DEF SumOf, SumFunction
<1>5. \A i \in 1..n : f[i] \in Nat /\ g[i] \in Nat /\ h[i] \in Nat
  <2> SUFFICES ASSUME NEW i \in 1..n PROVE f[i] \in Nat /\ g[i] \in Nat /\ h[i] \in Nat
    OBVIOUS
  <2> DEFINE e == Extra(q[i]) * q[i].net
  <2>1. e \in Nat /\ Fine \in Nat \ {0}
    BY <1>3, StakingAssumption
  <2>2. f[i] \in Nat /\ g[i] = e /\ h[i] = e \div Fine
    BY <1>3 DEF Floor
  <2> HIDE DEF e
  <2> QED BY <2>1, <2>2, DivFacts
<1>6. /\ sh \in Seq(Held(x)) /\ Len(sh) = n /\ \A i \in 1..n : sh[i] = Active(q[i])
  <2>1. sh = [i \in 1..n |-> Active(q[i])]
    BY <1>1
  <2> HIDE DEF sh, n
  <2>2. sh \in [1..n -> Held(x)]
    BY <1>2, <2>1
  <2> QED BY <1>1, <2>1, <2>2
<1>7. sh \in Seq(Share) /\ q \in Seq(Share)
  BY <1>6, HeldShares
<1>8. \A i \in 1..n : UnitsAt(sh)[i] = UnitsAt(q)[i] + f[i] /\ WorthAt(sh)[i] = WorthAt(q)[i] + g[i]
  <2> SUFFICES ASSUME NEW i \in 1..n
               PROVE  /\ UnitsAt(sh)[i] = UnitsAt(q)[i] + f[i]
                      /\ WorthAt(sh)[i] = WorthAt(q)[i] + g[i]
    OBVIOUS
  <2>1. /\ UnitsAt(q)[i] = q[i].units /\ WorthAt(q)[i] = q[i].units * q[i].net
        /\ UnitsAt(sh)[i] = sh[i].units /\ WorthAt(sh)[i] = sh[i].units * sh[i].net
    <3> HIDE DEF sh
    <3> QED BY <1>6 DEF UnitsAt, WorthAt
  <2>2. sh[i].units = q[i].units + Extra(q[i]) /\ sh[i].net = q[i].net
    BY <1>2, <1>6
  <2>3. f[i] = Extra(q[i]) /\ g[i] = Extra(q[i]) * q[i].net
    OBVIOUS
  <2> HIDE DEF f, g, sh, n
  <2>4. (q[i].units + Extra(q[i])) * q[i].net = q[i].units * q[i].net + Extra(q[i]) * q[i].net
    BY <1>3
  <2> QED BY <2>1, <2>2, <2>3, <2>4
<1>9. /\ Units(q) = SumFunctionOnSet(UnitsAt(q), 1..n) /\ Worth(q) = SumFunctionOnSet(WorthAt(q), 1..n)
      /\ \A i \in 1..n : UnitsAt(q)[i] \in Int /\ WorthAt(q)[i] \in Int
  BY <1>7, SumsOver
<1>10. Units(sh) = SumFunctionOnSet(UnitsAt(sh), 1..n) /\ Worth(sh) = SumFunctionOnSet(WorthAt(sh), 1..n)
  <2> HIDE DEF sh
  <2> QED BY <1>6, <1>7, SumsOver
<1> HIDE DEF f, g, h, sh, n
<1>11. /\ SumFunctionOnSet(UnitsAt(sh), 1..n)
            = SumFunctionOnSet(UnitsAt(q), 1..n) + SumFunctionOnSet(f, 1..n)
       /\ SumFunctionOnSet(WorthAt(sh), 1..n)
            = SumFunctionOnSet(WorthAt(q), 1..n) + SumFunctionOnSet(g, 1..n)
  <2> DEFINE a == UnitsAt(q)  b == UnitsAt(sh)  c == WorthAt(q)  d == WorthAt(sh)
  <2>1. \A i \in 1..n : a[i] \in Int /\ f[i] \in Int /\ b[i] = a[i] + f[i]
    BY <1>5, <1>8, <1>9
  <2>2. \A i \in 1..n : c[i] \in Int /\ g[i] \in Int /\ d[i] = c[i] + g[i]
    BY <1>5, <1>8, <1>9
  <2> HIDE DEF a, b, c, d
  <2>3. SumFunctionOnSet(b, 1..n) = SumFunctionOnSet(a, 1..n) + SumFunctionOnSet(f, 1..n)
    BY <1>1, <2>1, SumPlus
  <2>4. SumFunctionOnSet(d, 1..n) = SumFunctionOnSet(c, 1..n) + SumFunctionOnSet(g, 1..n)
    BY <1>1, <2>2, SumPlus
  <2> QED BY <2>3, <2>4 DEF a, b, c, d
<1>12. /\ SumFunctionOnSet(f, 1..n) \in Nat /\ SumFunctionOnSet(g, 1..n) \in Nat
       /\ SumFunctionOnSet(h, 1..n) \in Nat
  BY <1>1, <1>5, SumNat
<1> QED BY <1>4, <1>6, <1>9, <1>10, <1>11, <1>12 DEF sh

(* toactivetkns, which counts the units for a validator v.                 *)
LEMMA ActivatedBooks ==
    ASSUME TypeOK, Books, NEW u \in Stakers, NEW v \in DOMAIN vali,
           NEW w \in Validators, Toactivetkns(u, w),
           vali' = [vali EXCEPT ![v].units = @ + SumOf(acct[u].shares, Extra)]
    PROVE  TypeOK' /\ Books'
<1> DEFINE a == acct[u]  b == acct'[u]  x == vali[v]  y == vali'[v]
           q == a.shares
           sh == [i \in DOMAIN q |-> Active(q[i])]
           units == SumOf(q, Extra)
           worth == SumOf(q, LAMBDA s : Extra(s) * s.net)
           gained == SumOf(q, LAMBDA s : Floor(Extra(s), s.net))
<1>1. block \in Nat /\ Fine \in Nat
  BY StakingAssumption DEF TypeOK
<1>2. a \in Account(vali) /\ x \in ValiRecord /\ pool \in PoolRecord
  BY DEF TypeOK, Valis, ValiRecord, PoolRecord
<1>3. /\ a.amount \in Nat /\ a.frozen \in Int /\ a.gained \in Nat
      /\ x.units \in Int /\ x.amount \in Nat /\ pool.amount \in Nat
  BY Types
<1>4. q \in Seq(Held(vali))
  BY Types
<1>5. /\ sh \in Seq(Held(vali)) /\ units \in Nat /\ worth \in Nat /\ gained \in Nat
      /\ Units(sh) = Units(q) + units /\ Worth(sh) = Worth(q) + worth
  <2> HIDE DEF q
  <2> QED BY <1>1, <1>4, ActiveSums
<1>6. /\ acct' = [acct EXCEPT ![u] = b] /\ b = [a EXCEPT !.shares = sh, !.gained = @ + worth]
      /\ vali' = [vali EXCEPT ![v] = y] /\ y = [x EXCEPT !.units = @ + units]
      /\ pool' = [pool EXCEPT !.total = @ + gained]
      /\ UNCHANGED <<block, start, plugin>>
  BY DEF Toactivetkns, TypeOK, Active
<1> HIDE DEF sh, units, worth, gained
<1>6a. units \in Nat /\ worth \in Nat /\ gained \in Nat
  BY <1>5
<1>7. /\ b \in Account(vali) /\ b.amount = a.amount /\ b.frozen = a.frozen
      /\ b.gained = a.gained + worth /\ b.shares = sh /\ b.pending = a.pending
  <2> DEFINE H == Seq(Held(vali))
  <2>1. a \in [amount : Nat, frozen : Int, gained : Nat, shares : H, pending : H]
    BY <1>2 DEF Account
  <2>2. a.gained + worth \in Nat
    BY <1>3, <1>6a
  <2>3. b = [a EXCEPT !.shares = sh, !.gained = a.gained + worth] /\ sh \in H
    BY <1>5, <1>6
  <2> HIDE DEF H, a, b
  <2>4. /\ b \in [amount : Nat, frozen : Int, gained : Nat, shares : H, pending : H]
        /\ b.amount = a.amount /\ b.frozen = a.frozen
        /\ b.gained = a.gained + worth /\ b.shares = sh /\ b.pending = a.pending
    BY <2>1, <2>2, <2>3
  <2> QED BY <2>4 DEF Account, H
<1>8. y \in ValiRecord /\ y.net = x.net /\ y.units = x.units + units /\ y.amount = x.amount
  BY <1>2, <1>3, <1>6, <1>6a DEF ValiRecord
<1>9. pool' \in PoolRecord /\ pool'.amount = pool.amount
  BY <1>2, <1>6, <1>6a DEF PoolRecord
<1>10. OneChanged(u, v)
  BY <1>6, <1>7, <1>8, <1>9 DEF OneChanged
<1>11. Balanced(u, v)
  <2>1. /\ Units(a.shares) \in Nat /\ Units(a.pending) \in Nat
        /\ Worth(a.shares) \in Nat /\ Worth(a.pending) \in Nat
    BY Types, SumsNat
  <2>2. Units(b.shares) = Units(a.shares) + units /\ Worth(b.shares) = Worth(a.shares) + worth
    BY <1>5, <1>7
  <2>3. Fine * a.frozen \in Int /\ Fine * b.frozen = Fine * a.frozen
    BY <1>1, <1>3, <1>7
  <2>4. b.amount = a.amount /\ b.frozen = a.frozen /\ b.gained = a.gained + worth /\ b.pending = a.pending
    BY <1>7
  <2> HIDE DEF a, b, x, y, q
  <2>5. Worth(b.shares) + Worth(b.pending) + Fine * a.frozen + a.gained
          <= Worth(a.shares) + Worth(a.pending) + Fine * b.frozen + b.gained
    BY <1>3, <1>6a, <2>1, <2>2, <2>3, <2>4
  <2>6. Units(b.shares) + Units(b.pending) + x.units = Units(a.shares) + Units(a.pending) + y.units
    BY <1>3, <1>6a, <1>8, <2>1, <2>2, <2>4
  <2>7. b.amount + b.frozen + y.amount + pool'.amount <= a.amount + a.frozen + x.amount + pool.amount
    BY <1>3, <1>8, <1>9, <2>4
  <2> QED BY <2>5, <2>6, <2>7 DEF Balanced, a, b, x, y
<1> QED BY <1>10, <1>11, ChangeBooks

(* toactivetkns: without units to count any validator will do, and without *)
(* validators there are no shares.                                         *)
LEMMA ToactivetknsBooks ==
    ASSUME TypeOK, Books, NEW u \in Stakers, NEW v \in Validators, Toactivetkns(u, v)
    PROVE  TypeOK' /\ Books'
<1> DEFINE q == acct[u].shares
           units == SumOf(q, Extra)
           worth == SumOf(q, LAMBDA s : Extra(s) * s.net)
           gained == SumOf(q, LAMBDA s : Floor(Extra(s), s.net))
           sh == [i \in DOMAIN q |-> Active(q[i])]
<1>1. CASE units # 0
  <2>1. v \in DOMAIN vali /\ vali' = [vali EXCEPT ![v].units = @ + units]
    BY <1>1 DEF Toactivetkns, Credited
  <2> QED BY <2>1, ActivatedBooks
<1>2. ASSUME units = 0, NEW w \in DOMAIN vali PROVE TypeOK' /\ Books'
  <2>1. vali' = vali
    BY <1>2 DEF Toactivetkns
  <2>2. vali[w].units \in Int /\ vali[w] \in ValiRecord
    BY Types DEF TypeOK, Valis, ValiRecord
  <2>3. vali = [vali EXCEPT ![w].units = @ + units]
    BY <1>2, <2>2 DEF ValiRecord, TypeOK, Valis
  <2> QED BY <2>1, <2>3, ActivatedBooks
<1>3. CASE units = 0 /\ DOMAIN vali = {}
  <2>1. /\ q \in Seq(Held(vali)) /\ acct \in [Stakers -> Account(vali)]
        /\ acct[u] \in Account(vali) /\ block \in Nat
    BY DEF TypeOK, Account
  <2>2. Held(vali) = {}
    BY <1>3 DEF Held
  <2>3. q = <<>>
    BY <2>1, <2>2
  <2>4. sh = <<>>
    BY <2>3
  <2>5. worth \in Nat /\ gained \in Nat /\ Worth(sh) = Worth(q) + worth
    <3> HIDE DEF q
    <3> QED BY <2>1, ActiveSums
  <2>6. worth = 0
    <3>1. Worth(q) = 0 /\ Worth(sh) = 0
      BY <2>3, <2>4, SumsEmpty
    <3> HIDE DEF q, sh, worth
    <3> QED BY <2>5, <3>1
  <2>7. /\ acct' = [acct EXCEPT ![u].shares = sh, ![u].gained = @ + worth]
        /\ pool' = [pool EXCEPT !.total = @ + gained]
        /\ vali' = vali /\ UNCHANGED <<block, start, plugin>>
    BY <1>3 DEF Toactivetkns, Active
  <2> HIDE DEF sh, worth, gained
  <2>8. acct[u].gained + 0 = acct[u].gained /\ acct[u].shares = <<>>
    BY <2>1, <2>3 DEF Account
  <2>9. [acct[u] EXCEPT !.shares = <<>>, !.gained = @ + 0] = acct[u]
    BY <2>1, <2>8 DEF Account
  <2>10. acct' = acct
    BY <2>1, <2>4, <2>6, <2>7, <2>9
  <2>11. pool' \in [amount : Nat, total : Int, threshold : Nat] /\ pool'.amount = pool.amount
    BY <2>5, <2>7 DEF TypeOK
  <2> QED BY <2>7, <2>10, <2>11, OthersBooks DEF TypeOK
<1> QED BY <1>1, <1>2, <1>3

(* A factor cancels.                                                       *)
LEMMA Cancels ==
    ASSUME NEW c \in Nat \ {0}, NEW k \in Nat, NEW d \in Nat, c * k <= c * d
    PROVE  k <= d
<1>1. CASE k >= d + 1
  <2>1. c * k >= c * (d + 1)
    BY <1>1
  <2> QED BY <2>1
<1> QED BY <1>1

(* What is unfrozen for shares is not more than they are worth, and a      *)
(* validator's fee not more than they gained.                              *)
LEMMA SettledSums ==
    ASSUME NEW net \in Nat, NEW q \in Seq({s \in Share : s.net <= net})
    PROVE  LET fee == SumOf(q, LAMBDA s : Fee(s, net))
               diff == SumOf(q, LAMBDA s : Diff(s, net))
           IN /\ Unfrozen(q) \in Nat /\ Fine * Unfrozen(q) <= Worth(q)
              /\ fee \in Nat /\ diff \in Nat /\ fee <= diff
<1> DEFINE n == Len(q)
           f == [i \in 1..n |-> Floor(q[i].units, q[i].net)]
           ff == [i \in 1..n |-> Fine * Floor(q[i].units, q[i].net)]
           g == [i \in 1..n |-> Fee(q[i], net)]
           h == [i \in 1..n |-> Diff(q[i], net)]
<1>0. Fine \in Nat \ {0} /\ Commission.den \in Nat \ {0} /\ Commission.num \in Nat
      /\ Commission.num <= Commission.den
  BY StakingAssumption
<1>1. /\ DOMAIN q = 1..n /\ n \in Nat /\ IsFiniteSet(1..n)
      /\ \A i \in 1..n : q[i] \in Share /\ q[i].net <= net
      /\ q \in Seq(Share)
  BY FS_Interval
<1>2. \A i \in 1..n : q[i].units \in Nat /\ q[i].net \in Nat
  BY <1>1 DEF Share
<1>3. /\ Unfrozen(q) = SumFunctionOnSet(f, 1..n)
      /\ SumOf(q, LAMBDA s : Fee(s, net)) = SumFunctionOnSet(g, 1..n)
      /\ SumOf(q, LAMBDA s : Diff(s, net)) = SumFunctionOnSet(h, 1..n)
  BY <1>1 DEF Unfrozen, SumOf, SumFunction
<1>4. \A i \in 1..n : /\ f[i] \in Nat /\ ff[i] = Fine * f[i] /\ ff[i] \in Int
                      /\ WorthAt(q)[i] \in Int /\ ff[i] <= WorthAt(q)[i]
  <2> SUFFICES ASSUME NEW i \in 1..n
               PROVE  /\ f[i] \in Nat /\ ff[i] = Fine * f[i] /\ ff[i] \in Int
                      /\ WorthAt(q)[i] \in Int /\ ff[i] <= WorthAt(q)[i]
    OBVIOUS
  <2> DEFINE w == q[i].units * q[i].net
  <2>1. w \in Nat
    BY <1>2
  <2>2. f[i] = w \div Fine /\ ff[i] = Fine * (w \div Fine) /\ WorthAt(q)[i] = w
    BY DEF Floor, WorthAt
  <2> HIDE DEF w, f, ff
  <2>3. w \div Fine \in Nat /\ Fine * (w \div Fine) <= w
    BY <1>0, <2>1, DivFacts
  <2>4. Fine * (w \div Fine) \in Int
    BY <1>0, <2>3
  <2> QED BY <2>1, <2>2, <2>3, <2>4
<1>5. \A i \in 1..n : g[i] \in Nat /\ h[i] \in Nat /\ g[i] <= h[i]
  <2> SUFFICES ASSUME NEW i \in 1..n PROVE g[i] \in Nat /\ h[i] \in Nat /\ g[i] <= h[i]
    OBVIOUS
  <2> DEFINE w == q[i].units * (net - q[i].net)
             d == w \div Fine
             e == d * Commission.num
             k == e \div Commission.den
  <2>1. w \in Nat
    <3>1. net - q[i].net \in Nat
      BY <1>1, <1>2
    <3> QED BY <1>2, <3>1
  <2>2. h[i] = d /\ g[i] = k
    BY DEF Diff, Fee, Floor
  <2> HIDE DEF g, h, w
  <2>3. d \in Nat
    BY <1>0, <2>1, DivFacts
  <2> HIDE DEF d
  <2>4. e \in Nat /\ e <= d * Commission.den
    BY <1>0, <2>3
  <2> HIDE DEF e
  <2>5. k \in Nat /\ Commission.den * k <= e
    BY <1>0, <2>4, DivFacts
  <2> HIDE DEF k
  <2>6. Commission.den * k <= Commission.den * d
    BY <1>0, <2>3, <2>4, <2>5
  <2>7. k <= d
    BY <1>0, <2>3, <2>5, <2>6, Cancels
  <2> QED BY <2>2, <2>3, <2>5, <2>7
<1>6. Worth(q) = SumFunctionOnSet(WorthAt(q), 1..n)
  BY <1>1, SumsOver
<1> HIDE DEF f, ff, g, h, n
<1>7. SumFunctionOnSet(f, 1..n) \in Nat /\ SumFunctionOnSet(g, 1..n) \in Nat
      /\ SumFunctionOnSet(h, 1..n) \in Nat
  BY <1>1, <1>4, <1>5, SumNat
<1>8. SumFunctionOnSet(ff, 1..n) = Fine * SumFunctionOnSet(f, 1..n)
  <2>1. \A i \in 1..n : f[i] \in Int /\ ff[i] = Fine * f[i]
    BY <1>4
  <2>2. Fine \in Int
    BY <1>0
  <2> QED BY <1>1, <2>1, <2>2, SumTimes
<1>9. SumFunctionOnSet(ff, 1..n) <= SumFunctionOnSet(WorthAt(q), 1..n)
  <2> DEFINE w == WorthAt(q)
  <2>1. \A i \in 1..n : ff[i] \in Int /\ w[i] \in Int /\ ff[i] <= w[i]
    BY <1>4
  <2> HIDE DEF w
  <2>2. SumFunctionOnSet(ff, 1..n) <= SumFunctionOnSet(w, 1..n)
    BY <1>1, <2>1, SumLeq
  <2> QED BY <2>2 DEF w
<1>10. SumFunctionOnSet(g, 1..n) <= SumFunctionOnSet(h, 1..n)
  <2>1. \A i \in 1..n : g[i] \in Int /\ h[i] \in Int /\ g[i] <= h[i]
    BY <1>5
  <2> QED BY <1>1, <2>1, SumLeq
<1> QED BY <1>3, <1>6, <1>7, <1>8, <1>9, <1>10

(* unstaketkns, settle.                                                    *)
LEMMA SettleBooks ==
    ASSUME TypeOK, Books, NEW u \in Stakers, NEW v \in DOMAIN vali, NEW n \in Amounts,
           Settle(u, v, n)
    PROVE  TypeOK' /\ Books'
<1> DEFINE a == acct[u]  b == acct'[u]  x == vali[v]  y == vali'[v]
           may == {s \in Range(a.pending) : s.validator = v /\ s.time + PendingDays <= block}
           t == Take(a.pending, n, may)
           frozen == Unfrozen(t.taken)
           fee == SumOf(t.taken, LAMBDA s : Fee(s, x.net))
           diff == SumOf(t.taken, LAMBDA s : Diff(s, x.net))
<1>1. n \in Nat /\ block \in Nat /\ Fine \in Nat
  BY StakingAssumption DEF TypeOK
<1>2. a \in Account(vali) /\ x \in ValiRecord /\ pool \in PoolRecord
  BY DEF TypeOK, Valis, ValiRecord, PoolRecord
<1>3. /\ a.amount \in Nat /\ a.frozen \in Int /\ a.gained \in Nat
      /\ x.units \in Int /\ x.amount \in Nat /\ x.net \in Nat \ {0}
      /\ pool.amount \in Nat /\ pool.total \in Int
  BY Types
<1>4. a.pending \in Seq(Held(vali))
  BY Types
<1>5. /\ acct' = [acct EXCEPT ![u] = b]
      /\ b = [a EXCEPT !.amount = @ + frozen, !.frozen = @ - frozen, !.pending = t.rest]
      /\ vali' = [vali EXCEPT ![v] = y]
      /\ y = [x EXCEPT !.units = @ - n, !.amount = @ + fee]
      /\ pool' = [pool EXCEPT !.amount = @ - (diff - fee) - fee, !.total = @ - frozen - (diff - fee)]
      /\ t.left = 0 /\ pool.amount >= (diff - fee) + fee
      /\ UNCHANGED <<block, start, plugin>>
  BY DEF Settle, TypeOK
<1>6. \A m \in may : m.validator = v
  OBVIOUS
<1> HIDE DEF may
<1>7. /\ t \in Loop(vali, may) /\ t.left + Units(t.taken) = n
      /\ Units(t.rest) + Units(t.taken) = Units(a.pending)
      /\ Worth(t.rest) + Worth(t.taken) = Worth(a.pending)
  BY <1>1, <1>4, TakeSums
<1> HIDE DEF t
<1>8. t.rest \in Seq(Held(vali)) /\ t.taken \in Seq(PartsOf(vali, may))
  BY <1>7 DEF Loop
<1>9. t.taken \in Seq({s \in Share : s.net <= x.net})
  <2>1. PartsOf(vali, may) \subseteq {s \in Share : s.net <= x.net}
    BY <1>6 DEF PartsOf, Held
  <2> QED BY <1>8, <2>1
<1>10. /\ frozen \in Nat /\ Fine * frozen <= Worth(t.taken)
       /\ fee \in Nat /\ diff \in Nat /\ fee <= diff
  <2> HIDE DEF x
  <2>1. x.net \in Nat
    BY <1>3
  <2> QED BY <1>9, <2>1, SettledSums
<1> HIDE DEF frozen, fee, diff
<1>11. /\ Units(a.pending) \in Nat /\ Units(t.taken) \in Nat /\ Units(t.rest) \in Nat
       /\ Worth(a.pending) \in Nat /\ Worth(t.taken) \in Nat /\ Worth(t.rest) \in Nat
       /\ Units(a.shares) \in Nat /\ Worth(a.shares) \in Nat
  <2>1. t.rest \in Seq(Share) /\ t.taken \in Seq(Share)
    BY <1>8, HeldShares
  <2> QED BY <2>1, Types, SumsNat
<1>12. /\ b \in Account(vali) /\ b.amount = a.amount + frozen /\ b.frozen = a.frozen - frozen
       /\ b.gained = a.gained /\ b.shares = a.shares /\ b.pending = t.rest
  <2> DEFINE H == Seq(Held(vali))
             pe == t.rest
  <2>1. a \in [amount : Nat, frozen : Int, gained : Nat, shares : H, pending : H]
    BY <1>2 DEF Account
  <2>2. a.amount + frozen \in Nat /\ a.frozen - frozen \in Int
    BY <1>3, <1>10
  <2>3. b = [a EXCEPT !.amount = a.amount + frozen, !.frozen = a.frozen - frozen, !.pending = pe]
        /\ pe \in H
    BY <1>5, <1>8
  <2> HIDE DEF H, a, b, pe
  <2>4. /\ b \in [amount : Nat, frozen : Int, gained : Nat, shares : H, pending : H]
        /\ b.amount = a.amount + frozen /\ b.frozen = a.frozen - frozen
        /\ b.gained = a.gained /\ b.shares = a.shares /\ b.pending = pe
    BY <2>1, <2>2, <2>3
  <2> QED BY <2>4 DEF Account, H, pe
<1>13. y \in ValiRecord /\ y.net = x.net /\ y.units = x.units - n /\ y.amount = x.amount + fee
  <2>1. x.units - n \in Int /\ x.amount + fee \in Nat
    BY <1>1, <1>3, <1>10
  <2> HIDE DEF x, y
  <2> QED BY <1>2, <1>5, <2>1 DEF ValiRecord
<1>14. pool' \in PoolRecord /\ pool'.amount = pool.amount - diff
  <2>1. /\ pool.amount - (diff - fee) - fee = pool.amount - diff
        /\ pool.amount - diff \in Nat /\ pool.total - frozen - (diff - fee) \in Int
    BY <1>3, <1>5, <1>10
  <2>2. pool' = [pool EXCEPT !.amount = pool.amount - diff, !.total = pool.total - frozen - (diff - fee)]
    BY <1>5, <2>1
  <2> QED BY <1>2, <2>1, <2>2 DEF PoolRecord
<1>15. OneChanged(u, v)
  BY <1>5, <1>12, <1>13, <1>14 DEF OneChanged
<1>16. Balanced(u, v)
  <2>1. /\ b.amount = a.amount + frozen /\ b.frozen = a.frozen - frozen
        /\ b.gained = a.gained /\ b.shares = a.shares /\ b.pending = t.rest
    BY <1>12
  <2>2. y.units = x.units - n /\ y.amount = x.amount + fee /\ pool'.amount = pool.amount - diff
        /\ t.left = 0
    BY <1>5, <1>13, <1>14
  <2> DEFINE f == Fine * a.frozen  d == Fine * frozen
  <2>3. f \in Int /\ d \in Int /\ Fine * b.frozen = f - d /\ d <= Worth(t.taken)
    BY <1>1, <1>3, <1>10, <2>1
  <2> HIDE DEF a, b, x, y, f, d
  <2>4. Worth(b.shares) + Worth(b.pending) + f + a.gained
          <= Worth(a.shares) + Worth(a.pending) + (f - d) + b.gained
    BY <1>3, <1>7, <1>11, <2>1, <2>3
  <2>5. Worth(b.shares) + Worth(b.pending) + Fine * a.frozen + a.gained
          <= Worth(a.shares) + Worth(a.pending) + Fine * b.frozen + b.gained
    BY <2>3, <2>4 DEF f
  <2>6. Units(b.shares) + Units(b.pending) + x.units = Units(a.shares) + Units(a.pending) + y.units
    BY <1>1, <1>3, <1>7, <1>11, <2>1, <2>2
  <2>7. b.amount + b.frozen + y.amount + pool'.amount <= a.amount + a.frozen + x.amount + pool.amount
    BY <1>3, <1>10, <2>1, <2>2
  <2> QED BY <2>5, <2>6, <2>7 DEF Balanced, a, b, x, y
<1> QED BY <1>15, <1>16, ChangeBooks

(* The initial state keeps the books.                                      *)
LEMMA BooksInit == Init => TypeOK /\ Books
<1> SUFFICES ASSUME Init PROVE TypeOK /\ Books
  OBVIOUS
<1> DEFINE f == [w \in Stakers |-> Funds[w]]
<1>0. Funds \in [Stakers -> Nat] /\ Supply \in Nat /\ IsFiniteSet(Stakers) /\ Fine \in Nat
  BY StakingAssumption
<1>1. \A u \in Stakers : /\ acct[u].amount = Funds[u] /\ acct[u].frozen = 0 /\ acct[u].gained = 0
                         /\ acct[u].shares = <<>> /\ acct[u].pending = <<>>
  BY DEF Init
<1>2. /\ vali = <<>> /\ DOMAIN vali = {} /\ pool.amount = Supply
  BY DEF Init
<1>3. TypeOK
  <2>1. acct \in [Stakers -> Account(vali)]
    BY <1>0 DEF Init, Account
  <2>2. vali \in Valis
    <3>1. <<>> \in [{} -> ValiRecord]
      OBVIOUS
    <3> QED BY <1>2, <3>1 DEF Valis, ValiRecord
  <2>3. pool \in [amount : Nat, total : Int, threshold : Nat]
    BY <1>0 DEF Init
  <2>4. plugin \in [Hosts -> [current : Nat, last : Nat, booted : Nat]]
    BY StartedPlugin DEF Init
  <2> QED BY <2>1, <2>2, <2>3, <2>4 DEF TypeOK, Init
<1>4. acct \in Accounts
  BY <1>3, PlainAccounts DEF TypeOK
<1>5. \A u \in Stakers : UnitsOf(acct, u) = 0 /\ Worth(acct[u].shares \o acct[u].pending) = 0
  <2> SUFFICES ASSUME NEW u \in Stakers
               PROVE  UnitsOf(acct, u) = 0 /\ Worth(acct[u].shares \o acct[u].pending) = 0
    OBVIOUS
  <2>1. acct[u].shares = <<>> /\ acct[u].pending = <<>>
    BY <1>1
  <2> QED BY <1>4, <2>1, AccountSums, SumsEmpty
<1>6. SoldUnits(vali) = 0 /\ Fees(vali) = 0
  <2> DEFINE g == [v \in DOMAIN vali |-> vali[v].units]
             h == [v \in DOMAIN vali |-> vali[v].amount]
  <2>1. SoldUnits(vali) = SumFunctionOnSet(g, DOMAIN vali) /\ Fees(vali) = SumFunctionOnSet(h, DOMAIN vali)
    BY DEF SoldUnits, Fees, TotalOver, SumFunction
  <2> HIDE DEF g, h
  <2> QED BY <1>2, <2>1, SumEmpty
<1>7. HeldUnits(acct) = 0
  <2> DEFINE g == [u \in Stakers |-> UnitsOf(acct, u)]
  <2>1. HeldUnits(acct) = SumFunctionOnSet(g, Stakers)
    BY DEF HeldUnits, TotalOver, SumFunction, UnitsOf
  <2>2. \A u \in Stakers : g[u] \in Int /\ g[u] = 0 * g[u]
    BY <1>5
  <2> HIDE DEF g
  <2>3. SumFunctionOnSet(g, Stakers) = 0 * SumFunctionOnSet(g, Stakers)
    BY <1>0, <2>2, SumTimes
  <2>4. SumFunctionOnSet(g, Stakers) \in Int
    BY <1>0, <2>2, SumInt
  <2> QED BY <2>1, <2>3, <2>4
<1>8. UnitsCounted
  BY <1>6, <1>7 DEF UnitsCounted, SoldUnits, HeldUnits
<1>9. FrozenCovers
  <2> SUFFICES ASSUME NEW u \in Stakers
               PROVE  Worth(acct[u].shares \o acct[u].pending) <= Fine * acct[u].frozen + acct[u].gained
    BY DEF FrozenCovers
  <2>1. acct[u].frozen = 0 /\ acct[u].gained = 0
    BY <1>1
  <2> QED BY <1>0, <1>5, <2>1
<1>10. NothingMade
  <2> DEFINE g == [u \in Stakers |-> MoneyOf(acct, u)]
  <2>1. Money(acct) = SumFunctionOnSet(g, Stakers) /\ Supplied = SumFunctionOnSet(f, Stakers) + Supply
    BY DEF Money, Supplied, TotalOver, SumFunction, MoneyOf
  <2>2. \A u \in Stakers : f[u] \in Int /\ g[u] = f[u]
    BY <1>0, <1>1 DEF MoneyOf
  <2> HIDE DEF f, g
  <2>3. SumFunctionOnSet(g, Stakers) = SumFunctionOnSet(f, Stakers) /\ SumFunctionOnSet(f, Stakers) \in Int
    BY <1>0, <2>2, SumSame, SumInt
  <2>4. Money(acct) + Fees(vali) + pool.amount <= Supplied
    BY <1>0, <1>2, <1>6, <2>1, <2>3
  <2>5. \A u \in Stakers : acct[u].amount >= 0
    BY <1>0, <1>1
  <2> QED BY <2>4, <2>5 DEF NothingMade, Money, Fees, Supplied
<1> QED BY <1>3, <1>8, <1>9, <1>10 DEF Books

(* Every step preserves the types and the books together.  The books alone *)
(* are not inductive: that a settled share's gain is not negative needs    *)
(* the order of net values in Held.                                        *)
LEMMA BooksNext == ASSUME TypeOK, Books, [Next]_vars PROVE TypeOK' /\ Books'
<1>1. CASE \/ Newstakepool \/ Updstakepool \/ NewBlock \/ \E v \in Hosts : RestartNode(v)
           \/ UNCHANGED vars
  BY <1>1, FrameBooks
<1>2. ASSUME NEW v \in Validators, Newvalidator(v) PROVE TypeOK' /\ Books'
  BY <1>2, NewvalidatorBooks
<1>3. ASSUME NEW v \in DOMAIN vali, NEW g \in Gains, Recvstkbonus(v, g) PROVE TypeOK' /\ Books'
  BY <1>3, RecvstkbonusBooks
<1>4. ASSUME NEW u \in Stakers, NEW v \in DOMAIN vali, NEW n \in Amounts, Valiwithdraw(v, u, n)
      PROVE  TypeOK' /\ Books'
  BY <1>4, ValiwithdrawBooks
<1>5. ASSUME NEW u \in Stakers, NEW v \in DOMAIN vali, NEW n \in Amounts,
             NEW d \in FixedDays, Staketkns(u, v, n, d)
      PROVE  TypeOK' /\ Books'
  BY <1>5, StaketknsBooks
<1>6. ASSUME NEW u \in Stakers, NEW v \in DOMAIN vali, NEW n \in Amounts, Propose(u, v, n)
      PROVE  TypeOK' /\ Books'
  BY <1>6, ProposeBooks
<1>7. ASSUME NEW u \in Stakers, NEW v \in DOMAIN vali, NEW n \in Amounts, Cancel(u, v, n)
      PROVE  TypeOK' /\ Books'
  BY <1>7, CancelBooks
<1>8. ASSUME NEW u \in Stakers, NEW v \in DOMAIN vali, NEW n \in Amounts, Settle(u, v, n)
      PROVE  TypeOK' /\ Books'
  BY <1>8, SettleBooks
<1>9. ASSUME NEW u \in Stakers, NEW v \in Validators, Toactivetkns(u, v) PROVE TypeOK' /\ Books'
  BY <1>9, ToactivetknsBooks
<1> QED BY <1>1, <1>2, <1>3, <1>4, <1>5, <1>6, <1>7, <1>8, <1>9 DEF Next

(* The inductive invariant holds in every state.                           *)
LEMMA BooksAlways == Spec => [](TypeOK /\ Books)
BY BooksInit, BooksNext, PTL DEF Spec

(* For any stakers, validators, prices and roundings: the units of the     *)
(* validators add up to the units that the stakers hold or have pending,   *)
(* whatever is split, cancelled, settled or credited.                      *)
THEOREM UnitsAccounted == Spec => []UnitsCounted
<1>1. Books => UnitsCounted
  BY DEF Books
<1> QED BY <1>1, BooksAlways, PTL

(* For any stakers, validators, prices and roundings: what the shares of a *)
(* staker are worth is covered by his frozen balance and what toactivetkns *)
(* credited to him.                                                        *)
THEOREM SharesBacked == Spec => []FrozenCovers
<1>1. Books => FrozenCovers
  BY DEF Books
<1> QED BY <1>1, BooksAlways, PTL

(* For any stakers, validators, prices and roundings: no sequence of       *)
(* operations makes the balances grow together, or one of them negative.   *)
THEOREM BalancesConserved == Spec => []NothingMade
<1>1. Books => NothingMade
  BY DEF Books
<1> QED BY <1>1, BooksAlways, PTL
=============================================================================
