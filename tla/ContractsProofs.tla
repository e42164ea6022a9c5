-------------------------- MODULE ContractsProofs --------------------------
(***************************************************************************)
(* Proofs about the contracts, for any users, tokens, locks, suspended     *)
(* transactions of any length that run each other in any way, charges and  *)
(* amounts: nothing is made or lost, the shared lock address covers the    *)
(* open locks, outcomes are final, a status tells what took effect, and    *)
(* nobody's balance or token goes without his key.                         *)
(*                                                                         *)
(* Good(db, now) holds in every state:                                     *)
(*   Conserved : the balances add up to what was issued                    *)
(*   Covered   : what the lock address holds and what was paid out of the  *)
(*       locks add up to what was locked, double payments included         *)
(*   Settled   : an undecided lock has paid nothing; a decided one has     *)
(*       paid at least once, its unlock time is over and its outcome is    *)
(*       the one that its approvals give now                               *)
(*   Held      : HeldWhileOpen                                             *)
(* Reach(s, t, signed) says what a transaction with these keys may do to   *)
(* s.  An action inside a suspended transaction is allowed by the keys     *)
(* against the state s that the transaction began in, not the one before   *)
(* the action.  So the steps are proved of Here(s, x, signed, now), a      *)
(* state x inside a transaction that began in s.  No lock appears in it (a *)
(* newlock inside one finds no keys: NoInnerLock), so the tokens that its  *)
(* keys may move are not among the ones that a new lock would have to      *)
(* hold.  The inductive invariant is Stack: every frame has reached the    *)
(* state that the next one began in (Within), and the innermost one the    *)
(* present state.  When a frame ends, what it did and what was done before *)
(* it make one part of the frame around it (HereCompose, WithinEnd), and   *)
(* Effects(s), which is EffectsShown for s, needs that whatever took       *)
(* effect since a frame began was executed by it (RanBelow).               *)
(***************************************************************************)
EXTENDS Contracts, FoldProofs, SequenceTheorems, TLAPS

(* What newlock checks of the receivers of a lock.                         *)
Lawful(d) == d.succeed \cup d.failed \subseteq Receivers /\ d.succeed # {} /\ d.failed # {}

(* The types of the state.                                                 *)
Lock == [def : {d \in LockDefs : Lawful(d)}, signed : SUBSET Users,
         status : {"proposed", "succeed", "failed"}]

Suspend == [proposer : Users, trx : Trxs, signed : SUBSET Users,
            status : {"proposed", "cancelled", "failed", "executed"}]

(* The functions from some of D to R.                                      *)
PartialMaps(D, R) == UNION {[A -> R] : A \in SUBSET D}

Balances == [Addresses -> Nat]
OwnerMaps == [Tokens -> (SUBSET Addresses) \ {{}}]
LockMaps == PartialMaps(Locks, Lock)
SuspendMaps == PartialMaps(Proposals, Suspend)
PaidMaps == [Locks -> Nat]
RanMaps == [Proposals -> Nat]

State == [balance : Balances, owner : OwnerMaps, locks : LockMaps,
          suspends : SuspendMaps, paid : PaidMaps, ran : RanMaps, freed : SUBSET Tokens]

(* What each lock locked.                                                  *)
Funds(s) == [l \in DOMAIN s.locks |-> Total(s.locks[l].def.funds)]

(* The parts of the invariant, see the top of the module.                  *)
Conserved(s) == Total(s.balance) = Total(Issued)

Covered(s) == s.balance[LockAddr] + SumFunctionOnSet(s.paid, DOMAIN s.locks) = Total(Funds(s))

Enough(k) == Cardinality(k.signed) >= k.def.threshold

SettledLock(k, paid, time) ==
    /\ k.status = "proposed" => paid = 0
    /\ k.status # "proposed" =>
         /\ k.def.unlock < time /\ paid >= Total(k.def.funds)
         /\ k.status = IF Enough(k) THEN "succeed" ELSE "failed"

Settled(s, time) ==
    /\ \A l \in Locks \ DOMAIN s.locks : s.paid[l] = 0
    /\ \A l \in DOMAIN s.locks : SettledLock(s.locks[l], s.paid[l], time)

(* Some decided lock lists the token.                                      *)
ListedDecided(s, t) ==
    \E l \in DOMAIN s.locks : t \in s.locks[l].def.tokens /\ s.locks[l].status # "proposed"

Held(s) ==
    \A l \in DOMAIN s.locks : s.locks[l].status = "proposed" =>
        \A t \in s.locks[l].def.tokens :
            s.owner[t] = {LockAddr} \/ Keeper[t] # Owner \/ ListedDecided(s, t)

Good(s, time) == s \in State /\ Conserved(s) /\ Covered(s) /\ Settled(s, time) /\ Held(s)

(* What a transaction may do: locks stay with their contents and their     *)
(* outcomes, suspended transactions with their contents and, once decided, *)
(* with their status and effects; balances and tokens go with the keys.    *)
LocksKept(s, t) ==
    \A l \in DOMAIN s.locks :
        /\ l \in DOMAIN t.locks /\ t.locks[l].def = s.locks[l].def
        /\ s.locks[l].status # "proposed" => t.locks[l].status = s.locks[l].status

SuspendsKept(s, t) ==
    \A p \in DOMAIN s.suspends :
        /\ p \in DOMAIN t.suspends /\ t.suspends[p].trx = s.suspends[p].trx
        /\ s.suspends[p].status # "proposed" =>
             t.suspends[p].status = s.suspends[p].status /\ t.ran[p] = s.ran[p]

Spent(s, t, signed) == \A u \in Users : t.balance[u] < s.balance[u] => u \in signed

Permitted(s, k, signed) == s.owner[k] \subseteq signed \/ Keeper[k] \in signed

(* tryunlock assigned the token, and it is with the receivers of a decided *)
(* lock or they signed.                                                    *)
Delivered(t, k, signed) ==
    /\ k \in t.freed
    /\ \E l \in DOMAIN t.locks :
         /\ k \in t.locks[l].def.tokens /\ t.locks[l].status # "proposed"
         /\ t.owner[k] = Target(t.locks[l]) \/ Target(t.locks[l]) \subseteq signed

Moved(s, t, signed) ==
    \A k \in Tokens : t.owner[k] # s.owner[k] => Permitted(s, k, signed) \/ Delivered(t, k, signed)

Reach(s, t, signed) ==
    /\ LocksKept(s, t) /\ SuspendsKept(s, t) /\ Spent(s, t, signed) /\ Moved(s, t, signed)
    /\ s.freed \subseteq t.freed

-----------------------------------------------------------------------------
(* The addresses are finitely many and the special ones differ.            *)
LEMMA Distinct ==
    /\ IsFiniteSet(Addresses) /\ Users \subseteq Addresses
    /\ {Pool, Bonus, LockAddr, Destroyed} \subseteq Addresses
    /\ Pool \notin Users /\ Bonus \notin Users /\ LockAddr \notin Users /\ Destroyed \notin Users
    /\ Pool # Bonus /\ Pool # LockAddr /\ Pool # Destroyed /\ Bonus # LockAddr
    /\ Bonus # Destroyed /\ LockAddr # Destroyed
<1>1. IsFiniteSet({Pool, Bonus, LockAddr, Destroyed})
  <2>1. IsFiniteSet({Pool}) /\ IsFiniteSet({Bonus}) /\ IsFiniteSet({LockAddr}) /\ IsFiniteSet({Destroyed})
    BY FS_Singleton
  <2>2. IsFiniteSet({Pool} \cup {Bonus}) /\ IsFiniteSet({LockAddr} \cup {Destroyed})
    BY <2>1, FS_Union
  <2>3. IsFiniteSet(({Pool} \cup {Bonus}) \cup ({LockAddr} \cup {Destroyed}))
    BY <2>2, FS_Union
  <2>4. ({Pool} \cup {Bonus}) \cup ({LockAddr} \cup {Destroyed}) = {Pool, Bonus, LockAddr, Destroyed}
    OBVIOUS
  <2> QED BY <2>3, <2>4
<1>2. IsFiniteSet(Addresses)
  BY <1>1, ContractsAssumption, FS_Union DEF Addresses
<1> QED BY <1>2, ContractsAssumption DEF Addresses

(* What the content of a lock consists of.                                 *)
LEMMA DefFacts ==
    ASSUME NEW d \in LockDefs
    PROVE  /\ d.tokens \subseteq Tokens /\ DOMAIN d.funds \subseteq Users /\ IsFiniteSet(DOMAIN d.funds)
           /\ \A u \in DOMAIN d.funds : d.funds[u] \in Nat
           /\ d.unlock \in Nat /\ d.threshold \in Nat /\ d.succeed \subseteq Addresses /\ d.failed \subseteq Addresses
           /\ Total(d.funds) \in Nat
<1>1. PICK U \in SUBSET Users :
         d \in [tokens : SUBSET Tokens, funds : [U -> Nat],
               unlock : Nat, deadline : Nat, conds : SUBSET Users, threshold : Nat,
               succeed : SUBSET Addresses, failed : SUBSET Addresses]
  BY ContentsAssumption
<1>2. /\ d.tokens \subseteq Tokens /\ DOMAIN d.funds \subseteq Users
      /\ \A u \in DOMAIN d.funds : d.funds[u] \in Nat
      /\ d.unlock \in Nat /\ d.threshold \in Nat /\ d.succeed \subseteq Addresses /\ d.failed \subseteq Addresses
  BY <1>1
<1>3. IsFiniteSet(DOMAIN d.funds)
  BY <1>2, ContractsAssumption, FS_Subset
<1>4. Total(d.funds) \in Nat
  BY <1>2, <1>3, SumNat DEF Total, SumFunction
<1> QED BY <1>2, <1>3, <1>4

(* The parts of a state have their types.                                  *)
LEMMA StateFacts ==
    ASSUME NEW s \in State
    PROVE  /\ s.balance \in Balances /\ s.owner \in OwnerMaps /\ s.paid \in PaidMaps
           /\ s.locks \in LockMaps /\ s.suspends \in SuspendMaps
           /\ s.ran \in RanMaps /\ s.freed \subseteq Tokens
           /\ DOMAIN s.locks \subseteq Locks /\ \A l \in DOMAIN s.locks : s.locks[l] \in Lock
           /\ DOMAIN s.suspends \subseteq Proposals
           /\ \A p \in DOMAIN s.suspends : s.suspends[p] \in Suspend
<1>1. /\ s.balance \in Balances /\ s.owner \in OwnerMaps /\ s.paid \in PaidMaps
      /\ s.locks \in LockMaps /\ s.suspends \in SuspendMaps
      /\ s.ran \in RanMaps /\ s.freed \subseteq Tokens
  BY DEF State
<1>2. DOMAIN s.locks \subseteq Locks /\ \A l \in DOMAIN s.locks : s.locks[l] \in Lock
  BY <1>1 DEF LockMaps, PartialMaps
<1>3. DOMAIN s.suspends \subseteq Proposals /\ \A p \in DOMAIN s.suspends : s.suspends[p] \in Suspend
  BY <1>1 DEF SuspendMaps, PartialMaps
<1> QED BY <1>1, <1>2, <1>3

(* What a lock consists of.                                                *)
LEMMA LockFacts ==
    ASSUME NEW k \in Lock
    PROVE  /\ k.def \in LockDefs /\ Lawful(k.def) /\ k.signed \subseteq Users /\ IsFiniteSet(k.signed)
           /\ k.status \in {"proposed", "succeed", "failed"}
<1>1. k.def \in LockDefs /\ Lawful(k.def) /\ k.signed \subseteq Users /\ k.status \in {"proposed", "succeed", "failed"}
  BY DEF Lock
<1> QED BY <1>1, ContractsAssumption, FS_Subset

(* Balances after a transfer.                                              *)
Transferred(b, from, to, p) ==
    [[[b EXCEPT ![to] = @ + p.takes - p.bonus] EXCEPT ![from] = b[from] - p.takes]
     EXCEPT ![Bonus] = @ + p.bonus]

(* transfer_fungible moves an amount and keeps the sum of the balances.    *)
LEMMA TransferredFacts ==
    ASSUME NEW b \in Balances, NEW from \in Addresses, NEW to \in Addresses, NEW p,
           p.takes \in Nat, p.bonus \in Nat, p.bonus <= p.takes, b[from] >= p.takes,
           from # to, from # Bonus, to # Bonus
    PROVE  LET c == Transferred(b, from, to, p)
           IN /\ c \in Balances /\ c[from] = b[from] - p.takes /\ c[to] = b[to] + p.takes - p.bonus
              /\ c[to] >= b[to] /\ c[Bonus] = b[Bonus] + p.bonus
              /\ \A a \in Addresses \ {from, to, Bonus} : c[a] = b[a]
              /\ Total(c) = Total(b)
<1> DEFINE b1 == [b EXCEPT ![to] = @ + p.takes - p.bonus]
           b2 == [b1 EXCEPT ![from] = b[from] - p.takes]
           c == Transferred(b, from, to, p)
<1>0. Bonus \in Addresses /\ IsFiniteSet(Addresses)
  BY Distinct
<1>1. b[from] \in Nat /\ b[to] \in Nat /\ b[Bonus] \in Nat /\ \A a \in Addresses : b[a] \in Nat
  BY <1>0 DEF Balances
<1>2. b1 \in Balances /\ b1[to] = b[to] + p.takes - p.bonus /\ \A a \in Addresses \ {to} : b1[a] = b[a]
  BY <1>1 DEF Balances
<1>3. b2 \in Balances /\ b2[from] = b[from] - p.takes /\ \A a \in Addresses \ {from} : b2[a] = b1[a]
  <2>1. b[from] - p.takes \in Nat
    BY <1>1
  <2> HIDE DEF b1
  <2> QED BY <1>2, <2>1 DEF Balances
<1>4. c \in Balances /\ c[Bonus] = b2[Bonus] + p.bonus /\ \A a \in Addresses \ {Bonus} : c[a] = b2[a]
  <2>1. c = [b2 EXCEPT ![Bonus] = @ + p.bonus]
    BY DEF Transferred
  <2>2. b2[Bonus] \in Nat
    BY <1>0, <1>3 DEF Balances
  <2> HIDE DEF b2, c
  <2> QED BY <1>0, <1>3, <2>1, <2>2 DEF Balances
<1> HIDE DEF b1, b2, c
<1>5. /\ c[from] = b[from] - p.takes /\ c[to] = b[to] + p.takes - p.bonus /\ c[Bonus] = b[Bonus] + p.bonus
      /\ \A a \in Addresses \ {from, to, Bonus} : c[a] = b[a]
  BY <1>0, <1>2, <1>3, <1>4
<1>6. c[to] >= b[to]
  BY <1>1, <1>5
<1>7. DOMAIN b = Addresses /\ DOMAIN c = Addresses
  BY <1>4 DEF Balances
<1>8. SumFunctionOnSet(b1, Addresses) = SumFunctionOnSet(b, Addresses) - b[to] + b1[to]
  <2>1. DifferAt(b, b1, Addresses, to)
    BY <1>2 DEF Balances, DifferAt
  <2> QED BY <1>0, <2>1, SumChanged
<1>9. SumFunctionOnSet(b2, Addresses) = SumFunctionOnSet(b1, Addresses) - b1[from] + b2[from]
  <2>1. DifferAt(b1, b2, Addresses, from)
    BY <1>2, <1>3 DEF Balances, DifferAt
  <2> QED BY <1>0, <2>1, SumChanged
<1>10. SumFunctionOnSet(c, Addresses) = SumFunctionOnSet(b2, Addresses) - b2[Bonus] + c[Bonus]
  <2>1. DifferAt(b2, c, Addresses, Bonus)
    BY <1>3, <1>4 DEF Balances, DifferAt
  <2> QED BY <1>0, <2>1, SumChanged
<1>11. SumFunctionOnSet(b, Addresses) \in Int
  BY <1>0, <1>1, SumInt
<1>12. b1[from] = b[from] /\ b2[Bonus] = b[Bonus]
  BY <1>0, <1>2, <1>3
<1>13. SumFunctionOnSet(c, Addresses) = SumFunctionOnSet(b, Addresses)
  <2>1. b1[to] = b[to] + p.takes - p.bonus
    BY <1>2
  <2>2. b2[from] = b[from] - p.takes
    BY <1>3
  <2>3. SumFunctionOnSet(b1, Addresses) = SumFunctionOnSet(b, Addresses) + (p.takes - p.bonus)
    BY <1>1, <1>8, <1>11, <2>1
  <2>4. SumFunctionOnSet(b2, Addresses) = SumFunctionOnSet(b, Addresses) - p.bonus
    BY <1>1, <1>9, <1>11, <1>12, <2>2, <2>3
  <2> QED BY <1>1, <1>5, <1>10, <1>11, <1>12, <2>4
<1>14. Total(c) = Total(b)
  BY <1>7, <1>13 DEF Total, SumFunction
<1> QED BY <1>4, <1>5, <1>6, <1>14 DEF c

(* The bonus is at most what is taken, and, paid by the receiver, at most  *)
(* the amount.                                                             *)
LEMMA PassiveBonusFacts ==
    ASSUME NEW amount \in Nat, NEW outside \in BOOLEAN
    PROVE  LET p == PassiveBonus(amount, outside)
           IN p.takes \in Nat /\ p.bonus \in Nat /\ p.bonus <= p.takes /\ (~outside => p.bonus <= amount)
<1>1. /\ Charge.base \in Nat /\ Charge.num \in Nat /\ Charge.den \in Nat \ {0}
      /\ Charge.min \in Nat /\ Charge.max \in Nat
  BY ContentsAssumption
<1>2. (Charge.num * amount) \div Charge.den \in Nat
  <2>1. Charge.num * amount \in Nat
    BY <1>1
  <2>2. \A a \in Nat : \A b \in Nat \ {0} : a \div b \in Nat
    OBVIOUS
  <2> QED BY <1>1, <2>1, <2>2
<1> QED BY <1>1, <1>2 DEF PassiveBonus

-----------------------------------------------------------------------------

(* x is reached from s within a transaction with these keys, no lock added.*)
Here(s, x, signed, time) ==
    /\ Good(s, time) /\ Good(x, time) /\ Reach(s, x, signed)
    /\ DOMAIN x.locks = DOMAIN s.locks /\ signed \subseteq Users

(* Doing nothing is allowed.                                               *)
LEMMA ReachSame ==
    ASSUME NEW s \in State, NEW signed
    PROVE  Reach(s, s, signed)
<1>1. \A u \in Users : ~(s.balance[u] < s.balance[u])
  BY StateFacts, Distinct DEF Balances
<1> QED BY <1>1 DEF Reach, LocksKept, SuspendsKept, Spent, Moved

(* An action that changes balances, keeps their sum and the lock address,  *)
(* and lowers only those of signers, keeps Here.                           *)
LEMMA BalanceStep ==
    ASSUME NEW s, NEW x, NEW signed, NEW time, Here(s, x, signed, time),
           NEW b \in Balances, Total(b) = Total(x.balance), b[LockAddr] = x.balance[LockAddr],
           \A u \in Users : b[u] < x.balance[u] => u \in signed
    PROVE  Here(s, [x EXCEPT !.balance = b], signed, time)
<1> DEFINE y == [x EXCEPT !.balance = b]
<1>1. /\ Good(s, time) /\ x \in State /\ Conserved(x) /\ Covered(x) /\ Settled(x, time) /\ Held(x)
      /\ LocksKept(s, x) /\ SuspendsKept(s, x) /\ Spent(s, x, signed) /\ Moved(s, x, signed)
      /\ s.freed \subseteq x.freed
      /\ DOMAIN x.locks = DOMAIN s.locks /\ signed \subseteq Users
  BY DEF Here, Good, Reach
<1>2. /\ y \in State /\ y.balance = b /\ y.owner = x.owner /\ y.locks = x.locks
      /\ y.suspends = x.suspends /\ y.paid = x.paid /\ y.ran = x.ran /\ y.freed = x.freed
  BY <1>1 DEF State
<1> HIDE DEF y
<1>3. Conserved(y) /\ Covered(y)
  BY <1>1, <1>2 DEF Conserved, Covered, Funds
<1>4. Settled(y, time)
  BY <1>1, <1>2 DEF Settled
<1>5. Held(y)
  BY <1>1, <1>2 DEF Held, ListedDecided
<1>6. LocksKept(s, y) /\ SuspendsKept(s, y)
  BY <1>1, <1>2 DEF LocksKept, SuspendsKept
<1>7. Moved(s, y, signed)
  BY <1>1, <1>2 DEF Moved, Delivered
<1>8. Spent(s, y, signed)
  <2> SUFFICES ASSUME NEW u \in Users, b[u] < s.balance[u] PROVE u \in signed
    BY <1>2 DEF Spent
  <2>1. b[u] \in Nat /\ x.balance[u] \in Nat /\ s.balance[u] \in Nat
    <3>1. s \in State
      BY <1>1 DEF Good
    <3>2. s.balance \in Balances /\ x.balance \in Balances
      BY <1>1, <3>1, StateFacts
    <3> QED BY <3>2, Distinct DEF Balances
  <2>2. CASE b[u] < x.balance[u]
    BY <2>2
  <2>3. CASE ~(b[u] < x.balance[u])
    <3>1. x.balance[u] < s.balance[u]
      BY <2>1, <2>3
    <3> QED BY <1>1, <3>1 DEF Spent
  <2> QED BY <2>2, <2>3
<1>9. Here(s, y, signed, time)
  BY <1>1, <1>2, <1>3, <1>4, <1>5, <1>6, <1>7, <1>8 DEF Here, Good, Reach
<1> QED BY <1>9 DEF y

(* transfer_fungible from a signer, or from the pool, keeps Here.          *)
LEMMA FungibleStep ==
    ASSUME NEW s, NEW x, NEW signed, NEW time, Here(s, x, signed, time),
           NEW from \in Addresses, NEW to \in Addresses, NEW p,
           p.takes \in Nat, p.bonus \in Nat, p.bonus <= p.takes,
           from # to, from # Bonus, to # Bonus, from # LockAddr, to # LockAddr,
           from \in Users => from \in signed,
           NEW y \in TransferFungible(x, from, to, p)
    PROVE  Here(s, y, signed, time)
<1> DEFINE b == x.balance
           c == Transferred(b, from, to, p)
<1>1. x \in State
  BY DEF Here, Good
<1>2. b \in Balances
  BY <1>1, StateFacts
<1>3. ~(b[from] < p.takes) /\ y = [x EXCEPT !.balance = c]
  BY DEF TransferFungible, Transferred
<1>4. b[from] \in Nat
  BY <1>2 DEF Balances
<1>5. b[from] >= p.takes
  BY <1>3, <1>4
<1>6. /\ c \in Balances /\ c[from] = b[from] - p.takes /\ c[to] >= b[to]
      /\ \A a \in Addresses \ {from, to, Bonus} : c[a] = b[a]
      /\ Total(c) = Total(b)
  <2> HIDE DEF b
  <2> QED BY <1>2, <1>5, TransferredFacts
<1> HIDE DEF c
<1>7. c[LockAddr] = b[LockAddr]
  BY <1>6, Distinct
<1>8. \A u \in Users : c[u] < b[u] => u \in signed
  <2> SUFFICES ASSUME NEW u \in Users, c[u] < b[u], u # from PROVE FALSE
    OBVIOUS
  <2>1. u # Bonus /\ u \in Addresses
    BY Distinct
  <2>2. b[u] \in Nat /\ c[u] \in Nat /\ b[to] \in Nat
    BY <1>2, <1>6, <2>1 DEF Balances
  <2> HIDE DEF b
  <2>3. CASE u = to
    BY <1>6, <2>2, <2>3
  <2>4. CASE u # to
    BY <1>6, <2>1, <2>2, <2>4
  <2> QED BY <2>3, <2>4
<1> QED BY <1>3, <1>6, <1>7, <1>8, BalanceStep

(* transfer keeps Here when the keys allowed it in the state that the      *)
(* transaction began in: the owner then was no lock, or another lock that  *)
(* lists the token is decided.                                             *)
LEMMA TransferStep ==
    ASSUME NEW s, NEW x, NEW signed, NEW time, Here(s, x, signed, time),
           NEW k \in Tokens, NEW to \in (SUBSET Receivers) \ {{}}, Permitted(s, k, signed),
           Keeper[k] = Owner => s.owner[k] \subseteq signed
    PROVE  Here(s, [x EXCEPT !.owner[k] = to], signed, time)
<1> DEFINE o == [x.owner EXCEPT ![k] = to]
           y == [x EXCEPT !.owner[k] = to]
<1>1. /\ Good(s, time) /\ x \in State /\ Conserved(x) /\ Covered(x) /\ Settled(x, time) /\ Held(x)
      /\ LocksKept(s, x) /\ SuspendsKept(s, x) /\ Spent(s, x, signed) /\ Moved(s, x, signed)
      /\ s.freed \subseteq x.freed
      /\ DOMAIN x.locks = DOMAIN s.locks /\ signed \subseteq Users
  BY DEF Here, Good, Reach
<1>2. x.owner \in OwnerMaps
  BY <1>1, StateFacts
<1>3. o \in OwnerMaps /\ o[k] = to /\ \A t \in Tokens \ {k} : o[t] = x.owner[t]
  <2>1. to \in (SUBSET Addresses) \ {{}}
    BY Distinct DEF Receivers
  <2> QED BY <1>2, <2>1 DEF OwnerMaps
<1>4. y = [x EXCEPT !.owner = o]
  BY <1>1 DEF State
<1> HIDE DEF o, y
<1>5. /\ y \in State /\ y.balance = x.balance /\ y.owner = o /\ y.locks = x.locks
      /\ y.suspends = x.suspends /\ y.paid = x.paid /\ y.ran = x.ran /\ y.freed = x.freed
  BY <1>1, <1>3, <1>4 DEF State
<1>6. Conserved(y) /\ Covered(y)
  BY <1>1, <1>5 DEF Conserved, Covered, Funds
<1>7. Settled(y, time)
  BY <1>1, <1>5 DEF Settled
<1>8. \A t : ListedDecided(x, t) => ListedDecided(y, t)
  BY <1>5 DEF ListedDecided
<1>9. Held(y)
  <2> SUFFICES ASSUME NEW l \in DOMAIN x.locks, x.locks[l].status = "proposed",
                      NEW t \in x.locks[l].def.tokens, Keeper[t] = Owner
               PROVE  o[t] = {LockAddr} \/ ListedDecided(y, t)
    BY <1>5 DEF Held
  <2>1. x.owner[t] = {LockAddr} \/ ListedDecided(x, t)
    BY <1>1 DEF Held
  <2>2. t \in Tokens
    <3>1. x.locks[l] \in Lock
      BY <1>1, StateFacts
    <3> QED BY <3>1, LockFacts, DefFacts
  <2>3. CASE t # k
    BY <1>3, <1>8, <2>1, <2>2, <2>3
  <2>4. CASE t = k
    <3>1. s.owner[k] \subseteq Users
      BY <1>1, <2>4
    <3>2. s.owner[k] # {LockAddr}
      BY <3>1, Distinct
    <3>3. l \in DOMAIN s.locks /\ s.locks[l].status = "proposed" /\ s.locks[l].def = x.locks[l].def
      BY <1>1 DEF LocksKept
    <3>4. ListedDecided(s, k)
      BY <1>1, <2>4, <3>2, <3>3 DEF Good, Held
    <3>5. ListedDecided(x, k)
      BY <1>1, <3>4 DEF ListedDecided, LocksKept
    <3> QED BY <1>8, <2>4, <3>5
  <2> QED BY <2>3, <2>4
<1>10. LocksKept(s, y) /\ SuspendsKept(s, y) /\ Spent(s, y, signed)
  BY <1>1, <1>5 DEF LocksKept, SuspendsKept, Spent
<1>11. Moved(s, y, signed)
  <2> SUFFICES ASSUME NEW t \in Tokens, o[t] # s.owner[t]
               PROVE  Permitted(s, t, signed) \/ Delivered(y, t, signed)
    BY <1>5 DEF Moved
  <2>1. CASE t = k
    BY <2>1
  <2>2. CASE t # k
    <3>1. o[t] = x.owner[t]
      BY <1>3, <2>2
    <3> QED BY <1>1, <1>5, <3>1 DEF Moved, Delivered
  <2> QED BY <2>1, <2>2
<1>12. Here(s, y, signed, time)
  BY <1>1, <1>5, <1>6, <1>7, <1>9, <1>10, <1>11 DEF Here, Good, Reach
<1> QED BY <1>12 DEF y

(* A step that changes suspended transactions, but no contents and nothing *)
(* of those that were decided, keeps Here.                                 *)
LEMMA SuspendStep ==
    ASSUME NEW s, NEW x, NEW signed, NEW time, Here(s, x, signed, time),
           NEW m \in SuspendMaps, DOMAIN x.suspends \subseteq DOMAIN m, NEW r \in RanMaps,
           \A p \in DOMAIN x.suspends : m[p].trx = x.suspends[p].trx,
           \A p \in DOMAIN s.suspends : s.suspends[p].status # "proposed" =>
               m[p].status = x.suspends[p].status /\ r[p] = x.ran[p]
    PROVE  Here(s, [x EXCEPT !.suspends = m, !.ran = r], signed, time)
<1> DEFINE y == [x EXCEPT !.suspends = m, !.ran = r]
<1>1. /\ Good(s, time) /\ x \in State /\ Conserved(x) /\ Covered(x) /\ Settled(x, time) /\ Held(x)
      /\ LocksKept(s, x) /\ SuspendsKept(s, x) /\ Spent(s, x, signed) /\ Moved(s, x, signed)
      /\ s.freed \subseteq x.freed
      /\ DOMAIN x.locks = DOMAIN s.locks /\ signed \subseteq Users
  BY DEF Here, Good, Reach
<1>2. /\ y \in State /\ y.balance = x.balance /\ y.owner = x.owner /\ y.locks = x.locks
      /\ y.suspends = m /\ y.paid = x.paid /\ y.ran = r /\ y.freed = x.freed
  BY <1>1 DEF State
<1> HIDE DEF y
<1>3. Conserved(y) /\ Covered(y)
  BY <1>1, <1>2 DEF Conserved, Covered, Funds
<1>4. Settled(y, time)
  BY <1>1, <1>2 DEF Settled
<1>5. Held(y)
  BY <1>1, <1>2 DEF Held, ListedDecided
<1>6. LocksKept(s, y) /\ Spent(s, y, signed)
  BY <1>1, <1>2 DEF LocksKept, Spent
<1>7. SuspendsKept(s, y)
  BY <1>1, <1>2 DEF SuspendsKept
<1>8. Moved(s, y, signed)
  BY <1>1, <1>2 DEF Moved, Delivered
<1>9. Here(s, y, signed, time)
  BY <1>1, <1>2, <1>3, <1>4, <1>5, <1>6, <1>7, <1>8 DEF Here, Good, Reach
<1> QED BY <1>9 DEF y

-----------------------------------------------------------------------------

(* Changing a value of a partial function.                                 *)
LEMMA PartialExcept ==
    ASSUME NEW D, NEW R, NEW f \in PartialMaps(D, R), NEW e \in DOMAIN f, NEW v \in R
    PROVE  LET g == [f EXCEPT ![e] = v]
           IN /\ g \in PartialMaps(D, R) /\ DOMAIN g = DOMAIN f /\ g[e] = v
              /\ \A q \in DOMAIN f \ {e} : g[q] = f[q]
<1>1. PICK A \in SUBSET D : f \in [A -> R]
  BY DEF PartialMaps
<1>2. [f EXCEPT ![e] = v] \in [A -> R]
  BY <1>1
<1> QED BY <1>1, <1>2 DEF PartialMaps

(* Adding a value to a partial function.                                   *)
LEMMA PartialWith ==
    ASSUME NEW D, NEW R, NEW f \in PartialMaps(D, R), NEW e \in D, NEW v \in R
    PROVE  LET g == With(f, e, v)
           IN /\ g \in PartialMaps(D, R) /\ DOMAIN g = DOMAIN f \cup {e} /\ g[e] = v
              /\ \A q \in DOMAIN f \ {e} : g[q] = f[q]
<1>1. PICK A \in SUBSET D : f \in [A -> R]
  BY DEF PartialMaps
<1>2. With(f, e, v) \in [A \cup {e} -> R] /\ A \cup {e} \in SUBSET D
  BY <1>1 DEF With
<1>3. With(f, e, v) \in PartialMaps(D, R)
  BY <1>2 DEF PartialMaps
<1> QED BY <1>3 DEF With

(* An action that changes one suspended transaction that is still proposed *)
(* keeps Here.                                                             *)
LEMMA ProposedStep ==
    ASSUME NEW s, NEW x, NEW signed, NEW time, Here(s, x, signed, time),
           NEW p \in DOMAIN x.suspends, x.suspends[p].status = "proposed",
           NEW v \in Suspend, v.trx = x.suspends[p].trx
    PROVE  Here(s, [x EXCEPT !.suspends[p] = v], signed, time)
<1> DEFINE m == [x.suspends EXCEPT ![p] = v]
           r == x.ran
<1>1. x \in State /\ SuspendsKept(s, x)
  BY DEF Here, Good, Reach
<1>2. x.suspends \in SuspendMaps /\ x.ran \in RanMaps
  BY <1>1, StateFacts
<1>3. m \in SuspendMaps /\ DOMAIN m = DOMAIN x.suspends /\ m[p] = v
      /\ \A q \in DOMAIN x.suspends \ {p} : m[q] = x.suspends[q]
  BY <1>2, PartialExcept DEF SuspendMaps
<1>4. [x EXCEPT !.suspends[p] = v] = [x EXCEPT !.suspends = m, !.ran = r]
  BY <1>1 DEF State
<1> HIDE DEF m
<1>5. \A q \in DOMAIN x.suspends : m[q].trx = x.suspends[q].trx
  BY <1>3
<1>6. \A q \in DOMAIN s.suspends : s.suspends[q].status # "proposed" =>
          m[q].status = x.suspends[q].status /\ r[q] = x.ran[q]
  BY <1>1, <1>3 DEF SuspendsKept
<1>7. r \in RanMaps
  BY <1>2
<1> HIDE DEF r
<1>8. Here(s, [x EXCEPT !.suspends = m, !.ran = r], signed, time)
  BY <1>3, <1>5, <1>6, <1>7, SuspendStep
<1> QED BY <1>4, <1>8

(* cancelsuspend keeps Here.                                               *)
LEMMA CancelStep ==
    ASSUME NEW s, NEW x, NEW signed, NEW time, Here(s, x, signed, time),
           NEW a, a.proposal \in DOMAIN x.suspends, NEW y \in Cancelsuspend(x, a)
    PROVE  Here(s, y, signed, time)
<1> DEFINE p == a.proposal
           v == [x.suspends[p] EXCEPT !.status = "cancelled"]
<1>1. x \in State
  BY DEF Here, Good
<1>2. x.suspends[p].status = "proposed" /\ y = [x EXCEPT !.suspends[p].status = "cancelled"]
  BY DEF Cancelsuspend
<1>3. x.suspends[p] \in Suspend
  BY <1>1, StateFacts
<1>4. v \in Suspend /\ v.trx = x.suspends[p].trx
  BY <1>3 DEF Suspend
<1>5. y = [x EXCEPT !.suspends[p] = v]
  BY <1>2
<1> HIDE DEF v, p
<1> QED BY <1>2, <1>4, <1>5, ProposedStep DEF p

(* aprvsuspend keeps Here.                                                 *)
LEMMA AprvsuspendStep ==
    ASSUME NEW s, NEW x, NEW signed, NEW time, Here(s, x, signed, time),
           NEW a, a.signed \subseteq Users, NEW y \in Aprvsuspend(x, a)
    PROVE  Here(s, y, signed, time)
<1> DEFINE p == a.proposal
           k == x.suspends[p]
           v == [k EXCEPT !.signed = @ \cup a.signed]
<1>1. x \in State
  BY DEF Here, Good
<1>2. p \in DOMAIN x.suspends /\ k.status = "proposed" /\ y = [x EXCEPT !.suspends[p].signed = @ \cup a.signed]
  BY DEF Aprvsuspend
<1>3. k \in Suspend
  BY <1>1, <1>2, StateFacts
<1>4. v \in Suspend /\ v.trx = k.trx
  BY <1>3 DEF Suspend
<1>5. y = [x EXCEPT !.suspends[p] = v]
  BY <1>2
<1> HIDE DEF v, p
<1>6. Here(s, [x EXCEPT !.suspends[p] = v], signed, time)
  BY <1>2, <1>4, ProposedStep
<1> QED BY <1>5, <1>6

(* newsuspend keeps Here.                                                  *)
LEMMA NewsuspendStep ==
    ASSUME NEW s, NEW x, NEW signed, NEW time, Here(s, x, signed, time),
           NEW a, a.proposal \in Proposals, a.proposer \in Users, a.trx \in Trxs,
           NEW y \in Newsuspend(x, a)
    PROVE  Here(s, y, signed, time)
<1> DEFINE p == a.proposal
           v == [proposer |-> a.proposer, trx |-> a.trx, signed |-> {}, status |-> "proposed"]
           m == With(x.suspends, p, v)
           r == x.ran
<1>1. x \in State /\ SuspendsKept(s, x)
  BY DEF Here, Good, Reach
<1>2. p \notin DOMAIN x.suspends /\ y = [x EXCEPT !.suspends = m]
  BY DEF Newsuspend
<1>3. v \in Suspend
  BY DEF Suspend
<1>4. x.suspends \in SuspendMaps /\ r \in RanMaps
  BY <1>1, StateFacts
<1>4a. p \in Proposals
  OBVIOUS
<1> HIDE DEF v, p
<1>5. m \in SuspendMaps /\ DOMAIN m = DOMAIN x.suspends \cup {p}
      /\ \A q \in DOMAIN x.suspends \ {p} : m[q] = x.suspends[q]
  <2>1. m \in SuspendMaps
    BY <1>3, <1>4, <1>4a, PartialWith DEF SuspendMaps
  <2>2. DOMAIN m = DOMAIN x.suspends \cup {p} /\ \A q \in DOMAIN x.suspends \ {p} : m[q] = x.suspends[q]
    BY DEF With
  <2> QED BY <2>1, <2>2
<1>6. y = [x EXCEPT !.suspends = m, !.ran = r]
  <2> HIDE DEF m
  <2> QED BY <1>1, <1>2 DEF State
<1> HIDE DEF m
<1>7. /\ DOMAIN x.suspends \subseteq DOMAIN m
      /\ \A q \in DOMAIN x.suspends : m[q].trx = x.suspends[q].trx
      /\ \A q \in DOMAIN s.suspends : s.suspends[q].status # "proposed" =>
             m[q].status = x.suspends[q].status /\ r[q] = x.ran[q]
  BY <1>1, <1>2, <1>5 DEF SuspendsKept
<1> HIDE DEF r
<1> QED BY <1>4, <1>5, <1>6, <1>7, SuspendStep

(* aprvlock keeps Here: it ends before a lock can be decided, so it never  *)
(* touches the approvals that an outcome was made from.                    *)
LEMMA AprvlockStep ==
    ASSUME NEW s, NEW x, NEW signed, Here(s, x, signed, now), now \in Nat,
           NEW a, a.from \in Users, NEW y \in Aprvlock(x, a)
    PROVE  Here(s, y, signed, now)
<1> DEFINE l == a.lock
           k == x.locks[l]
           v == [k EXCEPT !.signed = @ \cup {a.from}]
           m == [x.locks EXCEPT ![l] = v]
<1>1. /\ Good(s, now) /\ x \in State /\ Conserved(x) /\ Covered(x) /\ Settled(x, now) /\ Held(x)
      /\ LocksKept(s, x) /\ SuspendsKept(s, x) /\ Spent(s, x, signed) /\ Moved(s, x, signed)
      /\ s.freed \subseteq x.freed
      /\ DOMAIN x.locks = DOMAIN s.locks /\ signed \subseteq Users
  BY DEF Here, Good, Reach
<1>2. l \in DOMAIN x.locks /\ ~(k.def.unlock <= now) /\ y = [x EXCEPT !.locks[l].signed = @ \cup {a.from}]
  BY DEF Aprvlock
<1>3. x.locks \in LockMaps /\ k \in Lock
  BY <1>1, <1>2, StateFacts
<1>4. v \in Lock /\ v.def = k.def /\ v.status = k.status
  BY <1>3 DEF Lock
<1>5. y = [x EXCEPT !.locks = m]
  BY <1>1, <1>2 DEF State
<1>6. k.def.unlock \in Nat
  BY <1>3, LockFacts, DefFacts
<1>7. k.status = "proposed"
  <2>1. SettledLock(k, x.paid[l], now)
    BY <1>1, <1>2 DEF Settled
  <2>2. ~(k.def.unlock < now)
    BY <1>2, <1>6
  <2> QED BY <2>1, <2>2 DEF SettledLock
<1> HIDE DEF v
<1>8. m \in LockMaps /\ DOMAIN m = DOMAIN x.locks /\ m[l] = v /\ \A q \in DOMAIN x.locks \ {l} : m[q] = x.locks[q]
  <2> HIDE DEF l, k
  <2> QED BY <1>2, <1>3, <1>4, PartialExcept DEF LockMaps
<1> HIDE DEF m
<1>9. \A q \in DOMAIN x.locks : m[q].def = x.locks[q].def /\ m[q].status = x.locks[q].status
  BY <1>4, <1>8
<1>10. /\ y \in State /\ y.balance = x.balance /\ y.owner = x.owner /\ y.locks = m
       /\ y.suspends = x.suspends /\ y.paid = x.paid /\ y.ran = x.ran /\ y.freed = x.freed
  BY <1>1, <1>5, <1>8 DEF State
<1> HIDE DEF k, l
<1>11. Conserved(y)
  BY <1>1, <1>10 DEF Conserved
<1>12. Covered(y)
  <2>1. Funds(y) = Funds(x)
    BY <1>8, <1>9, <1>10 DEF Funds
  <2> QED BY <1>1, <1>8, <1>10, <2>1 DEF Covered
<1>13. Settled(y, now)
  <2>1. ASSUME NEW q \in DOMAIN x.locks PROVE SettledLock(m[q], x.paid[q], now)
    <3>1. SettledLock(x.locks[q], x.paid[q], now)
      BY <1>1 DEF Settled
    <3>2. CASE q = l
      <4>1. x.paid[l] = 0
        BY <1>7, <3>1, <3>2 DEF SettledLock, k
      <4> QED BY <1>4, <1>7, <1>8, <3>2, <4>1 DEF SettledLock
    <3>3. CASE q # l
      BY <1>8, <3>1, <3>3
    <3> QED BY <3>2, <3>3
  <2> QED BY <1>1, <1>8, <1>10, <2>1 DEF Settled
<1>14. \A t : ListedDecided(y, t) <=> ListedDecided(x, t)
  BY <1>8, <1>9, <1>10 DEF ListedDecided
<1>15. Held(y)
  BY <1>1, <1>8, <1>9, <1>10, <1>14 DEF Held
<1>16. LocksKept(s, y) /\ SuspendsKept(s, y) /\ Spent(s, y, signed)
  BY <1>1, <1>8, <1>9, <1>10 DEF LocksKept, SuspendsKept, Spent
<1>17. Moved(s, y, signed)
  <2>1. \A t : Delivered(x, t, signed) => Delivered(y, t, signed)
    BY <1>8, <1>9, <1>10 DEF Delivered, Target
  <2> QED BY <1>1, <1>10, <2>1 DEF Moved
<1> QED BY <1>1, <1>8, <1>10, <1>11, <1>12, <1>13, <1>15, <1>16, <1>17 DEF Here, Good, Reach

(* The bonus of a payment out of a lock is at most the amount.             *)
LEMMA PaidBonusFacts ==
    ASSUME NEW d \in LockDefs
    PROVE  PaidBonus(d) \in Nat /\ PaidBonus(d) <= Total(d.funds)
<1> DEFINE g == [u \in DOMAIN d.funds |-> PassiveBonus(d.funds[u], FALSE).bonus]
           U == DOMAIN d.funds
<1>1. IsFiniteSet(U) /\ \A u \in U : d.funds[u] \in Nat
  BY DefFacts
<1>2. \A u \in U : g[u] \in Nat /\ g[u] <= d.funds[u]
  BY <1>1, PassiveBonusFacts
<1>3. DOMAIN g = U
  OBVIOUS
<1>4. PaidBonus(d) = SumFunctionOnSet(g, U)
  BY <1>3 DEF PaidBonus, Total, SumFunction
<1>5. Total(d.funds) = SumFunctionOnSet(d.funds, U)
  BY DEF Total, SumFunction
<1> HIDE DEF g, U
<1>6. SumFunctionOnSet(g, U) \in Nat
  BY <1>1, <1>2, SumNat
<1>7. SumFunctionOnSet(g, U) <= SumFunctionOnSet(d.funds, U)
  BY <1>1, <1>2, SumLeq
<1> QED BY <1>4, <1>5, <1>6, <1>7

(* A payment out of a lock takes its amount from the lock address and from *)
(* no user.                                                                *)
LEMMA PayOutFacts ==
    ASSUME NEW x \in State, NEW d \in LockDefs, Lawful(d), NEW to \in {d.succeed, d.failed},
           NEW t \in PayOut(x, d, to)
    PROVE  /\ t \in State /\ t.owner = x.owner /\ t.locks = x.locks /\ t.suspends = x.suspends
           /\ t.paid = x.paid /\ t.ran = x.ran /\ t.freed = x.freed
           /\ Total(t.balance) = Total(x.balance)
           /\ t.balance[LockAddr] = x.balance[LockAddr] - Total(d.funds)
           /\ \A u \in Users : t.balance[u] >= x.balance[u]
<1> DEFINE T == Total(d.funds)
           b == x.balance
<1>0. b \in Balances /\ T \in Nat
  BY StateFacts, DefFacts
<1>1. b[LockAddr] \in Nat /\ \A u \in Users : b[u] \in Nat
  BY <1>0, Distinct DEF Balances
<1>2. CASE DOMAIN d.funds = {}
  <2>1. t = x
    BY <1>2 DEF PayOut
  <2>2. T = 0
    BY <1>2, SumEmpty DEF Total, SumFunction
  <2> QED BY <1>1, <2>1, <2>2
<1>3. CASE DOMAIN d.funds # {}
  <2> DEFINE r == CHOOSE u \in to : TRUE
             p == [takes |-> T, bonus |-> PaidBonus(d)]
             c == Transferred(b, LockAddr, r, p)
  <2>1. r \in Receivers
    <3>1. to # {} /\ to \subseteq Receivers
      BY DEF Lawful
    <3> QED BY <3>1
  <2>2. t \in TransferFungible(x, LockAddr, r, p)
    BY <1>3 DEF PayOut
  <2>3. p.takes = T /\ p.bonus = PaidBonus(d)
    OBVIOUS
  <2>4. p.takes \in Nat /\ p.bonus \in Nat /\ p.bonus <= p.takes
    BY <1>0, <2>3, PaidBonusFacts
  <2> HIDE DEF r, p
  <2>5. ~(b[LockAddr] < p.takes) /\ t = [x EXCEPT !.balance = c]
    BY <2>2 DEF TransferFungible, Transferred
  <2>6. b[LockAddr] >= p.takes
    BY <1>1, <2>4, <2>5
  <2>7. /\ r \in Addresses /\ LockAddr \in Addresses /\ LockAddr # r /\ LockAddr # Bonus /\ r # Bonus
    BY <2>1, Distinct DEF Receivers
  <2>8. /\ c \in Balances /\ c[LockAddr] = b[LockAddr] - p.takes /\ c[r] >= b[r]
        /\ \A e \in Addresses \ {LockAddr, r, Bonus} : c[e] = b[e]
        /\ Total(c) = Total(b)
    <3> HIDE DEF b
    <3> QED BY <1>0, <2>4, <2>6, <2>7, TransferredFacts
  <2> HIDE DEF c
  <2>9. /\ t \in State /\ t.owner = x.owner /\ t.locks = x.locks /\ t.suspends = x.suspends
        /\ t.paid = x.paid /\ t.balance = c /\ t.ran = x.ran /\ t.freed = x.freed
    BY <2>5, <2>8 DEF State
  <2>10. ASSUME NEW u \in Users PROVE c[u] >= b[u]
    <3>1. CASE u = r
      BY <2>8, <3>1
    <3>2. CASE u # r
      <4>1. c[u] = b[u]
        BY <2>8, <3>2, Distinct
      <4> QED BY <1>1, <4>1
    <3> QED BY <3>1, <3>2
  <2> QED BY <2>3, <2>8, <2>9, <2>10
<1> QED BY <1>2, <1>3

-----------------------------------------------------------------------------

(* The state that tryunlock leaves, field by field.                        *)
LEMMA TryunlockFields ==
    ASSUME NEW x \in State, NEW a, NEW y \in Tryunlock(x, a)
    PROVE  LET l == a.lock
               k == x.locks[l]
               st == IF Enough(k) THEN "succeed" ELSE "failed"
               to == IF Enough(k) THEN k.def.succeed ELSE k.def.failed
               m == [x.locks EXCEPT ![l] = [k EXCEPT !.status = st]]
               T == Total(k.def.funds)
           IN /\ l \in DOMAIN x.locks /\ ~(k.def.unlock >= now)
              /\ y \in State /\ y.suspends = x.suspends /\ y.locks = m
              /\ y.owner = [t \in Tokens |-> IF t \in k.def.tokens THEN to ELSE x.owner[t]]
              /\ y.paid = [x.paid EXCEPT ![l] = @ + T]
              /\ y.ran = x.ran /\ y.freed = x.freed \cup k.def.tokens
              /\ Total(y.balance) = Total(x.balance)
              /\ y.balance[LockAddr] = x.balance[LockAddr] - T
              /\ \A u \in Users : y.balance[u] >= x.balance[u]
<1> DEFINE l == a.lock
           k == x.locks[l]
           st == IF Enough(k) THEN "succeed" ELSE "failed"
           to == IF Enough(k) THEN k.def.succeed ELSE k.def.failed
           v == [k EXCEPT !.status = st]
           m == [x.locks EXCEPT ![l] = v]
           T == Total(k.def.funds)
           o == [t \in Tokens |-> IF t \in k.def.tokens THEN to ELSE x.owner[t]]
           pd == [x.paid EXCEPT ![l] = @ + T]
           fr == x.freed \cup k.def.tokens
<1>1. l \in DOMAIN x.locks /\ ~(k.def.unlock >= now)
  BY DEF Tryunlock
<1>2. PICK t \in PayOut(x, k.def, to) :
         y = [t EXCEPT !.owner = [e \in Tokens |-> IF e \in k.def.tokens THEN to ELSE @[e]],
                       !.locks[l].status = st, !.paid[l] = @ + T, !.freed = @ \cup k.def.tokens]
  BY DEF Tryunlock, Enough
<1>3. k \in Lock /\ x.locks \in LockMaps /\ x.owner \in OwnerMaps /\ x.paid \in PaidMaps /\ l \in Locks
  BY <1>1, StateFacts
<1>4. k.def \in LockDefs /\ Lawful(k.def) /\ T \in Nat
  BY <1>3, LockFacts, DefFacts
<1>5. to \in {k.def.succeed, k.def.failed} /\ to \in (SUBSET Addresses) \ {{}}
  BY <1>4, DefFacts, Distinct DEF Lawful, Receivers
<1>6. /\ t \in State /\ t.owner = x.owner /\ t.locks = x.locks /\ t.suspends = x.suspends
      /\ t.paid = x.paid /\ t.ran = x.ran /\ t.freed = x.freed /\ Total(t.balance) = Total(x.balance)
      /\ t.balance[LockAddr] = x.balance[LockAddr] - T
      /\ \A u \in Users : t.balance[u] >= x.balance[u]
  <2> HIDE DEF to, k
  <2> QED BY <1>2, <1>4, <1>5, PayOutFacts
<1>7. v \in Lock
  BY <1>3 DEF Lock
<1>8. m \in LockMaps
  <2> HIDE DEF v, k, l
  <2> QED BY <1>1, <1>3, <1>7, PartialExcept DEF LockMaps
<1>9. o \in OwnerMaps
  <2> HIDE DEF to, k
  <2> QED BY <1>3, <1>5 DEF OwnerMaps
<1>10. pd \in PaidMaps
  <2> HIDE DEF T, l
  <2> QED BY <1>3, <1>4 DEF PaidMaps
<1>10a. fr \in SUBSET Tokens
  BY <1>4, DefFacts, StateFacts
<1>11. y = [t EXCEPT !.owner = o, !.locks = m, !.paid = pd, !.freed = fr]
  <2>1. y = [t EXCEPT !.owner = o, !.locks[l].status = st, !.paid[l] = @ + T, !.freed = fr]
    <3>1. [e \in Tokens |-> IF e \in k.def.tokens THEN to ELSE (t.owner)[e]] = o
      BY <1>6
    <3> HIDE DEF to, T, st, k, l
    <3> QED BY <1>2, <1>6, <3>1
  <2> HIDE DEF o, to, T, st, fr
  <2> QED BY <1>6, <2>1
<1> HIDE DEF o, m, pd, fr
<1>12. /\ y \in State /\ y.suspends = t.suspends /\ y.owner = o /\ y.locks = m /\ y.paid = pd
       /\ y.balance = t.balance /\ y.ran = t.ran /\ y.freed = fr
  BY <1>6, <1>8, <1>9, <1>10, <1>10a, <1>11 DEF State
<1> QED BY <1>1, <1>6, <1>12 DEF o, m, pd, fr

(* tryunlock keeps Here, also when it pays out a lock again.               *)
LEMMA TryunlockStep ==
    ASSUME NEW s, NEW x, NEW signed, Here(s, x, signed, now), now \in Nat,
           NEW a, NEW y \in Tryunlock(x, a)
    PROVE  Here(s, y, signed, now)
<1> DEFINE l == a.lock
           k == x.locks[l]
           st == IF Enough(k) THEN "succeed" ELSE "failed"
           to == IF Enough(k) THEN k.def.succeed ELSE k.def.failed
           v == [k EXCEPT !.status = st]
           m == [x.locks EXCEPT ![l] = v]
           T == Total(k.def.funds)
<1>1. /\ Good(s, now) /\ x \in State /\ Conserved(x) /\ Covered(x) /\ Settled(x, now) /\ Held(x)
      /\ LocksKept(s, x) /\ SuspendsKept(s, x) /\ Spent(s, x, signed) /\ Moved(s, x, signed)
      /\ s.freed \subseteq x.freed
      /\ DOMAIN x.locks = DOMAIN s.locks /\ signed \subseteq Users
  BY DEF Here, Good, Reach
<1>2. /\ l \in DOMAIN x.locks /\ ~(k.def.unlock >= now)
      /\ y \in State /\ y.suspends = x.suspends /\ y.locks = m
      /\ y.owner = [t \in Tokens |-> IF t \in k.def.tokens THEN to ELSE x.owner[t]]
      /\ y.paid = [x.paid EXCEPT ![l] = @ + T]
      /\ y.ran = x.ran /\ y.freed = x.freed \cup k.def.tokens
      /\ Total(y.balance) = Total(x.balance)
      /\ y.balance[LockAddr] = x.balance[LockAddr] - T
      /\ \A u \in Users : y.balance[u] >= x.balance[u]
  BY <1>1, TryunlockFields
<1>3. k \in Lock /\ x.locks \in LockMaps /\ x.paid \in PaidMaps /\ l \in Locks /\ DOMAIN x.locks \subseteq Locks
  BY <1>1, <1>2, StateFacts
<1>4. k.def \in LockDefs /\ T \in Nat /\ k.def.unlock \in Nat
  BY <1>3, LockFacts, DefFacts
<1>5. v \in Lock /\ v.def = k.def /\ v.signed = k.signed /\ v.status = st /\ st # "proposed"
  BY <1>3 DEF Lock
<1>6. SettledLock(k, x.paid[l], now) /\ x.paid[l] \in Nat
  BY <1>1, <1>2, <1>3 DEF Settled, PaidMaps
<1>7. k.status # "proposed" => k.status = st
  BY <1>6 DEF SettledLock
<1> HIDE DEF v
<1>8. DOMAIN m = DOMAIN x.locks /\ m[l] = v /\ \A q \in DOMAIN x.locks \ {l} : m[q] = x.locks[q]
  <2> HIDE DEF l, k
  <2> QED BY <1>2, <1>3, <1>5, PartialExcept DEF LockMaps
<1>9. y.paid[l] = x.paid[l] + T /\ \A q \in Locks \ {l} : y.paid[q] = x.paid[q]
  <2> HIDE DEF T, l
  <2> QED BY <1>2, <1>3 DEF PaidMaps
<1> HIDE DEF m, st
<1>10. \A q \in DOMAIN x.locks : /\ m[q].def = x.locks[q].def
                                 /\ x.locks[q].status # "proposed" => m[q].status = x.locks[q].status
  BY <1>5, <1>7, <1>8
<1>11. m[l].def = k.def /\ m[l].status # "proposed"
  BY <1>5, <1>8
<1>12. Conserved(y)
  BY <1>1, <1>2 DEF Conserved
<1>13. Covered(y)
  <2> DEFINE D == DOMAIN x.locks
  <2>1. Funds(y) = Funds(x)
    BY <1>2, <1>8, <1>10 DEF Funds
  <2>2. IsFiniteSet(D)
    BY <1>3, ContractsAssumption, FS_Subset
  <2>3. DifferAt(x.paid, y.paid, D, l)
    <3>1. \A q \in D : x.paid[q] \in Nat
      BY <1>3 DEF PaidMaps
    <3> HIDE DEF T, l
    <3> QED BY <1>3, <1>4, <1>6, <1>9, <3>1 DEF DifferAt
  <2>4. SumFunctionOnSet(y.paid, D) = SumFunctionOnSet(x.paid, D) - x.paid[l] + y.paid[l]
    <3>1. l \in D
      BY <1>2
    <3> HIDE DEF D, l
    <3> QED BY <2>2, <2>3, <3>1, SumChanged
  <2>5. SumFunctionOnSet(x.paid, D) \in Int
    BY <1>3, <2>2, SumInt DEF PaidMaps
  <2>6. x.balance[LockAddr] \in Nat
    <3>1. x.balance \in Balances
      BY <1>1, StateFacts
    <3> QED BY <3>1, Distinct DEF Balances
  <2>7. x.balance[LockAddr] + SumFunctionOnSet(x.paid, D) = Total(Funds(x))
    BY <1>1 DEF Covered
  <2> HIDE DEF T, l
  <2>8. y.balance[LockAddr] + SumFunctionOnSet(y.paid, D) = x.balance[LockAddr] + SumFunctionOnSet(x.paid, D)
    <3>1. y.balance[LockAddr] = x.balance[LockAddr] - T
      BY <1>2
    <3> QED BY <1>4, <1>6, <1>9, <2>4, <2>5, <2>6, <3>1
  <2> QED BY <1>2, <1>8, <2>1, <2>7, <2>8 DEF Covered
<1>14. Settled(y, now)
  <2>1. ASSUME NEW q \in DOMAIN x.locks PROVE SettledLock(m[q], y.paid[q], now)
    <3>1. CASE q = l
      <4>1. k.def.unlock < now
        BY <1>2, <1>4
      <4>2. y.paid[l] >= T
        <5> HIDE DEF T, l
        <5> QED BY <1>4, <1>6, <1>9
      <4>3. v.status = IF Enough(v) THEN "succeed" ELSE "failed"
        BY <1>5 DEF Enough, st
      <4> QED BY <1>5, <1>8, <1>11, <3>1, <4>1, <4>2, <4>3 DEF SettledLock
    <3>2. CASE q # l
      BY <1>1, <1>3, <1>8, <1>9, <3>2 DEF Settled
    <3> QED BY <3>1, <3>2
  <2>2. \A q \in Locks \ DOMAIN x.locks : y.paid[q] = 0
    BY <1>1, <1>2, <1>9 DEF Settled
  <2> QED BY <1>2, <1>8, <2>1, <2>2 DEF Settled
<1>15. \A t : ListedDecided(x, t) => ListedDecided(y, t)
  BY <1>2, <1>8, <1>10 DEF ListedDecided
<1>16. \A t \in k.def.tokens : ListedDecided(y, t)
  BY <1>2, <1>8, <1>11 DEF ListedDecided
<1>17. \A t \in Tokens : t \notin k.def.tokens => y.owner[t] = x.owner[t]
  BY <1>2
<1>18. Held(y)
  <2> SUFFICES ASSUME NEW q \in DOMAIN x.locks, m[q].status = "proposed", NEW t \in m[q].def.tokens
               PROVE  y.owner[t] = {LockAddr} \/ Keeper[t] # Owner \/ ListedDecided(y, t)
    BY <1>2, <1>8 DEF Held
  <2>1. q # l
    BY <1>11
  <2>2. m[q] = x.locks[q]
    BY <1>8, <2>1
  <2>3. x.owner[t] = {LockAddr} \/ Keeper[t] # Owner \/ ListedDecided(x, t)
    BY <1>1, <2>2 DEF Held
  <2>4. t \in Tokens
    <3>1. x.locks[q] \in Lock
      BY <1>1, StateFacts
    <3> QED BY <2>2, <3>1, LockFacts, DefFacts
  <2> QED BY <1>15, <1>16, <1>17, <2>3, <2>4
<1>19. LocksKept(s, y)
  BY <1>1, <1>2, <1>8, <1>10 DEF LocksKept
<1>20. SuspendsKept(s, y)
  BY <1>1, <1>2 DEF SuspendsKept
<1>21. Spent(s, y, signed)
  <2> SUFFICES ASSUME NEW u \in Users, y.balance[u] < s.balance[u] PROVE u \in signed
    BY DEF Spent
  <2>1. y.balance[u] \in Nat /\ x.balance[u] \in Nat /\ s.balance[u] \in Nat
    <3>1. s \in State
      BY <1>1 DEF Good
    <3>2. s.balance \in Balances /\ x.balance \in Balances /\ y.balance \in Balances
      BY <1>1, <1>2, <3>1, StateFacts
    <3> QED BY <3>2, Distinct DEF Balances
  <2>2. y.balance[u] >= x.balance[u]
    BY <1>2
  <2>3. x.balance[u] < s.balance[u]
    BY <2>1, <2>2
  <2> QED BY <1>1, <2>3 DEF Spent
<1>22. Moved(s, y, signed)
  <2> SUFFICES ASSUME NEW t \in Tokens, y.owner[t] # s.owner[t]
               PROVE  Permitted(s, t, signed) \/ Delivered(y, t, signed)
    BY DEF Moved
  <2>1. CASE t \in k.def.tokens
    <3>1. y.owner[t] = to /\ t \in y.freed
      BY <1>2, <2>1
    <3>2. Target(m[l]) = to
      <4>1. m[l].status = "succeed" <=> Enough(k)
        BY <1>5, <1>8 DEF st
      <4> QED BY <1>11, <4>1 DEF Target
    <3> QED BY <1>2, <1>8, <1>11, <2>1, <3>1, <3>2 DEF Delivered
  <2>2. CASE t \notin k.def.tokens
    <3>1. y.owner[t] = x.owner[t]
      BY <1>17, <2>2
    <3>2. Permitted(s, t, signed) \/ Delivered(x, t, signed)
      BY <1>1, <3>1 DEF Moved
    <3>3. ASSUME Delivered(x, t, signed) PROVE Delivered(y, t, signed)
      <4>1. t \in y.freed
        BY <1>2, <3>3 DEF Delivered
      <4>2. PICK q \in DOMAIN x.locks :
               /\ t \in x.locks[q].def.tokens /\ x.locks[q].status # "proposed"
               /\ x.owner[t] = Target(x.locks[q]) \/ Target(x.locks[q]) \subseteq signed
        BY <3>3 DEF Delivered
      <4>3. q \in DOMAIN m /\ m[q].def = x.locks[q].def /\ m[q].status = x.locks[q].status
        BY <1>8, <1>10, <4>2
      <4>4. Target(m[q]) = Target(x.locks[q])
        BY <4>3 DEF Target
      <4> QED BY <1>2, <3>1, <4>1, <4>2, <4>3, <4>4 DEF Delivered
    <3> QED BY <3>2, <3>3
  <2> QED BY <2>1, <2>2
<1>23. s.freed \subseteq y.freed
  BY <1>1, <1>2
<1> QED BY <1>1, <1>2, <1>8, <1>12, <1>13, <1>14, <1>18, <1>19, <1>20, <1>21, <1>22, <1>23 DEF Here, Good, Reach

-----------------------------------------------------------------------------

(* Balances after newlock.                                                 *)
Locked(b, d) == [u \in Addresses |->
                    IF u \in DOMAIN d.funds THEN b[u] - d.funds[u]
                    ELSE IF u = LockAddr THEN b[u] + Total(d.funds) ELSE b[u]]

(* newlock moves the amounts to the lock address and keeps the sum of the  *)
(* balances.                                                               *)
LEMMA LockedFacts ==
    ASSUME NEW b \in Balances, NEW d \in LockDefs, \A u \in DOMAIN d.funds : ~(b[u] < d.funds[u])
    PROVE  LET c == Locked(b, d)
           IN /\ c \in Balances /\ c[LockAddr] = b[LockAddr] + Total(d.funds)
              /\ \A u \in Users : c[u] < b[u] => u \in DOMAIN d.funds
              /\ Total(c) = Total(b)
<1> DEFINE c == Locked(b, d)
           D == DOMAIN d.funds
           T == Total(d.funds)
           g == [u \in Addresses |-> IF u \in D THEN - d.funds[u] ELSE IF u = LockAddr THEN T ELSE 0]
<1>1. /\ D \subseteq Users /\ IsFiniteSet(D) /\ (\A u \in D : d.funds[u] \in Nat) /\ T \in Nat
  BY DefFacts
<1>2. /\ IsFiniteSet(Addresses) /\ Users \subseteq Addresses /\ LockAddr \in Addresses /\ LockAddr \notin Users
  BY Distinct
<1>3. \A u \in Addresses : b[u] \in Nat
  BY DEF Balances
<1> HIDE DEF T
<1>4. ASSUME NEW u \in Addresses
      PROVE  c[u] \in Nat /\ g[u] \in Int /\ c[u] = b[u] + g[u]
  <2>1. c[u] = IF u \in D THEN b[u] - d.funds[u] ELSE IF u = LockAddr THEN b[u] + T ELSE b[u]
    BY DEF Locked, T
  <2>2. g[u] = IF u \in D THEN - d.funds[u] ELSE IF u = LockAddr THEN T ELSE 0
    OBVIOUS
  <2>3. b[u] \in Nat
    BY <1>3
  <2> HIDE DEF c, g
  <2>4. CASE u \in D
    <3>1. d.funds[u] \in Nat /\ ~(b[u] < d.funds[u])
      BY <1>1, <2>4
    <3> QED BY <2>1, <2>2, <2>3, <2>4, <3>1
  <2>5. CASE u \notin D
    BY <1>1, <2>1, <2>2, <2>3, <2>5
  <2> QED BY <2>4, <2>5
<1>5. c \in Balances
  <2>1. c = [u \in Addresses |-> c[u]]
    BY DEF Locked
  <2> HIDE DEF c, g
  <2> QED BY <1>4, <2>1 DEF Balances
<1>6. c[LockAddr] = b[LockAddr] + T
  BY <1>1, <1>2 DEF Locked, T
<1>7. \A u \in Users : c[u] < b[u] => u \in D
  <2> SUFFICES ASSUME NEW u \in Users, u \notin D PROVE ~(c[u] < b[u])
    OBVIOUS
  <2>1. c[u] = b[u] /\ b[u] \in Nat
    BY <1>2, <1>3 DEF Locked
  <2> QED BY <2>1
<1> DEFINE Sum(f, S) == SumFunctionOnSet(f, S)
<1>8. Sum(c, Addresses) = Sum(b, Addresses) + Sum(g, Addresses)
  <2> HIDE DEF c, g
  <2> QED BY <1>2, <1>3, <1>4, SumPlus
<1>9. Sum(g, Addresses) = Sum(g, D) + Sum(g, Addresses \ D)
  <2>1. \A u \in Addresses : g[u] \in Int
    BY <1>4
  <2> HIDE DEF g
  <2> QED BY <1>1, <1>2, <2>1, SumSplit
<1>10. Sum(g, D) = (-1) * T
  <2>1. \A u \in D : d.funds[u] \in Int /\ g[u] = (-1) * d.funds[u]
    BY <1>1, <1>2
  <2>2. T = Sum(d.funds, D)
    BY DEF T, Total, SumFunction
  <2> HIDE DEF g, D
  <2>3. Sum(g, D) = (-1) * Sum(d.funds, D)
    <3> DEFINE n == -1
    <3>1. n \in Int /\ \A u \in D : d.funds[u] \in Int /\ g[u] = n * d.funds[u]
      BY <2>1
    <3> HIDE DEF n
    <3>2. Sum(g, D) = n * Sum(d.funds, D)
      BY <1>1, <3>1, SumTimes
    <3> QED BY <3>2 DEF n
  <2> QED BY <2>2, <2>3
<1>11. Sum(g, Addresses \ D) = T
  <2> DEFINE R == Addresses \ D
             Q == R \ {LockAddr}
  <2>1. LockAddr \in R /\ IsFiniteSet(R) /\ IsFiniteSet(Q) /\ g[LockAddr] = T
    <3>1. LockAddr \in R /\ g[LockAddr] = T
      BY <1>1, <1>2
    <3>2. IsFiniteSet(R) /\ IsFiniteSet(Q)
      BY <1>2, FS_Subset
    <3> QED BY <3>1, <3>2
  <2>2. Sum(g, R) = g[LockAddr] + Sum(g, Q)
    <3>1. \A u \in R : g[u] \in Int
      BY <1>4
    <3> HIDE DEF R, g
    <3> QED BY <2>1, <3>1, SumTakeOne
  <2>3. Sum(g, Q) = 0
    <3>1. \A u \in Q : g[u] = 0
      OBVIOUS
    <3>2. \A u \in Q : b[u] \in Int /\ g[u] = 0 * b[u]
      BY <1>3, <3>1
    <3>3. Sum(b, Q) \in Int
      BY <2>1, <3>2, SumInt
    <3> HIDE DEF Q, g
    <3>4. Sum(g, Q) = 0 * Sum(b, Q)
      <4>1. 0 \in Int
        OBVIOUS
      <4> QED BY <2>1, <3>2, <4>1, SumTimes
    <3> QED BY <3>3, <3>4
  <2> HIDE DEF g, R, Q
  <2> QED BY <1>1, <2>1, <2>2, <2>3 DEF R
<1>12. Sum(b, Addresses) \in Int
  BY <1>2, <1>3, SumInt
<1>13. Sum(c, Addresses) = Sum(b, Addresses)
  <2> HIDE DEF c, g, Sum
  <2> QED BY <1>1, <1>8, <1>9, <1>10, <1>11, <1>12
<1>14. DOMAIN b = Addresses /\ DOMAIN c = Addresses
  BY <1>5 DEF Balances
<1>15. Total(c) = Total(b)
  BY <1>13, <1>14 DEF Total, SumFunction
<1> QED BY <1>5, <1>6, <1>7, <1>15 DEF c, T

(* The state that newlock leaves, field by field.                          *)
LEMMA NewlockFields ==
    ASSUME NEW s \in State, NEW signed, NEW a, a.def \in LockDefs, a.lock \in Locks,
           NEW y \in Newlock(s, signed, a)
    PROVE  LET d == a.def
               new == [def |-> d, signed |-> {}, status |-> "proposed"]
           IN /\ a.lock \notin DOMAIN s.locks /\ new \in Lock
              /\ \A t \in d.tokens : Satisfied(s, signed, [name |-> "transfer", token |-> t])
              /\ DOMAIN d.funds \subseteq signed
              /\ \A u \in DOMAIN d.funds : ~(s.balance[u] < d.funds[u])
              /\ y \in State /\ y.suspends = s.suspends /\ y.paid = s.paid /\ y.ran = s.ran /\ y.freed = s.freed
              /\ y.owner = [t \in Tokens |-> IF t \in d.tokens THEN {LockAddr} ELSE s.owner[t]]
              /\ y.balance = Locked(s.balance, d)
              /\ y.locks = With(s.locks, a.lock, new)
<1> DEFINE d == a.def
           new == [def |-> d, signed |-> {}, status |-> "proposed"]
           o == [t \in Tokens |-> IF t \in d.tokens THEN {LockAddr} ELSE s.owner[t]]
           b == Locked(s.balance, d)
           m == With(s.locks, a.lock, new)
<1>1. /\ a.lock \notin DOMAIN s.locks /\ ValidLock(d)
      /\ \A t \in d.tokens : Satisfied(s, signed, [name |-> "transfer", token |-> t])
      /\ DOMAIN d.funds \subseteq signed
      /\ \A u \in DOMAIN d.funds : ~(s.balance[u] < d.funds[u])
  BY DEF Newlock
<1>2. y = [s EXCEPT
                !.owner = [t \in Tokens |-> IF t \in d.tokens THEN {LockAddr} ELSE @[t]],
                !.balance = [u \in Addresses |->
                    IF u \in DOMAIN d.funds THEN @[u] - d.funds[u]
                    ELSE IF u = LockAddr THEN @[u] + Total(d.funds) ELSE @[u]],
                !.locks = With(@, a.lock, [def |-> d, signed |-> {}, status |-> "proposed"])]
  BY <1>1 DEF Newlock
<1>3. y = [s EXCEPT !.owner = o, !.balance = b, !.locks = m]
  BY <1>2 DEF Locked
<1>4. /\ s.balance \in Balances /\ s.owner \in OwnerMaps /\ s.locks \in LockMaps
  BY StateFacts
<1>5. new \in Lock
  BY <1>1 DEF ValidLock, Lock, Lawful
<1>6. o \in OwnerMaps
  BY <1>4, Distinct DEF OwnerMaps
<1>7. b \in Balances
  <2> HIDE DEF d
  <2> QED BY <1>1, <1>4, LockedFacts DEF d
<1>8. m \in LockMaps
  <2> HIDE DEF new
  <2> QED BY <1>4, <1>5, PartialWith DEF LockMaps
<1> HIDE DEF o, b, m
<1>9. /\ y \in State /\ y.suspends = s.suspends /\ y.paid = s.paid /\ y.ran = s.ran /\ y.freed = s.freed
      /\ y.owner = o /\ y.balance = b /\ y.locks = m
  BY <1>3, <1>6, <1>7, <1>8 DEF State
<1> QED BY <1>1, <1>5, <1>9 DEF o, b, m

(* newlock in a transaction of its own takes only from signers.            *)
LEMMA NewlockStep ==
    ASSUME NEW s, NEW signed, signed \subseteq Users, NEW time, Good(s, time),
           NEW a, a.def \in LockDefs, a.lock \in Locks, NEW y \in Newlock(s, signed, a)
    PROVE  Good(y, time) /\ Reach(s, y, signed)
<1> DEFINE d == a.def
           l == a.lock
           new == [def |-> d, signed |-> {}, status |-> "proposed"]
           D == DOMAIN s.locks
           T == Total(d.funds)
<1>1. s \in State /\ Conserved(s) /\ Covered(s) /\ Settled(s, time) /\ Held(s)
  BY DEF Good
<1>2. /\ l \notin D /\ new \in Lock
      /\ \A t \in d.tokens : Satisfied(s, signed, [name |-> "transfer", token |-> t])
      /\ DOMAIN d.funds \subseteq signed
      /\ \A u \in DOMAIN d.funds : ~(s.balance[u] < d.funds[u])
      /\ y \in State /\ y.suspends = s.suspends /\ y.paid = s.paid /\ y.ran = s.ran /\ y.freed = s.freed
      /\ y.owner = [t \in Tokens |-> IF t \in d.tokens THEN {LockAddr} ELSE s.owner[t]]
      /\ y.balance = Locked(s.balance, d)
      /\ y.locks = With(s.locks, l, new)
  BY <1>1, NewlockFields
<1>3. s.balance \in Balances /\ s.locks \in LockMaps /\ D \subseteq Locks /\ s.paid \in PaidMaps
  BY <1>1, StateFacts
<1>4. new.def = d /\ new.status = "proposed"
  OBVIOUS
<1>5. /\ y.balance[LockAddr] = s.balance[LockAddr] + T
      /\ \A u \in Users : y.balance[u] < s.balance[u] => u \in DOMAIN d.funds
      /\ Total(y.balance) = Total(s.balance)
  BY <1>2, <1>3, LockedFacts
<1> HIDE DEF new
<1>6. DOMAIN y.locks = D \cup {l} /\ y.locks[l] = new /\ \A q \in D : y.locks[q] = s.locks[q]
  <2>1. /\ DOMAIN With(s.locks, l, new) = D \cup {l} /\ With(s.locks, l, new)[l] = new
        /\ \A q \in D \ {l} : With(s.locks, l, new)[q] = s.locks[q]
    <3> HIDE DEF l
    <3> QED BY DEF With
  <2> QED BY <1>2, <2>1
<1>7. T \in Nat
  BY DefFacts
<1> HIDE DEF l, D, T
<1>8. Conserved(y)
  BY <1>1, <1>5 DEF Conserved
<1>9. IsFiniteSet(D) /\ IsFiniteSet(D \cup {l}) /\ D = (D \cup {l}) \ {l} /\ s.paid[l] = 0 /\ l \in Locks
  <2>1. IsFiniteSet(D)
    BY <1>3, ContractsAssumption, FS_Subset
  <2>2. IsFiniteSet(D \cup {l})
    BY <2>1, FS_AddElement
  <2>3. l \in Locks
    BY DEF l
  <2>4. s.paid[l] = 0
    BY <1>1, <1>2, <2>3 DEF Settled, D
  <2> QED BY <1>2, <2>1, <2>2, <2>3, <2>4
<1>10. SumFunctionOnSet(s.paid, D \cup {l}) = SumFunctionOnSet(s.paid, D)
  <2>1. \A q \in D \cup {l} : s.paid[q] \in Int
    BY <1>3, <1>9 DEF PaidMaps
  <2> DEFINE E == D \cup {l}
  <2>2. l \in E /\ IsFiniteSet(E) /\ E \ {l} = D
    BY <1>9
  <2>3. SumFunctionOnSet(s.paid, D) \in Int
    BY <1>9, <2>1, SumInt
  <2> HIDE DEF E
  <2>4. SumFunctionOnSet(s.paid, E) = s.paid[l] + SumFunctionOnSet(s.paid, E \ {l})
    BY <2>1, <2>2, SumTakeOne DEF E
  <2> QED BY <1>9, <2>2, <2>3, <2>4 DEF E
<1>11. Total(Funds(y)) = Total(Funds(s)) + T
  <2> DEFINE E == D \cup {l}
             f == Funds(y)
             g == Funds(s)
  <2>1. DOMAIN f = E /\ DOMAIN g = D /\ f[l] = T /\ \A q \in D : f[q] = g[q]
    BY <1>4, <1>6 DEF Funds, D, T
  <2>2. \A q \in D : g[q] \in Int
    <3> SUFFICES ASSUME NEW q \in D PROVE g[q] \in Int
      OBVIOUS
    <3>1. s.locks[q] \in Lock
      BY <1>1, StateFacts DEF D
    <3>2. Total(s.locks[q].def.funds) \in Nat
      BY <3>1, LockFacts, DefFacts
    <3> QED BY <3>2 DEF Funds, D
  <2>3. l \in E /\ IsFiniteSet(E) /\ E \ {l} = D /\ IsFiniteSet(D)
    BY <1>9
  <2>4. \A q \in E : f[q] \in Int
    BY <1>7, <2>1, <2>2
  <2>5. Total(f) = SumFunctionOnSet(f, E) /\ Total(g) = SumFunctionOnSet(g, D)
    BY <2>1 DEF Total, SumFunction
  <2> HIDE DEF E, f, g
  <2>6. SumFunctionOnSet(f, E) = f[l] + SumFunctionOnSet(f, E \ {l})
    BY <2>3, <2>4, SumTakeOne
  <2>7. SumFunctionOnSet(f, D) = SumFunctionOnSet(g, D)
    BY <2>1, <2>2, <2>3, SumSame
  <2>8. SumFunctionOnSet(g, D) \in Int
    BY <2>2, <2>3, SumInt
  <2>9. Total(f) = Total(g) + T
    <3>1. SumFunctionOnSet(f, E) = T + SumFunctionOnSet(g, D)
      BY <2>1, <2>3, <2>6, <2>7
    <3> QED BY <1>7, <2>5, <2>8, <3>1
  <2> QED BY <2>9 DEF f, g
<1>12. Covered(y)
  <2>1. s.balance[LockAddr] + SumFunctionOnSet(s.paid, D) = Total(Funds(s))
    BY <1>1 DEF Covered, D
  <2>2. s.balance[LockAddr] \in Int /\ SumFunctionOnSet(s.paid, D) \in Int
    <3>1. s.balance[LockAddr] \in Int
      BY <1>3, Distinct DEF Balances
    <3>2. \A q \in D : s.paid[q] \in Int
      BY <1>3 DEF PaidMaps
    <3> QED BY <1>9, <3>1, <3>2, SumInt
  <2>3. y.balance[LockAddr] + SumFunctionOnSet(s.paid, D) = Total(Funds(y))
    BY <1>5, <1>7, <1>11, <2>1, <2>2
  <2> QED BY <1>2, <1>6, <1>10, <2>3 DEF Covered
<1>13. Settled(y, time)
  <2>1. SettledLock(new, 0, time)
    BY <1>4 DEF SettledLock
  <2>2. \A q \in D : SettledLock(y.locks[q], y.paid[q], time)
    BY <1>1, <1>2, <1>6 DEF Settled, D
  <2>3. \A q \in Locks \ DOMAIN y.locks : y.paid[q] = 0
    BY <1>1, <1>2, <1>6 DEF Settled, D
  <2>4. SettledLock(y.locks[l], y.paid[l], time)
    BY <1>2, <1>6, <1>9, <2>1
  <2> QED BY <1>6, <2>2, <2>3, <2>4 DEF Settled
<1>14. \A t : ListedDecided(s, t) => ListedDecided(y, t)
  BY <1>6 DEF ListedDecided, D
<1>15. d.tokens \subseteq Tokens
  BY DefFacts
<1>16. /\ \A t \in d.tokens : y.owner[t] = {LockAddr}
       /\ \A t \in Tokens \ d.tokens : y.owner[t] = s.owner[t]
  BY <1>2, <1>15
<1>17. Held(y)
  <2> SUFFICES ASSUME NEW q \in D \cup {l}, y.locks[q].status = "proposed", NEW t \in y.locks[q].def.tokens
               PROVE  y.owner[t] = {LockAddr} \/ Keeper[t] # Owner \/ ListedDecided(y, t)
    BY <1>6 DEF Held
  <2>1. CASE t \in d.tokens
    BY <1>16, <2>1
  <2>2. CASE t \notin d.tokens
    <3>1. q \in D /\ y.locks[q] = s.locks[q]
      BY <1>4, <1>6, <2>2
    <3>2. s.owner[t] = {LockAddr} \/ Keeper[t] # Owner \/ ListedDecided(s, t)
      BY <1>1, <3>1 DEF Held, D
    <3>3. t \in Tokens
      <4>1. s.locks[q] \in Lock
        BY <1>1, <3>1, StateFacts DEF D
      <4> QED BY <3>1, <4>1, LockFacts, DefFacts
    <3> QED BY <1>14, <1>16, <2>2, <3>2, <3>3
  <2> QED BY <2>1, <2>2
<1>18. LocksKept(s, y) /\ SuspendsKept(s, y)
  BY <1>2, <1>6 DEF LocksKept, SuspendsKept, D
<1>19. Spent(s, y, signed)
  BY <1>2, <1>5 DEF Spent
<1>20. Moved(s, y, signed)
  <2> SUFFICES ASSUME NEW t \in Tokens, y.owner[t] # s.owner[t] PROVE Permitted(s, t, signed)
    BY DEF Moved
  <2>1. t \in d.tokens
    BY <1>16
  <2>2. Satisfied(s, signed, [name |-> "transfer", token |-> t])
    BY <1>2, <2>1
  <2>3. (IF Keeper[t] = Owner THEN s.owner[t] ELSE {Keeper[t]}) \subseteq signed
    BY <2>2 DEF Satisfied, Needed
  <2> QED BY <2>3 DEF Permitted
<1> QED BY <1>2, <1>8, <1>12, <1>13, <1>17, <1>18, <1>19, <1>20 DEF Good, Reach

(* newlock inside a suspended transaction always throws: it finds no keys  *)
(* there, and a lock has to hold something that needs one.                 *)
LEMMA NoInnerLock ==
    ASSUME NEW s \in State, NEW a, a.def \in LockDefs
    PROVE  Newlock(s, {}, a) = {}
<1> DEFINE d == a.def
<1> SUFFICES ASSUME NEW y \in Newlock(s, {}, a) PROVE FALSE
  OBVIOUS
<1>1. /\ ValidLock(d)
      /\ \A t \in d.tokens : Satisfied(s, {}, [name |-> "transfer", token |-> t])
      /\ DOMAIN d.funds \subseteq {}
  BY DEF Newlock
<1>2. d.tokens # {}
  BY <1>1 DEF ValidLock
<1>3. PICK t \in d.tokens : TRUE
  BY <1>2
<1>4. t \in Tokens
  BY <1>3, DefFacts
<1>5. s.owner[t] # {}
  <2>1. s.owner \in OwnerMaps
    BY StateFacts
  <2> QED BY <1>4, <2>1 DEF OwnerMaps
<1>6. (IF Keeper[t] = Owner THEN s.owner[t] ELSE {Keeper[t]}) \subseteq {}
  <2>1. Satisfied(s, {}, [name |-> "transfer", token |-> t])
    BY <1>1
  <2> QED BY <2>1 DEF Satisfied, Needed
<1> QED BY <1>5, <1>6

-----------------------------------------------------------------------------

(* A transaction begins in the state it began in.                          *)
LEMMA HereSame ==
    ASSUME NEW s, NEW time, Good(s, time), NEW signed, signed \subseteq Users
    PROVE  Here(s, s, signed, time)
<1>1. s \in State
  BY DEF Good
<1> QED BY <1>1, ReachSame DEF Here

(* Every action of a suspended transaction keeps Here when its keys        *)
(* allowed it in the state that the transaction began in.                  *)
LEMMA ActStep ==
    ASSUME NEW s, NEW x, NEW signed, Here(s, x, signed, now), now \in Nat,
           NEW a \in Actions, a.name # "execsuspend", Satisfied(s, signed, a), NEW y \in Apply(x, {}, a)
    PROVE  Here(s, y, signed, now)
<1>0. x \in State /\ s \in State
  BY DEF Here, Good
<1>1. CASE a \in [name : {"transfer"}, token : Tokens, to : (SUBSET Receivers) \ {{}}]
  <2>1. a.name = "transfer" /\ a.token \in Tokens /\ a.to \in (SUBSET Receivers) \ {{}}
    BY <1>1
  <2>2. y = [x EXCEPT !.owner[a.token] = a.to]
    BY <2>1 DEF Apply, Transfer
  <2>3. (IF Keeper[a.token] = Owner THEN s.owner[a.token] ELSE {Keeper[a.token]}) \subseteq signed
    BY <2>1 DEF Satisfied, Needed
  <2>4. Permitted(s, a.token, signed) /\ (Keeper[a.token] = Owner => s.owner[a.token] \subseteq signed)
    BY <2>3 DEF Permitted
  <2> QED BY <2>1, <2>2, <2>4, TransferStep
<1>2. CASE a \in [name : {"issuefungible"}, to : Users, amount : Nat]
  <2> DEFINE p == NoBonus(a.amount)
  <2>1. a.name = "issuefungible" /\ a.to \in Users /\ a.amount \in Nat
    BY <1>2
  <2>2. y \in TransferFungible(x, Pool, a.to, p)
    BY <2>1 DEF Apply, Issuefungible
  <2>3. p.takes \in Nat /\ p.bonus \in Nat /\ p.bonus <= p.takes
    BY <2>1 DEF NoBonus
  <2> HIDE DEF p
  <2> QED BY <2>1, <2>2, <2>3, Distinct, FungibleStep
<1>3. CASE a \in [name : {"transferft"}, from : Users, to : Receivers, amount : Nat]
  <2> DEFINE p == PassiveBonus(a.amount, Charge.outside)
  <2>1. a.name = "transferft" /\ a.from \in Users /\ a.to \in Receivers /\ a.amount \in Nat
    BY <1>3
  <2>2. a.from # a.to /\ y \in TransferFungible(x, a.from, a.to, p)
    BY <2>1 DEF Apply, Transferft
  <2>3. p.takes \in Nat /\ p.bonus \in Nat /\ p.bonus <= p.takes
    BY <2>1, PassiveBonusFacts, ContentsAssumption
  <2>4. a.from \in signed
    BY <2>1 DEF Satisfied, Needed
  <2> HIDE DEF p
  <2> QED BY <2>1, <2>2, <2>3, <2>4, Distinct, FungibleStep DEF Receivers
<1>4. CASE a \in [name : {"recycleft", "destroyft"}, from : Users, amount : Nat]
  <2> DEFINE p == NoBonus(a.amount)
             to == IF a.name = "recycleft" THEN Pool ELSE Destroyed
  <2>1. a.name \in {"recycleft", "destroyft"} /\ a.from \in Users /\ a.amount \in Nat
    BY <1>4
  <2>2. y \in TransferFungible(x, a.from, to, p)
    BY <2>1 DEF Apply, Recycleft, Destroyft
  <2>3. p.takes \in Nat /\ p.bonus \in Nat /\ p.bonus <= p.takes
    BY <2>1 DEF NoBonus
  <2>4. a.from \in signed
    BY <2>1 DEF Satisfied, Needed
  <2>5. to \in {Pool, Destroyed}
    OBVIOUS
  <2> HIDE DEF p, to
  <2> QED BY <2>1, <2>2, <2>3, <2>4, <2>5, Distinct, FungibleStep
<1>5. CASE a \in [name : {"newlock"}, from : Users, lock : Locks, def : LockDefs]
  <2>1. a.name = "newlock" /\ a.def \in LockDefs
    BY <1>5
  <2>2. y \in Newlock(x, {}, a)
    BY <2>1 DEF Apply
  <2> QED BY <1>0, <2>1, <2>2, NoInnerLock
<1>6. CASE a \in [name : {"aprvlock", "tryunlock"}, from : Users, lock : Locks]
  <2>1. a.name \in {"aprvlock", "tryunlock"} /\ a.from \in Users
    BY <1>6
  <2>2. CASE a.name = "aprvlock"
    <3>1. y \in Aprvlock(x, a)
      BY <2>2 DEF Apply
    <3> QED BY <2>1, <3>1, AprvlockStep
  <2>3. CASE a.name = "tryunlock"
    <3>1. y \in Tryunlock(x, a)
      BY <2>3 DEF Apply
    <3> QED BY <3>1, TryunlockStep
  <2> QED BY <2>1, <2>2, <2>3
<1>7. CASE a \in [name : {"cancelsuspend"}, proposal : Proposals]
  <2>1. a.name = "cancelsuspend"
    BY <1>7
  <2>2. a.proposal \in DOMAIN x.suspends
    <3>1. a.proposal \in DOMAIN s.suspends
      BY <2>1 DEF Satisfied, Known
    <3> QED BY <3>1 DEF Here, Reach, SuspendsKept
  <2>3. y \in Cancelsuspend(x, a)
    BY <2>1 DEF Apply
  <2> QED BY <2>2, <2>3, CancelStep
<1>8. CASE a \in [name : {"newsuspend"}, proposal : Proposals, proposer : Users, trx : Trxs]
  <2>1. a.name = "newsuspend" /\ a.proposal \in Proposals /\ a.proposer \in Users /\ a.trx \in Trxs
    BY <1>8
  <2>2. y \in Newsuspend(x, a)
    BY <2>1 DEF Apply
  <2> QED BY <2>1, <2>2, NewsuspendStep
<1>9. CASE a \in [name : {"aprvsuspend"}, proposal : Proposals, signed : (SUBSET Users) \ {{}}]
  <2>1. a.name = "aprvsuspend" /\ a.signed \subseteq Users
    BY <1>9
  <2>2. y \in Aprvsuspend(x, a)
    BY <2>1 DEF Apply
  <2> QED BY <2>1, <2>2, AprvsuspendStep
<1>10. CASE a \in [name : {"execsuspend"}, proposal : Proposals, executor : Users]
  BY <1>10
<1> QED BY <1>1, <1>2, <1>3, <1>4, <1>5, <1>6, <1>7, <1>8, <1>9, <1>10 DEF Actions

(* Every action of a transaction of its own is allowed by its keys.        *)
LEMMA ActOuter ==
    ASSUME NEW s, NEW signed, signed \subseteq Users, Good(s, now), now \in Nat,
           NEW a \in Actions, a.name # "execsuspend", Satisfied(s, signed, a), NEW y \in Apply(s, signed, a)
    PROVE  Good(y, now) /\ Reach(s, y, signed)
<1>1. CASE a.name = "newlock"
  <2>1. a.def \in LockDefs /\ a.lock \in Locks
    BY <1>1 DEF Actions
  <2>2. y \in Newlock(s, signed, a)
    BY <1>1 DEF Apply
  <2> QED BY <2>1, <2>2, NewlockStep
<1>2. CASE a.name # "newlock"
  <2>1. Apply(s, signed, a) = Apply(s, {}, a)
    BY <1>2 DEF Apply
  <2>2. Here(s, s, signed, now)
    BY HereSame
  <2>3. Here(s, y, signed, now)
    BY <2>1, <2>2, ActStep
  <2> QED BY <2>3 DEF Here
<1> QED BY <1>1, <1>2
-----------------------------------------------------------------------------
(* Suspended transactions inside each other.                               *)

(* p executes q, directly or through others.                               *)
Below(s, p, q) ==
    \A S \in SUBSET Proposals : Closed(s, S) /\ Executes(s, p) \subseteq S => q \in S

(* EffectsShown, for every proposal there may be.                          *)
Effects(s) ==
    \A p \in Proposals :
        /\ s.ran[p] > 0 <=> p \in DOMAIN s.suspends /\ s.suspends[p].status = "executed"
        /\ s.ran[p] > 1 => Below(s, p, p)

(* What took effect between s and t was executed by p.                     *)
RanBelow(s, t, p) == \A q \in Proposals : t.ran[q] # s.ran[q] => Below(t, p, q)

(* What is executed by p stays so: contents are never replaced.            *)
LEMMA BelowKept ==
    ASSUME NEW s, NEW t, SuspendsKept(s, t), NEW p \in DOMAIN s.suspends, NEW q, Below(s, p, q)
    PROVE  Below(t, p, q)
<1> SUFFICES ASSUME NEW S \in SUBSET Proposals, Closed(t, S), Executes(t, p) \subseteq S
             PROVE  q \in S
  BY DEF Below
<1>1. \A r \in DOMAIN s.suspends : r \in DOMAIN t.suspends /\ Executes(t, r) = Executes(s, r)
  BY DEF SuspendsKept, Executes
<1>2. Closed(s, S)
  BY <1>1 DEF Closed
<1> QED BY <1>1, <1>2 DEF Below

(* What a transaction executes, and what is executed by that.              *)
LEMMA BelowThrough ==
    ASSUME NEW t, NEW p \in DOMAIN t.suspends, NEW r \in DOMAIN t.suspends, r \in Executes(t, p)
    PROVE  Below(t, p, r) /\ \A q : Below(t, r, q) => Below(t, p, q)
<1>1. Below(t, p, r)
  BY DEF Below
<1>2. ASSUME NEW q, Below(t, r, q) PROVE Below(t, p, q)
  <2> SUFFICES ASSUME NEW S \in SUBSET Proposals, Closed(t, S), Executes(t, p) \subseteq S
               PROVE  q \in S
    BY DEF Below
  <2>1. r \in S /\ Executes(t, r) \subseteq S
    BY DEF Closed
  <2> QED BY <1>2, <2>1 DEF Below
<1> QED BY <1>1, <1>2

(* Two parts of a transaction, the second with more keys, make one.        *)
LEMMA HereCompose ==
    ASSUME NEW s, NEW x, NEW y, NEW K1, NEW K2, NEW time,
           Here(s, x, K1, time), Here(x, y, K2, time), K1 \subseteq K2
    PROVE  Here(s, y, K2, time)
<1>1. /\ s \in State /\ x \in State /\ y \in State
      /\ LocksKept(s, x) /\ SuspendsKept(s, x) /\ Spent(s, x, K1) /\ Moved(s, x, K1)
      /\ LocksKept(x, y) /\ SuspendsKept(x, y) /\ Spent(x, y, K2) /\ Moved(x, y, K2)
      /\ s.freed \subseteq x.freed /\ x.freed \subseteq y.freed
  BY DEF Here, Good, Reach
<1>2. LocksKept(s, y)
  BY <1>1 DEF LocksKept
<1>3. SuspendsKept(s, y)
  BY <1>1 DEF SuspendsKept
<1>4. Spent(s, y, K2)
  <2> SUFFICES ASSUME NEW u \in Users, y.balance[u] < s.balance[u] PROVE u \in K2
    BY DEF Spent
  <2>1. s.balance[u] \in Nat /\ x.balance[u] \in Nat /\ y.balance[u] \in Nat
    <3>1. s.balance \in Balances /\ x.balance \in Balances /\ y.balance \in Balances
      BY <1>1, StateFacts
    <3> QED BY <3>1, Distinct DEF Balances
  <2>2. x.balance[u] < s.balance[u] \/ y.balance[u] < x.balance[u]
    BY <2>1
  <2> QED BY <1>1, <2>2 DEF Spent
<1>5. Moved(s, y, K2)
  <2> SUFFICES ASSUME NEW k \in Tokens, y.owner[k] # s.owner[k], ~Permitted(s, k, K2)
               PROVE  Delivered(y, k, K2)
    BY DEF Moved
  <2>1. ASSUME Delivered(x, k, K1), y.owner[k] = x.owner[k] \/ Permitted(x, k, K2)
        PROVE  Delivered(y, k, K2)
    <3>1. PICK l \in DOMAIN x.locks :
             /\ k \in x.locks[l].def.tokens /\ x.locks[l].status # "proposed"
             /\ x.owner[k] = Target(x.locks[l]) \/ Target(x.locks[l]) \subseteq K1
      BY <2>1 DEF Delivered
    <3>2. /\ l \in DOMAIN y.locks /\ y.locks[l].def = x.locks[l].def
          /\ y.locks[l].status = x.locks[l].status /\ Target(y.locks[l]) = Target(x.locks[l])
      BY <1>1, <3>1 DEF LocksKept, Target
    <3>3. k \in y.freed
      BY <1>1, <2>1 DEF Delivered
    <3>4. Keeper[k] \notin K2
      BY DEF Permitted
    <3>5. y.owner[k] = Target(y.locks[l]) \/ Target(y.locks[l]) \subseteq K2
      BY <2>1, <3>1, <3>2, <3>4 DEF Permitted
    <3> QED BY <3>1, <3>2, <3>3, <3>5 DEF Delivered
  <2>2. CASE x.owner[k] = s.owner[k]
    <3>1. ~Permitted(x, k, K2)
      BY <2>2 DEF Permitted
    <3> QED BY <1>1, <2>2, <3>1 DEF Moved
  <2>3. CASE x.owner[k] # s.owner[k]
    <3>1. ~Permitted(s, k, K1)
      BY DEF Permitted
    <3>2. Delivered(x, k, K1)
      BY <1>1, <2>3, <3>1 DEF Moved
    <3>3. CASE y.owner[k] = x.owner[k] \/ Permitted(x, k, K2)
      BY <2>1, <3>2, <3>3
    <3>4. CASE y.owner[k] # x.owner[k] /\ ~Permitted(x, k, K2)
      BY <1>1, <3>4 DEF Moved
    <3> QED BY <3>3, <3>4
  <2> QED BY <2>2, <2>3
<1> QED BY <1>1, <1>2, <1>3, <1>4, <1>5 DEF Here, Reach

(* What an action does to the suspended transactions: none is executed,    *)
(* and no content is replaced.                                             *)
LEMMA ApplySuspends ==
    ASSUME NEW x \in State, NEW a \in Actions, a.name # "execsuspend", Known(x, a), NEW K,
           NEW y \in Apply(x, K, a)
    PROVE  /\ y.ran = x.ran /\ SuspendsKept(x, y)
           /\ \A p \in DOMAIN y.suspends \ DOMAIN x.suspends : y.suspends[p].status = "proposed"
           /\ \A p \in DOMAIN x.suspends :
                y.suspends[p].status = "executed" <=> x.suspends[p].status = "executed"
<1> DEFINE Same == y.ran = x.ran /\ y.suspends = x.suspends
<1>1. ASSUME Same
      PROVE  /\ y.ran = x.ran /\ SuspendsKept(x, y)
             /\ \A p \in DOMAIN y.suspends \ DOMAIN x.suspends : y.suspends[p].status = "proposed"
             /\ \A p \in DOMAIN x.suspends :
                  y.suspends[p].status = "executed" <=> x.suspends[p].status = "executed"
  BY <1>1 DEF SuspendsKept
<1>2. ASSUME NEW from, NEW to, NEW p, y \in TransferFungible(x, from, to, p) PROVE Same
  <2>1. \E b : y = [x EXCEPT !.balance = b]
    BY <1>2 DEF TransferFungible
  <2> QED BY <2>1 DEF State
<1>3. CASE a.name = "transfer"
  <2>1. \E o : y = [x EXCEPT !.owner = o]
    BY <1>3 DEF Apply, Transfer, State
  <2> QED BY <1>1, <2>1 DEF State
<1>4. CASE a.name = "issuefungible"
  BY <1>1, <1>2, <1>4 DEF Apply, Issuefungible
<1>5. CASE a.name = "transferft"
  <2>1. y \in TransferFungible(x, a.from, a.to, PassiveBonus(a.amount, Charge.outside))
    BY <1>5 DEF Apply, Transferft
  <2> QED BY <1>1, <1>2, <2>1
<1>6. CASE a.name = "recycleft"
  BY <1>1, <1>2, <1>6 DEF Apply, Recycleft
<1>7. CASE a.name = "destroyft"
  BY <1>1, <1>2, <1>7 DEF Apply, Destroyft
<1>8. CASE a.name = "newlock"
  <2>1. a.def \in LockDefs /\ a.lock \in Locks /\ y \in Newlock(x, K, a)
    BY <1>8 DEF Actions, Apply
  <2>2. \E o, b, m : y = [x EXCEPT !.owner = o, !.balance = b, !.locks = m]
    BY <2>1 DEF Newlock
  <2>3. Same
    BY <2>2 DEF State
  <2> QED BY <1>1, <2>3
<1>9. CASE a.name = "aprvlock"
  <2>1. \E m : y = [x EXCEPT !.locks = m]
    BY <1>9 DEF Apply, Aprvlock, State
  <2> QED BY <1>1, <2>1 DEF State
<1>10. CASE a.name = "tryunlock"
  <2>1. y \in Tryunlock(x, a)
    BY <1>10 DEF Apply
  <2> DEFINE l == a.lock
             k == x.locks[l]
             st == IF Enough(k) THEN "succeed" ELSE "failed"
             to == IF Enough(k) THEN k.def.succeed ELSE k.def.failed
             T == Total(k.def.funds)
  <2>2. PICK t \in PayOut(x, k.def, to) :
           y = [t EXCEPT !.owner = [e \in Tokens |-> IF e \in k.def.tokens THEN to ELSE @[e]],
                         !.locks[l].status = st, !.paid[l] = @ + T, !.freed = @ \cup k.def.tokens]
    BY <2>1 DEF Tryunlock, Enough
  <2>3. t = x \/ \E b : t = [x EXCEPT !.balance = b]
    BY DEF PayOut, TransferFungible
  <2>4. Same
    BY <2>2, <2>3 DEF State
  <2> QED BY <1>1, <2>4
<1>11. CASE a.name = "newsuspend"
  <2> DEFINE v == [proposer |-> a.proposer, trx |-> a.trx, signed |-> {}, status |-> "proposed"]
             m == With(x.suspends, a.proposal, v)
  <2>1. a.proposal \notin DOMAIN x.suspends /\ y = [x EXCEPT !.suspends = m]
    BY <1>11 DEF Apply, Newsuspend
  <2>2. v.status = "proposed"
    OBVIOUS
  <2> HIDE DEF v
  <2>3. /\ DOMAIN m = DOMAIN x.suspends \cup {a.proposal} /\ m[a.proposal] = v
        /\ \A q \in DOMAIN x.suspends : m[q] = x.suspends[q]
    BY <2>1 DEF With
  <2> HIDE DEF m
  <2>4. y.suspends = m /\ y.ran = x.ran
    BY <2>1 DEF State
  <2> QED BY <2>2, <2>3, <2>4 DEF SuspendsKept
<1>12. CASE a.name \in {"aprvsuspend", "cancelsuspend"}
  <2> DEFINE p == a.proposal
             k == x.suspends[p]
  <2>1. PICK v : /\ p \in DOMAIN x.suspends /\ k.status = "proposed"
                 /\ y = [x EXCEPT !.suspends = [x.suspends EXCEPT ![p] = v]]
                 /\ v.status \in {"proposed", "cancelled"} /\ v.trx = k.trx
    <3>1. CASE a.name = "aprvsuspend"
      <4> DEFINE v == [k EXCEPT !.signed = @ \cup a.signed]
      <4>1. /\ p \in DOMAIN x.suspends /\ k.status = "proposed"
            /\ y = [x EXCEPT !.suspends[p].signed = @ \cup a.signed]
        BY <3>1 DEF Apply, Aprvsuspend
      <4>2. y = [x EXCEPT !.suspends = [x.suspends EXCEPT ![p] = v]]
        BY <4>1 DEF State
      <4>3. k \in Suspend
        BY <4>1, StateFacts
      <4>4. v.status = "proposed" /\ v.trx = k.trx
        BY <4>1, <4>3 DEF Suspend
      <4> QED BY <4>1, <4>2, <4>4
    <3>2. CASE a.name = "cancelsuspend"
      <4> DEFINE v == [k EXCEPT !.status = "cancelled"]
      <4>1. /\ p \in DOMAIN x.suspends /\ k.status = "proposed"
            /\ y = [x EXCEPT !.suspends[p].status = "cancelled"]
        BY <3>2 DEF Apply, Cancelsuspend, Known
      <4>2. y = [x EXCEPT !.suspends = [x.suspends EXCEPT ![p] = v]]
        BY <4>1 DEF State
      <4>3. k \in Suspend
        BY <4>1, StateFacts
      <4>4. v.status = "cancelled" /\ v.trx = k.trx
        BY <4>3 DEF Suspend
      <4> QED BY <4>1, <4>2, <4>4
    <3> QED BY <1>12, <3>1, <3>2
  <2> DEFINE m == [x.suspends EXCEPT ![p] = v]
  <2>2. y.suspends = m /\ y.ran = x.ran
    BY <2>1 DEF State
  <2>3. x.suspends \in SuspendMaps
    BY StateFacts
  <2>4. DOMAIN m = DOMAIN x.suspends /\ m[p] = v /\ \A q \in DOMAIN x.suspends \ {p} : m[q] = x.suspends[q]
    BY <2>1
  <2> HIDE DEF m, p, k
  <2>5. SuspendsKept(x, y)
    BY <2>1, <2>2, <2>4 DEF SuspendsKept, k
  <2> QED BY <2>1, <2>2, <2>4, <2>5 DEF k
<1>13. a.name \in {"transfer", "issuefungible", "transferft", "recycleft", "destroyft", "newlock",
                   "aprvlock", "tryunlock", "newsuspend", "aprvsuspend", "cancelsuspend"}
  BY DEF Actions
<1> HIDE DEF Same
<1> QED BY <1>3, <1>4, <1>5, <1>6, <1>7, <1>8, <1>9, <1>10, <1>11, <1>12, <1>13

(* An action keeps Effects.                                                *)
LEMMA EffectsStep ==
    ASSUME NEW x \in State, NEW y \in State, Effects(x), y.ran = x.ran, SuspendsKept(x, y),
           \A p \in DOMAIN y.suspends \ DOMAIN x.suspends : y.suspends[p].status = "proposed",
           \A p \in DOMAIN x.suspends :
               y.suspends[p].status = "executed" <=> x.suspends[p].status = "executed"
    PROVE  Effects(y)
<1> SUFFICES ASSUME NEW p \in Proposals
             PROVE  /\ y.ran[p] > 0 <=> p \in DOMAIN y.suspends /\ y.suspends[p].status = "executed"
                    /\ y.ran[p] > 1 => Below(y, p, p)
  BY DEF Effects
<1>1. /\ x.ran[p] > 0 <=> p \in DOMAIN x.suspends /\ x.suspends[p].status = "executed"
      /\ x.ran[p] > 1 => Below(x, p, p)
  BY DEF Effects
<1>2. DOMAIN x.suspends \subseteq DOMAIN y.suspends
  BY DEF SuspendsKept
<1>3. y.ran[p] > 0 <=> p \in DOMAIN y.suspends /\ y.suspends[p].status = "executed"
  BY <1>1, <1>2
<1>4. ASSUME y.ran[p] > 1 PROVE Below(y, p, p)
  <2>1. x.ran[p] \in Nat
    BY StateFacts DEF RanMaps
  <2>2. p \in DOMAIN x.suspends /\ Below(x, p, p)
    BY <1>1, <1>4, <2>1
  <2> QED BY <2>2, BelowKept
<1> QED BY <1>3, <1>4
-----------------------------------------------------------------------------
(* The suspended transactions under way.                                   *)

FrameType == [name : Proposals, acts : Seq(Actions), before : [db : State, keys : SUBSET Users],
              written : SUBSET Proposals, lost : BOOLEAN, thrown : BOOLEAN]

(* The frame f has reached the state x with the keys K.                    *)
Within(f, x, K, time) ==
    /\ f \in FrameType /\ Here(f.before.db, x, K, time) /\ f.before.keys \subseteq K
    /\ f.name \in DOMAIN f.before.db.suspends
    /\ f.before.db.suspends[f.name].status = "proposed"
    /\ \A a \in Range(f.acts) :
         a \in Range(f.before.db.suspends[f.name].trx.acts) /\ Satisfied(f.before.db, K, a)
    /\ Effects(f.before.db) /\ Effects(x) /\ RanBelow(f.before.db, x, f.name)

(* Each frame has reached the state that the next one began in, and the    *)
(* innermost one the present state.                                        *)
Stack(fs, x, K, time) ==
    /\ fs \in Seq(FrameType) /\ Good(x, time) /\ Effects(x) /\ K \subseteq Users
    /\ \A i \in 1..Len(fs) - 1 :
         /\ Within(fs[i], fs[i + 1].before.db, fs[i + 1].before.keys, time)
         /\ fs[i + 1].name \in Executes(fs[i].before.db, fs[i].name)
    /\ fs # <<>> => Within(fs[Len(fs)], x, K, time)

(* g is f with some actions done, or its cached objects changed.           *)
Alike(f, g) ==
    /\ g \in FrameType /\ g.name = f.name /\ g.before = f.before
    /\ Range(g.acts) \subseteq Range(f.acts)

LEMMA WithinAlike ==
    ASSUME NEW f, NEW g, NEW x, NEW K, NEW time, Within(f, x, K, time), Alike(f, g)
    PROVE  Within(g, x, K, time)
BY DEF Within, Alike

(* An action of a frame.                                                   *)
LEMMA WithinAct ==
    ASSUME NEW f, NEW x, NEW K, Within(f, x, K, now), now \in Nat,
           NEW a \in Range(f.acts), a.name # "execsuspend", NEW y \in Apply(x, {}, a)
    PROVE  Within(f, y, K, now) /\ Good(y, now) /\ Effects(y)
<1> DEFINE s == f.before.db
<1>1. /\ f \in FrameType /\ Here(s, x, K, now) /\ f.name \in DOMAIN s.suspends
      /\ Satisfied(s, K, a) /\ Effects(x) /\ RanBelow(s, x, f.name)
  BY DEF Within
<1>2. a \in Actions
  <2>1. f.acts \in Seq(Actions)
    BY <1>1 DEF FrameType
  <2>2. PICK i \in DOMAIN f.acts : a = f.acts[i]
    BY DEF Range
  <2> QED BY <2>1, <2>2
<1>3. Here(s, y, K, now)
  BY <1>1, <1>2, ActStep
<1>4. x \in State /\ y \in State /\ Good(y, now) /\ SuspendsKept(s, x)
  BY <1>1, <1>3 DEF Here, Good, Reach
<1>5. Known(x, a)
  BY <1>1, <1>4 DEF Satisfied, Known, SuspendsKept
<1>6. /\ y.ran = x.ran /\ SuspendsKept(x, y)
      /\ \A p \in DOMAIN y.suspends \ DOMAIN x.suspends : y.suspends[p].status = "proposed"
      /\ \A p \in DOMAIN x.suspends :
           y.suspends[p].status = "executed" <=> x.suspends[p].status = "executed"
  BY <1>2, <1>4, <1>5, ApplySuspends
<1>7. Effects(y)
  BY <1>1, <1>4, <1>6, EffectsStep
<1>8. f.name \in DOMAIN x.suspends
  BY <1>1, <1>4 DEF SuspendsKept
<1>9. RanBelow(s, y, f.name)
  BY <1>1, <1>6, <1>8, BelowKept DEF RanBelow
<1> QED BY <1>3, <1>4, <1>7, <1>9 DEF Within

(* A frame begins.                                                         *)
LEMMA WithinBegin ==
    ASSUME NEW s, NEW ks, NEW p, NEW u, Good(s, now), Effects(s), ks \subseteq Users,
           Executable(s, p, u)
    PROVE  LET f == Frame(s, ks, p)
               K == ks \cup s.suspends[p].signed
           IN /\ f \in FrameType /\ f.name = p /\ f.before = [db |-> s, keys |-> ks]
              /\ K \subseteq Users /\ Within(f, s, K, now)
<1> DEFINE f == Frame(s, ks, p)
           k == s.suspends[p]
           K == ks \cup k.signed
<1>1. /\ p \in DOMAIN s.suspends /\ k.status = "proposed"
      /\ \A a \in Range(k.trx.acts) : Satisfied(s, k.signed, a)
  BY DEF Executable
<1>2. s \in State /\ p \in Proposals /\ k \in Suspend
  BY <1>1, StateFacts DEF Good
<1>3. k.trx \in Trxs /\ k.signed \subseteq Users
  BY <1>2 DEF Suspend
<1>4. k.trx.acts \in Seq(Actions)
  BY <1>3, ContentsAssumption
<1>5. /\ f \in FrameType /\ f.name = p /\ f.before = [db |-> s, keys |-> ks]
      /\ f.acts = k.trx.acts
  BY <1>2, <1>4 DEF Frame, FrameType
<1>6. K \subseteq Users /\ Here(s, s, K, now)
  BY <1>3, HereSame
<1>7. \A a \in Range(k.trx.acts) : Satisfied(s, K, a)
  BY <1>1 DEF Satisfied
<1>8. RanBelow(s, s, p)
  BY DEF RanBelow
<1> HIDE DEF f, K, k
<1>9. f.before.db = s /\ f.before.keys = ks /\ ks \subseteq K
  BY <1>5 DEF K
<1>10. Within(f, s, K, now)
  BY <1>1, <1>5, <1>6, <1>7, <1>8, <1>9 DEF Within, k
<1> QED BY <1>5, <1>6, <1>10 DEF f, K, k

(* A frame g ends in the state y: what the frame f around it has reached.  *)
LEMMA WithinEnd ==
    ASSUME NEW f, NEW g, NEW y, NEW K, NEW time,
           Within(f, g.before.db, g.before.keys, time), g.before.keys \subseteq K,
           g.name \in DOMAIN g.before.db.suspends,
           g.name \in Executes(f.before.db, f.name),
           Here(g.before.db, y, K, time), Effects(y),
           \A q \in Proposals : y.ran[q] # g.before.db.ran[q] => q = g.name \/ Below(y, g.name, q)
    PROVE  Within(f, y, K, time)
<1> DEFINE s == f.before.db
           x == g.before.db
<1>1. /\ f \in FrameType /\ Here(s, x, g.before.keys, time) /\ f.before.keys \subseteq g.before.keys
      /\ f.name \in DOMAIN s.suspends /\ s.suspends[f.name].status = "proposed"
      /\ \A a \in Range(f.acts) :
           a \in Range(s.suspends[f.name].trx.acts) /\ Satisfied(s, g.before.keys, a)
      /\ Effects(s) /\ RanBelow(s, x, f.name)
  BY DEF Within
<1>2. Here(s, y, K, time)
  BY <1>1, HereCompose
<1>3. SuspendsKept(s, x) /\ SuspendsKept(x, y) /\ SuspendsKept(s, y)
  BY <1>1, <1>2 DEF Here, Reach
<1>4. \A a \in Range(f.acts) : Satisfied(s, K, a)
  BY <1>1 DEF Satisfied
<1>5. /\ f.name \in DOMAIN x.suspends /\ f.name \in DOMAIN y.suspends /\ g.name \in DOMAIN y.suspends
      /\ g.name \in Executes(y, f.name)
  BY <1>1, <1>3 DEF SuspendsKept, Executes
<1>6. RanBelow(s, y, f.name)
  <2> SUFFICES ASSUME NEW q \in Proposals, y.ran[q] # s.ran[q] PROVE Below(y, f.name, q)
    BY DEF RanBelow
  <2>1. CASE y.ran[q] # x.ran[q]
    BY <1>5, <2>1, BelowThrough
  <2>2. CASE y.ran[q] = x.ran[q]
    <3>1. Below(x, f.name, q)
      BY <1>1, <2>2 DEF RanBelow
    <3> QED BY <1>3, <1>5, <3>1, BelowKept
  <2> QED BY <2>1, <2>2
<1> QED BY <1>1, <1>2, <1>4, <1>6 DEF Within

Outcome(x, p, st) ==
    IF st = "executed" THEN [x EXCEPT !.suspends[p].status = "executed", !.ran[p] = @ + 1]
    ELSE [x EXCEPT !.suspends[p].status = "failed"]

(* A suspended transaction is written as executed or failed from a state x *)
(* that its frame has reached.                                             *)
LEMMA WithinOutcome ==
    ASSUME NEW f \in FrameType, NEW x, NEW K, NEW time, Here(f.before.db, x, K, time),
           f.name \in DOMAIN f.before.db.suspends, f.before.db.suspends[f.name].status = "proposed",
           Effects(f.before.db), Effects(x), RanBelow(f.before.db, x, f.name),
           NEW st \in {"executed", "failed"}, st = "failed" => x = f.before.db,
           NEW y, y = Outcome(x, f.name, st)
    PROVE  /\ Here(f.before.db, y, K, time) /\ Effects(y)
           /\ \A q \in Proposals : y.ran[q] # f.before.db.ran[q] => q = f.name \/ Below(y, f.name, q)
<1> DEFINE s == f.before.db
           p == f.name
           n == IF st = "executed" THEN x.ran[p] + 1 ELSE x.ran[p]
           v == [x.suspends[p] EXCEPT !.status = st]
           m == [x.suspends EXCEPT ![p] = v]
           r == [x.ran EXCEPT ![p] = n]
<1>1. /\ f \in FrameType /\ Here(s, x, K, time) /\ p \in DOMAIN s.suspends
      /\ s.suspends[p].status = "proposed" /\ Effects(s) /\ Effects(x) /\ RanBelow(s, x, p)
  OBVIOUS
<1>2. s \in State /\ x \in State /\ SuspendsKept(s, x)
  BY <1>1 DEF Here, Good, Reach
<1>3. p \in Proposals /\ p \in DOMAIN x.suspends
  BY <1>1, <1>2 DEF SuspendsKept, FrameType
<1>4. /\ x.suspends \in SuspendMaps /\ x.suspends[p] \in Suspend /\ x.ran \in RanMaps
      /\ s.ran \in RanMaps
  BY <1>2, <1>3, StateFacts
<1>5. x.ran[p] \in Nat /\ s.ran[p] \in Nat /\ n \in Nat
  BY <1>3, <1>4 DEF RanMaps
<1>6. y = [x EXCEPT !.suspends = m, !.ran = r]
  <2>1. CASE st = "executed"
    BY <1>2, <2>1 DEF State, Outcome
  <2>2. CASE st = "failed"
    <3>1. y = [x EXCEPT !.suspends[p].status = "failed"]
      BY <2>2 DEF Outcome
    <3>2. r = x.ran
      BY <1>3, <1>4, <2>2 DEF RanMaps
    <3> HIDE DEF r
    <3> QED BY <1>2, <2>2, <3>1, <3>2 DEF State
  <2> QED BY <2>1, <2>2
<1>7. v \in Suspend /\ v.status = st /\ v.trx = x.suspends[p].trx
  BY <1>4 DEF Suspend
<1>8. st \in {"executed", "failed"} /\ (st = "failed" => x = s)
  OBVIOUS
<1>9. n = IF st = "executed" THEN x.ran[p] + 1 ELSE x.ran[p]
  OBVIOUS
<1> HIDE DEF v, n
<1>10. /\ m \in SuspendMaps /\ DOMAIN m = DOMAIN x.suspends /\ m[p] = v
       /\ \A q \in DOMAIN x.suspends \ {p} : m[q] = x.suspends[q]
  BY <1>3, <1>4, <1>7, PartialExcept DEF SuspendMaps
<1>11. r \in RanMaps /\ r[p] = n /\ \A q \in Proposals \ {p} : r[q] = x.ran[q]
  BY <1>3, <1>4, <1>5 DEF RanMaps
<1> HIDE DEF m, r
<1>12. y.suspends = m /\ y.ran = r
  BY <1>2, <1>6 DEF State
<1>13. Here(s, y, K, time)
  <2>1. \A q \in DOMAIN x.suspends : m[q].trx = x.suspends[q].trx
    BY <1>7, <1>10
  <2>2. \A q \in DOMAIN s.suspends : s.suspends[q].status # "proposed" =>
           m[q].status = x.suspends[q].status /\ r[q] = x.ran[q]
    <3> SUFFICES ASSUME NEW q \in DOMAIN s.suspends, q # p
                 PROVE  m[q].status = x.suspends[q].status /\ r[q] = x.ran[q]
      BY <1>1
    <3>1. q \in DOMAIN x.suspends /\ q \in Proposals
      BY <1>2, StateFacts DEF SuspendsKept
    <3> QED BY <1>10, <1>11, <3>1
  <2>3. DOMAIN x.suspends \subseteq DOMAIN m /\ m \in SuspendMaps /\ r \in RanMaps /\ Here(s, x, K, time)
    BY <1>1, <1>10, <1>11
  <2> HIDE DEF s, p
  <2>4. Here(s, [x EXCEPT !.suspends = m, !.ran = r], K, time)
    BY <2>1, <2>2, <2>3, SuspendStep
  <2> QED BY <1>6, <2>4
<1>14. SuspendsKept(s, y) /\ y \in State
  BY <1>13 DEF Here, Good, Reach
<1>15. \A q, e : q \in DOMAIN x.suspends /\ Below(x, q, e) => Below(y, q, e)
  <2> SUFFICES ASSUME NEW q \in DOMAIN x.suspends, NEW e, Below(x, q, e),
                      NEW S \in SUBSET Proposals, Closed(y, S), Executes(y, q) \subseteq S
               PROVE  e \in S
    BY DEF Below
  <2>1. \A z \in DOMAIN x.suspends : z \in DOMAIN y.suspends /\ Executes(y, z) = Executes(x, z)
    BY <1>7, <1>10, <1>12 DEF Executes
  <2>2. Closed(x, S)
    BY <2>1 DEF Closed
  <2> QED BY <2>1, <2>2 DEF Below
<1>16. s.ran[p] = 0
  BY <1>1, <1>3, <1>5 DEF Effects
<1>17. Effects(y)
  <2> SUFFICES ASSUME NEW q \in Proposals
               PROVE  /\ r[q] > 0 <=> q \in DOMAIN m /\ m[q].status = "executed"
                      /\ r[q] > 1 => Below(y, q, q)
    BY <1>12 DEF Effects
  <2>1. /\ x.ran[q] > 0 <=> q \in DOMAIN x.suspends /\ x.suspends[q].status = "executed"
        /\ x.ran[q] > 1 => Below(x, q, q)
    BY <1>1 DEF Effects
  <2>2. x.ran[q] \in Nat
    BY <1>4 DEF RanMaps
  <2>3. CASE q # p
    <3>1. r[q] = x.ran[q] /\ (q \in DOMAIN m <=> q \in DOMAIN x.suspends)
          /\ (q \in DOMAIN m => m[q] = x.suspends[q])
      BY <1>10, <1>11, <2>3
    <3>2. r[q] > 1 => Below(y, q, q)
      BY <1>15, <2>1, <2>2, <3>1
    <3> QED BY <2>1, <3>1, <3>2
  <2>4. CASE q = p /\ st = "executed"
    <3>1. r[q] = x.ran[p] + 1 /\ m[q].status = "executed"
      BY <1>7, <1>9, <1>10, <1>11, <2>4
    <3>2. ASSUME r[q] > 1 PROVE Below(y, q, q)
      <4>1. x.ran[p] # s.ran[p]
        BY <1>5, <1>16, <3>1, <3>2
      <4>2. Below(x, p, p)
        BY <1>1, <1>3, <4>1 DEF RanBelow
      <4> QED BY <1>3, <1>15, <2>4, <4>2
    <3>3. r[q] > 0 /\ q \in DOMAIN m
      BY <1>3, <1>5, <1>10, <2>4, <3>1
    <3> QED BY <3>1, <3>2, <3>3
  <2>5. CASE q = p /\ st = "failed"
    <3>1. r[q] = 0 /\ m[q].status = "failed"
      BY <1>7, <1>8, <1>9, <1>10, <1>11, <1>16, <2>5
    <3> QED BY <3>1
  <2> QED BY <1>8, <2>3, <2>4, <2>5
<1>18. \A q \in Proposals : y.ran[q] # s.ran[q] => q = p \/ Below(y, p, q)
  <2> SUFFICES ASSUME NEW q \in Proposals, y.ran[q] # s.ran[q], q # p PROVE Below(y, p, q)
    OBVIOUS
  <2>1. x.ran[q] # s.ran[q]
    BY <1>11, <1>12
  <2>2. Below(x, p, q)
    BY <1>1, <2>1 DEF RanBelow
  <2> QED BY <1>3, <1>15, <2>2
<1> QED BY <1>13, <1>17, <1>18

(* Some frames of a stack, the last of which has reached x.                *)
LEMMA StackCut ==
    ASSUME NEW fs, NEW x0, NEW K0, NEW time, Stack(fs, x0, K0, time),
           NEW gs \in Seq(FrameType), Len(gs) <= Len(fs),
           \A i \in 1..Len(gs) : Alike(fs[i], gs[i]),
           NEW x, NEW K, Good(x, time), Effects(x), K \subseteq Users,
           gs # <<>> => Within(fs[Len(gs)], x, K, time)
    PROVE  Stack(gs, x, K, time)
<1>1. fs \in Seq(FrameType) /\ Len(fs) \in Nat /\ Len(gs) \in Nat
  BY DEF Stack
<1>2. ASSUME NEW i \in 1..Len(gs) - 1
      PROVE  /\ Within(gs[i], gs[i + 1].before.db, gs[i + 1].before.keys, time)
             /\ gs[i + 1].name \in Executes(gs[i].before.db, gs[i].name)
  <2>1. i \in 1..Len(fs) - 1 /\ i \in 1..Len(gs) /\ i + 1 \in 1..Len(gs)
    BY <1>1
  <2>2. /\ Within(fs[i], fs[i + 1].before.db, fs[i + 1].before.keys, time)
        /\ fs[i + 1].name \in Executes(fs[i].before.db, fs[i].name)
    BY <2>1 DEF Stack
  <2>3. Alike(fs[i], gs[i]) /\ Alike(fs[i + 1], gs[i + 1])
    BY <2>1
  <2>4. Within(gs[i], fs[i + 1].before.db, fs[i + 1].before.keys, time)
    BY <2>2, <2>3, WithinAlike
  <2> QED BY <2>2, <2>3, <2>4 DEF Alike
<1>3. ASSUME gs # <<>> PROVE Within(gs[Len(gs)], x, K, time)
  <2>1. Len(gs) \in 1..Len(gs)
    BY <1>1, <1>3
  <2> QED BY <1>3, <2>1, WithinAlike
<1> QED BY <1>2, <1>3 DEF Stack

(* One more frame on a stack.                                              *)
LEMMA StackPush ==
    ASSUME NEW fs, NEW x, NEW ks, NEW time, Stack(fs, x, ks, time), NEW f \in FrameType,
           f.before = [db |-> x, keys |-> ks], NEW K, K \subseteq Users, Within(f, x, K, time),
           fs # <<>> => f.name \in Executes(fs[Len(fs)].before.db, fs[Len(fs)].name)
    PROVE  Stack(Append(fs, f), x, K, time)
<1> DEFINE gs == Append(fs, f)
           n == Len(fs)
<1>1. fs \in Seq(FrameType) /\ n \in Nat
  BY DEF Stack
<1>2. /\ gs \in Seq(FrameType) /\ gs # <<>> /\ Len(gs) = n + 1
      /\ \A i \in 1..n : gs[i] = fs[i] /\ gs[n + 1] = f
  BY <1>1, AppendProperties
<1>3. gs[n + 1] = f
  BY <1>1, AppendProperties
<1>4. f.before.db = x /\ f.before.keys = ks
  OBVIOUS
<1> HIDE DEF gs
<1>5. ASSUME NEW i \in 1..Len(gs) - 1
      PROVE  /\ Within(gs[i], gs[i + 1].before.db, gs[i + 1].before.keys, time)
             /\ gs[i + 1].name \in Executes(gs[i].before.db, gs[i].name)
  <2>0. i \in 1..n
    BY <1>1, <1>2
  <2>1. CASE i = n
    <3>1. gs[i] = fs[n] /\ gs[i + 1] = f /\ fs # <<>>
      BY <1>1, <1>2, <1>3, <2>0, <2>1
    <3> QED BY <1>4, <2>1, <3>1 DEF Stack
  <2>2. CASE i # n
    <3>1. i \in 1..n - 1 /\ i + 1 \in 1..n
      BY <1>1, <2>0, <2>2
    <3>2. gs[i] = fs[i] /\ gs[i + 1] = fs[i + 1]
      BY <1>2, <3>1
    <3> QED BY <3>1, <3>2 DEF Stack
  <2> QED BY <2>1, <2>2
<1>6. Within(gs[Len(gs)], x, K, time)
  BY <1>2, <1>3
<1>7. Good(x, time) /\ Effects(x)
  BY DEF Stack
<1>8. Stack(gs, x, K, time)
  BY <1>2, <1>5, <1>6, <1>7 DEF Stack
<1> QED BY <1>8 DEF gs

(* The first frame began where the transaction began.                      *)
LEMMA StackBottom ==
    ASSUME NEW fs, NEW x, NEW K, NEW time, Stack(fs, x, K, time), fs # <<>>
    PROVE  Good(fs[1].before.db, time) /\ Effects(fs[1].before.db)
<1>1. fs \in Seq(FrameType) /\ Len(fs) \in Nat /\ Len(fs) # 0
  BY DEF Stack
<1>2. \E y, L : Within(fs[1], y, L, time)
  <2>1. CASE Len(fs) = 1
    BY <2>1 DEF Stack
  <2>2. CASE Len(fs) # 1
    <3>1. \A n \in Nat : n # 0 /\ n # 1 => 1 \in 1..n - 1
      OBVIOUS
    <3>2. 1 \in 1..Len(fs) - 1
      BY <1>1, <2>2, <3>1
    <3> QED BY <3>2 DEF Stack
  <2> QED BY <2>1, <2>2
<1> QED BY <1>2 DEF Within, Here

(* The inductive invariant.                                                *)
ContractsInv == now \in Nat /\ Stack(frames, db, keys, now)

(* A transaction changes what is committed only as its keys allow.         *)
Allowed(s, t, K) ==
    \/ t = s \/ t = [s EXCEPT !.freed = {}]
    \/ Reach(s, t, K) \/ Reach([s EXCEPT !.freed = {}], t, K)

(* To begin a transaction keeps what is known of the state.                *)
LEMMA BegunGood ==
    ASSUME NEW s, NEW time, Good(s, time), Effects(s)
    PROVE  Good([s EXCEPT !.freed = {}], time) /\ Effects([s EXCEPT !.freed = {}])
<1> DEFINE t == [s EXCEPT !.freed = {}]
<1>1. s \in State
  BY DEF Good
<1>2. /\ t \in State /\ t.balance = s.balance /\ t.owner = s.owner /\ t.locks = s.locks
      /\ t.suspends = s.suspends /\ t.paid = s.paid /\ t.ran = s.ran
  BY <1>1 DEF State
<1> HIDE DEF t
<1>3. Conserved(t) /\ Covered(t) /\ Settled(t, time) /\ Held(t)
  BY <1>2 DEF Good, Conserved, Covered, Funds, Settled, Held, ListedDecided
<1>4. \A p, q : Below(s, p, q) => Below(t, p, q)
  BY <1>2 DEF Below, Closed, Executes
<1>5. Effects(t)
  BY <1>2, <1>4 DEF Effects
<1> QED BY <1>2, <1>3, <1>5 DEF Good, t

(* The state of the invariant, by what it is used for.                     *)
LEMMA InvFacts ==
    ASSUME ContractsInv
    PROVE  /\ now \in Nat /\ Good(db, now) /\ Effects(db) /\ keys \subseteq Users
           /\ frames \in Seq(FrameType) /\ Good(Begun, now) /\ Effects(Begun)
<1>1. /\ now \in Nat /\ Good(db, now) /\ Effects(db) /\ keys \subseteq Users
      /\ frames \in Seq(FrameType)
  BY DEF ContractsInv, Stack
<1> QED BY <1>1, BegunGood DEF Begun

(* A state that no frame is under way in.                                  *)
LEMMA StackEmpty ==
    ASSUME NEW x, NEW K, NEW time, Good(x, time), Effects(x), K \subseteq Users
    PROVE  Stack(<<>>, x, K, time)
<1>1. <<>> \in Seq(FrameType) /\ Len(<<>>) = 0 /\ 1..0 - 1 = {}
  OBVIOUS
<1> QED BY <1>1 DEF Stack

(* What a step that sends in a transaction of one action shows.            *)
LEMMA ActPushed ==
    ASSUME ContractsInv, NEW a \in Actions, a.name # "execsuspend", NEW signed, signed \subseteq Users,
           Satisfied(Begun, signed, a), Becomes(Apply(Begun, signed, a), signed)
    PROVE  ContractsInv' /\ Allowed(Committed, Committed', keys')
<1>1. /\ frames = <<>> /\ frames' = <<>> /\ now' = now /\ keys' = signed
      /\ db' \in Apply(Begun, signed, a)
  BY DEF Becomes
<1>2. now \in Nat /\ Good(Begun, now) /\ Effects(Begun)
  BY InvFacts
<1>3. Good(db', now) /\ Reach(Begun, db', signed)
  BY <1>1, <1>2, ActOuter
<1>4. Begun \in State /\ db' \in State /\ Known(Begun, a)
  BY <1>2, <1>3 DEF Good, Satisfied
<1>5. /\ db'.ran = Begun.ran /\ SuspendsKept(Begun, db')
      /\ \A p \in DOMAIN db'.suspends \ DOMAIN Begun.suspends : db'.suspends[p].status = "proposed"
      /\ \A p \in DOMAIN Begun.suspends :
           db'.suspends[p].status = "executed" <=> Begun.suspends[p].status = "executed"
  BY <1>1, <1>4, ApplySuspends
<1>6. Effects(db')
  BY <1>2, <1>4, <1>5, EffectsStep
<1>7. Stack(<<>>, db', signed, now)
  BY <1>3, <1>6, StackEmpty
<1>8. Committed = db /\ Committed' = db'
  BY <1>1 DEF Committed
<1> QED BY <1>1, <1>2, <1>3, <1>7, <1>8 DEF ContractsInv, Allowed, Begun

(* A transaction of one action with the keys that it needs.                *)
LEMMA PushStep ==
    ASSUME ContractsInv, NEW a \in Actions, a.name # "execsuspend", Push(a)
    PROVE  ContractsInv' /\ Allowed(Committed, Committed', keys')
<1>1. /\ Known(Begun, a) /\ Needed(Begun, a) \subseteq Users
      /\ Becomes(Apply(Begun, Needed(Begun, a), a), Needed(Begun, a))
  BY DEF Push
<1>2. Satisfied(Begun, Needed(Begun, a), a)
  BY <1>1 DEF Satisfied
<1> QED BY <1>1, <1>2, ActPushed

(* The innermost frame.                                                    *)
LEMMA TopFacts ==
    ASSUME ContractsInv, frames # <<>>
    PROVE  /\ frames \in Seq(FrameType) /\ Len(frames) \in Nat \ {0}
           /\ Top \in FrameType /\ Within(Top, db, keys, now)
<1>1. frames \in Seq(FrameType) /\ Len(frames) \in Nat \ {0}
  BY DEF ContractsInv, Stack
<1> QED BY <1>1 DEF ContractsInv, Stack, Top

(* A frame is like itself and like the one with its first action done.     *)
LEMMA AlikeFacts ==
    ASSUME NEW f \in FrameType
    PROVE  /\ Alike(f, f)
           /\ f.acts # <<>> => /\ Head(f.acts) \in Range(f.acts) /\ Head(f.acts) \in Actions
                               /\ Alike(f, [f EXCEPT !.acts = Tail(@)])
<1>1. f.acts \in Seq(Actions)
  BY DEF FrameType
<1>2. Alike(f, f)
  BY DEF Alike
<1>3. ASSUME f.acts # <<>>
      PROVE  /\ Head(f.acts) \in Range(f.acts) /\ Head(f.acts) \in Actions
             /\ Alike(f, [f EXCEPT !.acts = Tail(@)])
  <2> DEFINE s == f.acts
             t == Tail(s)
             g == [f EXCEPT !.acts = t]
  <2>1. /\ Len(s) \in Nat /\ Len(s) # 0 /\ Head(s) = s[1] /\ t \in Seq(Actions) /\ DOMAIN s = 1..Len(s)
        /\ Len(t) = Len(s) - 1 /\ DOMAIN t = 1..Len(t) /\ \A i \in 1..Len(t) : t[i] = s[i + 1]
    <3> HIDE DEF s
    <3>1. s \in Seq(Actions) /\ s # <<>>
      BY <1>1, <1>3 DEF s
    <3> QED BY <3>1, HeadTailProperties, LenProperties
  <2>2. 1 \in DOMAIN s
    BY <2>1
  <2>3. Head(s) \in Range(s) /\ Head(s) \in Actions
    BY <1>1, <2>1, <2>2 DEF Range
  <2>4. Range(t) \subseteq Range(s)
    <3> SUFFICES ASSUME NEW i \in DOMAIN t PROVE t[i] \in Range(s)
      BY DEF Range
    <3>1. t[i] = s[i + 1] /\ i + 1 \in DOMAIN s
      BY <2>1
    <3> QED BY <3>1 DEF Range
  <2> HIDE DEF t
  <2>5. g \in FrameType /\ g.name = f.name /\ g.before = f.before /\ g.acts = t
    BY <2>1 DEF FrameType
  <2> QED BY <2>3, <2>4, <2>5 DEF Alike, t
<1> QED BY <1>2, <1>3

(* The frames with the next action of the innermost one taken out.         *)
LEMMA ProceedFacts ==
    ASSUME ContractsInv, Running
    PROVE  /\ Proceed \in Seq(FrameType) /\ Len(Proceed) = Len(frames)
           /\ \A i \in 1..Len(frames) : Alike(frames[i], Proceed[i])
           /\ Act \in Range(Top.acts) /\ Act \in Actions
<1> DEFINE n == Len(frames)
           g == [Top EXCEPT !.acts = Tail(@)]
<1>1. /\ frames # <<>> /\ Top.acts # <<>> /\ frames \in Seq(FrameType) /\ n \in 1..n /\ Top \in FrameType
      /\ n \in Nat
  BY TopFacts DEF Running
<1>2. Alike(Top, g) /\ Act \in Range(Top.acts) /\ Act \in Actions /\ g \in FrameType
  BY <1>1, AlikeFacts DEF Act, Alike
<1>3. Proceed = [frames EXCEPT ![n] = g]
  BY <1>1 DEF Proceed, Top
<1> HIDE DEF g
<1>4. /\ Proceed \in Seq(FrameType) /\ Len(Proceed) = n
      /\ \A i \in 1..n : Proceed[i] = IF i = n THEN g ELSE frames[i]
  BY <1>1, <1>2, <1>3, ExceptSeq
<1>5. ASSUME NEW i \in 1..n PROVE Alike(frames[i], Proceed[i])
  <2>1. frames[i] \in FrameType
    BY <1>1
  <2> QED BY <1>2, <1>4, <2>1, AlikeFacts DEF Top
<1> QED BY <1>2, <1>4, <1>5

(* The frames around the innermost one, with other marks.                  *)
LEMMA AroundFacts ==
    ASSUME ContractsInv, frames # <<>>, NEW undone, NEW wrote \in SUBSET Proposals
    PROVE  LET gs == Around(undone, wrote)
           IN /\ gs \in Seq(FrameType) /\ Len(gs) = Len(frames) - 1
              /\ \A i \in 1..Len(gs) : Alike(frames[i], gs[i])
<1> DEFINE n == Len(frames)
           gs == Around(undone, wrote)
<1>1. frames \in Seq(FrameType) /\ n \in Nat \ {0}
  BY TopFacts
<1>2. ASSUME NEW i \in 1..n - 1 PROVE gs[i] \in FrameType /\ Alike(frames[i], gs[i])
  <2> DEFINE f == frames[i]
             w == IF i = n - 1 THEN f.written \cup wrote ELSE f.written
             b == f.lost \/ f.name \in undone
  <2>1. f \in FrameType
    BY <1>1
  <2>2. w \in SUBSET Proposals /\ b \in BOOLEAN /\ f.thrown \in BOOLEAN
    BY <2>1 DEF FrameType
  <2>3. gs[i] = [f EXCEPT !.written = w, !.lost = b, !.thrown = f.thrown]
    BY <2>1 DEF Around, FrameType
  <2> HIDE DEF f, w, b, gs
  <2>4. Alike(f, gs[i])
    BY <2>1, <2>2, <2>3 DEF Alike, FrameType
  <2> QED BY <2>4 DEF Alike, f
<1>3. n - 1 \in Nat /\ DOMAIN gs = 1..n - 1 /\ gs = [i \in 1..n - 1 |-> gs[i]]
  BY <1>1 DEF Around
<1> HIDE DEF gs
<1>4. gs \in [1..n - 1 -> FrameType]
  BY <1>2, <1>3
<1>5. gs \in Seq(FrameType) /\ Len(gs) = n - 1
  BY <1>3, <1>4
<1> QED BY <1>2, <1>5 DEF gs

(* The innermost frame ends in the state y, with the keys K.               *)
LEMMA PopStep ==
    ASSUME ContractsInv, frames # <<>>, NEW y, NEW K, NEW gs \in Seq(FrameType),
           Len(gs) = Len(frames) - 1, \A i \in 1..Len(gs) : Alike(frames[i], gs[i]),
           frames' = gs, db' = y, keys' = K, now' = now,
           Top.before.keys \subseteq K, Here(Top.before.db, y, K, now), Effects(y),
           \A q \in Proposals : y.ran[q] # Top.before.db.ran[q] => q = Top.name \/ Below(y, Top.name, q)
    PROVE  ContractsInv' /\ Allowed(Committed, Committed', keys')
<1> DEFINE n == Len(frames)
<1>1. /\ frames \in Seq(FrameType) /\ n \in Nat \ {0} /\ Top = frames[n] /\ now \in Nat
      /\ Within(Top, db, keys, now) /\ Stack(frames, db, keys, now)
  BY TopFacts DEF Top, ContractsInv
<1>2. Good(y, now) /\ K \subseteq Users
  BY DEF Here
<1>3. ASSUME gs # <<>> PROVE Within(frames[Len(gs)], y, K, now)
  <2>1. n - 1 \in 1..n - 1 /\ (n - 1) + 1 = n
    BY <1>1, <1>3, EmptySeq
  <2>2. /\ Within(frames[n - 1], Top.before.db, Top.before.keys, now)
        /\ Top.name \in Executes(frames[n - 1].before.db, frames[n - 1].name)
    BY <1>1, <2>1 DEF Stack
  <2>3. Top.name \in DOMAIN Top.before.db.suspends
    BY <1>1 DEF Within
  <2> QED BY <2>2, <2>3, WithinEnd
<1>4. Len(gs) <= n
  BY <1>1
<1>5. Stack(gs, y, K, now)
  BY <1>1, <1>2, <1>3, <1>4, StackCut
<1>6. ContractsInv'
  BY <1>1, <1>5 DEF ContractsInv
<1>7. CASE gs = <<>>
  <2>1. n = 1
    BY <1>1, <1>7
  <2>2. Committed = Top.before.db /\ Committed' = y
    BY <1>1, <1>7, <2>1 DEF Committed
  <2>3. Reach(Top.before.db, y, K)
    BY DEF Here
  <2> QED BY <1>6, <2>2, <2>3 DEF Allowed
<1>8. CASE gs # <<>>
  <2>1. 1 \in 1..Len(gs)
    BY <1>8, EmptySeq
  <2>2. gs[1].before = frames[1].before
    BY <2>1 DEF Alike
  <2>3. Committed' = Committed
    BY <1>8, <2>2 DEF Committed
  <2> QED BY <1>6, <2>3 DEF Allowed
<1> QED BY <1>7, <1>8

(* The frames keep what was committed when the transaction began.          *)
LEMMA CommittedKept ==
    ASSUME ContractsInv, frames # <<>>, frames' \in Seq(FrameType), Len(frames') >= Len(frames),
           Alike(frames[1], frames'[1])
    PROVE  Committed' = Committed
<1>1. Len(frames) \in Nat \ {0} /\ Len(frames') \in Nat
  BY TopFacts
<1>2. frames' # <<>>
  BY <1>1
<1> QED BY <1>2 DEF Committed, Alike

(* RunAction keeps the invariant.                                          *)
LEMMA RunActionStep ==
    ASSUME ContractsInv, RunAction
    PROVE  ContractsInv' /\ Allowed(Committed, Committed', keys')
<1> DEFINE n == Len(frames)
           w == Proceed[n].written \cup Writes(Act)
           g == [Proceed[n] EXCEPT !.written = w]
<1>1. /\ Running /\ Act.name # "execsuspend" /\ db' \in Apply(db, {}, Act)
      /\ frames' = [Proceed EXCEPT ![n].written = @ \cup Writes(Act)] /\ now' = now /\ keys' = keys
  BY DEF RunAction
<1>2. /\ frames # <<>> /\ frames \in Seq(FrameType) /\ n \in Nat \ {0} /\ Top \in FrameType
      /\ Within(Top, db, keys, now) /\ n \in 1..n /\ 1 \in 1..n /\ Top = frames[n]
  BY <1>1, TopFacts DEF Running, Top
<1>3. /\ Proceed \in Seq(FrameType) /\ Len(Proceed) = n
      /\ \A i \in 1..n : Alike(frames[i], Proceed[i])
      /\ Act \in Range(Top.acts) /\ Act \in Actions
  BY <1>1, ProceedFacts
<1>4. now \in Nat /\ keys \subseteq Users /\ Stack(frames, db, keys, now)
  BY InvFacts DEF ContractsInv
<1>5. Within(Top, db', keys, now) /\ Good(db', now) /\ Effects(db')
  BY <1>1, <1>2, <1>3, <1>4, WithinAct
<1>6. Proceed[n] \in FrameType
  BY <1>2, <1>3
<1>7. w \in SUBSET Proposals
  <2>1. Writes(Act) \subseteq Proposals
    BY <1>3 DEF Writes, Actions
  <2> QED BY <1>6, <2>1 DEF FrameType
<1>8. frames' = [Proceed EXCEPT ![n] = g]
  BY <1>1, <1>2, <1>3
<1> HIDE DEF w
<1>9. Alike(Proceed[n], g) /\ g \in FrameType
  BY <1>6, <1>7 DEF Alike, FrameType
<1> HIDE DEF g
<1>10. /\ frames' \in Seq(FrameType) /\ Len(frames') = n
       /\ \A i \in 1..n : frames'[i] = IF i = n THEN g ELSE Proceed[i]
  BY <1>2, <1>3, <1>8, <1>9, ExceptSeq
<1>11. \A i \in 1..n : Alike(frames[i], frames'[i])
  BY <1>2, <1>3, <1>9, <1>10 DEF Alike
<1>12. Stack(frames', db', keys, now)
  <2> DEFINE gs == frames'
             x == db'
  <2>1. /\ gs \in Seq(FrameType) /\ Len(gs) <= Len(frames) /\ \A i \in 1..Len(gs) : Alike(frames[i], gs[i])
        /\ Good(x, now) /\ Effects(x) /\ Within(frames[Len(gs)], x, keys, now)
    BY <1>2, <1>5, <1>10, <1>11
  <2> HIDE DEF gs, x
  <2>2. Stack(gs, x, keys, now)
    BY <1>4, <2>1, StackCut
  <2> QED BY <2>2 DEF gs, x
<1>13. Committed' = Committed
  BY <1>2, <1>10, <1>11, CommittedKept
<1> QED BY <1>1, <1>4, <1>12, <1>13 DEF ContractsInv, Allowed

(* RunExecsuspend keeps the invariant.                                     *)
LEMMA RunExecsuspendStep ==
    ASSUME ContractsInv, RunExecsuspend
    PROVE  ContractsInv' /\ Allowed(Committed, Committed', keys')
<1> DEFINE n == Len(frames)
           p == Act.proposal
           f == Frame(db, keys, p)
           K == keys \cup db.suspends[p].signed
<1>1. /\ Running /\ Act.name = "execsuspend" /\ Executable(db, p, Act.executor)
      /\ frames' = Append(Proceed, f) /\ keys' = K /\ db' = db /\ now' = now
  BY DEF RunExecsuspend
<1>2. /\ frames # <<>> /\ n \in Nat \ {0} /\ n \in 1..n /\ 1 \in 1..n /\ Top = frames[n]
      /\ Within(Top, db, keys, now)
  BY <1>1, TopFacts DEF Running, Top
<1>3. /\ Proceed \in Seq(FrameType) /\ Len(Proceed) = n
      /\ \A i \in 1..n : Alike(frames[i], Proceed[i])
      /\ Act \in Range(Top.acts)
  BY <1>1, ProceedFacts
<1>4. /\ now \in Nat /\ keys \subseteq Users /\ Good(db, now) /\ Effects(db)
      /\ Stack(frames, db, keys, now)
  BY InvFacts DEF ContractsInv
<1>5. Stack(Proceed, db, keys, now)
  <2>1. Proceed # <<>>
    BY <1>2, <1>3
  <2>2. Within(frames[Len(Proceed)], db, keys, now) /\ Len(Proceed) <= Len(frames)
    BY <1>2, <1>3
  <2>3. \A i \in 1..Len(Proceed) : Alike(frames[i], Proceed[i])
    BY <1>3
  <2> DEFINE gs == Proceed
  <2> HIDE DEF gs
  <2> QED BY <1>3, <1>4, <2>2, <2>3, StackCut
<1>6. /\ f \in FrameType /\ f.name = p /\ f.before = [db |-> db, keys |-> keys]
      /\ K \subseteq Users /\ Within(f, db, K, now)
  BY <1>1, <1>4, WithinBegin
<1>7. p \in Executes(Top.before.db, Top.name)
  <2>1. Act \in Range(Top.before.db.suspends[Top.name].trx.acts)
    BY <1>2, <1>3 DEF Within
  <2> QED BY <1>1, <2>1 DEF Executes
<1>8. Alike(Top, Proceed[n])
  BY <1>2, <1>3
<1> HIDE DEF f, K
<1>9. Stack(Append(Proceed, f), db, K, now)
  <2>1. f.name \in Executes(Proceed[Len(Proceed)].before.db, Proceed[Len(Proceed)].name)
    BY <1>3, <1>6, <1>7, <1>8 DEF Alike
  <2> QED BY <1>5, <1>6, <2>1, StackPush
<1>10. frames' \in Seq(FrameType) /\ Len(frames') = n + 1 /\ frames'[1] = Proceed[1]
  BY <1>1, <1>2, <1>3, <1>6, AppendProperties
<1>11. Committed' = Committed
  BY <1>2, <1>3, <1>10, CommittedKept
<1> QED BY <1>1, <1>4, <1>9, <1>11 DEF ContractsInv, Allowed

(* PushExecsuspend keeps the invariant.                                    *)
LEMMA PushExecsuspendStep ==
    ASSUME ContractsInv, PushExecsuspend
    PROVE  ContractsInv' /\ Allowed(Committed, Committed', keys')
<1>1. PICK p \in DOMAIN db.suspends, u \in Users :
         /\ frames = <<>> /\ Executable(Begun, p, u)
         /\ db' = Begun /\ keys' = {u} \cup db.suspends[p].signed
         /\ frames' = <<Frame(Begun, {u}, p)>> /\ now' = now
  BY DEF PushExecsuspend
<1> DEFINE f == Frame(Begun, {u}, p)
           K == {u} \cup Begun.suspends[p].signed
<1>2. now \in Nat /\ Good(Begun, now) /\ Effects(Begun) /\ Good(db, now)
  BY InvFacts
<1>3. /\ f \in FrameType /\ f.name = p /\ f.before = [db |-> Begun, keys |-> {u}]
      /\ K \subseteq Users /\ Within(f, Begun, K, now)
  BY <1>1, <1>2, WithinBegin
<1>4. K = keys'
  <2>1. Begun.suspends = db.suspends
    BY <1>2 DEF Begun, Good, State
  <2> QED BY <1>1, <2>1
<1> HIDE DEF f, K
<1>5. Stack(<<>>, Begun, {u}, now)
  BY <1>2, StackEmpty
<1>6. Stack(Append(<<>>, f), Begun, K, now)
  BY <1>3, <1>5, StackPush
<1>7. Append(<<>>, f) = <<f>> /\ <<f>> # <<>> /\ <<f>>[1] = f
  OBVIOUS
<1>8. ContractsInv'
  BY <1>1, <1>2, <1>4, <1>6, <1>7 DEF ContractsInv, f
<1>9. Committed = db /\ Committed' = Begun
  <2>1. Committed' = f.before.db
    BY <1>1, <1>7 DEF Committed, f
  <2> QED BY <1>1, <1>3, <2>1 DEF Committed
<1> QED BY <1>8, <1>9 DEF Allowed, Begun

(* The end of execsuspend keeps the invariant: executed, failed, or not    *)
(* written at all.                                                         *)
LEMMA EndStep ==
    ASSUME ContractsInv, Executed \/ Failed \/ WriteThrows
    PROVE  ContractsInv' /\ Allowed(Committed, Committed', keys')
<1> DEFINE n == Len(frames)
           f == Top
           s == f.before.db
<1>0. frames # <<>>
  BY DEF Executed, Failed, WriteThrows, Finished, Throws
<1>1. /\ frames \in Seq(FrameType) /\ n \in Nat \ {0} /\ f \in FrameType /\ Within(f, db, keys, now)
  BY <1>0, TopFacts
<1>2. /\ Here(s, db, keys, now) /\ f.before.keys \subseteq keys /\ Effects(s) /\ Effects(db)
      /\ RanBelow(s, db, f.name) /\ f.name \in DOMAIN s.suspends
      /\ s.suspends[f.name].status = "proposed" /\ RanBelow(s, s, f.name)
  BY <1>1 DEF Within, RanBelow
<1>3. f.name \in Proposals /\ f.written \subseteq Proposals /\ f.before.keys \subseteq Users
  BY <1>1 DEF FrameType
<1>4. Good(s, now) /\ Here(s, s, f.before.keys, now)
  BY <1>2, <1>3, HereSame DEF Here
<1>5. CASE Executed
  <2> DEFINE y == [db EXCEPT !.suspends[f.name].status = "executed", !.ran[f.name] = @ + 1]
             gs == Around({}, f.written \cup {f.name})
  <2>1. db' = y /\ frames' = gs /\ keys' = keys /\ now' = now
    BY <1>5 DEF Executed
  <2>2. /\ gs \in Seq(FrameType) /\ Len(gs) = n - 1 /\ \A i \in 1..Len(gs) : Alike(frames[i], gs[i])
    BY <1>0, <1>3, AroundFacts
  <2>3. /\ Here(s, y, keys, now) /\ Effects(y)
        /\ \A q \in Proposals : y.ran[q] # s.ran[q] => q = f.name \/ Below(y, f.name, q)
    <3>1. y = Outcome(db, f.name, "executed")
      BY DEF Outcome
    <3> HIDE DEF y
    <3> QED BY <1>1, <1>2, <3>1, WithinOutcome
  <2> HIDE DEF y, gs
  <2> QED BY <1>0, <1>2, <2>1, <2>2, <2>3, PopStep
<1>6. CASE Failed
  <2> DEFINE y == [s EXCEPT !.suspends[f.name].status = "failed"]
             gs == Around(f.written, {f.name})
             K == f.before.keys
  <2>1. db' = y /\ frames' = gs /\ keys' = K /\ now' = now
    BY <1>6 DEF Failed
  <2>2. /\ gs \in Seq(FrameType) /\ Len(gs) = n - 1 /\ \A i \in 1..Len(gs) : Alike(frames[i], gs[i])
    BY <1>0, <1>3, AroundFacts
  <2>3. /\ Here(s, y, K, now) /\ Effects(y)
        /\ \A q \in Proposals : y.ran[q] # s.ran[q] => q = f.name \/ Below(y, f.name, q)
    <3>1. y = Outcome(s, f.name, "failed")
      BY DEF Outcome
    <3> HIDE DEF y
    <3> QED BY <1>1, <1>2, <1>4, <3>1, WithinOutcome
  <2> HIDE DEF y, gs
  <2> QED BY <1>0, <2>1, <2>2, <2>3, PopStep
<1>7. CASE WriteThrows /\ n = 1
  <2>1. db' = s /\ frames' = <<>> /\ keys' = f.before.keys /\ now' = now
    BY <1>7 DEF WriteThrows
  <2> DEFINE gs == <<>>
  <2>2. /\ gs \in Seq(FrameType) /\ Len(gs) = n - 1 /\ \A i \in 1..Len(gs) : Alike(frames[i], gs[i])
    BY <1>7
  <2> HIDE DEF gs
  <2>3. \A q \in Proposals : s.ran[q] # s.ran[q] => q = f.name \/ Below(s, f.name, q)
    OBVIOUS
  <2>4. frames' = gs
    BY <2>1 DEF gs
  <2> QED BY <1>0, <1>2, <1>4, <2>1, <2>2, <2>3, <2>4, PopStep
<1>8. CASE WriteThrows /\ n # 1
  <2> DEFINE hs == IF Throws THEN Around(f.written, {}) ELSE Around({}, f.written)
             h == [hs[n - 1] EXCEPT !.thrown = TRUE]
             gs == [hs EXCEPT ![n - 1] = h]
  <2>1. /\ frames' = [hs EXCEPT ![n - 1].thrown = TRUE]
        /\ db' = db /\ keys' = keys /\ now' = now
    BY <1>8 DEF WriteThrows
  <2>2. /\ hs \in Seq(FrameType) /\ Len(hs) = n - 1 /\ \A i \in 1..Len(hs) : Alike(frames[i], hs[i])
    <3>1. {} \in SUBSET Proposals
      OBVIOUS
    <3> QED BY <1>0, <1>3, <3>1, AroundFacts
  <2>3. n - 1 \in 1..Len(hs)
    <3>1. \A k \in Nat : k # 0 /\ k # 1 => k - 1 \in 1..k - 1
      OBVIOUS
    <3> HIDE DEF n, hs
    <3> QED BY <1>1, <1>8, <2>2, <3>1
  <2> HIDE DEF hs
  <2>4. frames' = gs
    BY <2>1, <2>2, <2>3
  <2>5. hs[n - 1] \in FrameType
    BY <2>2, <2>3
  <2>6. h \in FrameType /\ Alike(hs[n - 1], h)
    BY <2>5 DEF FrameType, Alike
  <2> HIDE DEF h
  <2>7. /\ gs \in Seq(FrameType) /\ Len(gs) = n - 1
        /\ \A i \in 1..Len(hs) : gs[i] = IF i = n - 1 THEN h ELSE hs[i]
    BY <2>2, <2>3, <2>6, ExceptSeq
  <2> HIDE DEF gs
  <2>8. \A i \in 1..Len(gs) : Alike(frames[i], gs[i])
    BY <2>2, <2>3, <2>6, <2>7 DEF Alike
  <2>9. \A q \in Proposals : db.ran[q] # s.ran[q] => q = f.name \/ Below(db, f.name, q)
    BY <1>2 DEF RanBelow
  <2> QED BY <1>0, <1>2, <2>1, <2>4, <2>7, <2>8, <2>9, PopStep
<1> QED BY <1>5, <1>6, <1>7, <1>8

(* The invariant holds at the start.                                       *)
LEMMA InitGood ==
    ASSUME Init
    PROVE  ContractsInv
<1> DEFINE b == [a \in Addresses |-> IF a \in Users THEN Issued[a] ELSE 0]
           none == [l \in Locks |-> 0]
           never == [p \in Proposals |-> 0]
<1>1. /\ db = [balance |-> b, owner |-> [t \in Tokens |-> {CHOOSE u \in Users : TRUE}],
              locks |-> <<>>, suspends |-> <<>>, paid |-> none, ran |-> never, freed |-> {}]
      /\ now = 1 /\ keys = {} /\ frames = <<>>
  BY DEF Init
<1>2. Issued \in [Users -> Nat] /\ Users # {} /\ IsFiniteSet(Users) /\ IsFiniteSet(Locks)
  BY ContractsAssumption
<1>3. b \in Balances
  BY <1>2, Distinct DEF Balances
<1>4. [t \in Tokens |-> {CHOOSE u \in Users : TRUE}] \in OwnerMaps
  BY <1>2, Distinct DEF OwnerMaps
<1>5. <<>> \in LockMaps /\ <<>> \in SuspendMaps
  <2>1. \A D, R : <<>> \in PartialMaps(D, R)
    <3> SUFFICES ASSUME NEW D, NEW R PROVE <<>> \in PartialMaps(D, R)
      OBVIOUS
    <3>1. {} \in SUBSET D /\ <<>> \in [{} -> R]
      OBVIOUS
    <3> QED BY <3>1 DEF PartialMaps
  <2> QED BY <2>1 DEF LockMaps, SuspendMaps
<1>6. none \in PaidMaps /\ never \in RanMaps
  BY DEF PaidMaps, RanMaps
<1>7. db \in State
  <2> HIDE DEF b, none, never
  <2> QED BY <1>1, <1>3, <1>4, <1>5, <1>6 DEF State
<1>8. /\ db.balance = b /\ db.paid = none /\ db.locks = <<>> /\ DOMAIN db.locks = {}
      /\ DOMAIN db.suspends = {} /\ db.ran = never
  BY <1>1
<1>9. Conserved(db)
  <2>1. SumFunctionOnSet(b, Addresses) = SumFunctionOnSet(b, Users) + SumFunctionOnSet(b, Addresses \ Users)
    <3>1. \A x \in Addresses : b[x] \in Int
      BY <1>3 DEF Balances
    <3> HIDE DEF b
    <3> QED BY <3>1, Distinct, SumSplit
  <2>2. SumFunctionOnSet(b, Users) = SumFunctionOnSet(Issued, Users)
    <3>1. \A x \in Users : Issued[x] \in Int /\ b[x] = Issued[x]
      BY <1>2, Distinct
    <3> HIDE DEF b
    <3> QED BY <1>2, <3>1, SumSame
  <2>3. SumFunctionOnSet(b, Addresses \ Users) = 0
    <3>1. IsFiniteSet(Addresses \ Users) /\ \A x \in Addresses \ Users : b[x] = 0
      BY Distinct, FS_Subset
    <3> HIDE DEF b
    <3> QED BY <3>1, SumZero
  <2>4. SumFunctionOnSet(Issued, Users) \in Int
    BY <1>2, SumInt
  <2>5. DOMAIN b = Addresses /\ DOMAIN Issued = Users
    BY <1>2
  <2> HIDE DEF b
  <2> QED BY <1>8, <2>1, <2>2, <2>3, <2>4, <2>5 DEF Conserved, Total, SumFunction
<1>10. Covered(db)
  <2>1. b[LockAddr] = 0
    BY Distinct
  <2>2. DOMAIN Funds(db) = {}
    BY <1>8 DEF Funds
  <2> HIDE DEF b
  <2> QED BY <1>8, <2>1, <2>2, SumEmpty DEF Covered, Total, SumFunction
<1>11. Settled(db, now)
  BY <1>8 DEF Settled
<1>12. Held(db)
  BY <1>8 DEF Held
<1>13. Good(db, now)
  BY <1>7, <1>9, <1>10, <1>11, <1>12 DEF Good
<1>14. Effects(db)
  BY <1>8 DEF Effects
<1>15. Stack(<<>>, db, {}, now)
  BY <1>13, <1>14, StackEmpty
<1> QED BY <1>1, <1>15 DEF ContractsInv

(* The next block keeps the invariant.                                     *)
LEMMA TickStep ==
    ASSUME ContractsInv, Tick
    PROVE  ContractsInv' /\ Allowed(Committed, Committed', keys')
<1>1. frames = <<>> /\ frames' = <<>> /\ now' = now + 1 /\ db' = db /\ keys' = keys
  BY DEF Tick
<1>2. now \in Nat /\ Good(db, now) /\ Effects(db) /\ keys \subseteq Users
  BY InvFacts
<1>3. Settled(db, now + 1)
  <2> SUFFICES ASSUME NEW l \in DOMAIN db.locks, db.locks[l].status # "proposed",
                      db.locks[l].def.unlock < now
               PROVE  db.locks[l].def.unlock < now + 1
    BY <1>2 DEF Good, Settled, SettledLock
  <2>1. db.locks[l] \in Lock
    BY <1>2, StateFacts DEF Good
  <2>2. db.locks[l].def.unlock \in Nat
    BY <2>1, LockFacts, DefFacts
  <2> QED BY <1>2, <2>2
<1>4. Good(db, now + 1)
  BY <1>2, <1>3 DEF Good
<1>5. Stack(<<>>, db, keys, now + 1)
  BY <1>2, <1>4, StackEmpty
<1>6. Committed' = Committed
  BY <1>1 DEF Committed
<1> QED BY <1>1, <1>2, <1>5, <1>6 DEF ContractsInv, Allowed

(* Every step keeps the invariant, and what it commits is allowed by the   *)
(* keys behind it.                                                         *)
LEMMA ContractsStep ==
    ASSUME ContractsInv, Next
    PROVE  ContractsInv' /\ Allowed(Committed, Committed', keys')
<1>0. Amounts \subseteq Nat /\ Offers \subseteq Proposals \X Trxs
  BY ContractsAssumption, ContentsAssumption
<1>1. CASE PushTransfer
  <2>1. PICK t \in Tokens, u \in Users : Push([name |-> "transfer", token |-> t, to |-> {u}])
    BY <1>1 DEF PushTransfer
  <2>2. [name |-> "transfer", token |-> t, to |-> {u}] \in Actions
    BY DEF Actions, Receivers
  <2> QED BY <2>1, <2>2, PushStep
<1>2. CASE PushTransferft
  <2>1. PICK u \in Users, v \in Users, n \in Amounts :
           Push([name |-> "transferft", from |-> u, to |-> v, amount |-> n])
    BY <1>2 DEF PushTransferft
  <2>2. [name |-> "transferft", from |-> u, to |-> v, amount |-> n] \in Actions
    BY <1>0 DEF Actions, Receivers
  <2> QED BY <2>1, <2>2, PushStep
<1>3. CASE PushIssuefungible
  <2>1. PICK u \in Users, n \in Amounts : Push([name |-> "issuefungible", to |-> u, amount |-> n])
    BY <1>3 DEF PushIssuefungible
  <2>2. [name |-> "issuefungible", to |-> u, amount |-> n] \in Actions
    BY <1>0 DEF Actions
  <2> QED BY <2>1, <2>2, PushStep
<1>4. CASE PushRecycleft
  <2>1. PICK u \in Users, n \in Amounts : Push([name |-> "recycleft", from |-> u, amount |-> n])
    BY <1>4 DEF PushRecycleft
  <2>2. [name |-> "recycleft", from |-> u, amount |-> n] \in Actions
    BY <1>0 DEF Actions
  <2> QED BY <2>1, <2>2, PushStep
<1>5. CASE PushDestroyft
  <2>1. PICK u \in Users, n \in Amounts : Push([name |-> "destroyft", from |-> u, amount |-> n])
    BY <1>5 DEF PushDestroyft
  <2>2. [name |-> "destroyft", from |-> u, amount |-> n] \in Actions
    BY <1>0 DEF Actions
  <2> QED BY <2>1, <2>2, PushStep
<1>6. CASE PushNewlock
  <2>1. PICK l \in Locks, d \in LockDefs, signed \in SUBSET Users : \E u \in signed :
           Becomes(Apply(Begun, signed, [name |-> "newlock", from |-> u, lock |-> l, def |-> d]), signed)
    BY <1>6 DEF PushNewlock
  <2>2. PICK u \in signed :
           Becomes(Apply(Begun, signed, [name |-> "newlock", from |-> u, lock |-> l, def |-> d]), signed)
    BY <2>1
  <2> DEFINE a == [name |-> "newlock", from |-> u, lock |-> l, def |-> d]
  <2>3. a \in Actions /\ a.name = "newlock" /\ a.from = u
    BY DEF Actions
  <2>4. Becomes(Apply(Begun, signed, a), signed)
    BY <2>2
  <2> HIDE DEF a
  <2>5. Satisfied(Begun, signed, a)
    BY <2>3 DEF Satisfied, Known, Needed
  <2> QED BY <2>3, <2>4, <2>5, ActPushed
<1>7. CASE PushAprvlock
  <2>1. PICK l \in Locks, u \in Users : Push([name |-> "aprvlock", lock |-> l, from |-> u])
    BY <1>7 DEF PushAprvlock
  <2>2. [name |-> "aprvlock", lock |-> l, from |-> u] \in Actions
    BY DEF Actions
  <2> QED BY <2>1, <2>2, PushStep
<1>8. CASE PushTryunlock
  <2>1. PICK l \in Locks, u \in Users : Push([name |-> "tryunlock", lock |-> l, from |-> u])
    BY <1>8 DEF PushTryunlock
  <2>2. [name |-> "tryunlock", lock |-> l, from |-> u] \in Actions
    BY DEF Actions
  <2> QED BY <2>1, <2>2, PushStep
<1>9. CASE PushCancelsuspend
  <2>1. PICK p \in Proposals : Push([name |-> "cancelsuspend", proposal |-> p])
    BY <1>9 DEF PushCancelsuspend
  <2>2. [name |-> "cancelsuspend", proposal |-> p] \in Actions
    BY DEF Actions
  <2> QED BY <2>1, <2>2, PushStep
<1>10. CASE PushNewsuspend
  <2>1. PICK o \in Offers, u \in Users :
           Push([name |-> "newsuspend", proposal |-> o[1], proposer |-> u, trx |-> o[2]])
    BY <1>10 DEF PushNewsuspend
  <2>2. o[1] \in Proposals /\ o[2] \in Trxs
    BY <1>0
  <2>3. [name |-> "newsuspend", proposal |-> o[1], proposer |-> u, trx |-> o[2]] \in Actions
    BY <2>2 DEF Actions
  <2> QED BY <2>1, <2>3, PushStep
<1>11. CASE PushAprvsuspend
  <2>1. PICK p \in Proposals, signed \in (SUBSET Users) \ {{}} :
           Becomes(Apply(Begun, signed, [name |-> "aprvsuspend", proposal |-> p, signed |-> signed]),
                   signed)
    BY <1>11 DEF PushAprvsuspend
  <2> DEFINE a == [name |-> "aprvsuspend", proposal |-> p, signed |-> signed]
  <2>2. a \in Actions /\ a.name = "aprvsuspend"
    BY DEF Actions
  <2>3. Becomes(Apply(Begun, signed, a), signed)
    BY <2>1
  <2> HIDE DEF a
  <2>4. Satisfied(Begun, signed, a)
    BY <2>2 DEF Satisfied, Known, Needed
  <2> QED BY <2>2, <2>3, <2>4, ActPushed
<1> QED BY <1>1, <1>2, <1>3, <1>4, <1>5, <1>6, <1>7, <1>8, <1>9, <1>10, <1>11, TickStep,
           PushExecsuspendStep, RunActionStep, RunExecsuspendStep, EndStep DEF Next

-----------------------------------------------------------------------------

(* The inductive invariant of the contracts: balances, locks, payments,    *)
(* tokens and suspended transactions agree in every reachable state, also  *)
(* inside suspended transactions that run each other (newlock, tryunlock,  *)
(* aprvlock, transfer, the fungible transfers and execsuspend).            *)
THEOREM ContractsSound == Spec => []ContractsInv
<1>1. ContractsInv /\ UNCHANGED vars => ContractsInv'
  BY DEF vars, ContractsInv
<1> QED BY <1>1, InitGood, ContractsStep, PTL DEF Spec

(* What all addresses hold stays the supply, through locks, charges and    *)
(* suspended transactions that succeed or fail (transfer_fungible).        *)
THEOREM SupplyKept == Spec => []SupplyConserved
<1>1. ContractsInv => SupplyConserved
  BY InvFacts DEF Good, Conserved, SupplyConserved
<1> QED BY <1>1, ContractsSound, PTL

(* The invariant implies LocksCovered: decided locks that were not paid    *)
(* twice were paid exactly once.                                           *)
LEMMA CoversOpen ==
    ASSUME ContractsInv
    PROVE  LocksCovered
<1> DEFINE D == DOMAIN db.locks
           f == Funds(db)
           g == [l \in Undecided |-> Total(db.locks[l].def.funds)]
<1> SUFFICES ASSUME PaidTwice = {}
             PROVE  db.balance[LockAddr] = Total(g)
  BY DEF LocksCovered
<1>1. db \in State /\ Covered(db) /\ Settled(db, now)
  BY InvFacts DEF Good
<1>2. D \subseteq Locks /\ IsFiniteSet(D) /\ Undecided \subseteq D
  BY <1>1, StateFacts, ContractsAssumption, FS_Subset DEF Undecided
<1>3. \A l \in D : f[l] = Total(db.locks[l].def.funds) /\ f[l] \in Nat /\ db.paid[l] \in Nat
  <2> SUFFICES ASSUME NEW l \in D
               PROVE  f[l] = Total(db.locks[l].def.funds) /\ f[l] \in Nat /\ db.paid[l] \in Nat
    OBVIOUS
  <2>1. f[l] = Total(db.locks[l].def.funds)
    BY DEF Funds
  <2>2. db.locks[l].def \in LockDefs
    BY <1>1, StateFacts, LockFacts
  <2>3. db.paid[l] \in Nat
    BY <1>1, <1>2, StateFacts DEF PaidMaps
  <2> QED BY <2>1, <2>2, <2>3, DefFacts
<1>4. \A l \in Undecided : db.paid[l] = 0 /\ g[l] = f[l]
  <2>1. \A l \in Undecided : db.paid[l] = 0
    BY <1>1, <1>2 DEF Settled, SettledLock, Undecided
  <2> QED BY <1>2, <1>3, <2>1
<1>5. \A l \in D \ Undecided : db.paid[l] = f[l]
  <2> SUFFICES ASSUME NEW l \in D \ Undecided PROVE db.paid[l] = f[l]
    OBVIOUS
  <2>1. db.paid[l] >= Total(db.locks[l].def.funds)
    BY <1>1 DEF Settled, SettledLock, Undecided
  <2>2. ~(db.paid[l] > Total(db.locks[l].def.funds))
    BY DEF PaidTwice
  <2> QED BY <1>3, <2>1, <2>2
<1>6. DOMAIN f = D /\ DOMAIN g = Undecided
  BY DEF Funds
<1>7. IsFiniteSet(Undecided) /\ IsFiniteSet(D \ Undecided)
  BY <1>2, FS_Subset
<1> DEFINE paid == db.paid
<1>8. SumFunctionOnSet(paid, Undecided) = 0
  BY <1>4, <1>7, SumZero
<1>9. SumFunctionOnSet(paid, D \ Undecided) = SumFunctionOnSet(f, D \ Undecided)
  <2>1. \A l \in D \ Undecided : f[l] \in Int /\ paid[l] = f[l]
    BY <1>3, <1>5
  <2> HIDE DEF f, D, paid
  <2> QED BY <1>7, <2>1, SumSame
<1>10. SumFunctionOnSet(g, Undecided) = SumFunctionOnSet(f, Undecided)
  <2>1. \A l \in Undecided : f[l] \in Int /\ g[l] = f[l]
    BY <1>2, <1>3, <1>4
  <2> HIDE DEF f, g
  <2> QED BY <1>7, <2>1, SumSame
<1>11. SumFunctionOnSet(paid, D) = SumFunctionOnSet(paid, Undecided) + SumFunctionOnSet(paid, D \ Undecided)
  <2>1. \A l \in D : paid[l] \in Int
    BY <1>3
  <2> HIDE DEF D, paid
  <2> QED BY <1>2, <2>1, SumSplit
<1>12. SumFunctionOnSet(f, D) = SumFunctionOnSet(f, Undecided) + SumFunctionOnSet(f, D \ Undecided)
  <2>1. \A l \in D : f[l] \in Int
    BY <1>3
  <2> HIDE DEF D, f
  <2> QED BY <1>2, <2>1, SumSplit
<1>13. SumFunctionOnSet(f, Undecided) \in Int /\ SumFunctionOnSet(f, D \ Undecided) \in Int
  <2>1. (\A l \in Undecided : f[l] \in Int) /\ \A l \in D \ Undecided : f[l] \in Int
    BY <1>2, <1>3
  <2> HIDE DEF D, f
  <2> QED BY <1>7, <2>1, SumInt
<1>14. db.balance[LockAddr] + SumFunctionOnSet(paid, D) = SumFunctionOnSet(f, D)
  BY <1>1, <1>6 DEF Covered, Total, SumFunction
<1>15. db.balance[LockAddr] \in Int
  BY <1>1, StateFacts, Distinct DEF Balances
<1> HIDE DEF D, f, g, paid
<1>16. db.balance[LockAddr] = SumFunctionOnSet(f, Undecided)
  <2>1. SumFunctionOnSet(paid, D) = SumFunctionOnSet(f, D \ Undecided)
    BY <1>8, <1>9, <1>11, <1>13
  <2>2. \A a, x, y \in Int : a + y = x + y => a = x
    OBVIOUS
  <2> QED BY <1>12, <1>13, <1>14, <1>15, <2>1, <2>2
<1> QED BY <1>6, <1>10, <1>16 DEF Total, SumFunction

(* As long as no lock is paid out twice the shared lock address holds      *)
(* exactly what the undecided locks locked (newlock, tryunlock).           *)
THEOREM LocksBacked == Spec => []LocksCovered
BY ContractsSound, CoversOpen, PTL

(* A token of an undecided lock stays with the lock, but for the two ways  *)
(* out that the code has (transfer, tryunlock, check_token_locked).        *)
THEOREM TokensHeld == Spec => []HeldWhileOpen
<1>1. ASSUME ContractsInv PROVE HeldWhileOpen
  <2>1. Held(db)
    BY <1>1, InvFacts DEF Good
  <2> QED BY <2>1 DEF Held, ListedDecided, HeldWhileOpen, Undecided
<1> QED BY <1>1, ContractsSound, PTL

(* What is committed is a state of the invariant.                          *)
LEMMA CommittedGood ==
    ASSUME ContractsInv
    PROVE  Good(Committed, now) /\ Effects(Committed)
<1>1. CASE frames = <<>>
  BY <1>1, InvFacts DEF Committed
<1>2. CASE frames # <<>>
  BY <1>2, StackBottom DEF Committed, ContractsInv
<1> QED BY <1>1, <1>2

(* The fields that a transaction leaves when it begins.                    *)
LEMMA BegunSame ==
    ASSUME NEW s \in State
    PROVE  LET t == [s EXCEPT !.freed = {}]
           IN /\ t.balance = s.balance /\ t.owner = s.owner /\ t.locks = s.locks
              /\ t.suspends = s.suspends /\ t.ran = s.ran
BY DEF State

(* What a step may do to what is committed, all of it.                     *)
LEMMA CommittedStep ==
    ASSUME ContractsInv, [Next]_vars
    PROVE  /\ LocksKept(Committed, Committed') /\ SuspendsKept(Committed, Committed')
           /\ Spent(Committed, Committed', keys') /\ Moved(Committed, Committed', keys')
<1> DEFINE s == Committed
           b == [s EXCEPT !.freed = {}]
           t == Committed'
           K == keys'
<1>1. s \in State
  BY CommittedGood DEF Good
<1>2. Allowed(s, t, K)
  <2>1. CASE UNCHANGED vars
    BY <2>1 DEF vars, Committed, Allowed
  <2> QED BY <2>1, ContractsStep
<1>3. /\ b.balance = s.balance /\ b.owner = s.owner /\ b.locks = s.locks
      /\ b.suspends = s.suspends /\ b.ran = s.ran
  BY <1>1, BegunSame
<1>4. t = s \/ t = b \/ Reach(s, t, K) \/ Reach(b, t, K)
  BY <1>2 DEF Allowed
<1> HIDE DEF s, b, t, K
<1>5. CASE t = s \/ t = b
  <2>1. t.balance = s.balance /\ t.owner = s.owner /\ t.locks = s.locks /\ t.suspends = s.suspends /\ t.ran = s.ran
    BY <1>3, <1>5
  <2>2. \A u \in Users : ~(s.balance[u] < s.balance[u])
    BY <1>1, StateFacts, Distinct DEF Balances
  <2>3. LocksKept(s, t) /\ SuspendsKept(s, t) /\ Spent(s, t, K) /\ Moved(s, t, K)
    BY <2>1, <2>2 DEF LocksKept, SuspendsKept, Spent, Moved
  <2> QED BY <2>3 DEF s, t, K
<1>6. CASE Reach(s, t, K) \/ Reach(b, t, K)
  <2>1. LocksKept(s, t) /\ SuspendsKept(s, t) /\ Spent(s, t, K) /\ Moved(s, t, K)
    BY <1>3, <1>6 DEF Reach, LocksKept, SuspendsKept, Spent, Moved, Permitted
  <2> QED BY <2>1 DEF s, t, K
<1> QED BY <1>4, <1>5, <1>6

(* The outcome of a lock and of a suspended transaction does not change    *)
(* once a transaction has ended with it, and a suspended transaction that  *)
(* was decided takes no further effect, for transactions that execute each *)
(* other in any way (tryunlock, aprvlock, cancelsuspend, execsuspend).     *)
THEOREM OutcomesKept == Spec => OutcomeFinal
<1> DEFINE Kept ==
       /\ \A l \in DOMAIN Committed.locks : Committed.locks[l].status # "proposed" =>
             Committed'.locks[l].status = Committed.locks[l].status
       /\ \A p \in DOMAIN Committed.suspends : Committed.suspends[p].status # "proposed" =>
             /\ Committed'.suspends[p].status = Committed.suspends[p].status
             /\ Committed'.ran[p] = Committed.ran[p]
<1>1. ASSUME ContractsInv, [Next]_vars PROVE [Kept]_vars
  <2>1. Kept
    BY <1>1, CommittedStep DEF LocksKept, SuspendsKept
  <2> QED BY <2>1
<1> QED BY <1>1, ContractsSound, PTL DEF Spec, OutcomeFinal

(* A suspended transaction took effect if and only if its status says so,  *)
(* and more than once only if it executes itself, however suspended        *)
(* transactions run, undo and cancel each other (execsuspend, rollback to  *)
(* a savepoint, the proposal written from an object read before).          *)
THEOREM EffectsTold == Spec => []EffectsShown
<1>1. ASSUME ContractsInv PROVE EffectsShown
  <2> DEFINE s == Committed
  <2>1. s \in State /\ Effects(s)
    BY <1>1, CommittedGood DEF Good
  <2>2. DOMAIN s.suspends \subseteq Proposals
    BY <2>1, StateFacts
  <2> HIDE DEF s
  <2>3. \A p \in DOMAIN s.suspends :
           /\ s.ran[p] > 0 <=> s.suspends[p].status = "executed"
           /\ s.ran[p] > 1 => ExecutesItself(s, p)
    BY <2>1, <2>2 DEF Effects, Below, ExecutesItself
  <2> QED BY <2>3 DEF s, EffectsShown
<1> QED BY <1>1, ContractsSound, PTL

(* Nobody's balance falls without his key, in transactions and in          *)
(* suspended ones (check_authority, newlock, execsuspend).                 *)
THEOREM SpendingSigned == Spec => SpentSigned
<1>1. ASSUME ContractsInv, [Next]_vars
      PROVE  [\A u \in Users : Committed'.balance[u] < Committed.balance[u] => u \in keys']_vars
  BY <1>1, CommittedStep DEF Spent
<1> QED BY <1>1, ContractsSound, PTL DEF Spec, SpentSigned

(* A token changes hands only by the keys of its owners when the           *)
(* transaction began, by those of its domain, or by tryunlock within the   *)
(* transaction (transfer, newlock, tryunlock, execsuspend).                *)
THEOREM MovingSigned == Spec => MovesSigned
<1> DEFINE Signed ==
       \A t \in Tokens : Committed'.owner[t] # Committed.owner[t] =>
          \/ Committed.owner[t] \subseteq keys'
          \/ Keeper[t] \in keys'
          \/ /\ t \in Committed'.freed
             /\ \E l \in DOMAIN Committed'.locks :
                  LET k == Committed'.locks[l]
                  IN /\ t \in k.def.tokens /\ k.status # "proposed"
                     /\ Committed'.owner[t] = Target(k) \/ Target(k) \subseteq keys'
<1>1. ASSUME ContractsInv, [Next]_vars PROVE [Signed]_vars
  <2>1. Moved(Committed, Committed', keys')
    BY <1>1, CommittedStep
  <2>2. Signed
    BY <2>1 DEF Moved, Permitted, Delivered
  <2> QED BY <2>2
<1> QED BY <1>1, ContractsSound, PTL DEF Spec, MovesSigned
=============================================================================
