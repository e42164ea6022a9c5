------------------------- MODULE HeaderChainProofs -------------------------
(***************************************************************************)
(* Proofs about a chain of headers, for every set of producers, every      *)
(* schedule, every bound on the tracked confirmations and chains of any    *)
(* length: a block that is proposed as irreversible was confirmed by as    *)
(* many different producers as it needs, across schedule changes, a        *)
(* proposed schedule can be taken when its turn comes, and the irreversible*)
(* number does not fall as long as schedules do not shrink.                *)
(*                                                                         *)
(* The inductive invariant HeaderInv relates the newest header state to the*)
(* history of the chain:                                                   *)
(*   Tracked : for each block whose confirmations are counted, the missing *)
(*       ones and the producers that confirmed it add up to the required   *)
(*       number; the counted blocks end at the newest one, above the       *)
(*       proposed one                                                      *)
(*   Latest  : nobody confirmed a block above the last one that            *)
(*       lastProduced knows of it, or, for one that it does not know and   *)
(*       that a pending schedule may bring back, above the block that      *)
(*       announced this schedule; so ~DoubleConfirms means that a          *)
(*       confirmation comes from a producer that had not given it yet      *)
(*   Backed  : the proposed block has its confirmations                    *)
(*   Implied : what producers imply as irreversible was proposed before    *)
(*   Fitting : the number of a proposed schedule follows the latest one's  *)
(*   Bounded : what a block requires fits a count of eight bits            *)
(***************************************************************************)
EXTENDS HeaderChain, FoldProofs, SequenceTheorems, TLAPS

(* calc_dpos_last_irreversible returns a number that some producer         *)
(* implied; at most a third of the producers implied less, and more than   *)
(* that did not imply more.                                                *)
LEMMA OrderStatistic ==
    ASSUME NEW irb, IsFiniteSet(DOMAIN irb), DOMAIN irb # {},
           \A p \in DOMAIN irb : irb[p] \in Nat
    PROVE  LET v == CalcDposLastIrreversible(irb)
               k == (Cardinality(DOMAIN irb) - 1) \div 3
           IN /\ \E p \in DOMAIN irb : v = irb[p]
              /\ Cardinality({p \in DOMAIN irb : irb[p] < v}) <= k
              /\ k < Cardinality({p \in DOMAIN irb : irb[p] <= v})
<1> DEFINE D == DOMAIN irb
           n == Cardinality(D)
           k == (n - 1) \div 3
           UpTo(m) == {p \in D : irb[p] <= m}
           Below(m) == {p \in D : irb[p] < m}
           v == CalcDposLastIrreversible(irb)
<1>1. n \in Nat \ {0}
  <2>1. n \in Nat /\ n # 0
    BY FS_CardinalityType, FS_EmptySet
  <2> QED BY <2>1
<1>2. k \in Nat /\ k < n
  <2> HIDE DEF n
  <2> QED BY <1>1
<1>3. \E w \in {irb[p] : p \in D} : Cardinality(Below(w)) <= k /\ k < Cardinality(UpTo(w))
  <2> HIDE DEF k
  <2> QED BY <1>2, RankExists
<1>4. v \in {irb[p] : p \in D} /\ Cardinality(Below(v)) <= k /\ k < Cardinality(UpTo(v))
  <2>1. v = CHOOSE w \in {irb[p] : p \in D} : Cardinality(Below(w)) <= k /\ k < Cardinality(UpTo(w))
    BY DEF CalcDposLastIrreversible, k
  <2> HIDE DEF Below, UpTo, D, v, k
  <2> QED BY <1>3, <2>1
<1> HIDE DEF v
<1> QED BY <1>4 DEF v, k

-----------------------------------------------------------------------------
(* The schedules there can be.                                             *)
Known == Schedules \cup {{Genesis}}

(* Partial functions of the producers.                                     *)
Maps == UNION {[D -> Nat] : D \in SUBSET Producers}

(* The header states.                                                      *)
Header == [num : Nat \ {0}, producer : Producers,
           active : [version : Nat, producers : Known],
           pending : [version : Nat, producers : Known \cup {{}}],
           pendingNum : Nat, lastProduced : Maps, impliedIrb : Maps,
           confirmCount : Seq(Nat \ {0}), proposed : Nat, lib : Nat]

(* What With does to a partial function of the producers.                  *)
LEMMA MapWith ==
    ASSUME NEW f \in Maps, NEW p \in Producers, NEW v \in Nat
    PROVE  /\ With(f, p, v) \in Maps /\ DOMAIN With(f, p, v) = DOMAIN f \cup {p}
           /\ With(f, p, v)[p] = v
           /\ \A q \in DOMAIN f \ {p} : With(f, p, v)[q] = f[q]
<1>1. PICK D \in SUBSET Producers : f \in [D -> Nat]
  BY DEF Maps
<1>2. With(f, p, v) \in [D \cup {p} -> Nat] /\ D \cup {p} \in SUBSET Producers
  BY <1>1 DEF With
<1>3. With(f, p, v) \in Maps
  BY <1>2 DEF Maps
<1> QED BY <1>3 DEF With

(* The partial functions of the producers are finite and give numbers.     *)
LEMMA MapFacts ==
    ASSUME NEW f \in Maps
    PROVE  DOMAIN f \subseteq Producers /\ IsFiniteSet(DOMAIN f) /\ \A p \in DOMAIN f : f[p] \in Nat
<1>1. DOMAIN f \subseteq Producers /\ \A p \in DOMAIN f : f[p] \in Nat
  BY DEF Maps
<1> QED BY <1>1, HeaderChainAssumption, FS_Subset

(* Schedules are finite.                                                   *)
LEMMA KnownSets ==
    ASSUME NEW S \in Known
    PROVE  S \subseteq Producers /\ IsFiniteSet(S) /\ Cardinality(S) \in Nat
<1>1. S \subseteq Producers
  BY HeaderChainAssumption DEF Known
<1> QED BY <1>1, HeaderChainAssumption, FS_Subset, FS_CardinalityType

(* A block needs at least one confirmation.                                *)
LEMMA RequiredNat ==
    ASSUME NEW h \in Header
    PROVE  RequiredConfs(h) \in Nat \ {0}
<1>1. h.active.producers \in Known
  BY DEF Header
<1>2. Cardinality(h.active.producers) \in Nat
  BY <1>1, KnownSets
<1> QED BY <1>2 DEF RequiredConfs

(* The counts that generate_next keeps.                                    *)
Counts(h) == IF Len(h.confirmCount) < MaxTracked THEN h.confirmCount ELSE Tail(h.confirmCount)

(* The header state that generate_next returns, field by field.            *)
LEMMA Generated ==
    ASSUME NEW h \in Header, NEW p \in Producers
    PROVE  LET g == GenerateNext(h, p)
               irb == With(h.impliedIrb, p, h.proposed)
           IN /\ g \in Header
              /\ g.num = h.num + 1 /\ g.producer = p /\ g.active = h.active /\ g.pending = h.pending
              /\ g.pendingNum = h.pendingNum /\ g.lastProduced = With(h.lastProduced, p, h.num + 1)
              /\ g.impliedIrb = irb /\ g.lib = CalcDposLastIrreversible(irb)
              /\ g.confirmCount = Append(Counts(h), RequiredConfs(h)) /\ g.proposed = h.proposed
              /\ \E q \in DOMAIN irb : g.lib = irb[q]
<1> DEFINE irb == With(h.impliedIrb, p, h.proposed)
           lp == With(h.lastProduced, p, h.num + 1)
           m == h.num + 1
           lib == CalcDposLastIrreversible(irb)
           cc == Append(Counts(h), RequiredConfs(h))
           g == GenerateNext(h, p)
           C == Seq(Nat \ {0})
<1>0. h.num \in Nat \ {0} /\ h.impliedIrb \in Maps /\ h.lastProduced \in Maps /\ h.proposed \in Nat
  BY DEF Header
<1>1. h.confirmCount \in C
  BY DEF Header
<1>2. irb \in Maps /\ lp \in Maps /\ m \in Nat \ {0} /\ DOMAIN irb # {}
  <2>1. m \in Nat /\ m # 0
    BY <1>0
  <2> HIDE DEF m
  <2>2. With(h.lastProduced, p, m) \in Maps
    BY <1>0, <2>1, MapWith
  <2>3. irb \in Maps /\ DOMAIN irb = DOMAIN h.impliedIrb \cup {p}
    BY <1>0, MapWith
  <2> QED BY <2>1, <2>2, <2>3 DEF m
<1>3. \E q \in DOMAIN irb : lib = irb[q]
  <2> HIDE DEF irb
  <2> QED BY <1>2, MapFacts, OrderStatistic
<1>4. lib \in Nat
  <2> HIDE DEF irb, lib
  <2> QED BY <1>2, <1>3, MapFacts
<1>5. cc \in C
  <2>1. Counts(h) \in C
    <3>1. CASE Len(h.confirmCount) < MaxTracked
      BY <1>1, <3>1 DEF Counts
    <3>2. CASE ~(Len(h.confirmCount) < MaxTracked)
      <4>1. h.confirmCount # <<>>
        BY <1>1, <3>2, MaxTrackedAssumption
      <4> QED BY <1>1, <3>2, <4>1 DEF Counts
    <3> QED BY <3>1, <3>2
  <2> QED BY <2>1, RequiredNat
<1>6. g = [h EXCEPT !.num = m, !.producer = p, !.lastProduced = lp, !.impliedIrb = irb,
                    !.lib = lib, !.confirmCount = cc]
  BY DEF GenerateNext, Counts
<1>7. h \in [num : Nat \ {0}, producer : Producers,
           active : [version : Nat, producers : Known],
           pending : [version : Nat, producers : Known \cup {{}}],
           pendingNum : Nat, lastProduced : Maps, impliedIrb : Maps,
           confirmCount : C, proposed : Nat, lib : Nat]
  BY DEF Header
<1> HIDE DEF g, irb, lp, m, lib, cc, C
<1>8. /\ g \in [num : Nat \ {0}, producer : Producers,
           active : [version : Nat, producers : Known],
           pending : [version : Nat, producers : Known \cup {{}}],
           pendingNum : Nat, lastProduced : Maps, impliedIrb : Maps,
           confirmCount : C, proposed : Nat, lib : Nat]
      /\ g.num = m /\ g.producer = p /\ g.active = h.active /\ g.pending = h.pending
      /\ g.pendingNum = h.pendingNum /\ g.lastProduced = lp
      /\ g.impliedIrb = irb /\ g.lib = lib /\ g.confirmCount = cc /\ g.proposed = h.proposed
  BY <1>2, <1>4, <1>5, <1>6, <1>7
<1> QED BY <1>3, <1>8 DEF g, irb, lp, m, lib, cc, C, Header

(* The largest of a set of positions.                                      *)
LEMMA LargestPosition ==
    ASSUME NEW n \in Nat, NEW S, S \subseteq 1..n, S # {}
    PROVE  Max(S) \in S /\ \A x \in S : x <= Max(S)
<1>1. \E m \in S : \A x \in S : m >= x
  BY LargestExists
<1>2. Max(S) \in S /\ \A x \in S : Max(S) >= x
  BY <1>1 DEF Max
<1> QED BY <1>2

(* The counts that a block with n confirmations reaches, the ones that end *)
(* with it, and what it leaves.                                            *)
Within(h, n) == {i \in DOMAIN h.confirmCount : Len(h.confirmCount) - i <= n}
Done(h, n) == {i \in Within(h, n) : h.confirmCount[i] = 1}
Left(h, n) == [i \in DOMAIN h.confirmCount |->
                 IF i \in Within(h, n) THEN h.confirmCount[i] - 1 ELSE h.confirmCount[i]]

(* What set_confirmed leaves of the blocks that are tracked: the ones above *)
(* cut, of which the one at cut, if any, is proposed.                      *)
Cut(h, n) == IF Done(h, n) = {} THEN 0 ELSE Max(Done(h, n))

(* The header state that set_confirmed leaves, field by field: the counts  *)
(* above the cut, counted down where the block confirms.                   *)
LEMMA Confirmed ==
    ASSUME NEW h \in Header, NEW n \in Nat, Len(h.confirmCount) <= h.num
    PROVE  LET s == SetConfirmed(h, n)
               len == Len(h.confirmCount)
               cut == Cut(h, n)
           IN /\ s \in Header
              /\ s.num = h.num /\ s.producer = h.producer /\ s.active = h.active
              /\ s.pending = h.pending /\ s.pendingNum = h.pendingNum
              /\ s.lastProduced = h.lastProduced /\ s.impliedIrb = h.impliedIrb /\ s.lib = h.lib
              /\ s.proposed = IF cut = 0 THEN h.proposed ELSE h.num - (len - cut)
              /\ cut \in 0..len /\ (cut # 0 => cut \in Done(h, n))
              /\ Len(s.confirmCount) = len - cut
              /\ \A i \in 1..(len - cut) : s.confirmCount[i] = Left(h, n)[cut + i]
<1> DEFINE counts == h.confirmCount
           len == Len(counts)
           cut == Cut(h, n)
           left == Left(h, n)
           s == SetConfirmed(h, n)
           C == Seq(Nat \ {0})
<1>1. counts \in C /\ len \in Nat /\ DOMAIN counts = 1..len
  BY DEF Header
<1>2. \A i \in 1..len : counts[i] \in Nat \ {0}
  BY <1>1
<1>3. Within(h, n) \subseteq 1..len /\ Done(h, n) \subseteq 1..len
  BY <1>1 DEF Within, Done
<1>4. cut \in 0..len /\ (cut # 0 => cut \in Done(h, n)) /\ \A i \in Done(h, n) : i <= cut
  <2>1. CASE Done(h, n) = {}
    BY <1>1, <2>1 DEF Cut
  <2>2. CASE Done(h, n) # {}
    <3>1. Max(Done(h, n)) \in Done(h, n) /\ \A x \in Done(h, n) : x <= Max(Done(h, n))
      BY <1>1, <1>3, <2>2, LargestPosition
    <3> QED BY <1>3, <2>2, <3>1 DEF Cut
  <2> QED BY <2>1, <2>2
<1>5. \A i \in (cut + 1)..len : left[i] \in Nat \ {0}
  <2> SUFFICES ASSUME NEW i \in (cut + 1)..len PROVE left[i] \in Nat \ {0}
    OBVIOUS
  <2>1. i \in 1..len /\ i \notin Done(h, n)
    <3> HIDE DEF cut, len
    <3> QED BY <1>1, <1>4
  <2>2. left[i] = IF i \in Within(h, n) THEN counts[i] - 1 ELSE counts[i]
    BY <1>1, <2>1 DEF Left
  <2>3. i \in Within(h, n) => counts[i] # 1
    BY <2>1 DEF Done
  <2>4. counts[i] \in Nat \ {0}
    BY <1>2, <2>1
  <2> HIDE DEF counts, left
  <2> QED BY <2>2, <2>3, <2>4
<1> DEFINE rest == IF cut = 0 THEN left ELSE SubSeq(left, cut + 1, len)
           prop == IF cut = 0 THEN h.proposed ELSE h.num - (len - cut)
<1>6. /\ rest \in C /\ Len(rest) = len - cut
      /\ \A i \in 1..(len - cut) : rest[i] = left[cut + i]
  <2>1. left = [i \in 1..len |-> left[i]]
    BY <1>1 DEF Left
  <2>2. \A i \in 1..len : left[i] \in Nat
    <3> SUFFICES ASSUME NEW i \in 1..len PROVE left[i] \in Nat
      OBVIOUS
    <3>1. left[i] = IF i \in Within(h, n) THEN counts[i] - 1 ELSE counts[i]
      BY <1>1 DEF Left
    <3>2. counts[i] \in Nat \ {0}
      BY <1>2
    <3> HIDE DEF counts, left
    <3> QED BY <3>1, <3>2
  <2> HIDE DEF left, len, cut, counts
  <2>3. CASE cut = 0
    <3>1. rest = left /\ len - cut = len
      BY <1>1, <2>3
    <3>2. \A i \in 1..len : left[i] \in Nat \ {0}
      BY <1>5, <2>3
    <3>3. left \in [1..len -> Nat \ {0}]
      BY <2>1, <3>2
    <3>4. left \in C /\ Len(left) = len
      BY <1>1, <3>3
    <3> HIDE DEF rest, C
    <3>5. \A i \in 1..len : cut + i = i
      BY <2>3
    <3> QED BY <3>1, <3>4, <3>5
  <2>4. CASE cut # 0
    <3>1. rest = SubSeq(left, cut + 1, len)
      BY <2>4
    <3>2. cut \in 1..len /\ cut + 1 \in Int /\ len \in Int
      BY <1>1, <1>4, <2>4
    <3>3. /\ rest \in C /\ Len(rest) = IF cut + 1 <= len THEN len - (cut + 1) + 1 ELSE 0
          /\ \A i \in 1..(len - (cut + 1) + 1) : rest[i] = left[(cut + 1) + i - 1]
      <4> HIDE DEF rest
      <4> QED BY <1>5, <3>1, <3>2, SubSeqProperties
    <3>4. len - (cut + 1) + 1 = len - cut /\ (~(cut + 1 <= len) => len - cut = 0)
      BY <3>2
    <3>5. \A i \in 1..(len - cut) : (cut + 1) + i - 1 = cut + i
      BY <3>2
    <3> HIDE DEF rest, C
    <3> QED BY <3>3, <3>4, <3>5
  <2> QED BY <2>3, <2>4
<1>7. prop \in Nat
  <2>1. h.num \in Nat /\ h.proposed \in Nat
    BY DEF Header
  <2> HIDE DEF cut, len
  <2> QED BY <1>1, <1>4, <2>1 DEF len, counts
<1>8. s = [h EXCEPT !.proposed = prop, !.confirmCount = rest]
  <2>1. CASE Done(h, n) = {}
    <3>1. cut = 0 /\ prop = h.proposed /\ rest = left
      BY <2>1 DEF Cut
    <3>2. s = [h EXCEPT !.confirmCount = left]
      BY <2>1 DEF SetConfirmed, Left, Done, Within
    <3> HIDE DEF s, cut, prop, rest, left
    <3> QED BY <3>1, <3>2 DEF Header
  <2>2. CASE Done(h, n) # {}
    <3>1. cut # 0 /\ cut = Max(Done(h, n))
      BY <1>3, <1>4, <2>2 DEF Cut
    <3>2. s = [h EXCEPT !.proposed = h.num - (len - cut), !.confirmCount = SubSeq(left, cut + 1, len)]
      BY <2>2, <3>1 DEF SetConfirmed, Left, Done, Within
    <3> QED BY <3>1, <3>2
  <2> QED BY <2>1, <2>2
<1>9. h \in [num : Nat \ {0}, producer : Producers,
           active : [version : Nat, producers : Known],
           pending : [version : Nat, producers : Known \cup {{}}],
           pendingNum : Nat, lastProduced : Maps, impliedIrb : Maps,
           confirmCount : C, proposed : Nat, lib : Nat]
  BY DEF Header
<1>10. rest \in C
  BY <1>6
<1> HIDE DEF s, C, rest, prop, left, cut, len, counts
<1>11. /\ s \in [num : Nat \ {0}, producer : Producers,
           active : [version : Nat, producers : Known],
           pending : [version : Nat, producers : Known \cup {{}}],
           pendingNum : Nat, lastProduced : Maps, impliedIrb : Maps,
           confirmCount : C, proposed : Nat, lib : Nat]
       /\ s.num = h.num /\ s.producer = h.producer /\ s.active = h.active
       /\ s.pending = h.pending /\ s.pendingNum = h.pendingNum
       /\ s.lastProduced = h.lastProduced /\ s.impliedIrb = h.impliedIrb /\ s.lib = h.lib
       /\ s.proposed = prop /\ s.confirmCount = rest
  BY <1>7, <1>8, <1>9, <1>10
<1>12. s \in Header
  BY <1>11 DEF C, Header
<1>13. Len(s.confirmCount) = len - cut /\ \A i \in 1..(len - cut) : s.confirmCount[i] = left[cut + i]
  BY <1>6, <1>11
<1> QED BY <1>4, <1>11, <1>12, <1>13 DEF s, prop, left, cut, len, counts

(* What a promotion keeps of a map: new producers start from lib.          *)
Kept(h, f) == [p \in h.pending.producers |-> IF p \in DOMAIN f THEN f[p] ELSE h.lib]

(* The header state that maybe_promote_pending leaves when it promotes,    *)
(* field by field.                                                         *)
LEMMA Promoted ==
    ASSUME NEW h \in Header, Promotes(h)
    PROVE  LET r == MaybePromotePending(h)
           IN /\ r \in Header
              /\ r.num = h.num /\ r.producer = h.producer /\ r.active = h.pending
              /\ r.pending = NoSchedule /\ r.pendingNum = h.pendingNum
              /\ r.lastProduced = With(Kept(h, h.lastProduced), h.producer, h.num)
              /\ r.impliedIrb = Kept(h, h.impliedIrb) /\ r.confirmCount = h.confirmCount
              /\ r.proposed = h.proposed /\ r.lib = h.lib
<1> DEFINE r == MaybePromotePending(h)
           kp == Kept(h, h.lastProduced)
           ki == Kept(h, h.impliedIrb)
           lp == With(kp, h.producer, h.num)
           C == Seq(Nat \ {0})
<1>1. /\ h.num \in Nat /\ h.producer \in Producers /\ h.lib \in Nat
      /\ h.lastProduced \in Maps /\ h.impliedIrb \in Maps
      /\ h.pending \in [version : Nat, producers : Known \cup {{}}]
  BY DEF Header
<1>2. h.pending \in [version : Nat, producers : Known] /\ h.pending.producers \subseteq Producers
  BY <1>1, KnownSets DEF Promotes
<1>3. ASSUME NEW f \in Maps PROVE Kept(h, f) \in Maps
  <2>1. \A p \in DOMAIN f : f[p] \in Nat
    BY MapFacts
  <2>2. Kept(h, f) \in [h.pending.producers -> Nat]
    BY <1>1, <2>1 DEF Kept
  <2> QED BY <1>2, <2>2 DEF Maps
<1>4. kp \in Maps /\ ki \in Maps
  BY <1>1, <1>3
<1>5. lp \in Maps
  <2> HIDE DEF kp
  <2> QED BY <1>1, <1>4, MapWith
<1>6. r = [h EXCEPT !.active = h.pending, !.pending = NoSchedule, !.lastProduced = lp, !.impliedIrb = ki]
  BY DEF MaybePromotePending, Kept
<1>7. NoSchedule \in [version : Nat, producers : Known \cup {{}}]
  BY DEF NoSchedule
<1>8. h \in [num : Nat \ {0}, producer : Producers,
           active : [version : Nat, producers : Known],
           pending : [version : Nat, producers : Known \cup {{}}],
           pendingNum : Nat, lastProduced : Maps, impliedIrb : Maps,
           confirmCount : C, proposed : Nat, lib : Nat]
  BY DEF Header
<1> HIDE DEF r, kp, ki, lp, C
<1>9. /\ r \in [num : Nat \ {0}, producer : Producers,
           active : [version : Nat, producers : Known],
           pending : [version : Nat, producers : Known \cup {{}}],
           pendingNum : Nat, lastProduced : Maps, impliedIrb : Maps,
           confirmCount : C, proposed : Nat, lib : Nat]
      /\ r.num = h.num /\ r.producer = h.producer /\ r.active = h.pending
      /\ r.pending = NoSchedule /\ r.pendingNum = h.pendingNum
      /\ r.lastProduced = lp /\ r.impliedIrb = ki /\ r.confirmCount = h.confirmCount
      /\ r.proposed = h.proposed /\ r.lib = h.lib
  BY <1>2, <1>4, <1>5, <1>6, <1>7, <1>8
<1> QED BY <1>9 DEF r, kp, ki, lp, C, Header

(* The header state that set_new_producers leaves, field by field.         *)
LEMMA Announced ==
    ASSUME NEW h \in Header, NEW s \in [version : Nat, producers : Known]
    PROVE  LET r == SetNewProducers(h, s)
           IN /\ r \in Header
              /\ r.num = h.num /\ r.producer = h.producer /\ r.active = h.active
              /\ r.pending = s /\ r.pendingNum = h.num
              /\ r.lastProduced = h.lastProduced /\ r.impliedIrb = h.impliedIrb
              /\ r.confirmCount = h.confirmCount /\ r.proposed = h.proposed /\ r.lib = h.lib
<1> DEFINE C == Seq(Nat \ {0})
           r == SetNewProducers(h, s)
<1>1. h \in [num : Nat \ {0}, producer : Producers,
           active : [version : Nat, producers : Known],
           pending : [version : Nat, producers : Known \cup {{}}],
           pendingNum : Nat, lastProduced : Maps, impliedIrb : Maps,
           confirmCount : C, proposed : Nat, lib : Nat]
  BY DEF Header
<1>2. s \in [version : Nat, producers : Known \cup {{}}]
  OBVIOUS
<1>3. r = [h EXCEPT !.pending = s, !.pendingNum = h.num]
  BY DEF SetNewProducers
<1> HIDE DEF C, r
<1>4. /\ r \in [num : Nat \ {0}, producer : Producers,
           active : [version : Nat, producers : Known],
           pending : [version : Nat, producers : Known \cup {{}}],
           pendingNum : Nat, lastProduced : Maps, impliedIrb : Maps,
           confirmCount : C, proposed : Nat, lib : Nat]
      /\ r.num = h.num /\ r.producer = h.producer /\ r.active = h.active
      /\ r.pending = s /\ r.pendingNum = h.num
      /\ r.lastProduced = h.lastProduced /\ r.impliedIrb = h.impliedIrb
      /\ r.confirmCount = h.confirmCount /\ r.proposed = h.proposed /\ r.lib = h.lib
  BY <1>1, <1>2, <1>3
<1> QED BY <1>4 DEF r, C, Header

-----------------------------------------------------------------------------

(* A block of the history.                                                 *)
Block == [by : SUBSET Producers, required : Nat, lib : Nat]

(* What is still missing and who confirmed add up to what is required, for *)
(* the blocks that are tracked.                                            *)
Tracked(h, c) ==
    LET len == Len(h.confirmCount)
    IN /\ h.proposed + len <= h.num
       /\ \A i \in 1..len :
            h.confirmCount[i] + Cardinality(c[(h.num - len) + i].by) = c[(h.num - len) + i].required

(* A producer confirmed nothing above what lastProduced says, or above the *)
(* announcement of the schedule that may bring it back.                    *)
Latest(h, c) ==
    /\ \A j \in 1..h.num : \A p \in c[j].by :
          /\ p \in DOMAIN h.lastProduced => j <= h.lastProduced[p]
          /\ p \notin DOMAIN h.lastProduced /\ h.pending.producers # {} => j <= h.pendingNum
    /\ h.num = 1 => h.active.producers = {Genesis}
    /\ h.num # 1 => h.active.producers \subseteq DOMAIN h.lastProduced

(* What is implied as irreversible was proposed.                           *)
Implied(h) == h.lib <= h.proposed /\ \A p \in DOMAIN h.impliedIrb : h.impliedIrb[p] <= h.proposed

(* The proposed block has its confirmations.                               *)
Backed(h, c) == h.proposed # 0 => Cardinality(c[h.proposed].by) >= c[h.proposed].required

(* The history with a block more, that nobody confirmed.                   *)
Extended(h, c, d) ==
    /\ d \in [1..(h.num + 1) -> Block] /\ \A j \in 1..h.num : d[j] = c[j]
    /\ d[h.num + 1].by = {} /\ d[h.num + 1].required = RequiredConfs(h)

(* The history after p confirmed the blocks from a number on.              *)
Signed(n, c, d, p, from) ==
    /\ d \in [1..n -> Block]
    /\ \A j \in 1..n : /\ d[j].required = c[j].required
                       /\ d[j].by = IF j >= from THEN c[j].by \cup {p} ELSE c[j].by

(* The confirmations of a block are finitely many.                         *)
LEMMA Finite ==
    ASSUME NEW m, NEW c \in [1..m -> Block], NEW j \in 1..m
    PROVE  /\ c[j].by \subseteq Producers /\ IsFiniteSet(c[j].by) /\ Cardinality(c[j].by) \in Nat
           /\ c[j].required \in Nat
<1>1. c[j].by \subseteq Producers /\ c[j].required \in Nat
  BY DEF Block
<1> QED BY <1>1, HeaderChainAssumption, FS_Subset, FS_CardinalityType

(* The counts that generate_next keeps: all of them, or all but the        *)
(* oldest.                                                                 *)
LEMMA CountsFacts ==
    ASSUME NEW h \in Header
    PROVE  /\ Len(Counts(h)) \in Nat /\ Len(h.confirmCount) \in Nat
           /\ Counts(h) \in Seq(Nat \ {0})
           /\ \/ /\ Len(Counts(h)) = Len(h.confirmCount)
                 /\ \A i \in 1..Len(Counts(h)) : Counts(h)[i] = h.confirmCount[i]
              \/ /\ Len(Counts(h)) = Len(h.confirmCount) - 1
                 /\ \A i \in 1..Len(Counts(h)) : Counts(h)[i] = h.confirmCount[i + 1]
<1>1. h.confirmCount \in Seq(Nat \ {0})
  BY DEF Header
<1>2. CASE Len(h.confirmCount) < MaxTracked
  BY <1>1, <1>2 DEF Counts
<1>3. CASE ~(Len(h.confirmCount) < MaxTracked)
  <2>1. h.confirmCount # <<>>
    BY <1>1, <1>3, MaxTrackedAssumption
  <2>2. Counts(h) = Tail(h.confirmCount)
    BY <1>3 DEF Counts
  <2>3. /\ Tail(h.confirmCount) \in Seq(Nat \ {0})
        /\ Len(Tail(h.confirmCount)) = Len(h.confirmCount) - 1
        /\ \A i \in 1..Len(Tail(h.confirmCount)) : Tail(h.confirmCount)[i] = h.confirmCount[i + 1]
    BY <1>1, <2>1, HeadTailProperties
  <2> QED BY <1>1, <2>2, <2>3
<1> QED BY <1>2, <1>3

(* generate_next starts to count a block that nobody confirmed.            *)
LEMMA GeneratedTracked ==
    ASSUME NEW h \in Header, NEW p \in Producers, NEW c \in [1..h.num -> Block], NEW d,
           Tracked(h, c), Extended(h, c, d)
    PROVE  Tracked(GenerateNext(h, p), d)
<1> DEFINE g == GenerateNext(h, p)
           k == Counts(h)
           cc == h.confirmCount
           r == RequiredConfs(h)
<1>1. g.num = h.num + 1 /\ g.proposed = h.proposed /\ g.confirmCount = Append(k, r)
  BY Generated
<1>2. h.num \in Nat /\ h.proposed \in Nat /\ r \in Nat \ {0}
  BY RequiredNat DEF Header
<1>3. /\ Len(k) \in Nat /\ Len(cc) \in Nat
      /\ \/ /\ Len(k) = Len(cc) /\ \A i \in 1..Len(k) : k[i] = cc[i]
         \/ /\ Len(k) = Len(cc) - 1 /\ \A i \in 1..Len(k) : k[i] = cc[i + 1]
  BY CountsFacts
<1>4. /\ Len(g.confirmCount) = Len(k) + 1 /\ g.confirmCount[Len(k) + 1] = r
      /\ \A i \in 1..Len(k) : g.confirmCount[i] = k[i]
  <2>1. k \in Seq(Nat \ {0})
    BY CountsFacts
  <2> HIDE DEF k, r
  <2> QED BY <1>1, <1>2, <2>1, AppendProperties
<1>5. /\ h.proposed + Len(cc) <= h.num
      /\ \A i \in 1..Len(cc) :
            cc[i] + Cardinality(c[(h.num - Len(cc)) + i].by) = c[(h.num - Len(cc)) + i].required
  BY DEF Tracked
<1>6. /\ \A j \in 1..h.num : d[j] = c[j]
      /\ d[h.num + 1].by = {} /\ d[h.num + 1].required = r
  BY DEF Extended
<1> HIDE DEF g, k, cc, r
<1>7. g.proposed + Len(g.confirmCount) <= g.num
  BY <1>1, <1>2, <1>3, <1>4, <1>5
<1>8. ASSUME NEW i \in 1..Len(g.confirmCount)
      PROVE  g.confirmCount[i] + Cardinality(d[(g.num - Len(g.confirmCount)) + i].by)
               = d[(g.num - Len(g.confirmCount)) + i].required
  <2>1. (g.num - Len(g.confirmCount)) + i = (h.num - Len(k)) + i
    BY <1>1, <1>2, <1>3, <1>4
  <2>2. CASE i = Len(k) + 1
    <3>1. (h.num - Len(k)) + i = h.num + 1
      BY <1>2, <1>3, <2>2
    <3>2. Cardinality(d[h.num + 1].by) = 0
      BY <1>6, FS_EmptySet
    <3>3. r + 0 = r
      BY <1>2
    <3> QED BY <1>4, <1>6, <2>1, <2>2, <3>1, <3>2, <3>3
  <2>3. CASE i \in 1..Len(k)
    <3>1. (h.num - Len(k)) + i \in 1..h.num
      BY <1>2, <1>3, <1>5, <2>3
    <3>2. g.confirmCount[i] = k[i]
      BY <1>4, <2>3
    <3>3. CASE Len(k) = Len(cc) /\ \A m \in 1..Len(k) : k[m] = cc[m]
      BY <1>5, <1>6, <2>1, <2>3, <3>1, <3>2, <3>3
    <3>4. CASE Len(k) = Len(cc) - 1 /\ \A m \in 1..Len(k) : k[m] = cc[m + 1]
      <4>1. i + 1 \in 1..Len(cc) /\ (h.num - Len(cc)) + (i + 1) = (h.num - Len(k)) + i
        BY <1>2, <1>3, <2>3, <3>4
      <4> QED BY <1>5, <1>6, <2>1, <2>3, <3>1, <3>2, <3>4, <4>1
    <3> QED BY <1>3, <3>3, <3>4
  <2> QED BY <1>3, <1>4, <2>2, <2>3
<1>9. Tracked(g, d)
  BY <1>7, <1>8 DEF Tracked
<1> QED BY <1>9 DEF g

(* set_confirmed counts down what a new confirmation adds, and proposes a  *)
(* block only when nothing is missing.                                     *)
LEMMA ConfirmedTracked ==
    ASSUME NEW h \in Header, NEW p \in Producers, NEW n \in Nat,
           NEW c \in [1..h.num -> Block], NEW d,
           Tracked(h, c), Backed(h, c), Signed(h.num, c, d, p, h.num - n),
           \A j \in 1..h.num : j >= h.num - n => p \notin c[j].by
    PROVE  LET s == SetConfirmed(h, n)
           IN Tracked(s, d) /\ Backed(s, d) /\ s.proposed >= h.proposed
<1> DEFINE s == SetConfirmed(h, n)
           cc == h.confirmCount
           len == Len(cc)
           cut == Cut(h, n)
           left == Left(h, n)
           off == h.num - len
<1>0. h.num \in Nat /\ h.proposed \in Nat /\ len \in Nat /\ DOMAIN cc = 1..len
      /\ \A i \in 1..len : cc[i] \in Nat
  BY DEF Header
<1>1. /\ h.proposed + len <= h.num
      /\ \A i \in 1..len : cc[i] + Cardinality(c[off + i].by) = c[off + i].required
  BY DEF Tracked
<1>1a. len <= h.num /\ off \in Nat
  <2> HIDE DEF len
  <2> QED BY <1>0, <1>1
<1>2. /\ s.num = h.num /\ s.proposed = IF cut = 0 THEN h.proposed ELSE h.num - (len - cut)
      /\ cut \in 0..len /\ (cut # 0 => cut \in Done(h, n))
      /\ Len(s.confirmCount) = len - cut
      /\ \A i \in 1..(len - cut) : s.confirmCount[i] = left[cut + i]
  BY <1>1a, Confirmed
<1>3. \A i \in 1..len : i \in Within(h, n) <=> off + i >= h.num - n
  <2>1. \A i \in 1..len : i \in Within(h, n) <=> len - i <= n
    BY <1>0 DEF Within
  <2> HIDE DEF len, cc
  <2> QED BY <1>0, <2>1
<1>4. \A i \in 1..len : off + i \in 1..h.num
  <2> HIDE DEF len, cc
  <2> QED BY <1>0, <1>1a
<1>5. \A j \in 1..h.num : /\ d[j].required = c[j].required
                          /\ d[j].by = IF j >= h.num - n THEN c[j].by \cup {p} ELSE c[j].by
  BY DEF Signed
<1>6. \A j \in 1..h.num : Cardinality(d[j].by) \in Nat /\ Cardinality(c[j].by) \in Nat
        /\ Cardinality(d[j].by) = IF j >= h.num - n THEN Cardinality(c[j].by) + 1 ELSE Cardinality(c[j].by)
  <2> SUFFICES ASSUME NEW j \in 1..h.num
               PROVE  /\ Cardinality(d[j].by) \in Nat /\ Cardinality(c[j].by) \in Nat
                      /\ Cardinality(d[j].by) = IF j >= h.num - n THEN Cardinality(c[j].by) + 1
                                                ELSE Cardinality(c[j].by)
    OBVIOUS
  <2>1. IsFiniteSet(c[j].by) /\ Cardinality(c[j].by) \in Nat
    BY Finite
  <2>2. Cardinality(c[j].by \cup {p}) = IF p \in c[j].by THEN Cardinality(c[j].by) ELSE Cardinality(c[j].by) + 1
    BY <2>1, FS_AddElement
  <2>3. CASE j >= h.num - n
    <3>1. p \notin c[j].by
      BY <2>3
    <3>2. d[j].by = c[j].by \cup {p}
      BY <1>5, <2>3
    <3>3. Cardinality(d[j].by) = Cardinality(c[j].by) + 1
      BY <2>2, <3>1, <3>2
    <3>4. Cardinality(d[j].by) \in Nat
      BY <2>1, <3>3
    <3> QED BY <2>1, <2>3, <3>3, <3>4
  <2>4. CASE ~(j >= h.num - n)
    BY <1>5, <2>1, <2>4
  <2> QED BY <2>3, <2>4
<1>7. \A i \in 1..len : left[i] + Cardinality(d[off + i].by) = d[off + i].required
  <2> SUFFICES ASSUME NEW i \in 1..len
               PROVE  left[i] + Cardinality(d[off + i].by) = d[off + i].required
    OBVIOUS
  <2>1. left[i] = IF i \in Within(h, n) THEN cc[i] - 1 ELSE cc[i]
    BY <1>0 DEF Left
  <2>2. off + i \in 1..h.num /\ cc[i] \in Nat /\ (i \in Within(h, n) <=> off + i >= h.num - n)
    BY <1>0, <1>3, <1>4
  <2>3. cc[i] + Cardinality(c[off + i].by) = c[off + i].required
    BY <1>1
  <2> DEFINE j == off + i
  <2>4. /\ d[j].required = c[j].required /\ Cardinality(c[j].by) \in Nat
        /\ Cardinality(d[j].by) = IF j >= h.num - n THEN Cardinality(c[j].by) + 1 ELSE Cardinality(c[j].by)
    BY <1>5, <1>6, <2>2
  <2>5. left[i] + Cardinality(d[j].by) = d[j].required
    <3>1. cc[i] + Cardinality(c[j].by) = c[j].required /\ (i \in Within(h, n) <=> j >= h.num - n) /\ cc[i] \in Nat
      BY <2>2, <2>3
    <3> HIDE DEF left, cc, off, len, j
    <3>2. CASE i \in Within(h, n)
      <4>1. left[i] = cc[i] - 1 /\ Cardinality(d[j].by) = Cardinality(c[j].by) + 1
        BY <2>1, <2>4, <3>1, <3>2
      <4> QED BY <2>4, <3>1, <4>1
    <3>3. CASE i \notin Within(h, n)
      <4>1. left[i] = cc[i] /\ Cardinality(d[j].by) = Cardinality(c[j].by)
        BY <2>1, <2>4, <3>1, <3>3
      <4> QED BY <2>4, <3>1, <4>1
    <3> QED BY <3>2, <3>3
  <2> QED BY <2>5
<1> HIDE DEF s, cut, left
<1>8. CASE cut = 0
  <2>1. s.proposed = h.proposed /\ Len(s.confirmCount) = len
    BY <1>0, <1>2, <1>8
  <2>2. \A i \in 1..len : s.confirmCount[i] = left[i]
    <3>1. \A i \in 1..len : cut + i = i
      BY <1>8
    <3>2. len - cut = len
      BY <1>0, <1>8
    <3> QED BY <1>2, <3>1, <3>2
  <2>3. Tracked(s, d)
    BY <1>1, <1>2, <1>7, <2>1, <2>2 DEF Tracked
  <2>4. Backed(s, d)
    <3> SUFFICES ASSUME h.proposed # 0
                 PROVE  Cardinality(d[h.proposed].by) >= d[h.proposed].required
      BY <2>1 DEF Backed
    <3>1. h.proposed \in 1..h.num
      <4> HIDE DEF len
      <4> QED BY <1>0, <1>1
    <3>2. Cardinality(c[h.proposed].by) >= c[h.proposed].required
      BY DEF Backed
    <3>3. c[h.proposed].required \in Nat
      BY <3>1, Finite
    <3>4. /\ d[h.proposed].required = c[h.proposed].required
          /\ Cardinality(c[h.proposed].by) \in Nat
          /\ \/ Cardinality(d[h.proposed].by) = Cardinality(c[h.proposed].by)
             \/ Cardinality(d[h.proposed].by) = Cardinality(c[h.proposed].by) + 1
      BY <1>5, <1>6, <3>1
    <3> QED BY <3>2, <3>3, <3>4
  <2> QED BY <1>0, <2>1, <2>3, <2>4 DEF s
<1>9. CASE cut # 0
  <2>1. cut \in 1..len /\ cut \in Within(h, n) /\ cc[cut] = 1
    BY <1>0, <1>2, <1>9 DEF Done
  <2>2. left[cut] = 0
    <3>1. left[cut] = cc[cut] - 1
      BY <1>0, <2>1 DEF left, Left
    <3> QED BY <2>1, <3>1
  <2> HIDE DEF cc, len
  <2>3. s.proposed = off + cut /\ s.proposed \in 1..h.num
    <3>1. s.proposed = h.num - (len - cut)
      BY <1>2, <1>9
    <3>2. h.num \in Nat /\ len \in Nat /\ len <= h.num /\ cut \in 1..len
      BY <1>0, <1>1a, <2>1
    <3> QED BY <3>1, <3>2
  <2>4. s.proposed >= h.proposed
    BY <1>0, <1>1, <2>1, <2>3
  <2>5. Backed(s, d)
    <3>1. 0 + Cardinality(d[off + cut].by) = d[off + cut].required /\ off + cut \in 1..h.num
      BY <1>4, <1>7, <2>1, <2>2
    <3> QED BY <1>6, <2>3, <3>1 DEF Backed
  <2>6. Tracked(s, d)
    <3>1. s.proposed + Len(s.confirmCount) <= s.num /\ s.num - Len(s.confirmCount) = off + cut
      BY <1>0, <1>2, <2>1, <2>3
    <3>2. ASSUME NEW i \in 1..Len(s.confirmCount)
          PROVE  s.confirmCount[i] + Cardinality(d[(off + cut) + i].by) = d[(off + cut) + i].required
      <4>1. cut + i \in 1..len /\ off + (cut + i) = (off + cut) + i /\ s.confirmCount[i] = left[cut + i]
        <5>1. i \in 1..(len - cut) /\ s.confirmCount[i] = left[cut + i]
          BY <1>2
        <5>2. len \in Nat /\ off \in Nat /\ cut \in 1..len
          BY <1>0, <1>1a, <2>1
        <5> HIDE DEF off
        <5> QED BY <5>1, <5>2
      <4>2. left[cut + i] + Cardinality(d[off + (cut + i)].by) = d[off + (cut + i)].required
        BY <1>7, <4>1
      <4> HIDE DEF off
      <4> QED BY <4>1, <4>2
    <3> QED BY <3>1, <3>2 DEF Tracked
  <2> QED BY <2>4, <2>5, <2>6 DEF s
<1> QED BY <1>8, <1>9

-----------------------------------------------------------------------------

(* A new block implies the number that is proposed below it, and no more.  *)
LEMMA ImpliedGenerated ==
    ASSUME NEW h \in Header, NEW p \in Producers, Implied(h)
    PROVE  Implied(GenerateNext(h, p))
<1> DEFINE g == GenerateNext(h, p)
           irb == With(h.impliedIrb, p, h.proposed)
<1>1. g.proposed = h.proposed /\ g.impliedIrb = irb /\ \E q \in DOMAIN irb : g.lib = irb[q]
  BY Generated
<1>2. h.impliedIrb \in Maps /\ h.proposed \in Nat
  BY DEF Header
<1>3. /\ DOMAIN irb = DOMAIN h.impliedIrb \cup {p} /\ irb[p] = h.proposed
      /\ \A q \in DOMAIN h.impliedIrb \ {p} : irb[q] = h.impliedIrb[q]
  BY <1>2, MapWith
<1> HIDE DEF g, irb
<1>4. \A q \in DOMAIN irb : irb[q] <= h.proposed
  BY <1>2, <1>3 DEF Implied
<1>5. Implied(g)
  BY <1>1, <1>4 DEF Implied
<1> QED BY <1>5 DEF g

(* A producer that is new starts from the irreversible block.              *)
LEMMA ImpliedPromoted ==
    ASSUME NEW h \in Header, Promotes(h), Implied(h)
    PROVE  Implied(MaybePromotePending(h))
<1> DEFINE r == MaybePromotePending(h)
<1>1. r.proposed = h.proposed /\ r.lib = h.lib /\ r.impliedIrb = Kept(h, h.impliedIrb)
  BY Promoted
<1> HIDE DEF r
<1>2. \A q \in DOMAIN Kept(h, h.impliedIrb) : Kept(h, h.impliedIrb)[q] <= h.proposed
  BY DEF Implied, Kept
<1>3. Implied(r)
  BY <1>1, <1>2 DEF Implied
<1> QED BY <1>3 DEF r

(* A producer that next accepts has confirmed none of the blocks that its  *)
(* header confirms.                                                        *)
LEMMA Unconfirmed ==
    ASSUME NEW h \in Header, NEW c, NEW d, NEW p \in h.active.producers, NEW n \in 0..(h.num - 1),
           Latest(h, c), Extended(h, c, d), ~DoubleConfirms(h, p, n)
    PROVE  \A j \in 1..(h.num + 1) : j >= (h.num + 1) - n => p \notin d[j].by
<1>1. h.num \in Nat \ {0} /\ h.lastProduced \in Maps
  BY DEF Header
<1>2. \A j \in 1..h.num : d[j] = c[j]
  BY DEF Extended
<1>3. d[h.num + 1].by = {}
  BY DEF Extended
<1> SUFFICES ASSUME NEW j \in 1..(h.num + 1), j >= (h.num + 1) - n, p \in d[j].by PROVE FALSE
  OBVIOUS
<1>4. j # h.num + 1
  BY <1>3
<1>5. j \in 1..h.num /\ n \in Nat /\ n < h.num
  BY <1>1, <1>4
<1>6. p \in c[j].by
  BY <1>2, <1>5
<1>7. h.num # 1
  BY <1>1, <1>5
<1>8. p \in DOMAIN h.lastProduced
  BY <1>7 DEF Latest
<1>9. j <= h.lastProduced[p] /\ h.lastProduced[p] \in Nat
  BY <1>1, <1>5, <1>6, <1>8, MapFacts DEF Latest
<1>10. h.lastProduced[p] < (h.num + 1) - n
  BY <1>1, <1>5, <1>8, <1>9 DEF DoubleConfirms
<1> QED BY <1>1, <1>5, <1>9, <1>10

(* lastProduced is kept up by a new block.                                 *)
LEMMA LatestGenerated ==
    ASSUME NEW h \in Header, NEW c, NEW d, NEW e, NEW p \in h.active.producers, NEW from,
           Latest(h, c), Extended(h, c, d), Signed(h.num + 1, d, e, p, from)
    PROVE  Latest(GenerateNext(h, p), e)
<1> DEFINE g == GenerateNext(h, p)
           m == h.num + 1
           lp == With(h.lastProduced, p, m)
<1>0. h.active.producers \subseteq Producers
  <2>1. h.active.producers \in Known
    BY DEF Header
  <2> QED BY <2>1, KnownSets
<1>1. /\ g.num = m /\ g.active = h.active /\ g.pending = h.pending /\ g.pendingNum = h.pendingNum
      /\ g.lastProduced = lp
  BY <1>0, Generated
<1>2. h.num \in Nat \ {0} /\ h.lastProduced \in Maps /\ m \in Nat
  BY DEF Header
<1> HIDE DEF m
<1>3. /\ DOMAIN lp = DOMAIN h.lastProduced \cup {p} /\ lp[p] = m
      /\ \A q \in DOMAIN h.lastProduced \ {p} : lp[q] = h.lastProduced[q]
  BY <1>0, <1>2, MapWith
<1> HIDE DEF g, lp
<1>4. ASSUME NEW j \in 1..m, NEW q \in e[j].by, q # p
      PROVE  j \in 1..h.num /\ q \in c[j].by
  <2>1. q \in d[j].by
    BY <1>4 DEF Signed, m
  <2>2. j # h.num + 1
    BY <2>1 DEF Extended
  <2>3. j \in 1..h.num
    BY <1>2, <2>2 DEF m
  <2> QED BY <2>1, <2>3 DEF Extended
<1>5. ASSUME NEW j \in 1..m, NEW q \in e[j].by
      PROVE  /\ q \in DOMAIN lp => j <= lp[q]
             /\ q \notin DOMAIN lp /\ h.pending.producers # {} => j <= h.pendingNum
  <2>1. CASE q = p
    <3>1. q \in DOMAIN lp /\ lp[q] = m
      BY <1>3, <2>1
    <3> QED BY <1>2, <3>1
  <2>2. CASE q # p
    <3>1. j \in 1..h.num /\ q \in c[j].by
      BY <1>4, <2>2
    <3>2. /\ q \in DOMAIN h.lastProduced => j <= h.lastProduced[q]
          /\ q \notin DOMAIN h.lastProduced /\ h.pending.producers # {} => j <= h.pendingNum
      BY <3>1 DEF Latest
    <3> QED BY <1>3, <2>2, <3>2
  <2> QED BY <2>1, <2>2
<1>6. m # 1
  BY <1>2 DEF m
<1>7. h.active.producers \subseteq DOMAIN lp
  <2>1. CASE h.num = 1
    <3>1. h.active.producers = {Genesis}
      BY <2>1 DEF Latest
    <3>2. h.active.producers = {p}
      BY <3>1
    <3> QED BY <1>3, <3>2
  <2>2. CASE h.num # 1
    BY <1>3, <2>2 DEF Latest
  <2> QED BY <2>1, <2>2
<1>8. Latest(g, e)
  BY <1>1, <1>5, <1>6, <1>7 DEF Latest
<1> QED BY <1>8 DEF g

(* lastProduced still bounds the confirmations when the schedule changes:  *)
(* a producer that comes back has confirmed nothing above the block that   *)
(* announced the schedule, which is irreversible by now.                   *)
LEMMA LatestPromoted ==
    ASSUME NEW h \in Header, NEW c \in [1..h.num -> Block], Promotes(h), Latest(h, c), h.num # 1
    PROVE  Latest(MaybePromotePending(h), c)
<1> DEFINE r == MaybePromotePending(h)
           k == Kept(h, h.lastProduced)
           lp == With(k, h.producer, h.num)
<1>1. r.num = h.num /\ r.active = h.pending /\ r.pending = NoSchedule /\ r.lastProduced = lp
  BY Promoted
<1>2. /\ h.num \in Nat /\ h.lib \in Nat /\ h.pendingNum \in Nat /\ h.pending.producers # {}
      /\ h.lib >= h.pendingNum /\ h.producer \in Producers
  BY DEF Header, Promotes
<1>3. /\ DOMAIN k = h.pending.producers
      /\ \A q \in h.pending.producers :
            k[q] = IF q \in DOMAIN h.lastProduced THEN h.lastProduced[q] ELSE h.lib
  BY DEF Kept
<1>4. /\ DOMAIN lp = h.pending.producers \cup {h.producer}
      /\ \A q \in DOMAIN lp : lp[q] = IF q = h.producer THEN h.num ELSE k[q]
  BY <1>3 DEF With
<1> HIDE DEF r, k, lp
<1>5. ASSUME NEW j \in 1..h.num, NEW q \in c[j].by, q \in DOMAIN lp
      PROVE  j <= lp[q]
  <2>1. CASE q = h.producer
    <3>1. lp[q] = h.num
      BY <1>4, <1>5, <2>1
    <3> QED BY <1>2, <3>1
  <2>2. CASE q # h.producer /\ q \in DOMAIN h.lastProduced
    <3>1. lp[q] = h.lastProduced[q]
      BY <1>3, <1>4, <1>5, <2>2
    <3> QED BY <2>2, <3>1 DEF Latest
  <2>3. CASE q # h.producer /\ q \notin DOMAIN h.lastProduced
    <3>1. lp[q] = h.lib
      BY <1>3, <1>4, <1>5, <2>3
    <3>2. j <= h.pendingNum
      BY <1>2, <2>3 DEF Latest
    <3> QED BY <1>2, <3>1, <3>2
  <2> QED BY <2>1, <2>2, <2>3
<1>6. r.pending.producers = {} /\ r.active.producers \subseteq DOMAIN lp
  BY <1>1, <1>4 DEF NoSchedule
<1>7. Latest(r, c)
  BY <1>1, <1>5, <1>6 DEF Latest
<1> QED BY <1>7 DEF r

(* All that holds of a header state with the history of its chain.         *)
Sound(h, c) == /\ h \in Header /\ c \in [1..h.num -> Block]
               /\ Tracked(h, c) /\ Backed(h, c) /\ Implied(h) /\ Latest(h, c)

(* The header state of a new block is sound, and its schedule changes only *)
(* by promotion.                                                           *)
LEMMA StartedSound ==
    ASSUME NEW h, NEW c, NEW d, NEW e, NEW p \in h.active.producers, NEW n \in 0..(h.num - 1),
           Sound(h, c), ~DoubleConfirms(h, p, n),
           Extended(h, c, d), Signed(h.num + 1, d, e, p, (h.num + 1) - n)
    PROVE  LET s == SetConfirmed(GenerateNext(h, p), n)
               r == Started(h, p, n)
           IN /\ Sound(r, e) /\ r.num = h.num + 1
              /\ s.pending = h.pending /\ s.active = h.active
              /\ Promotes(s) => r.active = h.pending /\ r.pending = NoSchedule
              /\ ~Promotes(s) => r = s
<1> DEFINE g == GenerateNext(h, p)
           s == SetConfirmed(g, n)
           r == Started(h, p, n)
           m == h.num + 1
<1>1. h \in Header /\ c \in [1..h.num -> Block] /\ Tracked(h, c) /\ Backed(h, c) /\ Implied(h) /\ Latest(h, c)
  BY DEF Sound
<1>2. h.num \in Nat \ {0} /\ h.proposed \in Nat /\ n \in Nat /\ Len(h.confirmCount) \in Nat
  BY <1>1 DEF Header
<1>3. p \in Producers
  <2>1. h.active.producers \in Known
    BY <1>1 DEF Header
  <2> QED BY <2>1, KnownSets
<1>4. g \in Header /\ g.num = m /\ g.proposed = h.proposed /\ g.active = h.active /\ g.pending = h.pending
  BY <1>1, <1>3, Generated
<1>5. d \in [1..m -> Block] /\ e \in [1..m -> Block]
  BY DEF Extended, Signed
<1>6. Tracked(g, d)
  BY <1>1, <1>3, GeneratedTracked
<1>7. Backed(g, d)
  <2> SUFFICES ASSUME h.proposed # 0 PROVE Cardinality(d[h.proposed].by) >= d[h.proposed].required
    BY <1>4 DEF Backed
  <2>1. h.proposed \in 1..h.num
    <3>1. h.proposed + Len(h.confirmCount) <= h.num
      BY <1>1 DEF Tracked
    <3> QED BY <1>2, <3>1
  <2>2. d[h.proposed] = c[h.proposed]
    BY <2>1 DEF Extended
  <2> QED BY <1>1, <2>2 DEF Backed
<1>8. Implied(g) /\ Latest(g, e)
  BY <1>1, <1>3, ImpliedGenerated, LatestGenerated
<1>9. \A j \in 1..g.num : j >= g.num - n => p \notin d[j].by
  BY <1>1, <1>4, Unconfirmed
<1>10. Signed(g.num, d, e, p, g.num - n)
  BY <1>4
<1> HIDE DEF g, m
<1>11. Tracked(s, e) /\ Backed(s, e) /\ s.proposed >= g.proposed
  BY <1>2, <1>3, <1>4, <1>5, <1>6, <1>7, <1>9, <1>10, ConfirmedTracked
<1>12. Len(g.confirmCount) <= g.num
  <2>1. g.proposed \in Nat /\ g.num \in Nat /\ Len(g.confirmCount) \in Nat
    BY <1>4 DEF Header
  <2>2. g.proposed + Len(g.confirmCount) <= g.num
    BY <1>6 DEF Tracked
  <2> QED BY <2>1, <2>2
<1>13. /\ s \in Header /\ s.num = g.num /\ s.active = g.active /\ s.pending = g.pending
       /\ s.pendingNum = g.pendingNum /\ s.lastProduced = g.lastProduced
       /\ s.impliedIrb = g.impliedIrb /\ s.lib = g.lib
  BY <1>2, <1>4, <1>12, Confirmed
<1> HIDE DEF s
<1>14. Implied(s)
  <2>1. /\ g.lib \in Nat /\ g.proposed \in Nat /\ s.proposed \in Nat
        /\ \A q \in DOMAIN g.impliedIrb : g.impliedIrb[q] \in Nat
    <3>1. g.impliedIrb \in Maps
      BY <1>4 DEF Header
    <3> QED BY <1>4, <1>13, <3>1, MapFacts DEF Header
  <2>2. g.lib <= g.proposed /\ \A q \in DOMAIN g.impliedIrb : g.impliedIrb[q] <= g.proposed
    BY <1>8 DEF Implied
  <2>3. g.lib <= s.proposed /\ \A q \in DOMAIN g.impliedIrb : g.impliedIrb[q] <= s.proposed
    BY <1>11, <2>1, <2>2
  <2> QED BY <1>13, <2>3 DEF Implied
<1>15. Latest(s, e)
  BY <1>8, <1>13 DEF Latest
<1>16. Sound(s, e) /\ s.num = m
  BY <1>4, <1>5, <1>11, <1>13, <1>14, <1>15 DEF Sound
<1>17. r = MaybePromotePending(s)
  BY DEF Started, s, g
<1>18. CASE ~Promotes(s)
  <2>1. r = s
    BY <1>17, <1>18 DEF MaybePromotePending
  <2> QED BY <1>4, <1>13, <1>16, <1>18, <2>1 DEF s, g, m
<1>19. CASE Promotes(s)
  <2>1. s.num # 1
    BY <1>2, <1>16 DEF m
  <2> HIDE DEF r
  <2>2. /\ r \in Header /\ r.num = s.num /\ r.active = s.pending /\ r.pending = NoSchedule
        /\ r.confirmCount = s.confirmCount /\ r.proposed = s.proposed
    BY <1>13, <1>17, <1>19, Promoted
  <2>3. Implied(r)
    BY <1>13, <1>14, <1>17, <1>19, ImpliedPromoted
  <2>4. Latest(r, e)
    BY <1>5, <1>13, <1>15, <1>16, <1>17, <1>19, <2>1, LatestPromoted
  <2>5. Tracked(r, e) /\ Backed(r, e)
    BY <1>11, <2>2 DEF Tracked, Backed
  <2>6. Sound(r, e)
    BY <1>5, <1>16, <2>2, <2>3, <2>4, <2>5 DEF Sound
  <2> QED BY <1>4, <1>13, <1>16, <1>19, <2>2, <2>6 DEF s, g, m, r
<1> QED BY <1>18, <1>19

-----------------------------------------------------------------------------

(* A schedule that becomes the pending one leaves the header state sound.  *)
LEMMA AnnouncedSound ==
    ASSUME NEW h, NEW c, NEW s \in [version : Nat, producers : Known], Sound(h, c)
    PROVE  Sound(SetNewProducers(h, s), c)
<1> DEFINE r == SetNewProducers(h, s)
<1>1. h \in Header /\ c \in [1..h.num -> Block] /\ Tracked(h, c) /\ Backed(h, c) /\ Implied(h) /\ Latest(h, c)
  BY DEF Sound
<1>2. /\ r \in Header
      /\ r.num = h.num /\ r.producer = h.producer /\ r.active = h.active
      /\ r.pending = s /\ r.pendingNum = h.num
      /\ r.lastProduced = h.lastProduced /\ r.impliedIrb = h.impliedIrb
      /\ r.confirmCount = h.confirmCount /\ r.proposed = h.proposed /\ r.lib = h.lib
  BY <1>1, Announced
<1> HIDE DEF r
<1>3. Tracked(r, c) /\ Backed(r, c) /\ Implied(r)
  BY <1>1, <1>2 DEF Tracked, Backed, Implied
<1>4. \A j \in 1..h.num : j <= r.pendingNum
  BY <1>1, <1>2 DEF Header
<1>5. Latest(r, c)
  BY <1>1, <1>2, <1>4 DEF Latest
<1>6. Sound(r, c)
  BY <1>1, <1>2, <1>3, <1>5 DEF Sound
<1> QED BY <1>6 DEF r

(* The latest schedule that is known.                                      *)
Latter(h) == IF h.pending.producers = {} THEN h.active ELSE h.pending

(* A proposal is a schedule of the ones there can be, numbered as the next.*)
Fitting(h, q) ==
    q.num # 0 => /\ q.schedule \in [version : Nat, producers : Known]
                 /\ q.schedule.version = Latter(h).version + 1

(* What blocks of a schedule require fits eight bits.                      *)
Small(S) == (Cardinality(S) * 2) \div 3 + 1 <= 255

(* No schedule has more producers than a count of eight bits can hold.     *)
Fits8 == \A S \in Schedules : Small(S)

(* So no block requires more.                                              *)
Bounded(h, c) == Fits8 => \A j \in 1..h.num : c[j].required <= 255

(* The inductive invariant.                                                *)
HeaderInv == Sound(head, past) /\ Fitting(head, proposal) /\ Bounded(head, past)

(* What a block requires fits eight bits when the schedules do.            *)
LEMMA RequiredSmall ==
    ASSUME NEW h \in Header, Fits8
    PROVE  RequiredConfs(h) <= 255
<1>1. h.active.producers \in Known
  BY DEF Header
<1>2. CASE h.active.producers \in Schedules
  BY <1>2 DEF Fits8, Small, RequiredConfs
<1>3. CASE h.active.producers = {Genesis}
  <2>1. Cardinality(h.active.producers) = 1
    BY <1>3, FS_Singleton
  <2> QED BY <2>1 DEF RequiredConfs
<1> QED BY <1>1, <1>2, <1>3 DEF Known

(* The invariant holds of the genesis header.                              *)
LEMMA HeaderInit == Init => HeaderInv
<1> SUFFICES ASSUME Init PROVE HeaderInv
  OBVIOUS
<1> DEFINE sch == [version |-> 0, producers |-> {Genesis}]
<1>1. past = <<[by |-> {}, required |-> 0, lib |-> 0]>>
  BY DEF Init
<1>2. head = [num |-> 1, producer |-> CHOOSE p \in {Genesis} : TRUE,
              active |-> sch, pending |-> sch, pendingNum |-> 0,
              lastProduced |-> <<>>, impliedIrb |-> <<>>, confirmCount |-> <<>>,
              proposed |-> 0, lib |-> 0]
  BY DEF Init, GenesisHeader
<1>3. /\ head.num = 1 /\ head.active = sch /\ head.pending = sch /\ head.pendingNum = 0
      /\ head.lastProduced = <<>> /\ head.impliedIrb = <<>> /\ head.confirmCount = <<>>
      /\ head.proposed = 0 /\ head.lib = 0
  BY <1>2
<1>4. (CHOOSE p \in {Genesis} : TRUE) \in Producers
  BY HeaderChainAssumption
<1>5. <<>> \in Maps
  <2>1. <<>> \in [{} -> Nat]
    OBVIOUS
  <2> QED BY <2>1 DEF Maps
<1>6. sch \in [version : Nat, producers : Known]
  BY DEF Known
<1>7. sch \in [version : Nat, producers : Known \cup {{}}]
  BY DEF Known
<1>8. <<>> \in Seq(Nat \ {0})
  OBVIOUS
<1>9. head \in Header
  <2> DEFINE C == Seq(Nat \ {0})
             pr == CHOOSE p \in {Genesis} : TRUE
             no == <<>>
  <2>1. no \in C /\ pr \in Producers /\ no \in Maps
    BY <1>4, <1>5, <1>8
  <2>2. 1 \in Nat \ {0} /\ 0 \in Nat
    OBVIOUS
  <2>3. head = [num |-> 1, producer |-> pr,
              active |-> sch, pending |-> sch, pendingNum |-> 0,
              lastProduced |-> no, impliedIrb |-> no, confirmCount |-> no,
              proposed |-> 0, lib |-> 0]
    BY <1>2
  <2> HIDE DEF C, pr, no, sch
  <2>4. head \in [num : Nat \ {0}, producer : Producers,
           active : [version : Nat, producers : Known],
           pending : [version : Nat, producers : Known \cup {{}}],
           pendingNum : Nat, lastProduced : Maps, impliedIrb : Maps,
           confirmCount : C, proposed : Nat, lib : Nat]
    BY <1>6, <1>7, <2>1, <2>2, <2>3
  <2> QED BY <2>4 DEF C, Header
<1>10. past \in [1..1 -> Block] /\ past[1].by = {} /\ past[1].required = 0
  BY <1>1 DEF Block
<1> HIDE DEF sch
<1>11. Len(head.confirmCount) = 0
  BY <1>3
<1>12. Tracked(head, past)
  BY <1>3, <1>11 DEF Tracked
<1>13. Backed(head, past) /\ Implied(head)
  BY <1>3 DEF Backed, Implied
<1>14. Latest(head, past)
  <2>1. \A j \in 1..1 : past[j].by = {}
    BY <1>10
  <2>2. head.active.producers = {Genesis}
    BY <1>3 DEF sch
  <2> QED BY <1>3, <2>1, <2>2 DEF Latest
<1>15. Sound(head, past)
  BY <1>3, <1>9, <1>10, <1>12, <1>13, <1>14 DEF Sound
<1>16. Fitting(head, proposal)
  BY DEF Init, NoProposal, Fitting
<1>17. Bounded(head, past)
  <2>1. \A j \in 1..1 : past[j].required = 0
    BY <1>10
  <2> QED BY <1>3, <2>1 DEF Bounded
<1> QED BY <1>15, <1>16, <1>17 DEF HeaderInv

(* The template of a new block tracks no more blocks than there are.      *)
LEMMA GeneratedFits ==
    ASSUME NEW h \in Header, NEW p \in Producers, Len(h.confirmCount) <= h.num
    PROVE  /\ GenerateNext(h, p) \in Header
           /\ Len(GenerateNext(h, p).confirmCount) <= GenerateNext(h, p).num
<1> DEFINE g == GenerateNext(h, p)
<1>1. g \in Header /\ g.num = h.num + 1 /\ g.confirmCount = Append(Counts(h), RequiredConfs(h))
  BY Generated
<1>2. Len(g.confirmCount) <= Len(h.confirmCount) + 1
  <2>1. Counts(h) \in Seq(Nat \ {0}) /\ Len(Counts(h)) <= Len(h.confirmCount)
    BY CountsFacts
  <2>2. Len(g.confirmCount) = Len(Counts(h)) + 1
    BY <1>1, <2>1, RequiredNat, AppendProperties
  <2>3. Len(Counts(h)) \in Nat /\ Len(h.confirmCount) \in Nat
    BY CountsFacts
  <2>4. Len(Counts(h)) <= Len(h.confirmCount)
    BY <2>1
  <2> QED BY <2>2, <2>3, <2>4
<1>3. Len(g.confirmCount) <= g.num
  <2>1. h.num \in Nat /\ Len(h.confirmCount) \in Nat /\ Len(g.confirmCount) \in Nat
    BY <1>1, CountsFacts DEF Header
  <2> QED BY <1>1, <1>2, <2>1
<1> QED BY <1>1, <1>3

(* A new block has a header state.                                         *)
LEMMA StartedHeader ==
    ASSUME NEW h \in Header, NEW p \in Producers, NEW n \in Nat, Len(h.confirmCount) <= h.num
    PROVE  Started(h, p, n) \in Header
<1> DEFINE g == GenerateNext(h, p)
           s == SetConfirmed(g, n)
<1>1. g \in Header /\ Len(g.confirmCount) <= g.num
  BY GeneratedFits
<1> HIDE DEF g
<1>2. s \in Header
  BY <1>1, Confirmed
<1> HIDE DEF s
<1>3. MaybePromotePending(s) \in Header
  <2>1. CASE Promotes(s)
    BY <1>2, <2>1, Promoted
  <2>2. CASE ~Promotes(s)
    BY <1>2, <2>2 DEF MaybePromotePending
  <2> QED BY <2>1, <2>2
<1> QED BY <1>3 DEF Started, s, g

(* A new block keeps the invariant.                                        *)
LEMMA BlockKeepsInv ==
    ASSUME HeaderInv, NEW p \in head.active.producers, NEW n \in 0..(head.num - 1), NewBlock(p, n)
    PROVE  HeaderInv'
<1> DEFINE h == Started(head, p, n)
           s == SetConfirmed(GenerateNext(head, p), n)
           new == [by |-> {}, required |-> RequiredConfs(head), lib |-> h.lib]
           d == Append(past, new)
           m == head.num + 1
<1>1. Sound(head, past) /\ Fitting(head, proposal) /\ Bounded(head, past)
  BY DEF HeaderInv
<1>2. head \in Header /\ past \in [1..head.num -> Block] /\ head.num \in Nat \ {0} /\ n \in Nat
  BY <1>1 DEF Sound, Header
<1>3. ~DoubleConfirms(head, p, n)
  BY DEF NewBlock
<1>4. past' = [i \in 1..m |-> IF i >= m - n THEN [d[i] EXCEPT !.by = @ \cup {p}] ELSE d[i]]
  <2>1. head.num + 1 - n = m - n
    BY <1>2
  <2> QED BY <2>1 DEF NewBlock
<1>5. p \in Producers
  <2>1. head.active.producers \in Known
    BY <1>2 DEF Header
  <2> QED BY <2>1, KnownSets
<1>6. h.lib \in Nat
  <2>1. Len(head.confirmCount) <= head.num
    <3>1. head.proposed + Len(head.confirmCount) <= head.num
      BY <1>1 DEF Sound, Tracked
    <3>2. head.proposed \in Nat /\ head.num \in Nat /\ Len(head.confirmCount) \in Nat
      BY <1>2, CountsFacts DEF Header
    <3> QED BY <3>1, <3>2
  <2>2. h \in Header
    BY <1>2, <1>5, <2>1, StartedHeader
  <2> HIDE DEF h
  <2> QED BY <2>2 DEF Header
<1>7. RequiredConfs(head) \in Nat
  BY <1>2, RequiredNat
<1>8. new \in Block /\ new.by = {} /\ new.required = RequiredConfs(head)
  <2> HIDE DEF h
  <2> QED BY <1>6, <1>7 DEF Block
<1>9. d \in [1..m -> Block] /\ (\A j \in 1..head.num : d[j] = past[j]) /\ d[m] = new
  <2> HIDE DEF new
  <2>1. past \in Seq(Block) /\ Len(past) = head.num
    BY <1>2
  <2>2. /\ d \in Seq(Block) /\ Len(d) = m /\ (\A j \in 1..head.num : d[j] = past[j])
        /\ d[m] = new
    BY <1>8, <2>1, AppendProperties
  <2>3. d \in [1..m -> Block]
    <3> HIDE DEF d, m
    <3> QED BY <2>2
  <2> QED BY <2>2, <2>3
<1> HIDE DEF new, d
<1>10. Extended(head, past, d)
  BY <1>8, <1>9 DEF Extended
<1>11. past' \in [1..m -> Block] /\ \A j \in 1..m :
          /\ past'[j].required = d[j].required
          /\ past'[j].by = IF j >= m - n THEN d[j].by \cup {p} ELSE d[j].by
  <2>1. ASSUME NEW j \in 1..m
        PROVE  /\ past'[j] \in Block /\ past'[j].required = d[j].required
               /\ past'[j].by = IF j >= m - n THEN d[j].by \cup {p} ELSE d[j].by
    <3>1. d[j] \in Block
      BY <1>9
    <3>2. past'[j] = IF j >= m - n THEN [d[j] EXCEPT !.by = @ \cup {p}] ELSE d[j]
      BY <1>4
    <3> HIDE DEF m
    <3> QED BY <1>5, <3>1, <3>2 DEF Block
  <2>2. DOMAIN past' = 1..m /\ past' = [j \in 1..m |-> past'[j]]
    BY <1>4
  <2> HIDE DEF m
  <2> QED BY <2>1, <2>2
<1>12. Signed(head.num + 1, d, past', p, (head.num + 1) - n)
  BY <1>11 DEF Signed
<1>13. /\ Sound(h, past') /\ h.num = m
       /\ s.pending = head.pending /\ s.active = head.active
       /\ Promotes(s) => h.active = head.pending /\ h.pending = NoSchedule
       /\ ~Promotes(s) => h = s
  BY <1>1, <1>3, <1>10, <1>12, StartedSound
<1>14. head'.num = m /\ Sound(head', past') /\ Fitting(head', proposal')
  <2>1. CASE TakesProposal(head, p, n)
    <3>1. head' = SetNewProducers(h, proposal.schedule) /\ proposal' = NoProposal /\ proposal.num # 0
      BY <2>1 DEF NewBlock, TakesProposal
    <3>2. proposal.schedule \in [version : Nat, producers : Known]
      BY <1>1, <3>1 DEF Fitting
    <3> HIDE DEF h
    <3>3. Sound(head', past')
      BY <1>13, <3>1, <3>2, AnnouncedSound
    <3>4. head'.num = m
      <4>1. h \in Header
        BY <1>13 DEF Sound
      <4> QED BY <1>13, <3>1, <3>2, <4>1, Announced
    <3>5. Fitting(head', proposal')
      BY <3>1 DEF Fitting, NoProposal
    <3> QED BY <3>3, <3>4, <3>5
  <2>2. CASE ~TakesProposal(head, p, n)
    <3>1. head' = h /\ proposal' = proposal
      BY <2>2 DEF NewBlock
    <3> HIDE DEF h, s
    <3>2. proposal.num # 0 => Latter(h).version = Latter(head).version
      <4>1. CASE Promotes(s)
        <5>1. head.pending.producers # {}
          BY <1>13, <4>1 DEF Promotes
        <5>2. h.active = head.pending /\ h.pending.producers = {}
          BY <1>13, <4>1 DEF NoSchedule
        <5> QED BY <5>1, <5>2 DEF Latter
      <4>2. CASE ~Promotes(s)
        BY <1>13, <4>2 DEF Latter
      <4> QED BY <4>1, <4>2
    <3>3. Fitting(h, proposal)
      BY <1>1, <3>2 DEF Fitting
    <3> QED BY <1>13, <3>1, <3>3
  <2> QED BY <2>1, <2>2
<1>15. Bounded(head', past')
  <2> SUFFICES ASSUME Fits8, NEW j \in 1..m PROVE past'[j].required <= 255
    BY <1>14 DEF Bounded
  <2>1. past'[j].required = d[j].required
    BY <1>11
  <2>2. CASE j = m
    BY <1>2, <1>8, <1>9, <2>1, <2>2, RequiredSmall
  <2>3. CASE j # m
    <3>1. j \in 1..head.num
      BY <1>2, <2>3
    <3> QED BY <1>1, <1>9, <2>1, <3>1 DEF Bounded
  <2> QED BY <2>2, <2>3
<1> QED BY <1>14, <1>15 DEF HeaderInv

(* Every step keeps the invariant.                                         *)
LEMMA HeaderNext == HeaderInv /\ [Next]_vars => HeaderInv'
<1> SUFFICES ASSUME HeaderInv, [Next]_vars PROVE HeaderInv'
  OBVIOUS
<1>1. CASE \E p \in head.active.producers : \E n \in 0..(head.num - 1) : NewBlock(p, n)
  BY <1>1, BlockKeepsInv
<1>2. ASSUME NEW S \in Schedules, SetProposedProducers(S) PROVE HeaderInv'
  <2>1. head' = head /\ past' = past
    BY <1>2 DEF SetProposedProducers
  <2>2. /\ proposal'.schedule = [version |-> Latter(head).version + 1, producers |-> S]
    BY <1>2 DEF SetProposedProducers, Latter
  <2>3. Latter(head).version \in Nat
    <3>1. head \in Header
      BY DEF HeaderInv, Sound
    <3> QED BY <3>1 DEF Header, Latter
  <2>4. Fitting(head, proposal')
    BY <2>2, <2>3 DEF Fitting, Known
  <2> QED BY <2>1, <2>4 DEF HeaderInv
<1>3. CASE UNCHANGED vars
  BY <1>3 DEF vars, HeaderInv
<1> QED BY <1>1, <1>2, <1>3 DEF Next

(* The inductive invariant of the header chain: counts, confirmations,     *)
(* last blocks of producers and schedule numbers agree in every reachable  *)
(* state (generate_next, set_confirmed, maybe_promote_pending,             *)
(* set_new_producers, start_block, set_proposed_producers).                *)
THEOREM HeadersSound == Spec => []HeaderInv
<1>1. Init => HeaderInv
  BY HeaderInit
<1>2. HeaderInv /\ [Next]_vars => HeaderInv'
  BY HeaderNext
<1> QED BY <1>1, <1>2, PTL DEF Spec

(* A block is proposed as irreversible only after as many different        *)
(* producers as it requires confirmed it, whatever schedules change in     *)
(* between (set_confirmed, producer_double_confirm in next).               *)
THEOREM IrreversibleConfirmed == Spec => []ProposedConfirmed
<1>1. HeaderInv => ProposedConfirmed
  BY DEF HeaderInv, Sound, Backed, ProposedConfirmed
<1> QED BY <1>1, HeadersSound, PTL

(* A proposed schedule has the number that follows the latest schedule,    *)
(* from the transaction that proposes it until it is taken                 *)
(* (set_proposed_producers).                                               *)
THEOREM ProposalsFit == Spec => []ProposalFits
<1>1. HeaderInv => ProposalFits
  BY DEF HeaderInv, Fitting, Latter, ProposalFits
<1> QED BY <1>1, HeadersSound, PTL

(* The counted blocks lie above the proposed one, which lies above the     *)
(* irreversible one, and each misses between 1 and 255 confirmations, when *)
(* no schedule is so large that a count does not fit the eight bits of     *)
(* confirm_count. block_header_state.cpp:80 asserts this for               *)
(* max_producers, which nothing checks when a schedule is proposed: it is  *)
(* a hypothesis here.                                                      *)
THEOREM WindowKept == Fits8 => (Spec => []Window)
<1> SUFFICES ASSUME Fits8 PROVE Spec => []Window
  OBVIOUS
<1>1. HeaderInv => Window
  <2> SUFFICES ASSUME HeaderInv PROVE Window
    OBVIOUS
  <2> DEFINE len == Len(head.confirmCount)
             off == head.num - len
  <2>1. /\ head \in Header /\ past \in [1..head.num -> Block]
        /\ Tracked(head, past) /\ Implied(head) /\ Bounded(head, past)
    BY DEF HeaderInv, Sound
  <2>2. /\ head.num \in Nat /\ head.proposed \in Nat /\ len \in Nat
        /\ DOMAIN head.confirmCount = 1..len
        /\ \A i \in 1..len : head.confirmCount[i] \in Nat \ {0}
    BY <2>1 DEF Header
  <2>3. /\ head.proposed + len <= head.num
        /\ \A i \in 1..len : head.confirmCount[i] + Cardinality(past[off + i].by) = past[off + i].required
    BY <2>1 DEF Tracked
  <2> HIDE DEF len
  <2>4. ASSUME NEW i \in 1..len PROVE head.confirmCount[i] \in 1..255
    <3>1. off + i \in 1..head.num
      BY <2>2, <2>3
    <3>2. Cardinality(past[off + i].by) \in Nat /\ past[off + i].required \in Nat
      BY <2>1, <3>1, Finite
    <3>3. past[off + i].required <= 255
      BY <2>1, <3>1 DEF Bounded
    <3>4. head.confirmCount[i] + Cardinality(past[off + i].by) = past[off + i].required
      BY <2>3
    <3>5. head.confirmCount[i] \in Nat \ {0}
      BY <2>2
    <3> HIDE DEF off
    <3> QED BY <3>2, <3>3, <3>4, <3>5
  <2>5. head.lib <= head.proposed
    BY <2>1 DEF Implied
  <2> QED BY <2>2, <2>3, <2>4, <2>5 DEF Window, len
<1> QED BY <1>1, HeadersSound, PTL

(* Whenever start_block takes a proposal, set_new_producers accepts it.    *)
ProposalAccepted ==
    \A p \in head.active.producers : \A n \in 0..(head.num - 1) :
        ~DoubleConfirms(head, p, n) /\ TakesProposal(head, p, n)
            => CanSetNewProducers(Started(head, p, n), proposal.schedule)

(* start_block never throws in set_new_producers on a chain that other     *)
(* nodes accept.                                                           *)
THEOREM ProposalsAccepted == Spec => []ProposalAccepted
<1>1. HeaderInv => ProposalAccepted
  <2> SUFFICES ASSUME HeaderInv, NEW p \in head.active.producers, NEW n \in 0..(head.num - 1),
                      TakesProposal(head, p, n)
               PROVE  CanSetNewProducers(Started(head, p, n), proposal.schedule)
    BY DEF ProposalAccepted
  <2> DEFINE g == GenerateNext(head, p)
             s == SetConfirmed(g, n)
  <2>1. head \in Header /\ Fitting(head, proposal) /\ n \in Nat
    BY DEF HeaderInv, Sound, Header
  <2>2. p \in Producers
    <3>1. head.active.producers \in Known
      BY <2>1 DEF Header
    <3> QED BY <3>1, KnownSets
  <2>3. ~Promotes(s) /\ Started(head, p, n).pending.producers = {} /\ proposal.num # 0
    BY DEF TakesProposal
  <2>4. Started(head, p, n) = s
    BY <2>3 DEF Started, MaybePromotePending
  <2>5. g \in Header /\ g.active = head.active /\ g.pending = head.pending
    BY <2>1, <2>2, Generated
  <2>6. s.active = g.active /\ s.pending = g.pending
    <3> HIDE DEF g
    <3> QED BY <2>5 DEF SetConfirmed, Header
  <2>7. Latter(head) = head.active
    BY <2>3, <2>4, <2>5, <2>6 DEF Latter
  <2> HIDE DEF s, g
  <2> QED BY <2>1, <2>3, <2>4, <2>5, <2>6, <2>7 DEF Fitting, CanSetNewProducers
<1> QED BY <1>1, HeadersSound, PTL

-----------------------------------------------------------------------------
(* Where BlockBecomesHead holds: calc_dpos_last_irreversible skips a third *)
(* of the producers that the schedule knows, so a third of them may have   *)
(* implied less than the irreversible block; a schedule that keeps these   *)
(* and has a smaller third makes the number fall (the run HeaderShrink).   *)
(* A schedule whose third is not smaller never does.                       *)

(* How many producers of a schedule calc_dpos_last_irreversible skips.     *)
Third(S) == (Cardinality(S) - 1) \div 3

(* The pending schedule does not skip fewer than the active one.           *)
NeverShrinks ==
    head.pending.producers # {} => Third(head.active.producers) <= Third(head.pending.producers)

(* The producers that implied less than v.                                 *)
Behind(irb, v) == {p \in DOMAIN irb : irb[p] < v}

(* The irreversible number of a header is what its producers imply: no     *)
(* more than a third of them is behind.                                    *)
Ranked(h) == /\ DOMAIN h.impliedIrb \subseteq h.active.producers
             /\ h.lib # 0 => Cardinality(Behind(h.impliedIrb, h.lib)) <= Third(DOMAIN h.impliedIrb)

(* The numbers that the blocks of the chain declared irreversible rise, up *)
(* to the one of the newest block.                                         *)
Rising == Ranked(head) /\ past[head.num].lib = head.lib /\ BlockBecomesHead

(* A third of a set is not larger than a third of one that contains it.    *)
LEMMA ThirdGrows ==
    ASSUME NEW S, NEW T, IsFiniteSet(T), S \subseteq T
    PROVE  Third(S) \in Int /\ Third(T) \in Int /\ Third(S) <= Third(T)
<1> DEFINE a == Cardinality(S)
           b == Cardinality(T)
<1>1. a \in Nat /\ b \in Nat /\ a <= b
  BY FS_Subset, FS_CardinalityType
<1> HIDE DEF a, b
<1>2. (a - 1) \div 3 \in Int /\ (b - 1) \div 3 \in Int /\ (a - 1) \div 3 <= (b - 1) \div 3
  BY <1>1
<1> QED BY <1>2 DEF Third, a, b

(* A producer that implies at least the irreversible number does not let   *)
(* calc_dpos_last_irreversible fall below it.                              *)
LEMMA Rises ==
    ASSUME NEW irb \in Maps, NEW p \in Producers, NEW v \in Nat, NEW lib \in Nat, lib <= v,
           lib # 0 => Cardinality(Behind(irb, lib)) <= Third(DOMAIN irb)
    PROVE  LET new == With(irb, p, v)
               low == CalcDposLastIrreversible(new)
           IN low \in Nat /\ lib <= low /\ Cardinality(Behind(new, low)) <= Third(DOMAIN new)
<1> DEFINE new == With(irb, p, v)
           low == CalcDposLastIrreversible(new)
           upto == {q \in DOMAIN new : new[q] <= low}
<1>1. /\ new \in Maps /\ DOMAIN new = DOMAIN irb \cup {p} /\ new[p] = v
      /\ \A q \in DOMAIN irb \ {p} : new[q] = irb[q]
  BY MapWith
<1> HIDE DEF new
<1>2. IsFiniteSet(DOMAIN new) /\ DOMAIN new # {} /\ (\A q \in DOMAIN new : new[q] \in Nat)
      /\ (\A q \in DOMAIN irb : irb[q] \in Nat) /\ IsFiniteSet(DOMAIN irb)
  BY <1>1, MapFacts
<1>3. /\ \E q \in DOMAIN new : low = new[q]
      /\ Cardinality(Behind(new, low)) <= Third(DOMAIN new)
      /\ Third(DOMAIN new) < Cardinality(upto)
  BY <1>2, OrderStatistic DEF Behind, Third
<1> HIDE DEF low
<1>4. low \in Nat
  BY <1>2, <1>3
<1>5. lib <= low
  <2> SUFFICES ASSUME low < lib PROVE FALSE
    BY <1>4
  <2>1. lib # 0
    BY <1>4
  <2>2. upto \subseteq Behind(irb, lib)
    <3> SUFFICES ASSUME NEW q \in DOMAIN new, new[q] <= low PROVE q \in DOMAIN irb /\ irb[q] < lib
      BY DEF Behind
    <3>1. q # p
      BY <1>1, <1>4
    <3>2. q \in DOMAIN irb /\ new[q] = irb[q]
      BY <1>1, <3>1
    <3>3. irb[q] \in Nat
      BY <1>2, <3>2
    <3> QED BY <1>4, <3>2, <3>3
  <2>3. IsFiniteSet(Behind(irb, lib))
    BY <1>2, FS_Subset DEF Behind
  <2>4. Cardinality(upto) <= Cardinality(Behind(irb, lib))
        /\ Cardinality(upto) \in Nat /\ Cardinality(Behind(irb, lib)) \in Nat
    BY <2>2, <2>3, FS_Subset, FS_CardinalityType
  <2>5. Third(DOMAIN irb) \in Int /\ Third(DOMAIN new) \in Int /\ Third(DOMAIN irb) <= Third(DOMAIN new)
    BY <1>1, <1>2, ThirdGrows
  <2> QED BY <1>3, <2>1, <2>4, <2>5
<1> QED BY <1>3, <1>4, <1>5 DEF new, low

(* A schedule that becomes active leaves no more than a third behind, when *)
(* its third is not smaller.                                               *)
LEMMA RankedPromoted ==
    ASSUME NEW h \in Header, Promotes(h), Ranked(h),
           Third(h.active.producers) <= Third(h.pending.producers)
    PROVE  Ranked(MaybePromotePending(h))
<1> DEFINE r == MaybePromotePending(h)
           irb == h.impliedIrb
           ki == Kept(h, irb)
<1>1. r.active = h.pending /\ r.impliedIrb = ki /\ r.lib = h.lib
  BY Promoted
<1>2. DOMAIN ki = h.pending.producers
  BY DEF Kept
<1>3. /\ irb \in Maps /\ h.lib \in Nat /\ h.active.producers \in Known
      /\ h.pending.producers \in Known
  BY DEF Header, Promotes
<1>4. Behind(ki, h.lib) \subseteq Behind(irb, h.lib)
  <2> SUFFICES ASSUME NEW q \in h.pending.producers, ki[q] < h.lib
               PROVE  q \in DOMAIN irb /\ irb[q] < h.lib
    BY <1>2 DEF Behind
  <2>1. ki[q] = IF q \in DOMAIN irb THEN irb[q] ELSE h.lib
    BY DEF Kept
  <2>2. ~(h.lib < h.lib)
    BY <1>3
  <2> HIDE DEF ki, irb
  <2> QED BY <2>1, <2>2
<1>5. h.lib # 0 => Cardinality(Behind(ki, h.lib)) <= Third(h.pending.producers)
  <2> SUFFICES ASSUME h.lib # 0 PROVE Cardinality(Behind(ki, h.lib)) <= Third(h.pending.producers)
    OBVIOUS
  <2>1. IsFiniteSet(Behind(irb, h.lib))
    BY <1>3, MapFacts, FS_Subset DEF Behind
  <2>2. /\ Cardinality(Behind(ki, h.lib)) <= Cardinality(Behind(irb, h.lib))
        /\ Cardinality(Behind(ki, h.lib)) \in Nat /\ Cardinality(Behind(irb, h.lib)) \in Nat
    BY <1>4, <2>1, FS_Subset, FS_CardinalityType
  <2>3. Cardinality(Behind(irb, h.lib)) <= Third(DOMAIN irb) /\ DOMAIN irb \subseteq h.active.producers
    BY DEF Ranked
  <2>4. /\ Third(DOMAIN irb) \in Int /\ Third(h.active.producers) \in Int
        /\ Third(DOMAIN irb) <= Third(h.active.producers)
    BY <1>3, <2>3, KnownSets, ThirdGrows
  <2>5. Third(h.pending.producers) \in Int
    BY <1>3, KnownSets, ThirdGrows
  <2> QED BY <2>2, <2>3, <2>4, <2>5
<1> HIDE DEF r, ki
<1>6. Ranked(r)
  BY <1>1, <1>2, <1>5 DEF Ranked
<1> QED BY <1>6 DEF r

(* A new block declares at least the number that the one below declared.   *)
LEMMA StartedRises ==
    ASSUME NEW h \in Header, NEW p \in h.active.producers, NEW n \in Nat,
           Len(h.confirmCount) <= h.num, Implied(h), Ranked(h),
           h.pending.producers # {} => Third(h.active.producers) <= Third(h.pending.producers)
    PROVE  LET r == Started(h, p, n) IN r \in Header /\ Ranked(r) /\ h.lib <= r.lib
<1> DEFINE g == GenerateNext(h, p)
           s == SetConfirmed(g, n)
           irb == With(h.impliedIrb, p, h.proposed)
<1>1. p \in Producers
  <2>1. h.active.producers \in Known
    BY DEF Header
  <2> QED BY <2>1, KnownSets
<1>2. /\ h.impliedIrb \in Maps /\ h.proposed \in Nat /\ h.lib \in Nat /\ h.lib <= h.proposed
  BY DEF Header, Implied
<1>3. /\ g.active = h.active /\ g.pending = h.pending /\ g.impliedIrb = irb
      /\ g.lib = CalcDposLastIrreversible(irb)
  BY <1>1, Generated
<1>4. g \in Header /\ Len(g.confirmCount) <= g.num
  BY <1>1, GeneratedFits
<1>5. /\ g.lib \in Nat /\ h.lib <= g.lib
      /\ Cardinality(Behind(irb, g.lib)) <= Third(DOMAIN irb)
  <2>1. h.lib # 0 => Cardinality(Behind(h.impliedIrb, h.lib)) <= Third(DOMAIN h.impliedIrb)
    BY DEF Ranked
  <2> QED BY <1>1, <1>2, <1>3, <2>1, Rises
<1>6. DOMAIN irb \subseteq h.active.producers
  BY DEF With, Ranked
<1> HIDE DEF g, irb
<1>7. s \in Header /\ s.active = g.active /\ s.pending = g.pending /\ s.impliedIrb = g.impliedIrb /\ s.lib = g.lib
  BY <1>4, Confirmed
<1> HIDE DEF s
<1>8. Ranked(s)
  BY <1>3, <1>5, <1>6, <1>7 DEF Ranked
<1> DEFINE r == MaybePromotePending(s)
<1>9. r \in Header /\ Ranked(r) /\ r.lib = s.lib
  <2>1. CASE Promotes(s)
    <3>1. Third(s.active.producers) <= Third(s.pending.producers)
      BY <1>3, <1>7, <2>1 DEF Promotes
    <3> QED BY <1>7, <1>8, <2>1, <3>1, Promoted, RankedPromoted
  <2>2. CASE ~Promotes(s)
    BY <1>7, <1>8, <2>2 DEF MaybePromotePending
  <2> QED BY <2>1, <2>2
<1>10. Started(h, p, n) = r
  BY DEF Started, s, g
<1> HIDE DEF r
<1> QED BY <1>5, <1>7, <1>9, <1>10

(* A new block keeps the numbers rising.                                   *)
LEMMA BlockRises ==
    ASSUME HeaderInv, HeaderInv', Rising, NeverShrinks,
           NEW p \in head.active.producers, NEW n \in 0..(head.num - 1), NewBlock(p, n)
    PROVE  Rising'
<1> DEFINE h == Started(head, p, n)
           new == [by |-> {}, required |-> RequiredConfs(head), lib |-> h.lib]
           d == Append(past, new)
           m == head.num + 1
<1>1. /\ head \in Header /\ past \in [1..head.num -> Block] /\ head.num \in Nat \ {0} /\ n \in Nat
      /\ Implied(head) /\ Tracked(head, past)
  BY DEF HeaderInv, Sound, Header
<1>2. Len(head.confirmCount) <= head.num
  <2>1. head.proposed + Len(head.confirmCount) <= head.num
    BY <1>1 DEF Tracked
  <2>2. head.proposed \in Nat /\ head.num \in Nat /\ Len(head.confirmCount) \in Nat
    BY <1>1, CountsFacts DEF Header
  <2> QED BY <2>1, <2>2
<1>3. h \in Header /\ Ranked(h) /\ head.lib <= h.lib
  BY <1>1, <1>2, StartedRises DEF Rising, NeverShrinks
<1>4. past' = [i \in 1..m |-> IF i >= m - n THEN [d[i] EXCEPT !.by = @ \cup {p}] ELSE d[i]]
  <2>1. head.num + 1 - n = m - n
    BY <1>1
  <2> QED BY <2>1 DEF NewBlock
<1>5. (\A j \in 1..head.num : d[j] = past[j]) /\ d[m] = new
  <2> HIDE DEF new
  <2>1. past \in Seq(Block) /\ Len(past) = head.num
    BY <1>1
  <2> QED BY <2>1
<1> HIDE DEF h
<1>6. ASSUME NEW j \in 1..head.num PROVE past'[j].lib = past[j].lib
  <2>1. d[j] = past[j] /\ j \in 1..m /\ past[j] \in Block
    BY <1>1, <1>5
  <2>2. past'[j] = IF j >= m - n THEN [d[j] EXCEPT !.by = @ \cup {p}] ELSE d[j]
    BY <1>4, <2>1
  <2> HIDE DEF m, d
  <2> QED BY <2>1, <2>2 DEF Block
<1>7. past'[m].lib = h.lib
  <2>1. d[m] = new /\ m \in 1..m /\ m >= m - n
    BY <1>1, <1>5
  <2>2. past'[m] = [d[m] EXCEPT !.by = @ \cup {p}]
    BY <1>4, <2>1
  <2> HIDE DEF m, d
  <2> QED BY <2>1, <2>2
<1> HIDE DEF new, d
<1>8. head'.num = m /\ head'.lib = h.lib /\ Ranked(head')
  <2>1. h.num = m
    <3>1. head'.num = h.num
      BY <1>3 DEF NewBlock, SetNewProducers, Header, h
    <3>2. DOMAIN past' = 1..head'.num /\ DOMAIN past' = 1..m
      BY <1>4 DEF HeaderInv, Sound
    <3>3. head'.num \in Nat /\ m \in Nat
      BY <1>1 DEF HeaderInv, Sound, Header
    <3> QED BY <3>1, <3>2, <3>3
  <2>2. CASE TakesProposal(head, p, n)
    <3>1. head' = SetNewProducers(h, proposal.schedule) /\ proposal.num # 0
      BY <2>2 DEF NewBlock, TakesProposal, h
    <3>2. proposal.schedule \in [version : Nat, producers : Known]
      BY <3>1 DEF HeaderInv, Fitting
    <3>3. /\ head'.num = h.num /\ head'.lib = h.lib /\ head'.impliedIrb = h.impliedIrb
          /\ head'.active = h.active
      BY <1>3, <3>1, <3>2, Announced
    <3> QED BY <1>3, <2>1, <3>3 DEF Ranked
  <2>3. CASE ~TakesProposal(head, p, n)
    BY <1>3, <2>1, <2>3 DEF NewBlock, h
  <2> QED BY <2>2, <2>3
<1>9. ASSUME NEW i \in 2..m PROVE past'[i - 1].lib <= past'[i].lib
  <2>1. i - 1 \in 1..head.num
    BY <1>1
  <2>2. past'[i - 1].lib = past[i - 1].lib
    BY <1>6, <2>1
  <2>3. CASE i = m
    <3>1. i - 1 = head.num
      BY <1>1, <2>3
    <3>2. past[head.num].lib = head.lib
      BY DEF Rising
    <3> QED BY <1>3, <1>7, <2>2, <2>3, <3>1, <3>2
  <2>4. CASE i # m
    <3>1. i \in 1..head.num /\ i \in 2..head.num
      BY <1>1, <2>4
    <3>2. past'[i].lib = past[i].lib
      BY <1>6, <3>1
    <3>3. past[i - 1].lib <= past[i].lib
      BY <3>1 DEF Rising, BlockBecomesHead
    <3> QED BY <2>2, <3>2, <3>3
  <2> QED BY <2>3, <2>4
<1>10. BlockBecomesHead'
  BY <1>8, <1>9 DEF BlockBecomesHead
<1> QED BY <1>7, <1>8, <1>10 DEF Rising

(* Every new block declares at least the number that the block below it    *)
(* declared irreversible, so that fork_database prefers it and             *)
(* commit_block's assertion holds, on every chain on which a schedule that *)
(* becomes active does not skip fewer producers than the one it replaces:  *)
(* in particular as long as schedules have at most three producers, or     *)
(* never get smaller.  Without the hypothesis the statement is false       *)
(* (calc_dpos_last_irreversible, maybe_promote_pending; HeaderShrink).     *)
THEOREM BlocksBecomeHead == Spec /\ []NeverShrinks => []BlockBecomesHead
<1>1. Init => Rising
  <2> SUFFICES ASSUME Init PROVE Rising
    OBVIOUS
  <2>1. past = <<[by |-> {}, required |-> 0, lib |-> 0]>>
    BY DEF Init
  <2>2. head.num = 1 /\ head.lib = 0 /\ head.impliedIrb = <<>>
    BY DEF Init, GenesisHeader
  <2>3. Ranked(head)
    BY <2>2 DEF Ranked
  <2>4. past[1].lib = 0
    BY <2>1
  <2>5. BlockBecomesHead
    BY <2>2 DEF BlockBecomesHead
  <2> QED BY <2>2, <2>3, <2>4, <2>5 DEF Rising
<1>2. HeaderInv /\ HeaderInv' /\ NeverShrinks /\ Rising /\ [Next]_vars => Rising'
  <2> SUFFICES ASSUME HeaderInv, HeaderInv', NeverShrinks, Rising, [Next]_vars PROVE Rising'
    OBVIOUS
  <2>1. CASE \E p \in head.active.producers : \E n \in 0..(head.num - 1) : NewBlock(p, n)
    BY <2>1, BlockRises
  <2>2. CASE UNCHANGED <<head, past>>
    BY <2>2 DEF Rising, Ranked, BlockBecomesHead
  <2>3. CASE \E S \in Schedules : SetProposedProducers(S)
    BY <2>2, <2>3 DEF SetProposedProducers
  <2>4. CASE UNCHANGED vars
    BY <2>2, <2>4 DEF vars
  <2> QED BY <2>1, <2>3, <2>4 DEF Next
<1>3. Rising => BlockBecomesHead
  BY DEF Rising
<1> QED BY <1>1, <1>2, <1>3, HeadersSound, PTL DEF Spec
=============================================================================
