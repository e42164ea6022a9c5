----------------------- MODULE BlockProductionProofs -----------------------
(***************************************************************************)
(* Proofs about producers on several nodes, for any schedules, nodes and   *)
(* bounds, as long as no producer becomes active that was not: the second  *)
(* schedule only drops producers.                                          *)
(***************************************************************************)
EXTENDS BlockProduction, FoldProofs, SequenceTheorems, TLAPS

(* The producers, and partial functions of them.                           *)
Everyone == First \cup {Genesis}
Numbers == UNION {[D -> Nat] : D \in SUBSET Everyone}
Schedule == [version : Nat, producers : SUBSET Everyone]

(* The header states.                                                      *)
Header == [num : Nat \ {0}, producer : Everyone, active : Schedule, pending : Schedule,
           pendingNum : Nat, lastProduced : Numbers, impliedIrb : Numbers,
           confirmCount : Seq(Int), proposed : Nat, lib : Nat]

(* No more blocks are tracked than there are.                              *)
Fits(h) == Len(h.confirmCount) <= h.num

(* What With does to a partial function of the producers.                  *)
LEMMA NumbersWith ==
    ASSUME NEW f \in Numbers, NEW p \in Everyone, NEW v \in Nat
    PROVE  /\ With(f, p, v) \in Numbers /\ DOMAIN With(f, p, v) = DOMAIN f \cup {p}
           /\ With(f, p, v)[p] = v
           /\ \A q \in DOMAIN f \ {p} : With(f, p, v)[q] = f[q]
<1>1. PICK D \in SUBSET Everyone : f \in [D -> Nat]
  BY DEF Numbers
<1>2. With(f, p, v) \in [D \cup {p} -> Nat] /\ D \cup {p} \in SUBSET Everyone
  BY <1>1 DEF With
<1>3. With(f, p, v) \in Numbers
  BY <1>2 DEF Numbers
<1> QED BY <1>3 DEF With

(* Sets of producers are finite.                                           *)
LEMMA EveryoneFinite ==
    ASSUME NEW S \in SUBSET Everyone
    PROVE  IsFiniteSet(S) /\ Cardinality(S) \in Nat
<1>1. IsFiniteSet(Everyone)
  BY BlockProductionAssumption, FS_AddElement DEF Everyone
<1> QED BY <1>1, FS_Subset, FS_CardinalityType

(* The partial functions are finite and give numbers.                      *)
LEMMA NumbersFacts ==
    ASSUME NEW f \in Numbers
    PROVE  DOMAIN f \in SUBSET Everyone /\ IsFiniteSet(DOMAIN f) /\ \A p \in DOMAIN f : f[p] \in Nat
<1>1. DOMAIN f \in SUBSET Everyone /\ \A p \in DOMAIN f : f[p] \in Nat
  BY DEF Numbers
<1> QED BY <1>1, EveryoneFinite

(* calc_dpos_last_irreversible returns a number that some producer         *)
(* implied.                                                                *)
LEMMA Selected ==
    ASSUME NEW irb \in Numbers, DOMAIN irb # {}
    PROVE  \E p \in DOMAIN irb : CalcDposLastIrreversible(irb) = irb[p]
<1> DEFINE D == DOMAIN irb
           n == Cardinality(D)
           k == (n - 1) \div 3
           UpTo(m) == {p \in D : irb[p] <= m}
           Below(m) == {p \in D : irb[p] < m}
<1>0. IsFiniteSet(D) /\ \A p \in D : irb[p] \in Nat
  BY NumbersFacts
<1>1. n \in Nat /\ n # 0
  BY <1>0, FS_CardinalityType, FS_EmptySet
<1>2. k \in Nat /\ k < n
  <2> HIDE DEF n
  <2> QED BY <1>1
<1>3. \E w \in {irb[p] : p \in D} : Cardinality(Below(w)) <= k /\ k < Cardinality(UpTo(w))
  <2> HIDE DEF k
  <2> QED BY <1>0, <1>2, RankExists
<1>4. CalcDposLastIrreversible(irb) \in {irb[p] : p \in D}
  <2>1. CalcDposLastIrreversible(irb) =
          CHOOSE w \in {irb[p] : p \in D} : Cardinality(Below(w)) <= k /\ k < Cardinality(UpTo(w))
    BY DEF CalcDposLastIrreversible, k
  <2> HIDE DEF Below, UpTo, D, k
  <2> QED BY <1>3, <2>1
<1> QED BY <1>4

(* The counts that generate_next keeps.                                    *)
Counts(h) == IF Len(h.confirmCount) < MaxTracked THEN h.confirmCount ELSE Tail(h.confirmCount)

(* They are counts, not more than before.                                  *)
LEMMA CountsFacts ==
    ASSUME NEW h \in Header
    PROVE  /\ Counts(h) \in Seq(Int) /\ Len(Counts(h)) <= Len(h.confirmCount)
           /\ Len(Counts(h)) \in Nat /\ Len(h.confirmCount) \in Nat
           /\ RequiredConfs(h) \in Int
<1>1. h.confirmCount \in Seq(Int) /\ h.active.producers \in SUBSET Everyone
  BY DEF Header, Schedule
<1>2. Counts(h) \in Seq(Int) /\ Len(Counts(h)) <= Len(h.confirmCount)
  <2>1. CASE Len(h.confirmCount) < MaxTracked
    BY <1>1, <2>1 DEF Counts
  <2>2. CASE ~(Len(h.confirmCount) < MaxTracked)
    <3>1. h.confirmCount # <<>>
      BY <1>1, <2>2, MaxTrackedAssumption
    <3> QED BY <1>1, <2>2, <3>1 DEF Counts
  <2> QED BY <2>1, <2>2
<1>3. RequiredConfs(h) \in Int
  <2>1. Cardinality(h.active.producers) \in Nat
    BY <1>1, EveryoneFinite
  <2> QED BY <2>1 DEF RequiredConfs
<1> QED BY <1>1, <1>2, <1>3

(* The header state that generate_next returns, field by field.            *)
LEMMA Generated ==
    ASSUME NEW h \in Header, Fits(h), NEW p \in Everyone
    PROVE  LET g == GenerateNext(h, p)
               irb == With(h.impliedIrb, p, h.proposed)
           IN /\ g \in Header /\ Fits(g)
              /\ g.num = h.num + 1 /\ g.producer = p /\ g.active = h.active /\ g.pending = h.pending
              /\ g.pendingNum = h.pendingNum /\ g.lastProduced = With(h.lastProduced, p, h.num + 1)
              /\ g.impliedIrb = irb /\ \E q \in DOMAIN irb : g.lib = irb[q]
              /\ g.confirmCount = Append(Counts(h), RequiredConfs(h)) /\ g.proposed = h.proposed
<1> DEFINE g == GenerateNext(h, p)
           irb == With(h.impliedIrb, p, h.proposed)
           lp == With(h.lastProduced, p, h.num + 1)
           m == h.num + 1
           lib == CalcDposLastIrreversible(irb)
           cc == Append(Counts(h), RequiredConfs(h))
           C == Seq(Int)
<1>0. h.num \in Nat \ {0} /\ h.impliedIrb \in Numbers /\ h.lastProduced \in Numbers /\ h.proposed \in Nat
  BY DEF Header
<1>2. irb \in Numbers /\ lp \in Numbers /\ m \in Nat \ {0} /\ DOMAIN irb # {}
  <2>1. m \in Nat /\ m # 0
    BY <1>0
  <2> HIDE DEF m
  <2>2. With(h.lastProduced, p, m) \in Numbers
    BY <1>0, <2>1, NumbersWith
  <2>3. irb \in Numbers /\ DOMAIN irb = DOMAIN h.impliedIrb \cup {p}
    BY <1>0, NumbersWith
  <2> QED BY <2>1, <2>2, <2>3 DEF m
<1>3. \E q \in DOMAIN irb : lib = irb[q]
  <2> HIDE DEF irb
  <2> QED BY <1>2, Selected
<1>4. lib \in Nat
  <2> HIDE DEF irb, lib
  <2> QED BY <1>2, <1>3, NumbersFacts
<1>5. cc \in C /\ Len(cc) = Len(Counts(h)) + 1
  BY CountsFacts, AppendProperties
<1>6. g = [h EXCEPT !.num = m, !.producer = p, !.lastProduced = lp, !.impliedIrb = irb,
                    !.lib = lib, !.confirmCount = cc]
  BY DEF GenerateNext, Counts
<1>7. h \in [num : Nat \ {0}, producer : Everyone, active : Schedule, pending : Schedule,
           pendingNum : Nat, lastProduced : Numbers, impliedIrb : Numbers,
           confirmCount : C, proposed : Nat, lib : Nat]
  BY DEF Header
<1>9. Len(cc) <= m
  <2>1. Len(h.confirmCount) <= h.num
    BY DEF Fits
  <2> HIDE DEF cc
  <2> QED BY <1>0, <1>5, <2>1, CountsFacts
<1> HIDE DEF g, irb, lp, m, lib, cc, C
<1>8. /\ g \in [num : Nat \ {0}, producer : Everyone, active : Schedule, pending : Schedule,
           pendingNum : Nat, lastProduced : Numbers, impliedIrb : Numbers,
           confirmCount : C, proposed : Nat, lib : Nat]
      /\ g.num = m /\ g.producer = p /\ g.active = h.active /\ g.pending = h.pending
      /\ g.pendingNum = h.pendingNum /\ g.lastProduced = lp
      /\ g.impliedIrb = irb /\ g.lib = lib /\ g.confirmCount = cc /\ g.proposed = h.proposed
  BY <1>2, <1>4, <1>5, <1>6, <1>7
<1> QED BY <1>3, <1>8, <1>9 DEF g, irb, lp, m, lib, cc, C, Header, Fits

(* The positions that a block with n confirmations reaches, and the ones   *)
(* that miss no confirmation after it.                                     *)
Within(h, n) == {i \in DOMAIN h.confirmCount : Len(h.confirmCount) - i <= n}
Done(h, n) == {i \in Within(h, n) : h.confirmCount[i] = 1}

(* The header state that set_confirmed leaves.                             *)
LEMMA Confirmed ==
    ASSUME NEW h \in Header, Fits(h), NEW n \in Nat
    PROVE  LET s == SetConfirmed(h, n)
           IN /\ s \in Header /\ Fits(s)
              /\ s.num = h.num /\ s.producer = h.producer /\ s.active = h.active
              /\ s.pending = h.pending /\ s.pendingNum = h.pendingNum
              /\ s.lastProduced = h.lastProduced /\ s.impliedIrb = h.impliedIrb /\ s.lib = h.lib
              /\ Len(h.confirmCount) \in Done(h, n) => s.proposed = h.num
<1> DEFINE C == Seq(Int)
           counts == h.confirmCount
           len == Len(counts)
           done == Done(h, n)
           left == [i \in DOMAIN counts |-> IF i \in Within(h, n) THEN counts[i] - 1 ELSE counts[i]]
           top == Max(done)
           s == SetConfirmed(h, n)
<1>1. counts \in C /\ len \in Nat /\ DOMAIN counts = 1..len /\ h.num \in Nat \ {0} /\ len <= h.num
  BY DEF Header, Fits
<1>2. left \in C /\ Len(left) = len
  <2>1. \A i \in 1..len : counts[i] \in Int
    BY <1>1
  <2>2. left \in [1..len -> Int]
    BY <1>1, <2>1
  <2> HIDE DEF left
  <2> QED BY <1>1, <2>2
<1>3. h \in [num : Nat \ {0}, producer : Everyone, active : Schedule, pending : Schedule,
           pendingNum : Nat, lastProduced : Numbers, impliedIrb : Numbers,
           confirmCount : C, proposed : Nat, lib : Nat]
  BY DEF Header
<1>4. done \subseteq 1..len
  BY <1>1 DEF Done, Within
<1>5. s = IF done = {} THEN [h EXCEPT !.confirmCount = left]
          ELSE [h EXCEPT !.proposed = h.num - (len - top), !.confirmCount = SubSeq(left, top + 1, len)]
  BY DEF SetConfirmed, Done, Within
<1> HIDE DEF left, s, done
<1>6. CASE done = {}
  <2>1. s = [h EXCEPT !.confirmCount = left]
    BY <1>5, <1>6
  <2> HIDE DEF C, counts, len
  <2>2. /\ s \in [num : Nat \ {0}, producer : Everyone, active : Schedule, pending : Schedule,
             pendingNum : Nat, lastProduced : Numbers, impliedIrb : Numbers,
             confirmCount : C, proposed : Nat, lib : Nat]
        /\ s.num = h.num /\ s.producer = h.producer /\ s.active = h.active
        /\ s.pending = h.pending /\ s.pendingNum = h.pendingNum
        /\ s.lastProduced = h.lastProduced /\ s.impliedIrb = h.impliedIrb /\ s.lib = h.lib
        /\ s.confirmCount = left
    BY <1>2, <1>3, <2>1
  <2>3. Len(s.confirmCount) <= s.num
    BY <1>1, <1>2, <2>2
  <2> QED BY <1>6, <2>2, <2>3 DEF C, counts, len, s, done, Header, Fits
<1>7. CASE done # {}
  <2> DEFINE cc == SubSeq(left, top + 1, len)
             pr == h.num - (len - top)
  <2>1. top \in done /\ \A x \in done : x <= top
    <3>1. \E m \in done : \A x \in done : m >= x
      BY <1>1, <1>4, <1>7, LargestExists
    <3>2. top \in done /\ \A x \in done : top >= x
      BY <3>1 DEF Max
    <3> QED BY <3>2
  <2>2. top \in 1..len
    BY <1>4, <2>1
  <2> HIDE DEF top
  <2>3. pr \in Nat
    BY <1>1, <2>2
  <2>4. cc \in C /\ Len(cc) <= len /\ Len(cc) \in Nat
    <3>1. CASE top = len
      <4>1. cc = <<>>
        BY <1>1, <1>2, <3>1
      <4>2. <<>> \in C /\ Len(<<>>) = 0
        OBVIOUS
      <4> HIDE DEF cc, C
      <4> QED BY <1>1, <4>1, <4>2
    <3>2. CASE top # len
      <4>1. top + 1 \in 1..len /\ len - (top + 1) + 1 <= len
        BY <1>1, <2>2, <3>2
      <4> QED BY <1>1, <1>2, <4>1, SubSeqProperties
    <3> QED BY <3>1, <3>2
  <2>5. len \in done => pr = h.num
    <3> SUFFICES ASSUME len \in done PROVE pr = h.num
      OBVIOUS
    <3>1. top = len
      BY <1>1, <2>1, <2>2
    <3> QED BY <1>1, <3>1
  <2>6. s = [h EXCEPT !.proposed = pr, !.confirmCount = cc]
    BY <1>5, <1>7 DEF top
  <2> HIDE DEF cc, pr
  <2>7. len <= h.num /\ Len(cc) <= h.num
    BY <1>1, <2>4
  <2> HIDE DEF C, counts, len
  <2>8. /\ s \in [num : Nat \ {0}, producer : Everyone, active : Schedule, pending : Schedule,
             pendingNum : Nat, lastProduced : Numbers, impliedIrb : Numbers,
             confirmCount : C, proposed : Nat, lib : Nat]
        /\ s.num = h.num /\ s.producer = h.producer /\ s.active = h.active
        /\ s.pending = h.pending /\ s.pendingNum = h.pendingNum
        /\ s.lastProduced = h.lastProduced /\ s.impliedIrb = h.impliedIrb /\ s.lib = h.lib
        /\ s.confirmCount = cc /\ s.proposed = pr
    BY <1>3, <2>3, <2>4, <2>6
  <2>9. Len(s.confirmCount) <= s.num
    BY <2>7, <2>8
  <2> QED BY <2>5, <2>8, <2>9 DEF C, counts, len, s, done, Header, Fits
<1> QED BY <1>6, <1>7

(* What maybe_promote_pending keeps of a map.                              *)
Kept(h, f) == [p \in h.pending.producers |-> IF p \in DOMAIN f THEN f[p] ELSE h.lib]

(* The header state that maybe_promote_pending leaves.                     *)
LEMMA Promoted ==
    ASSUME NEW h \in Header, Fits(h), Promotes(h)
    PROVE  LET r == MaybePromotePending(h)
           IN /\ r \in Header /\ Fits(r)
              /\ r.num = h.num /\ r.producer = h.producer /\ r.active = h.pending
              /\ r.pending = NoSchedule /\ r.pendingNum = h.pendingNum
              /\ r.lastProduced = With(Kept(h, h.lastProduced), h.producer, h.num)
              /\ r.impliedIrb = Kept(h, h.impliedIrb)
              /\ r.proposed = h.proposed /\ r.lib = h.lib
              /\ Kept(h, h.lastProduced) \in Numbers /\ Kept(h, h.impliedIrb) \in Numbers
<1> DEFINE r == MaybePromotePending(h)
           kp == Kept(h, h.lastProduced)
           ki == Kept(h, h.impliedIrb)
           lp == With(kp, h.producer, h.num)
           C == Seq(Int)
<1>1. /\ h.num \in Nat /\ h.producer \in Everyone /\ h.lib \in Nat
      /\ h.lastProduced \in Numbers /\ h.impliedIrb \in Numbers
      /\ h.pending \in Schedule /\ h.pending.producers \subseteq Everyone
  BY DEF Header, Schedule
<1>3. ASSUME NEW f \in Numbers PROVE Kept(h, f) \in Numbers
  <2>1. \A p \in DOMAIN f : f[p] \in Nat
    BY NumbersFacts
  <2>2. Kept(h, f) \in [h.pending.producers -> Nat]
    BY <1>1, <2>1 DEF Kept
  <2> QED BY <1>1, <2>2 DEF Numbers
<1>4. kp \in Numbers /\ ki \in Numbers
  BY <1>1, <1>3
<1>5. lp \in Numbers
  <2> HIDE DEF kp
  <2> QED BY <1>1, <1>4, NumbersWith
<1>6. r = [h EXCEPT !.active = h.pending, !.pending = NoSchedule, !.lastProduced = lp, !.impliedIrb = ki]
  BY DEF MaybePromotePending, Kept
<1>7. NoSchedule \in Schedule
  BY DEF NoSchedule, Schedule
<1>8. h \in [num : Nat \ {0}, producer : Everyone, active : Schedule, pending : Schedule,
           pendingNum : Nat, lastProduced : Numbers, impliedIrb : Numbers,
           confirmCount : C, proposed : Nat, lib : Nat]
  BY DEF Header
<1> HIDE DEF r, kp, ki, lp, C
<1>9. /\ r \in [num : Nat \ {0}, producer : Everyone, active : Schedule, pending : Schedule,
           pendingNum : Nat, lastProduced : Numbers, impliedIrb : Numbers,
           confirmCount : C, proposed : Nat, lib : Nat]
      /\ r.num = h.num /\ r.producer = h.producer /\ r.active = h.pending
      /\ r.pending = NoSchedule /\ r.pendingNum = h.pendingNum
      /\ r.lastProduced = lp /\ r.impliedIrb = ki /\ r.confirmCount = h.confirmCount
      /\ r.proposed = h.proposed /\ r.lib = h.lib
  BY <1>1, <1>4, <1>5, <1>6, <1>7, <1>8
<1> QED BY <1>4, <1>9 DEF r, kp, ki, lp, C, Header, Fits

(* The header state that set_new_producers leaves.                         *)
LEMMA Announced ==
    ASSUME NEW h \in Header, Fits(h), NEW s \in Schedule
    PROVE  LET r == SetNewProducers(h, s)
           IN /\ r \in Header /\ Fits(r)
              /\ r.num = h.num /\ r.producer = h.producer /\ r.active = h.active
              /\ r.pending = s /\ r.pendingNum = h.num
              /\ r.lastProduced = h.lastProduced /\ r.impliedIrb = h.impliedIrb
              /\ r.proposed = h.proposed /\ r.lib = h.lib
<1> DEFINE C == Seq(Int)
           r == SetNewProducers(h, s)
<1>1. h \in [num : Nat \ {0}, producer : Everyone, active : Schedule, pending : Schedule,
           pendingNum : Nat, lastProduced : Numbers, impliedIrb : Numbers,
           confirmCount : C, proposed : Nat, lib : Nat]
  BY DEF Header
<1>3. r = [h EXCEPT !.pending = s, !.pendingNum = h.num]
  BY DEF SetNewProducers
<1> HIDE DEF C, r
<1>4. /\ r \in [num : Nat \ {0}, producer : Everyone, active : Schedule, pending : Schedule,
           pendingNum : Nat, lastProduced : Numbers, impliedIrb : Numbers,
           confirmCount : C, proposed : Nat, lib : Nat]
      /\ r.num = h.num /\ r.producer = h.producer /\ r.active = h.active
      /\ r.pending = s /\ r.pendingNum = h.num
      /\ r.lastProduced = h.lastProduced /\ r.impliedIrb = h.impliedIrb
      /\ r.confirmCount = h.confirmCount /\ r.proposed = h.proposed /\ r.lib = h.lib
  BY <1>1, <1>3
<1> QED BY <1>4 DEF r, C, Header, Fits

(* The header state before maybe_promote_pending.                          *)
Unpromoted(h, p, n) == SetConfirmed(GenerateNext(h, p), n)

(* What start_block leaves, r, when no schedule becomes active and when one*)
(* does; s is the header state before.                                     *)
BuiltOn(h, p, s, r) ==
    LET lp == With(h.lastProduced, p, h.num + 1)
    IN /\ s \in Header /\ Fits(s) /\ r \in Header /\ Fits(r)
       /\ s.lib = GenerateNext(h, p).lib /\ s.pending = h.pending /\ s.pendingNum = h.pendingNum
       /\ s.proposed = r.proposed /\ s.lib = r.lib
       /\ r.num = h.num + 1 /\ r.producer = p /\ lp \in Numbers
       /\ Promotes(s) =>
             /\ r.active = h.pending /\ r.pending = NoSchedule
             /\ Kept(s, lp) \in Numbers
             /\ r.lastProduced = With(Kept(s, lp), p, h.num + 1)
             /\ DOMAIN r.impliedIrb = h.pending.producers
       /\ ~Promotes(s) =>
             /\ r.active = h.active /\ r.pending = h.pending /\ r.pendingNum = h.pendingNum
             /\ r.lastProduced = lp
             /\ DOMAIN r.impliedIrb = DOMAIN h.impliedIrb \cup {p}

(* Started keeps the type of a header state and leaves what BuiltOn says.  *)
LEMMA StartedFacts ==
    ASSUME NEW h \in Header, Fits(h), NEW p \in Everyone, NEW n \in Nat
    PROVE  BuiltOn(h, p, Unpromoted(h, p, n), Started(h, p, n))
<1> DEFINE g == GenerateNext(h, p)
           s == SetConfirmed(g, n)
           r == MaybePromotePending(s)
           lp == With(h.lastProduced, p, h.num + 1)
<1>0. Unpromoted(h, p, n) = s /\ Started(h, p, n) = r
  BY DEF Unpromoted, Started
<1>1. /\ g \in Header /\ Fits(g) /\ g.num = h.num + 1 /\ g.producer = p /\ g.active = h.active
      /\ g.pending = h.pending /\ g.pendingNum = h.pendingNum /\ g.lastProduced = lp
      /\ g.impliedIrb = With(h.impliedIrb, p, h.proposed)
  BY Generated
<1>2. DOMAIN With(h.impliedIrb, p, h.proposed) = DOMAIN h.impliedIrb \cup {p}
  BY DEF With
<1>3. lp \in Numbers
  <2>1. g.lastProduced \in Numbers
    BY <1>1 DEF Header
  <2> QED BY <1>1, <2>1
<1> HIDE DEF g, lp
<1>4. /\ s \in Header /\ Fits(s) /\ s.num = g.num /\ s.producer = g.producer /\ s.active = g.active
      /\ s.pending = g.pending /\ s.pendingNum = g.pendingNum
      /\ s.lastProduced = g.lastProduced /\ s.impliedIrb = g.impliedIrb /\ s.lib = g.lib
  BY <1>1, Confirmed
<1> HIDE DEF s
<1>5. CASE Promotes(s)
  <2>1. /\ r \in Header /\ Fits(r) /\ r.num = s.num /\ r.producer = s.producer /\ r.active = s.pending
        /\ r.pending = NoSchedule /\ r.lastProduced = With(Kept(s, s.lastProduced), s.producer, s.num)
        /\ r.impliedIrb = Kept(s, s.impliedIrb) /\ Kept(s, s.lastProduced) \in Numbers
        /\ r.proposed = s.proposed /\ r.lib = s.lib
    BY <1>4, <1>5, Promoted
  <2>2. DOMAIN r.impliedIrb = s.pending.producers
    BY <2>1 DEF Kept
  <2> HIDE DEF r
  <2> QED BY <1>0, <1>1, <1>3, <1>4, <1>5, <2>1, <2>2 DEF lp, g, BuiltOn
<1>6. CASE ~Promotes(s)
  <2>1. r = s
    BY <1>6 DEF MaybePromotePending
  <2> HIDE DEF r
  <2> QED BY <1>0, <1>1, <1>2, <1>3, <1>4, <1>6, <2>1 DEF lp, g, BuiltOn
<1> QED BY <1>5, <1>6

(* From such a header state on no producer becomes active that is not:     *)
(* the pending schedule only drops some, and all active ones are known to  *)
(* lastProduced.                                                           *)
Steady(h) == /\ h.pending.producers \subseteq h.active.producers
             /\ h.active.producers \subseteq First
             /\ h.active.producers \subseteq DOMAIN h.lastProduced

(* It stays so, and lastProduced changes for the block's producer only.    *)
LEMMA StartedSteady ==
    ASSUME NEW h \in Header, Fits(h), NEW p \in h.active.producers, NEW n \in Nat, Steady(h)
    PROVE  LET r == Started(h, p, n)
           IN /\ r \in Header /\ Fits(r) /\ r.num = h.num + 1 /\ r.producer = p /\ Steady(r)
              /\ \A q \in DOMAIN r.lastProduced :
                    \/ q = p /\ r.lastProduced[q] = h.num + 1
                    \/ q # p /\ q \in DOMAIN h.lastProduced /\ r.lastProduced[q] = h.lastProduced[q]
<1> DEFINE s == Unpromoted(h, p, n)
           r == Started(h, p, n)
           m == h.num + 1
           lp == With(h.lastProduced, p, m)
<1>1. p \in Everyone /\ h.lastProduced \in Numbers /\ m \in Nat
  BY DEF Header, Schedule
<1>2. /\ s \in Header /\ Fits(s) /\ r \in Header /\ Fits(r) /\ s.pending = h.pending
      /\ r.num = h.num + 1 /\ r.producer = p /\ lp \in Numbers
      /\ Promotes(s) => /\ r.active = h.pending /\ r.pending = NoSchedule
                        /\ Kept(s, lp) \in Numbers
                        /\ r.lastProduced = With(Kept(s, lp), p, m)
      /\ ~Promotes(s) => r.active = h.active /\ r.pending = h.pending /\ r.lastProduced = lp
  <2>1. BuiltOn(h, p, s, r)
    BY <1>1, StartedFacts
  <2> HIDE DEF s, r
  <2> QED BY <2>1 DEF BuiltOn
<1> HIDE DEF m
<1>3. /\ DOMAIN lp = DOMAIN h.lastProduced \cup {p} /\ lp[p] = m
      /\ \A q \in DOMAIN h.lastProduced \ {p} : lp[q] = h.lastProduced[q]
  BY <1>1, NumbersWith
<1> HIDE DEF s, r, lp
<1>4. CASE Promotes(s)
  <2> DEFINE k == Kept(s, lp)
  <2>1. DOMAIN k = h.pending.producers /\ \A q \in h.pending.producers : k[q] = lp[q]
    BY <1>2, <1>3 DEF Kept, Steady
  <2>2. k \in Numbers /\ r.lastProduced = With(k, p, m)
    BY <1>2, <1>4
  <2> HIDE DEF k
  <2>3. /\ DOMAIN With(k, p, m) = DOMAIN k \cup {p} /\ With(k, p, m)[p] = m
        /\ \A q \in DOMAIN k \ {p} : With(k, p, m)[q] = k[q]
    BY <1>1, <2>2, NumbersWith
  <2>4. \A q \in DOMAIN r.lastProduced :
            \/ q = p /\ r.lastProduced[q] = m
            \/ q # p /\ q \in DOMAIN h.lastProduced /\ r.lastProduced[q] = h.lastProduced[q]
    BY <1>3, <2>1, <2>2, <2>3 DEF Steady
  <2>5. Steady(r)
    BY <1>2, <1>4, <2>1, <2>2, <2>3 DEF Steady, NoSchedule
  <2> QED BY <1>2, <2>4, <2>5 DEF r, m
<1>5. CASE ~Promotes(s)
  <2>1. \A q \in DOMAIN r.lastProduced :
            \/ q = p /\ r.lastProduced[q] = m
            \/ q # p /\ q \in DOMAIN h.lastProduced /\ r.lastProduced[q] = h.lastProduced[q]
    BY <1>2, <1>3, <1>5
  <2>2. Steady(r)
    BY <1>2, <1>3, <1>5 DEF Steady
  <2> QED BY <1>2, <2>1, <2>2 DEF r, m
<1> QED BY <1>4, <1>5

-----------------------------------------------------------------------------
(* The states of a node.                                                   *)
NodeState(N) == [head : Nat, mark : [N -> Nat], signed : Nat, start : Nat]

(* The producers that on_block takes for new ones.                         *)
Newcomers(h, q) ==
    LET ahead == MaybePromotePending(GenerateNext(h, q))
    IN IF ahead.active.version = h.active.version THEN {} ELSE ahead.active.producers \ h.active.producers

(* The watermarks with those of the new producers set.                     *)
Marked(B, N, s, b) ==
    [p \in N |-> IF p \in Newcomers(B[b].hdr, B[b].next) THEN B[b].hdr.num ELSE s.mark[p]]

(* on_block sets the watermarks of new producers and nothing else of them. *)
Noticed(B, N, s, b, t) ==
    /\ t \in NodeState(N) /\ t.head = s.head /\ t.start = s.start
    /\ t.mark \in {s.mark, Marked(B, N, s, b)}
    /\ N \cap B[b].hdr.active.producers = {} => t.signed = s.signed
    /\ s.start < b /\ s.signed = 0 => t.mark = Marked(B, N, s, b)

(* That is what on_block does to a node.                                   *)
LEMMA OnBlockFacts ==
    ASSUME NEW B, NEW N, NEW s \in NodeState(N), NEW b \in Nat, B[b].hdr.num \in Nat
    PROVE  Noticed(B, N, s, b, OnBlock(B, N, s, b))
<1> DEFINE h == B[b].hdr
           t == OnBlock(B, N, s, b)
           new == Newcomers(h, B[b].next)
           known == \/ b <= s.start \/ b <= s.signed
                    \/ s.signed # 0 /\ h.num <= Num(B, s.signed)
           mk == [p \in N |-> IF p \in new THEN h.num ELSE s.mark[p]]
           sg == IF (N \cap h.active.producers) \ {h.producer} = {} THEN s.signed ELSE b
<1>1. t = IF known THEN s ELSE [s EXCEPT !.signed = sg, !.mark = mk]
  BY DEF OnBlock, Newcomers
<1>2. s.mark \in [N -> Nat] /\ s.signed \in Nat /\ s.start \in Nat
  BY DEF NodeState
<1> HIDE DEF new, known
<1>3. mk \in [N -> Nat] /\ sg \in Nat
  BY <1>2
<1>4. N \cap h.active.producers = {} => sg = s.signed
  OBVIOUS
<1>5. s.start < b /\ s.signed = 0 => ~known
  BY <1>2 DEF known
<1> HIDE DEF mk, sg, t
<1>6. /\ t \in NodeState(N) /\ t.head = s.head /\ t.start = s.start /\ t.mark \in {s.mark, mk}
      /\ sg = s.signed => t.signed = s.signed
      /\ ~known => t.mark = mk
  BY <1>1, <1>3 DEF NodeState
<1>7. Marked(B, N, s, b) = mk
  BY DEF Marked, mk, new
<1> QED BY <1>4, <1>5, <1>6, <1>7 DEF t, Noticed

(* Nobody is new in the block after a steady one.                          *)
LEMMA NoNewcomers ==
    ASSUME NEW h \in Header, Fits(h), NEW q \in Everyone, Steady(h)
    PROVE  Newcomers(h, q) = {}
<1> DEFINE g == GenerateNext(h, q)
           ahead == MaybePromotePending(g)
<1>1. g \in Header /\ Fits(g) /\ g.active = h.active /\ g.pending = h.pending
  BY Generated
<1> HIDE DEF g
<1>2. CASE Promotes(g)
  <2>1. ahead.active = h.pending
    BY <1>1, <1>2, Promoted
  <2> HIDE DEF ahead
  <2> QED BY <2>1 DEF Newcomers, Steady, ahead, g
<1>3. CASE ~Promotes(g)
  <2>1. ahead.active = h.active
    BY <1>1, <1>3 DEF MaybePromotePending
  <2> HIDE DEF ahead
  <2> QED BY <2>1 DEF Newcomers, Steady, ahead, g
<1> QED BY <1>2, <1>3

(* The states that on_block goes through, block by block.                  *)
OneByOne(g, B, N, s, bs) ==
    g[0] = s /\ \A i \in 1..Len(bs) : g[i] = OnBlock(B, N, g[i - 1], bs[i])

(* They exist, and the last one is what OnBlocks returns.                  *)
LEMMA OnBlocksSteps ==
    ASSUME NEW B, NEW N, NEW T, NEW s \in T, NEW bs, Len(bs) \in Nat,
           \A t \in T : \A i \in 1..Len(bs) : OnBlock(B, N, t, bs[i]) \in T
    PROVE  \E g \in [0..Len(bs) -> T] :
              OneByOne(g, B, N, s, bs) /\ OnBlocks(B, N, s, bs) = g[Len(bs)]
<1> DEFINE n == Len(bs)
           F == [w \in (1..n) \X T |-> OnBlock(B, N, w[2], bs[w[1]])]
           Rec(g) == g = [i \in 0..n |-> IF i = 0 THEN s ELSE OnBlock(B, N, g[i - 1], bs[i])]
           c == CHOOSE g : Rec(g)
<1>1. F \in [(1..n) \X T -> T]
  OBVIOUS
<1>2. PICK g : Steps(g, n, T, s, F)
  <2> HIDE DEF F
  <2> QED BY <1>1, RecursionExists
<1>3. g \in [0..n -> T] /\ g[0] = s /\ \A i \in 1..n : g[i] = OnBlock(B, N, g[i - 1], bs[i])
  <2>1. g \in [0..n -> T] /\ g[0] = s /\ \A i \in 1..n : g[i] = F[<<i, g[i - 1]>>]
    <3> HIDE DEF F
    <3> QED BY <1>2 DEF Steps
  <2>2. ASSUME NEW i \in 1..n PROVE g[i] = OnBlock(B, N, g[i - 1], bs[i])
    <3>1. i - 1 \in 0..n
      OBVIOUS
    <3>2. g[i - 1] \in T
      BY <2>1, <3>1
    <3> QED BY <2>1, <3>2
  <2> QED BY <2>1, <2>2
<1>4. Rec(g)
  <2>1. ASSUME NEW i \in 0..n PROVE g[i] = IF i = 0 THEN s ELSE OnBlock(B, N, g[i - 1], bs[i])
    BY <1>3
  <2>2. g = [i \in 0..n |-> g[i]]
    BY <1>3
  <2> QED BY <2>1, <2>2
<1>5. Rec(c)
  <2> HIDE DEF Rec
  <2> QED BY <1>4
<1>6. OnBlocks(B, N, s, bs) = c[n]
  BY DEF OnBlocks
<1> HIDE DEF c
<1>7. c[0] = s /\ DOMAIN c = 0..n /\ c = [i \in 0..n |-> c[i]]
      /\ \A i \in 1..n : c[i] = OnBlock(B, N, c[i - 1], bs[i])
  <2>1. DOMAIN c = 0..n /\ c = [i \in 0..n |-> c[i]]
    BY <1>5
  <2>2. ASSUME NEW i \in 0..n PROVE c[i] = IF i = 0 THEN s ELSE OnBlock(B, N, c[i - 1], bs[i])
    BY <1>5
  <2>3. 0 \in 0..n /\ \A i \in 1..n : i \in 0..n /\ i # 0
    OBVIOUS
  <2> QED BY <2>1, <2>2, <2>3
<1> DEFINE P == {k \in Nat : k <= n => c[k] \in T}
<1>8. 0 \in P
  BY <1>7
<1>9. ASSUME NEW k \in Nat, k \in P PROVE k + 1 \in P
  <2> SUFFICES ASSUME k + 1 <= n PROVE c[k + 1] \in T
    OBVIOUS
  <2>1. k + 1 \in 1..n /\ (k + 1) - 1 = k /\ c[k] \in T
    BY <1>9
  <2> QED BY <1>7, <2>1
<1>10. Nat \subseteq P
  <2> HIDE DEF P
  <2> QED BY <1>8, <1>9, NatSetInduction
<1>11. c \in [0..n -> T]
  <2>1. \A i \in 0..n : c[i] \in T
    BY <1>10
  <2> QED BY <1>7, <2>1
<1> QED BY <1>6, <1>7, <1>11 DEF OneByOne

(* A node that knows these blocks to be steady keeps its watermarks.       *)
LEMMA OnBlocksKeep ==
    ASSUME NEW B, NEW N, NEW s \in NodeState(N), NEW bs, Len(bs) \in Nat,
           \A i \in 1..Len(bs) : /\ bs[i] \in Nat /\ B[bs[i]].hdr \in Header /\ Fits(B[bs[i]].hdr)
                                 /\ Steady(B[bs[i]].hdr) /\ B[bs[i]].next \in Everyone
    PROVE  LET t == OnBlocks(B, N, s, bs)
           IN t \in NodeState(N) /\ t.mark = s.mark /\ t.start = s.start /\ t.head = s.head
<1> DEFINE T == {t \in NodeState(N) : t.mark = s.mark /\ t.start = s.start /\ t.head = s.head}
<1>1. ASSUME NEW t \in T, NEW i \in 1..Len(bs) PROVE OnBlock(B, N, t, bs[i]) \in T
  <2> DEFINE b == bs[i]
             u == OnBlock(B, N, t, b)
             mk == Marked(B, N, t, b)
  <2>1. b \in Nat /\ B[b].hdr.num \in Nat /\ Newcomers(B[b].hdr, B[b].next) = {}
    BY NoNewcomers DEF Header
  <2>2. t \in NodeState(N) /\ t.mark = s.mark /\ t.start = s.start /\ t.head = s.head
    OBVIOUS
  <2> HIDE DEF b, T
  <2>3. u \in NodeState(N) /\ u.head = t.head /\ u.start = t.start /\ u.mark \in {t.mark, mk}
    BY <2>1, <2>2, OnBlockFacts DEF Noticed
  <2>4. mk = t.mark
    BY <2>1, <2>2 DEF NodeState, Marked
  <2> HIDE DEF u, mk
  <2> QED BY <2>2, <2>3, <2>4 DEF T, u, b
<1>2. s \in T
  OBVIOUS
<1>3. PICK g \in [0..Len(bs) -> T] :
        OneByOne(g, B, N, s, bs) /\ OnBlocks(B, N, s, bs) = g[Len(bs)]
  <2>1. \A t \in T : \A i \in 1..Len(bs) : OnBlock(B, N, t, bs[i]) \in T
    BY <1>1
  <2> HIDE DEF T
  <2> QED BY <1>2, <2>1, OnBlocksSteps
<1>4. OnBlocks(B, N, s, bs) \in T
  <2>1. Len(bs) \in 0..Len(bs)
    OBVIOUS
  <2> HIDE DEF T
  <2> QED BY <1>3, <2>1
<1> QED BY <1>4

-----------------------------------------------------------------------------
(* The first blocks.                                                       *)
H1 == GenesisHeader({Genesis})
H2 == Started(H1, Genesis, 0)
S3 == Started(H2, Genesis, 0)
H3 == SetNewProducers(S3, [version |-> 1, producers |-> First])
H4 == Started(H3, Genesis, 0)
P5 == CHOOSE p \in First : TRUE
S5 == Started(H4, P5, 1)
H5 == SetNewProducers(S5, [version |-> 2, producers |-> Second])

(* The only producer of a schedule confirms its block alone.               *)
LEMMA SoleConfirms ==
    ASSUME NEW h \in Header, Fits(h), h.active.producers = {Genesis}
    PROVE  Unpromoted(h, Genesis, 0).proposed = h.num + 1
<1> DEFINE g == GenerateNext(h, Genesis)
           n == Len(Counts(h)) + 1
<1>0. Genesis \in Everyone
  BY DEF Everyone
<1>1. RequiredConfs(h) = 1
  <2>1. Cardinality({Genesis}) = 1
    BY FS_Singleton
  <2> QED BY <2>1 DEF RequiredConfs
<1>2. /\ g \in Header /\ Fits(g) /\ g.num = h.num + 1
      /\ g.confirmCount = Append(Counts(h), RequiredConfs(h))
  BY <1>0, Generated
<1>3. Counts(h) \in Seq(Int) /\ Len(Counts(h)) \in Nat
  BY CountsFacts
<1>4. /\ g.confirmCount \in Seq(Int) /\ Len(g.confirmCount) = n /\ g.confirmCount[n] = 1
      /\ n \in DOMAIN g.confirmCount
  BY <1>1, <1>2, <1>3, AppendProperties
<1> HIDE DEF g
<1>5. n - n <= 0
  BY <1>3
<1> HIDE DEF n
<1>6. Len(g.confirmCount) \in Done(g, 0)
  BY <1>4, <1>5 DEF Done, Within
<1>7. SetConfirmed(g, 0).proposed = g.num
  <2>1. 0 \in Nat
    OBVIOUS
  <2> QED BY <1>2, <1>6, <2>1, Confirmed
<1> QED BY <1>2, <1>7 DEF Unpromoted, g

(* The genesis header.                                                     *)
LEMMA First1 ==
    /\ H1 \in Header /\ Fits(H1) /\ H1.num = 1 /\ H1.producer = Genesis
    /\ H1.active = [version |-> 0, producers |-> {Genesis}]
    /\ H1.pending = [version |-> 0, producers |-> {Genesis}] /\ H1.pendingNum = 0
    /\ H1.lastProduced \in Numbers /\ DOMAIN H1.lastProduced = {} /\ DOMAIN H1.impliedIrb = {}
    /\ H1.proposed = 0 /\ H1.lib = 0
<1> DEFINE C == Seq(Int)
           no == <<>>
           sch == [version |-> 0, producers |-> {Genesis}]
           pr == CHOOSE p \in {Genesis} : TRUE
<1>1. H1 = [num |-> 1, producer |-> pr, active |-> sch, pending |-> sch, pendingNum |-> 0,
            lastProduced |-> no, impliedIrb |-> no, confirmCount |-> no, proposed |-> 0, lib |-> 0]
  BY DEF H1, GenesisHeader
<1>2. no \in C /\ Len(no) = 0 /\ DOMAIN no = {}
  OBVIOUS
<1>3. no \in Numbers
  <2>1. no \in [{} -> Nat]
    OBVIOUS
  <2> QED BY <2>1 DEF Numbers
<1>4. pr = Genesis /\ Genesis \in Everyone
  BY DEF Everyone
<1>5. sch \in Schedule
  BY DEF Schedule, Everyone
<1>6. 1 \in Nat \ {0} /\ 0 \in Nat
  OBVIOUS
<1> HIDE DEF C, no, sch, pr
<1>7. H1 \in [num : Nat \ {0}, producer : Everyone, active : Schedule, pending : Schedule,
              pendingNum : Nat, lastProduced : Numbers, impliedIrb : Numbers,
              confirmCount : C, proposed : Nat, lib : Nat]
  BY <1>1, <1>2, <1>3, <1>4, <1>5, <1>6
<1>8. Fits(H1)
  BY <1>1, <1>2 DEF Fits
<1> QED BY <1>1, <1>2, <1>3, <1>4, <1>7, <1>8 DEF C, Header, sch

(* The second block, made by the genesis producer.                         *)
LEMMA First2 ==
    /\ H2 \in Header /\ Fits(H2) /\ H2.num = 2 /\ H2.producer = Genesis
    /\ H2.active = [version |-> 0, producers |-> {Genesis}] /\ H2.pending = NoSchedule
    /\ DOMAIN H2.lastProduced = {Genesis} /\ H2.lastProduced[Genesis] = 2
    /\ DOMAIN H2.impliedIrb = {Genesis} /\ H2.proposed = 2 /\ H2.lib = 0
<1> DEFINE s == Unpromoted(H1, Genesis, 0)
           lp == With(H1.lastProduced, Genesis, H1.num + 1)
           irb == With(H1.impliedIrb, Genesis, H1.proposed)
<1>0. Genesis \in Everyone /\ 0 \in Nat
  BY DEF Everyone
<1>1. /\ s \in Header /\ Fits(s) /\ H2 \in Header /\ Fits(H2)
      /\ s.lib = GenerateNext(H1, Genesis).lib /\ s.pending = H1.pending /\ s.pendingNum = H1.pendingNum
      /\ s.proposed = H2.proposed /\ s.lib = H2.lib
      /\ H2.num = H1.num + 1 /\ H2.producer = Genesis
      /\ Promotes(s) =>
                    /\ H2.active = H1.pending /\ H2.pending = NoSchedule
                    /\ Kept(s, lp) \in Numbers
                    /\ H2.lastProduced = With(Kept(s, lp), Genesis, H1.num + 1)
                    /\ DOMAIN H2.impliedIrb = H1.pending.producers
  <2>1. BuiltOn(H1, Genesis, s, H2)
    BY <1>0, First1, StartedFacts DEF H2
  <2> HIDE DEF s
  <2> QED BY <2>1 DEF BuiltOn
<1>2. \E q \in DOMAIN irb : GenerateNext(H1, Genesis).lib = irb[q]
  BY <1>0, First1, Generated
<1>3. DOMAIN irb = {Genesis} /\ irb[Genesis] = 0
  BY First1 DEF With
<1>4. s.lib = 0
  BY <1>1, <1>2, <1>3
<1>5. s.proposed = 2
  BY First1, SoleConfirms
<1> HIDE DEF s, lp
<1>6. Promotes(s)
  BY <1>1, <1>4, First1 DEF Promotes
<1>7. DOMAIN Kept(s, lp) = {Genesis}
  BY <1>1, First1 DEF Kept
<1>8. H2.lastProduced = With(Kept(s, lp), Genesis, 2)
  BY <1>1, <1>6, First1
<1>9. DOMAIN H2.lastProduced = {Genesis} /\ H2.lastProduced[Genesis] = 2
  BY <1>7, <1>8 DEF With
<1> QED BY <1>1, <1>4, <1>5, <1>6, <1>9, First1

(* The third one announces the first schedule.                             *)
LEMMA First3 ==
    /\ H3 \in Header /\ Fits(H3) /\ H3.num = 3 /\ H3.producer = Genesis
    /\ H3.active = [version |-> 0, producers |-> {Genesis}]
    /\ H3.pending = [version |-> 1, producers |-> First] /\ H3.pendingNum = 3
    /\ DOMAIN H3.lastProduced = {Genesis} /\ H3.lastProduced[Genesis] = 3
    /\ DOMAIN H3.impliedIrb = {Genesis} /\ H3.proposed = 3
<1> DEFINE s == Unpromoted(H2, Genesis, 0)
           lp == With(H2.lastProduced, Genesis, H2.num + 1)
           sch == [version |-> 1, producers |-> First]
<1>0. Genesis \in Everyone /\ 0 \in Nat
  BY DEF Everyone
<1>1. /\ S3 \in Header /\ Fits(S3) /\ s.proposed = S3.proposed
      /\ S3.num = H2.num + 1 /\ S3.producer = Genesis /\ s.pending = H2.pending
      /\ ~Promotes(s) =>
            /\ S3.active = H2.active /\ S3.pending = H2.pending /\ S3.lastProduced = lp
            /\ DOMAIN S3.impliedIrb = DOMAIN H2.impliedIrb \cup {Genesis}
  <2>1. BuiltOn(H2, Genesis, s, S3)
    BY <1>0, First2, StartedFacts DEF S3
  <2> HIDE DEF s
  <2> QED BY <2>1 DEF BuiltOn
<1>2. s.proposed = 3
  BY First2, SoleConfirms
<1>3. ~Promotes(s)
  BY <1>1, First2 DEF Promotes, NoSchedule
<1>4. DOMAIN lp = {Genesis} /\ lp[Genesis] = 3
  BY First2 DEF With
<1>5. sch \in Schedule
  BY DEF Schedule, Everyone
<1> HIDE DEF s, lp, sch
<1>6. /\ H3 \in Header /\ Fits(H3) /\ H3.num = S3.num /\ H3.producer = S3.producer
      /\ H3.active = S3.active /\ H3.pending = sch /\ H3.pendingNum = S3.num
      /\ H3.lastProduced = S3.lastProduced /\ H3.impliedIrb = S3.impliedIrb
      /\ H3.proposed = S3.proposed
  BY <1>1, <1>5, Announced DEF H3, sch
<1>7. S3.num = 3 /\ S3.active = [version |-> 0, producers |-> {Genesis}] /\ S3.proposed = 3
  BY <1>1, <1>2, <1>3, First2
<1>8. DOMAIN S3.lastProduced = {Genesis} /\ S3.lastProduced[Genesis] = 3
  BY <1>1, <1>3, <1>4
<1>9. DOMAIN S3.impliedIrb = {Genesis}
  BY <1>1, <1>3, First2
<1>10. H3.pending = [version |-> 1, producers |-> First]
  BY <1>6 DEF sch
<1> QED BY <1>1, <1>6, <1>7, <1>8, <1>9, <1>10

(* The announcement is irreversible in the header after it.                *)
LEMMA NextAfter3 ==
    /\ GenerateNext(H3, Genesis) \in Header /\ Fits(GenerateNext(H3, Genesis))
    /\ GenerateNext(H3, Genesis).lib = 3 /\ Promotes(GenerateNext(H3, Genesis))
    /\ GenerateNext(H3, Genesis).pending = H3.pending
<1> DEFINE g == GenerateNext(H3, Genesis)
           irb == With(H3.impliedIrb, Genesis, H3.proposed)
<1>0. Genesis \in Everyone
  BY DEF Everyone
<1>1. g \in Header /\ Fits(g) /\ g.pending = H3.pending /\ g.pendingNum = 3 /\ \E q \in DOMAIN irb : g.lib = irb[q]
  BY <1>0, First3, Generated
<1>2. DOMAIN irb = {Genesis} /\ irb[Genesis] = 3
  BY First3 DEF With
<1> HIDE DEF g, irb
<1>3. g.lib = 3
  BY <1>1, <1>2
<1>4. Promotes(g)
  BY <1>1, <1>3, First3, BlockProductionAssumption DEF Promotes
<1> QED BY <1>1, <1>3, <1>4 DEF g

(* The first schedule is active in the fourth one.                         *)
LEMMA First4 ==
    /\ H4 \in Header /\ Fits(H4) /\ H4.num = 4 /\ H4.producer = Genesis
    /\ H4.active = [version |-> 1, producers |-> First] /\ H4.pending = NoSchedule
    /\ DOMAIN H4.lastProduced = Everyone
    /\ \A p \in First : H4.lastProduced[p] = 3
    /\ Steady(H4)
<1> DEFINE s == Unpromoted(H3, Genesis, 0)
           lp == With(H3.lastProduced, Genesis, H3.num + 1)
<1>0. Genesis \in Everyone /\ 0 \in Nat
  BY DEF Everyone
<1>1. /\ H4 \in Header /\ Fits(H4) /\ H4.num = H3.num + 1 /\ H4.producer = Genesis
      /\ s.lib = GenerateNext(H3, Genesis).lib /\ s.pending = H3.pending /\ s.pendingNum = H3.pendingNum
      /\ Promotes(s) =>
                    /\ H4.active = H3.pending /\ H4.pending = NoSchedule
                    /\ H4.lastProduced = With(Kept(s, lp), Genesis, H3.num + 1)
  <2>1. BuiltOn(H3, Genesis, s, H4)
    BY <1>0, First3, StartedFacts DEF H4
  <2> HIDE DEF s
  <2> QED BY <2>1 DEF BuiltOn
<1>2. DOMAIN lp = {Genesis}
  BY First3 DEF With
<1>3. Promotes(s) /\ s.lib = 3
  BY <1>1, First3, NextAfter3, BlockProductionAssumption DEF Promotes
<1> HIDE DEF s, lp
<1>4. DOMAIN Kept(s, lp) = First /\ \A p \in First : Kept(s, lp)[p] = 3
  BY <1>1, <1>2, <1>3, First3, BlockProductionAssumption DEF Kept
<1>5. DOMAIN H4.lastProduced = Everyone /\ \A p \in First : H4.lastProduced[p] = 3
  BY <1>1, <1>3, <1>4, BlockProductionAssumption DEF With, Everyone
<1>6. Steady(H4)
  BY <1>1, <1>3, <1>5, First3 DEF Steady, NoSchedule, Everyone
<1> QED BY <1>1, <1>3, <1>5, <1>6, First3

(* The fifth one announces the second schedule.                            *)
LEMMA First5 ==
    ASSUME Second \subseteq First
    PROVE  /\ H5 \in Header /\ Fits(H5) /\ H5.num = 5 /\ H5.producer = P5 /\ P5 \in First
           /\ \A p \in First : p \in DOMAIN H5.lastProduced
                               /\ H5.lastProduced[p] = IF p = P5 THEN 5 ELSE 3
           /\ Steady(H5)
<1> DEFINE s == Unpromoted(H4, P5, 1)
           lp == With(H4.lastProduced, P5, H4.num + 1)
           sch == [version |-> 2, producers |-> Second]
<1>0. P5 \in First /\ P5 \in Everyone /\ 1 \in Nat
  BY BlockProductionAssumption DEF P5, Everyone
<1>1. /\ S5 \in Header /\ Fits(S5) /\ S5.num = H4.num + 1 /\ S5.producer = P5 /\ s.pending = H4.pending
      /\ ~Promotes(s) =>
            /\ S5.active = H4.active /\ S5.pending = H4.pending /\ S5.lastProduced = lp
  <2>1. BuiltOn(H4, P5, s, S5)
    BY <1>0, First4, StartedFacts DEF S5
  <2> HIDE DEF s
  <2> QED BY <2>1 DEF BuiltOn
<1>3. ~Promotes(s)
  BY <1>1, First4 DEF Promotes, NoSchedule
<1>4. DOMAIN lp = Everyone /\ \A p \in First : lp[p] = IF p = P5 THEN 5 ELSE 3
  BY <1>0, First4 DEF With, Everyone
<1>5. sch \in Schedule
  BY DEF Schedule, Everyone
<1> HIDE DEF s, lp, sch
<1>6. /\ H5 \in Header /\ Fits(H5) /\ H5.num = S5.num /\ H5.producer = S5.producer
      /\ H5.active = S5.active /\ H5.pending = sch
      /\ H5.lastProduced = S5.lastProduced
  BY <1>1, <1>5, Announced DEF H5, sch
<1>7. Steady(H5)
  <2>1. H5.pending.producers = Second /\ H5.active.producers = First
    BY <1>1, <1>3, <1>6, First4 DEF sch
  <2>2. DOMAIN H5.lastProduced = Everyone
    BY <1>1, <1>3, <1>4, <1>6
  <2> QED BY <2>1, <2>2 DEF Steady, Everyone
<1> QED BY <1>0, <1>1, <1>3, <1>4, <1>6, <1>7, First4 DEF Everyone

-----------------------------------------------------------------------------
(* The blocks made.                                                        *)
BlockSet == [hdr : Header, chain : Seq(Nat), lib : Nat, confirmed : Nat, next : Everyone]

(* x can be the block number b in order of time.  All chains begin with the*)
(* first three blocks, which nobody but the genesis producer could make;   *)
(* from the fourth one on nobody becomes active any more.                  *)
WellMade(x, b) ==
    /\ Fits(x.hdr) /\ x.lib = x.hdr.lib
    /\ Len(x.chain) = x.hdr.num /\ x.chain[x.hdr.num] = b
    /\ \A j \in 1..Len(x.chain) : x.chain[j] \in 1..b /\ (j >= 4 => x.chain[j] >= 4)
    /\ b <= 2 => x.hdr.num <= 2 /\ x.lib = 0
    /\ b >= 2 => x.hdr.num >= 2
    /\ b <= 3 => x.hdr.active.producers = {Genesis}
    /\ b <= 4 => x.hdr.producer = Genesis
    /\ b >= 3 => x.hdr.num >= 3 /\ \A j \in 1..3 : x.chain[j] = j
    /\ b >= 4 => Steady(x.hdr)

BlocksMade == /\ blocks \in Seq(BlockSet) /\ Len(blocks) >= 4
              /\ \A b \in 1..Len(blocks) : WellMade(blocks[b], b)

(* The nodes.                                                              *)
NodesRun == /\ DOMAIN node = Nodes
            /\ \A N \in Nodes : /\ node[N] \in NodeState(N)
                                /\ node[N].head \in 3..Len(blocks)
                                /\ node[N].start \in 1..Len(blocks)

(* A watermark is not below any block that its producer made since its     *)
(* node started.                                                           *)
Remembered ==
    \A N \in Nodes : \A p \in N : \A b \in 1..Len(blocks) :
        node[N].start < b /\ blocks[b].hdr.producer = p => blocks[b].hdr.num <= node[N].mark[p]

(* Nor is it below what any fork remembers of that producer, as long as no *)
(* node lost its watermarks.                                               *)
NotBehind ==
    \A N \in Nodes : \A p \in N : \A b \in 1..Len(blocks) :
        p \in DOMAIN blocks[b].hdr.lastProduced => blocks[b].hdr.lastProduced[p] <= node[N].mark[p]

ProductionInv ==
    /\ BlocksMade /\ NodesRun /\ Remembered /\ ConfirmsOnce /\ restarts \in Nat
    /\ restarts = 0 => NotBehind /\ NoneRefused

-----------------------------------------------------------------------------
(* A block of the first ones.                                              *)
FirstBlock(h, i) ==
    [hdr |-> h, chain |-> [j \in 1..i |-> j], lib |-> h.lib,
     confirmed |-> IF i = 5 THEN 1 ELSE 0, next |-> h.producer]

(* Such a block is well made.                                              *)
LEMMA FirstWellMade ==
    ASSUME NEW h \in Header, Fits(h), NEW i \in 1..5, h.num = i,
           i <= 2 => h.lib = 0, i <= 3 => h.active.producers = {Genesis},
           i <= 4 => h.producer = Genesis, i >= 4 => Steady(h)
    PROVE  FirstBlock(h, i) \in BlockSet /\ WellMade(FirstBlock(h, i), i)
<1> DEFINE x == FirstBlock(h, i)
           ch == [j \in 1..i |-> j]
           C == Seq(Nat)
<1>1. ch \in [1..i -> Nat] /\ i \in Nat
  OBVIOUS
<1>2. ch \in C /\ Len(ch) = i
  BY <1>1
<1>3. \A j \in 1..i : ch[j] = j
  OBVIOUS
<1>4. x = [hdr |-> h, chain |-> ch, lib |-> h.lib,
           confirmed |-> IF i = 5 THEN 1 ELSE 0, next |-> h.producer]
  BY DEF FirstBlock
<1>5. h.lib \in Nat /\ h.producer \in Everyone /\ (IF i = 5 THEN 1 ELSE 0) \in Nat
  BY DEF Header
<1> HIDE DEF x, ch, C
<1>6. x \in [hdr : Header, chain : C, lib : Nat, confirmed : Nat, next : Everyone]
  BY <1>2, <1>4, <1>5
<1>7. x.hdr = h /\ x.chain = ch /\ x.lib = h.lib
  BY <1>4
<1>8. \A j \in 1..i : ch[j] \in 1..i /\ (j >= 4 => ch[j] >= 4)
  BY <1>1, <1>3
<1>9. i >= 3 => \A j \in 1..3 : ch[j] = j
  BY <1>1, <1>3
<1>10. i \in 1..i
  BY <1>1
<1>11. WellMade(x, i)
  BY <1>2, <1>3, <1>7, <1>8, <1>9, <1>10 DEF WellMade
<1> QED BY <1>6, <1>11 DEF x, C, BlockSet

(* The first blocks, one by one.                                           *)
LEMMA FirstShape ==
    /\ FirstBlocks = IF Second = {}
                     THEN <<FirstBlock(H1, 1), FirstBlock(H2, 2), FirstBlock(H3, 3), FirstBlock(H4, 4)>>
                     ELSE <<FirstBlock(H1, 1), FirstBlock(H2, 2), FirstBlock(H3, 3), FirstBlock(H4, 4),
                            FirstBlock(H5, 5)>>
<1> DEFINE hs == IF Second = {} THEN <<H1, H2, H3, H4>> ELSE <<H1, H2, H3, H4, H5>>
<1>1. FirstBlocks = [i \in DOMAIN hs |-> FirstBlock(hs[i], i)]
  BY DEF FirstBlocks, FirstBlock, H1, H2, S3, H3, H4, P5, S5, H5
<1>2. CASE Second = {}
  <2>1. hs = <<H1, H2, H3, H4>>
    BY <1>2
  <2>2. DOMAIN hs = 1..4 /\ hs[1] = H1 /\ hs[2] = H2 /\ hs[3] = H3 /\ hs[4] = H4
    BY <2>1
  <2> HIDE DEF hs
  <2> QED BY <1>1, <1>2, <2>2
<1>3. CASE Second # {}
  <2>1. hs = <<H1, H2, H3, H4, H5>>
    BY <1>3
  <2>2. DOMAIN hs = 1..5 /\ hs[1] = H1 /\ hs[2] = H2 /\ hs[3] = H3 /\ hs[4] = H4 /\ hs[5] = H5
    BY <2>1
  <2> HIDE DEF hs
  <2> QED BY <1>1, <1>3, <2>2
<1> QED BY <1>2, <1>3

(* So they are well made.                                                  *)
LEMMA FirstMade ==
    ASSUME Second \subseteq First
    PROVE  /\ FirstBlocks \in Seq(BlockSet) /\ Len(FirstBlocks) \in {4, 5}
           /\ DOMAIN FirstBlocks = 1..Len(FirstBlocks)
           /\ \A i \in 1..Len(FirstBlocks) : WellMade(FirstBlocks[i], i)
           /\ FirstBlocks[1] = FirstBlock(H1, 1) /\ FirstBlocks[2] = FirstBlock(H2, 2)
           /\ FirstBlocks[3] = FirstBlock(H3, 3) /\ FirstBlocks[4] = FirstBlock(H4, 4)
           /\ Len(FirstBlocks) = 5 => FirstBlocks[5] = FirstBlock(H5, 5)
<1> DEFINE b1 == FirstBlock(H1, 1)
           b2 == FirstBlock(H2, 2)
           b3 == FirstBlock(H3, 3)
           b4 == FirstBlock(H4, 4)
           b5 == FirstBlock(H5, 5)
<1>1. b1 \in BlockSet /\ WellMade(b1, 1)
  BY First1, FirstWellMade
<1>2. b2 \in BlockSet /\ WellMade(b2, 2)
  BY First2, FirstWellMade
<1>3. b3 \in BlockSet /\ WellMade(b3, 3)
  BY First3, FirstWellMade
<1>4. b4 \in BlockSet /\ WellMade(b4, 4)
  BY First4, FirstWellMade
<1>5. b5 \in BlockSet /\ WellMade(b5, 5)
  BY First5, FirstWellMade
<1>6. FirstBlocks = IF Second = {} THEN <<b1, b2, b3, b4>> ELSE <<b1, b2, b3, b4, b5>>
  BY FirstShape
<1> HIDE DEF b1, b2, b3, b4, b5
<1>7. CASE Second = {}
  <2>1. FirstBlocks = <<b1, b2, b3, b4>>
    BY <1>6, <1>7
  <2>2. Len(FirstBlocks) = 4 /\ FirstBlocks \in Seq(BlockSet) /\ DOMAIN FirstBlocks = 1..4
    BY <1>1, <1>2, <1>3, <1>4, <2>1
  <2>3. \A i \in 1..4 : WellMade(FirstBlocks[i], i)
    BY <1>1, <1>2, <1>3, <1>4, <2>1
  <2> QED BY <2>1, <2>2, <2>3 DEF b1, b2, b3, b4
<1>8. CASE Second # {}
  <2>1. FirstBlocks = <<b1, b2, b3, b4, b5>>
    BY <1>6, <1>8
  <2>2. Len(FirstBlocks) = 5 /\ FirstBlocks \in Seq(BlockSet) /\ DOMAIN FirstBlocks = 1..5
    BY <1>1, <1>2, <1>3, <1>4, <1>5, <2>1
  <2>3. \A i \in 1..5 : WellMade(FirstBlocks[i], i)
    BY <1>1, <1>2, <1>3, <1>4, <1>5, <2>1
  <2> QED BY <2>1, <2>2, <2>3 DEF b1, b2, b3, b4, b5
<1> QED BY <1>7, <1>8

(* All producers of the first schedule are new after the third block.      *)
LEMMA FirstNewcomers == Newcomers(H3, Genesis) = First
<1> DEFINE g == GenerateNext(H3, Genesis)
           r == MaybePromotePending(g)
<1>1. r.active = [version |-> 1, producers |-> First]
  BY NextAfter3, First3, Promoted
<1>2. H3.active = [version |-> 0, producers |-> {Genesis}]
  BY First3
<1>3. Newcomers(H3, Genesis) = IF r.active.version = H3.active.version THEN {}
                               ELSE r.active.producers \ H3.active.producers
  BY DEF Newcomers
<1> HIDE DEF r
<1> QED BY <1>1, <1>2, <1>3, BlockProductionAssumption

(* The watermarks after the first blocks: the block that the producers     *)
(* became active with, and the fifth for who made it.                      *)
LEMMA FirstNodeFacts ==
    ASSUME Second \subseteq First, NEW N \in Nodes
    PROVE  LET s == FirstNode(N)
           IN /\ s \in NodeState(N) /\ s.head = Len(FirstBlocks) /\ s.start = 1
              /\ \A p \in N : s.mark[p] = IF Len(FirstBlocks) = 5 /\ p = P5 THEN 5 ELSE 3
<1> DEFINE B == FirstBlocks
           n == Len(B)
           T == NodeState(N)
           z == [p \in N |-> 0]
           s0 == [head |-> n, mark |-> z, signed |-> 0, start |-> 1]
           bs == [j \in 1..n |-> j]
           s == OnBlocks(B, N, s0, bs)
<1>0. N \subseteq First /\ Genesis \notin N
  BY BlockProductionAssumption
<1>1. n \in {4, 5} /\ n \in Nat
  BY FirstMade
<1>2. s0 \in T /\ s0.head = n /\ s0.start = 1 /\ s0.signed = 0
  <2>1. z \in [N -> Nat]
    OBVIOUS
  <2> HIDE DEF z, n
  <2> QED BY <1>1, <2>1 DEF NodeState
<1>3. Len(bs) = n /\ \A i \in 1..n : bs[i] = i
  <2> HIDE DEF n
  <2> QED BY <1>1
<1>4. ASSUME NEW i \in 1..n
      PROVE  /\ i \in Nat /\ B[i].hdr.num \in Nat /\ B[i].hdr \in Header /\ Fits(B[i].hdr)
             /\ B[i].next \in Everyone /\ (i >= 4 => Steady(B[i].hdr))
             /\ (i <= 3 => B[i].hdr.active.producers = {Genesis})
  <2>1. B[i] \in BlockSet /\ WellMade(B[i], i)
    BY FirstMade
  <2> DEFINE x == B[i]
  <2> HIDE DEF x, B, n
  <2>2. x \in BlockSet /\ WellMade(x, i)
    BY <2>1 DEF x
  <2>3. x.hdr \in Header /\ x.next \in Everyone /\ x.hdr.num \in Nat
    BY <2>2 DEF BlockSet, Header
  <2>4. /\ Fits(x.hdr) /\ (i >= 4 => Steady(x.hdr))
        /\ (i <= 3 => x.hdr.active.producers = {Genesis})
    BY <2>2 DEF WellMade
  <2> QED BY <1>1, <2>3, <2>4 DEF x
<1>5. ASSUME NEW t \in T, NEW i \in 1..n PROVE Noticed(B, N, t, bs[i], OnBlock(B, N, t, bs[i]))
  BY <1>3, <1>4, OnBlockFacts
<1> HIDE DEF B, n, s0, bs, T
<1>6. PICK g \in [0..n -> T] : OneByOne(g, B, N, s0, bs) /\ s = g[n]
  <2>1. \A t \in T : \A i \in 1..Len(bs) : OnBlock(B, N, t, bs[i]) \in T
    BY <1>3, <1>5 DEF Noticed, T
  <2>2. Len(bs) \in Nat
    BY <1>1, <1>3
  <2>3. \E g \in [0..Len(bs) -> T] : OneByOne(g, B, N, s0, bs) /\ OnBlocks(B, N, s0, bs) = g[Len(bs)]
    <3>1. s0 \in T
      BY <1>2
    <3> QED BY <2>1, <2>2, <3>1, OnBlocksSteps
  <2> QED BY <1>3, <2>3
<1>7. g[0] = s0 /\ \A i \in 1..n : g[i - 1] \in T /\ g[i] = OnBlock(B, N, g[i - 1], i)
  <2>1. ASSUME NEW i \in 1..n PROVE i - 1 \in 0..n
    BY <1>1
  <2> QED BY <1>3, <1>6, <2>1 DEF OneByOne
<1>8. ASSUME NEW i \in 1..n PROVE Noticed(B, N, g[i - 1], i, g[i])
  BY <1>3, <1>5, <1>7
<1>9. 1 \in 1..n /\ 2 \in 1..n /\ 3 \in 1..n /\ 4 \in 1..n /\ (n = 5 => 5 \in 1..n)
      /\ 1 - 1 = 0 /\ 2 - 1 = 1 /\ 3 - 1 = 2 /\ 4 - 1 = 3 /\ 5 - 1 = 4
  BY <1>1
<1>10. Noticed(B, N, g[0], 1, g[1]) /\ Noticed(B, N, g[1], 2, g[2]) /\ Noticed(B, N, g[2], 3, g[3])
       /\ Noticed(B, N, g[3], 4, g[4]) /\ (n = 5 => Noticed(B, N, g[4], 5, g[5]))
  BY <1>8, <1>9
<1>11. \A i \in 1..3 : N \cap B[i].hdr.active.producers = {}
  BY <1>0, <1>1, <1>4
<1>12. g[2].signed = 0 /\ g[2].start = 1 /\ g[2].head = n
  <2>1. g[1].signed = 0 /\ g[1].start = 1 /\ g[1].head = n
    BY <1>2, <1>7, <1>10, <1>11 DEF Noticed
  <2> QED BY <2>1, <1>10, <1>11 DEF Noticed
<1>13. g[3] \in T /\ g[3].start = 1 /\ g[3].head = n /\ g[3].mark = [p \in N |-> 3]
  <2>1. g[3].mark = Marked(B, N, g[2], 3) /\ g[3].start = 1 /\ g[3].head = n /\ g[3] \in T
    BY <1>10, <1>12 DEF Noticed, T
  <2>2. B[3].hdr = H3 /\ B[3].next = Genesis /\ H3.num = 3
    BY FirstMade, First3 DEF FirstBlock, B
  <2> QED BY <1>0, <2>1, <2>2, FirstNewcomers DEF Marked
<1>14. ASSUME NEW i \in 1..n, i >= 4, NEW t, NEW u, t \in T, Noticed(B, N, t, i, u)
       PROVE  u \in T /\ u.start = t.start /\ u.head = t.head /\ u.mark = t.mark
  <2>1. Newcomers(B[i].hdr, B[i].next) = {}
    BY <1>4, <1>14, NoNewcomers
  <2>2. Marked(B, N, t, i) = t.mark
    BY <2>1, <1>14 DEF Marked, NodeState, T
  <2> QED BY <1>14, <2>2 DEF Noticed, T
<1>15. s \in T /\ s.start = 1 /\ s.head = n /\ s.mark = [p \in N |-> 3]
  <2>1. g[4] \in T /\ g[4].start = 1 /\ g[4].head = n /\ g[4].mark = [p \in N |-> 3]
    BY <1>9, <1>10, <1>13, <1>14
  <2>2. CASE n = 4
    BY <1>6, <2>1, <2>2
  <2>3. CASE n = 5
    <3>1. g[5] \in T /\ g[5].start = 1 /\ g[5].head = n /\ g[5].mark = [p \in N |-> 3]
      BY <1>9, <1>10, <1>14, <2>1, <2>3
    <3> QED BY <1>6, <2>3, <3>1
  <2> QED BY <1>1, <2>2, <2>3
<1> HIDE DEF s
<1>16. FirstNode(N) = IF B[n].hdr.producer \in N THEN [s EXCEPT !.mark[B[n].hdr.producer] = n] ELSE s
  BY DEF FirstNode, B, n, s, s0, bs
<1>17. CASE n = 4
  <2>1. B[n].hdr.producer = Genesis
    BY <1>17, FirstMade, First4 DEF FirstBlock, B
  <2>2. FirstNode(N) = s
    BY <1>0, <1>16, <2>1
  <2> QED BY <1>15, <1>17, <2>2 DEF n, T, B
<1>18. CASE n = 5
  <2> DEFINE mk == [s.mark EXCEPT ![P5] = 5]
  <2>1. B[n].hdr.producer = P5
    BY <1>18, FirstMade, First5 DEF FirstBlock, B, n
  <2>2. CASE P5 \in N
    <3>1. FirstNode(N) = [s EXCEPT !.mark = mk]
      BY <1>16, <1>18, <2>1, <2>2
    <3>2. mk \in [N -> Nat] /\ \A p \in N : mk[p] = IF p = P5 THEN 5 ELSE 3
      BY <1>15, <2>2
    <3> HIDE DEF mk
    <3>3. FirstNode(N) \in T /\ FirstNode(N).mark = mk /\ FirstNode(N).head = n /\ FirstNode(N).start = 1
      BY <1>15, <3>1, <3>2 DEF T, NodeState
    <3> QED BY <1>18, <3>2, <3>3 DEF n, T, B
  <2>3. CASE P5 \notin N
    <3>1. FirstNode(N) = s
      BY <1>16, <2>1, <2>3
    <3> QED BY <1>15, <1>18, <2>3, <3>1 DEF n, T, B
  <2> QED BY <2>2, <2>3
<1> QED BY <1>1, <1>17, <1>18

(* The invariant holds after the first blocks.                             *)
LEMMA ProductionInit ==
    ASSUME Second \subseteq First, Init
    PROVE  ProductionInv
<1> DEFINE n == Len(FirstBlocks)
<1>1. blocks = FirstBlocks /\ node = [N \in Nodes |-> FirstNode(N)] /\ restarts = 0
  BY DEF Init
<1>2. n \in {4, 5} /\ n = Len(blocks)
  BY <1>1, FirstMade
<1>3. BlocksMade
  BY <1>1, <1>2, FirstMade DEF BlocksMade
<1>4. ASSUME NEW N \in Nodes
      PROVE  /\ node[N] \in NodeState(N) /\ node[N].head = n /\ node[N].start = 1
             /\ \A p \in N : node[N].mark[p] = IF n = 5 /\ p = P5 THEN 5 ELSE 3
             /\ N \subseteq First /\ Genesis \notin N
  <2>1. node[N] = FirstNode(N)
    BY <1>1
  <2>2. N \subseteq First /\ Genesis \notin N
    BY BlockProductionAssumption
  <2> QED BY <2>1, <2>2, FirstNodeFacts
<1>5. /\ blocks[1].hdr = H1 /\ blocks[2].hdr = H2 /\ blocks[3].hdr = H3 /\ blocks[4].hdr = H4
      /\ blocks[2].confirmed = 0 /\ blocks[3].confirmed = 0 /\ blocks[4].confirmed = 0
      /\ n = 5 => blocks[5].hdr = H5 /\ blocks[5].confirmed = 1
  BY <1>1, FirstMade DEF FirstBlock
<1> HIDE DEF n
<1>6. NodesRun
  BY <1>1, <1>2, <1>4 DEF NodesRun
<1>7. ASSUME NEW b \in 1..Len(blocks), blocks[b].hdr.producer # Genesis
      PROVE  n = 5 /\ b = 5 /\ blocks[b].hdr.producer = P5 /\ blocks[b].hdr.num = 5
  <2>1. b > 4
    BY <1>3, <1>7 DEF BlocksMade, WellMade
  <2> QED BY <1>2, <1>5, <2>1, First5
<1>8. Remembered
  BY <1>4, <1>7 DEF Remembered
<1>9. ConfirmsOnce
  <2> SUFFICES ASSUME NEW N \in Nodes,
                      NEW b \in (node[N].start + 1)..Len(blocks), NEW c \in (node[N].start + 1)..Len(blocks),
                      blocks[b].hdr.producer \in N, blocks[c].hdr.producer \in N, b < c
               PROVE  FALSE
    BY DEF ConfirmsOnce
  <2>1. b \in 1..Len(blocks) /\ c \in 1..Len(blocks)
    BY <1>2, <1>4
  <2>2. b = 5 /\ c = 5
    BY <1>4, <1>7, <2>1
  <2> QED BY <2>2
<1>10. NotBehind
  <2> SUFFICES ASSUME NEW N \in Nodes, NEW p \in N, NEW b \in 1..Len(blocks),
                      p \in DOMAIN blocks[b].hdr.lastProduced
               PROVE  blocks[b].hdr.lastProduced[p] <= node[N].mark[p]
    BY DEF NotBehind
  <2>1. p \in First /\ p # Genesis
    BY <1>4
  <2>2. b \in {4, 5}
    <3>1. b # 1
      BY <1>5, First1
    <3>2. b # 2
      BY <1>5, <2>1, First2
    <3>3. b # 3
      BY <1>5, <2>1, First3
    <3> QED BY <1>2, <3>1, <3>2, <3>3
  <2>3. CASE b = 4
    BY <1>4, <1>5, <2>1, <2>3, First4
  <2>4. CASE b = 5
    BY <1>2, <1>4, <1>5, <2>1, <2>4, First5
  <2> QED BY <2>2, <2>3, <2>4
<1>11. NoneRefused
  <2> SUFFICES ASSUME NEW b \in 2..Len(blocks)
               PROVE  ~DoubleConfirms(blocks[Prev(blocks, b)].hdr, blocks[b].hdr.producer, blocks[b].confirmed)
    BY DEF NoneRefused
  <2>1. b \in 1..Len(blocks)
    BY <1>2
  <2>2. Prev(blocks, b) = b - 1
    <3>1. blocks[b].chain = [j \in 1..b |-> j]
      <4>1. /\ blocks[2] = FirstBlock(H2, 2) /\ blocks[3] = FirstBlock(H3, 3)
            /\ blocks[4] = FirstBlock(H4, 4) /\ (n = 5 => blocks[5] = FirstBlock(H5, 5))
        BY <1>1, FirstMade DEF n
      <4>2. \E h : blocks[b] = FirstBlock(h, b)
        BY <1>2, <4>1
      <4> QED BY <4>2 DEF FirstBlock
    <3>2. b \in Nat /\ b # 1 /\ b - 1 \in 1..b
      BY <1>2
    <3>3. Len([j \in 1..b |-> j]) = b
      BY <3>2
    <3> QED BY <3>1, <3>2, <3>3 DEF Prev, Num
  <2>3. CASE b = 2
    BY <1>5, <2>2, <2>3, First1, First2 DEF DoubleConfirms
  <2>4. CASE b = 3
    BY <1>5, <2>2, <2>4, First2, First3 DEF DoubleConfirms
  <2>5. CASE b = 4
    BY <1>5, <2>2, <2>5, First3, First4 DEF DoubleConfirms
  <2>6. CASE b = 5
    BY <1>2, <1>5, <2>2, <2>6, First4, First5 DEF DoubleConfirms
  <2> QED BY <1>2, <2>3, <2>4, <2>5, <2>6
<1>12. restarts \in Nat
  BY <1>1
<1> QED BY <1>3, <1>6, <1>8, <1>9, <1>10, <1>11, <1>12 DEF ProductionInv

-----------------------------------------------------------------------------
(* What is known of a block of the table.                                  *)
LEMMA BlockFacts ==
    ASSUME BlocksMade, NEW b \in 1..Len(blocks)
    PROVE  /\ blocks[b] \in BlockSet /\ blocks[b].hdr \in Header /\ Fits(blocks[b].hdr)
           /\ blocks[b].next \in Everyone /\ blocks[b].chain \in Seq(Nat) /\ blocks[b].lib \in Nat
           /\ blocks[b].confirmed \in Nat
           /\ blocks[b].hdr.num \in Nat /\ blocks[b].hdr.num > 0 /\ WellMade(blocks[b], b)
           /\ Len(blocks[b].chain) = blocks[b].hdr.num
<1> DEFINE x == blocks[b]
<1>1. x \in BlockSet /\ WellMade(x, b)
  BY DEF BlocksMade
<1> HIDE DEF x
<1>2. /\ x.hdr \in Header /\ x.next \in Everyone /\ x.chain \in Seq(Nat) /\ x.lib \in Nat
      /\ x.confirmed \in Nat
  BY <1>1 DEF BlockSet
<1>3. x.hdr.num \in Nat \ {0}
  BY <1>2 DEF Header
<1>4. Fits(x.hdr) /\ Len(x.chain) = x.hdr.num
  BY <1>1 DEF WellMade
<1> QED BY <1>1, <1>2, <1>3, <1>4 DEF x

(* Nobody of the nodes is active before the fourth block.                  *)
LEMMA Producing ==
    ASSUME Second \subseteq First, BlocksMade, NEW b \in 3..Len(blocks),
           NEW N \in Nodes, NEW p \in N, p \in blocks[b].hdr.active.producers
    PROVE  b \in 1..Len(blocks) /\ b >= 4 /\ Steady(blocks[b].hdr) /\ p \in First /\ p # Genesis
<1>1. p \in First /\ p # Genesis
  BY BlockProductionAssumption
<1>2. b \in 1..Len(blocks) /\ Len(blocks) \in Nat
  BY DEF BlocksMade
<1>3. /\ b <= 3 => blocks[b].hdr.active.producers = {Genesis}
      /\ b >= 4 => Steady(blocks[b].hdr)
  BY <1>2, BlockFacts DEF WellMade
<1> QED BY <1>1, <1>2, <1>3

(* The number of blocks to confirm stays above the watermark.              *)
LEMMA ToConfirm ==
    ASSUME NEW m \in Nat, NEW h, h.num \in Nat, m < h.num + 1
    PROVE  BlocksToConfirm(m, h) \in Nat /\ m + BlocksToConfirm(m, h) <= h.num
<1> DEFINE d == h.num - m
           n == d % 65536
<1>1. d \in Nat
  OBVIOUS
<1>2. n \in Nat /\ n <= d
  <2> HIDE DEF d
  <2> QED BY <1>1
<1>3. m + n <= h.num
  <2> HIDE DEF n
  <2> QED BY <1>2
<1> QED BY <1>2, <1>3 DEF BlocksToConfirm

(* Node N extends its head by x, made by p.                                *)
Extended(N, p, x) ==
    LET s == node[N]
        k == Len(blocks) + 1
        h == blocks[s.head].hdr
    IN /\ blocks' = Append(blocks, x) /\ x \in BlockSet /\ WellMade(x, k) /\ restarts' = restarts
       /\ x.hdr.producer = p /\ x.hdr.num = h.num + 1 /\ s.mark[p] + x.confirmed <= h.num
       /\ x.chain[h.num] = s.head
       /\ \A q \in DOMAIN x.hdr.lastProduced :
             \/ q = p /\ x.hdr.lastProduced[q] = x.hdr.num
             \/ q # p /\ q \in DOMAIN h.lastProduced /\ x.hdr.lastProduced[q] = h.lastProduced[q]
       /\ DOMAIN node' = DOMAIN node /\ \A M \in Nodes \ {N} : node'[M] = node[M]
       /\ node'[N] \in NodeState(N) /\ node'[N].head = k /\ node'[N].start = s.start
       /\ node'[N].mark = [s.mark EXCEPT ![p] = x.hdr.num]

(* That is what produce_block does.                                        *)
LEMMA ProduceExtends ==
    ASSUME Second \subseteq First, ProductionInv, NEW N \in Nodes, NEW p \in N, ProduceBlock(N, p)
    PROVE  \E x : Extended(N, p, x)
<1> DEFINE s == node[N]
           hd == s.head
           par == blocks[hd]
           h == par.hdr
           m == s.mark[p]
           n == BlocksToConfirm(m, h)
           r == Started(h, p, n)
           L == Len(blocks)
<1>0. BlocksMade /\ NodesRun
  BY DEF ProductionInv
<1>1. s \in NodeState(N) /\ hd \in 3..L /\ L \in Nat /\ DOMAIN node = Nodes /\ m \in Nat
  BY <1>0 DEF NodesRun, BlocksMade, NodeState
<1>2. MayProduce(m, h, p) /\ restarts' = restarts
  BY DEF ProduceBlock
<1>3. hd \in 1..L /\ Steady(h) /\ hd >= 4 /\ p \in h.active.producers /\ m < h.num + 1
  BY <1>0, <1>1, <1>2, Producing DEF MayProduce
<1>4. /\ h \in Header /\ Fits(h) /\ h.num \in Nat /\ h.num > 0
      /\ par.chain \in Seq(Nat) /\ Len(par.chain) = h.num /\ WellMade(par, hd)
  BY <1>0, <1>3, BlockFacts
<1>5. n \in Nat /\ m + n <= h.num
  <2> HIDE DEF h, m
  <2> QED BY <1>1, <1>3, <1>4, ToConfirm
<1>6. /\ r \in Header /\ Fits(r) /\ r.num = h.num + 1 /\ r.producer = p /\ Steady(r)
      /\ \A q \in DOMAIN r.lastProduced :
            \/ q = p /\ r.lastProduced[q] = h.num + 1
            \/ q # p /\ q \in DOMAIN h.lastProduced /\ r.lastProduced[q] = h.lastProduced[q]
  <2> HIDE DEF h, n
  <2> QED BY <1>3, <1>4, <1>5, StartedSteady
<1>7. PICK q \in NextSlots(r) :
        LET B == Append(blocks, Block(blocks, hd, r, n, q))
        IN /\ blocks' = B
           /\ node' = [node EXCEPT ![N] = [OnBlock(B, N, @, Len(B)) EXCEPT !.head = Len(B),
                                                                          !.mark[p] = r.num]]
  BY DEF ProduceBlock
<1> DEFINE x == Block(blocks, hd, r, n, q)
           pc == par.chain
           k == h.num
           ch == Append(pc, L + 1)
           B == Append(blocks, x)
           t == OnBlock(B, N, s, L + 1)
           mk == [s.mark EXCEPT ![p] = r.num]
           u == [t EXCEPT !.head = L + 1, !.mark = mk]
<1>8. q \in Everyone
  <2>1. r.producer \in Everyone /\ r.active.producers \subseteq Everyone
    BY <1>6 DEF Header, Schedule
  <2> QED BY <2>1 DEF NextSlots
<1>9. /\ ch \in Seq(Nat) /\ Len(ch) = k + 1 /\ ch[k + 1] = L + 1
      /\ \A j \in 1..k : ch[j] = pc[j]
  <2>1. L + 1 \in Nat
    BY <1>1
  <2>2. pc \in Seq(Nat) /\ Len(pc) = k
    BY <1>4
  <2> HIDE DEF pc, k, L
  <2> QED BY <2>1, <2>2, AppendProperties
<1>10. x = [hdr |-> r, chain |-> ch, lib |-> r.lib, confirmed |-> n, next |-> q]
  BY DEF Block
<1>11. r.lib \in Nat /\ r.num \in Nat
  BY <1>6 DEF Header
<1> HIDE DEF par, h, m, n, r, ch, x
<1>12. x \in BlockSet /\ x.hdr = r /\ x.chain = ch /\ x.confirmed = n /\ x.lib = r.lib /\ x.next = q
  <2> DEFINE C == Seq(Nat)
  <2>1. ch \in C
    BY <1>9
  <2> HIDE DEF C
  <2>2. x \in [hdr : Header, chain : C, lib : Nat, confirmed : Nat, next : Everyone]
    BY <1>5, <1>6, <1>8, <1>10, <1>11, <2>1
  <2> QED BY <1>10, <2>2 DEF C, BlockSet
<1>13. /\ \A j \in 1..k : pc[j] \in 1..hd /\ (j >= 4 => pc[j] >= 4)
       /\ pc[k] = hd /\ k >= 3 /\ (\A j \in 1..3 : pc[j] = j) /\ k \in Nat /\ r.num = k + 1
  <2>1. /\ \A j \in 1..Len(par.chain) : par.chain[j] \in 1..hd /\ (j >= 4 => par.chain[j] >= 4)
        /\ Len(par.chain) = par.hdr.num /\ par.chain[par.hdr.num] = hd
        /\ hd >= 3 => par.hdr.num >= 3 /\ \A j \in 1..3 : par.chain[j] = j
    <3> HIDE DEF hd
    <3> QED BY <1>4 DEF WellMade
  <2>2. hd >= 3 /\ hd \in Nat
    BY <1>1
  <2> HIDE DEF hd
  <2> QED BY <1>4, <1>6, <2>1, <2>2 DEF h
<1> HIDE DEF pc, k
<1>14. WellMade(x, L + 1)
  <2>1. \A j \in 1..(k + 1) : ch[j] \in 1..(L + 1) /\ (j >= 4 => ch[j] >= 4)
    <3> SUFFICES ASSUME NEW j \in 1..(k + 1)
                 PROVE  ch[j] \in 1..(L + 1) /\ (j >= 4 => ch[j] >= 4)
      OBVIOUS
    <3>1. CASE j = k + 1
      BY <1>1, <1>3, <1>9, <3>1
    <3>2. CASE j # k + 1
      <4>1. j \in 1..k
        BY <1>13, <3>2
      <4>2. ch[j] = pc[j] /\ pc[j] \in 1..hd /\ (j >= 4 => pc[j] >= 4)
        BY <1>9, <1>13, <4>1
      <4> HIDE DEF hd, L
      <4> QED BY <1>1, <1>3, <4>2
    <3> QED BY <3>1, <3>2
  <2>2. \A j \in 1..3 : ch[j] = j
    <3> SUFFICES ASSUME NEW j \in 1..3 PROVE ch[j] = j
      OBVIOUS
    <3>1. j \in 1..k
      BY <1>13
    <3> QED BY <1>9, <1>13, <3>1
  <2>3. L + 1 >= 5
    BY <1>1, <1>3
  <2>4. /\ Fits(x.hdr) /\ Steady(x.hdr) /\ x.lib = x.hdr.lib /\ x.hdr.num = k + 1 /\ x.hdr.num >= 3
        /\ Len(x.chain) = k + 1 /\ x.chain[k + 1] = L + 1
        /\ \A j \in 1..3 : x.chain[j] = j
        /\ \A j \in 1..Len(x.chain) : x.chain[j] \in 1..(L + 1) /\ (j >= 4 => x.chain[j] >= 4)
    BY <1>6, <1>9, <1>12, <1>13, <2>1, <2>2
  <2> HIDE DEF L
  <2> QED BY <1>1, <2>3, <2>4 DEF WellMade
<1>15. ch[k] = hd
  <2>1. k \in 1..k
    BY <1>13
  <2> QED BY <1>9, <1>13, <2>1
<1>16. Len(B) = L + 1 /\ B[L + 1] = x
  <2>1. blocks \in Seq(BlockSet)
    BY <1>0 DEF BlocksMade
  <2> QED BY <1>12, <2>1, AppendProperties
<1> HIDE DEF L, hd
<1>17. t \in NodeState(N) /\ t.start = s.start /\ t.mark = s.mark
  <2>1. B[L + 1].hdr.num \in Nat /\ L + 1 \in Nat
    BY <1>1, <1>11, <1>12, <1>16
  <2>2. Noticed(B, N, s, L + 1, t)
    <3> HIDE DEF B, s
    <3> QED BY <1>1, <2>1, OnBlockFacts
  <2>3. Newcomers(B[L + 1].hdr, B[L + 1].next) = {}
    BY <1>6, <1>8, <1>12, <1>16, NoNewcomers
  <2>4. Marked(B, N, s, L + 1) = s.mark
    BY <1>1, <2>3 DEF Marked, NodeState
  <2> HIDE DEF t, B, s
  <2> QED BY <2>2, <2>4 DEF Noticed
<1> HIDE DEF B, t
<1>18. /\ blocks' = B
       /\ node' = [node EXCEPT ![N] = [OnBlock(B, N, @, L + 1) EXCEPT !.head = L + 1, !.mark[p] = r.num]]
  <2>1. /\ blocks' = B
        /\ node' = [node EXCEPT ![N] = [OnBlock(B, N, @, Len(B)) EXCEPT !.head = Len(B), !.mark[p] = r.num]]
    BY <1>7 DEF B, x
  <2> QED BY <1>16, <2>1
<1>19. DOMAIN node' = DOMAIN node /\ (\A M \in Nodes \ {N} : node'[M] = node[M]) /\ node'[N] = u
  BY <1>1, <1>17, <1>18 DEF t
<1>20. mk \in [N -> Nat]
  BY <1>1, <1>11 DEF NodeState
<1> HIDE DEF mk
<1>21. u \in NodeState(N) /\ u.head = L + 1 /\ u.start = t.start /\ u.mark = mk
  <2>1. L + 1 \in Nat
    BY <1>1
  <2> QED BY <1>17, <1>20, <2>1 DEF NodeState
<1> HIDE DEF u
<1>22. Extended(N, p, x)
  <2>1. x.hdr.producer = p /\ x.hdr.num = h.num + 1 /\ m + x.confirmed <= h.num /\ x.chain[h.num] = hd
    BY <1>5, <1>6, <1>12, <1>15 DEF k
  <2>2. \A w \in DOMAIN x.hdr.lastProduced :
             \/ w = p /\ x.hdr.lastProduced[w] = x.hdr.num
             \/ w # p /\ w \in DOMAIN h.lastProduced /\ x.hdr.lastProduced[w] = h.lastProduced[w]
    BY <1>6, <1>12
  <2>3. /\ node'[N] \in NodeState(N) /\ node'[N].head = L + 1 /\ node'[N].start = s.start
        /\ node'[N].mark = [s.mark EXCEPT ![p] = x.hdr.num]
    BY <1>12, <1>17, <1>19, <1>21 DEF mk
  <2>4. blocks' = Append(blocks, x) /\ restarts' = restarts
    BY <1>2, <1>18 DEF B
  <2> QED BY <1>12, <1>14, <1>19, <2>1, <2>2, <2>3, <2>4 DEF Extended, L, hd, h, par, m
<1> QED BY <1>22

(* A block that extends the head of its node keeps the invariant.          *)
LEMMA ProduceKeeps ==
    ASSUME Second \subseteq First, ProductionInv, NEW N \in Nodes, NEW p \in N, ProduceBlock(N, p)
    PROVE  ProductionInv'
<1> DEFINE L == Len(blocks)
           k == L + 1
           s == node[N]
           hd == s.head
           h == blocks[hd].hdr
<1>0. BlocksMade /\ NodesRun /\ Remembered /\ ConfirmsOnce /\ restarts \in Nat
  BY DEF ProductionInv
<1>1. PICK x : Extended(N, p, x)
  BY ProduceExtends
<1>2. /\ blocks' = Append(blocks, x) /\ x \in BlockSet /\ WellMade(x, k) /\ restarts' = restarts
      /\ x.hdr.producer = p /\ x.hdr.num = h.num + 1 /\ s.mark[p] + x.confirmed <= h.num
      /\ x.chain[h.num] = hd
      /\ \A q \in DOMAIN x.hdr.lastProduced :
            \/ q = p /\ x.hdr.lastProduced[q] = x.hdr.num
            \/ q # p /\ q \in DOMAIN h.lastProduced /\ x.hdr.lastProduced[q] = h.lastProduced[q]
  BY <1>1 DEF Extended
<1>3. /\ DOMAIN node' = DOMAIN node /\ \A M \in Nodes \ {N} : node'[M] = node[M]
      /\ node'[N] \in NodeState(N) /\ node'[N].head = k /\ node'[N].start = s.start
      /\ node'[N].mark = [s.mark EXCEPT ![p] = x.hdr.num]
  BY <1>1 DEF Extended
<1>4. L \in Nat /\ L >= 4 /\ blocks \in Seq(BlockSet)
  BY <1>0 DEF BlocksMade
<1>5. /\ blocks' \in Seq(BlockSet) /\ Len(blocks') = k /\ blocks'[k] = x
      /\ \A b \in 1..L : blocks'[b] = blocks[b]
  BY <1>2, <1>4, AppendProperties
<1>6. hd \in 1..L /\ s.mark \in [N -> Nat] /\ s.start \in 1..L
  BY <1>0, <1>4 DEF NodesRun, NodeState
<1>7. x.confirmed \in Nat /\ h.num \in Nat /\ h.num > 0 /\ s.mark[p] \in Nat
  BY <1>0, <1>2, <1>6, BlockFacts DEF BlockSet
<1> HIDE DEF L, hd, h
<1>8. BlocksMade'
  <2>1. ASSUME NEW b \in 1..k PROVE WellMade(blocks'[b], b)
    <3>1. b = k \/ b \in 1..L
      BY <1>4
    <3> QED BY <1>0, <1>2, <1>5, <3>1 DEF BlocksMade, L
  <2>2. k >= 4
    BY <1>4
  <2> QED BY <1>5, <2>1, <2>2 DEF BlocksMade
<1>9. NodesRun'
  <2> SUFFICES ASSUME NEW M \in Nodes
               PROVE  /\ node'[M] \in NodeState(M) /\ node'[M].head \in 3..k
                      /\ node'[M].start \in 1..k
    BY <1>0, <1>3, <1>5 DEF NodesRun
  <2>1. /\ node[M] \in NodeState(M) /\ node[M].head \in 3..L /\ node[M].start \in 1..L
    BY <1>0 DEF NodesRun, L
  <2>2. CASE M = N
    BY <1>3, <1>4, <1>6, <2>2
  <2>3. CASE M # N
    BY <1>3, <1>4, <2>1, <2>3
  <2> QED BY <2>2, <2>3
<1>10. ASSUME NEW M \in Nodes
       PROVE  /\ node'[M].start = node[M].start /\ node[M].mark \in [M -> Nat]
              /\ node[M].start \in 1..L
              /\ \A q \in M : node[M].mark[q] <= node'[M].mark[q]
              /\ p \in M => M = N
  <2>1. node[M].mark \in [M -> Nat] /\ node[M].start \in 1..L
    BY <1>0 DEF NodesRun, NodeState, L
  <2>2. p \in M => M = N
    BY BlockProductionAssumption
  <2>3. \A q \in M : node[M].mark[q] <= node'[M].mark[q]
    <3>1. CASE M = N
      <4> DEFINE v == x.hdr.num
      <4>1. s.mark[p] <= v /\ v \in Nat
        BY <1>2, <1>7
      <4>2. node'[N].mark = [s.mark EXCEPT ![p] = v]
        BY <1>3
      <4> HIDE DEF v, s
      <4>3. \A q \in N : s.mark[q] <= node'[N].mark[q]
        BY <1>6, <4>1, <4>2
      <4> QED BY <3>1, <4>3 DEF s
    <3>2. CASE M # N
      BY <1>3, <2>1, <3>2
    <3> QED BY <3>1, <3>2
  <2> QED BY <1>3, <2>1, <2>2, <2>3
<1>11. node'[N].mark[p] = x.hdr.num
  BY <1>3, <1>6
<1>12. Remembered'
  <2> SUFFICES ASSUME NEW M \in Nodes, NEW q \in M, NEW b \in 1..k,
                      node'[M].start < b, blocks'[b].hdr.producer = q
               PROVE  blocks'[b].hdr.num <= node'[M].mark[q]
    BY <1>5 DEF Remembered
  <2>1. CASE b = k
    <3>1. q = p /\ M = N
      BY <1>2, <1>5, <1>10, <2>1
    <3> QED BY <1>2, <1>5, <1>7, <1>11, <2>1, <3>1
  <2>2. CASE b # k
    <3>1. b \in 1..L
      BY <1>4, <2>2
    <3>2. blocks[b].hdr.num <= node[M].mark[q]
      BY <1>0, <1>5, <1>10, <3>1 DEF Remembered, L
    <3>3. blocks[b].hdr.num \in Nat
      BY <1>0, <3>1, BlockFacts DEF L
    <3>4. node[M].mark[q] \in Nat /\ node'[M].mark[q] \in Nat /\ node[M].mark[q] <= node'[M].mark[q]
      BY <1>9, <1>10 DEF NodesRun, NodeState
    <3> QED BY <1>5, <3>1, <3>2, <3>3, <3>4
  <2> QED BY <2>1, <2>2
<1>13. ConfirmsOnce'
  <2> SUFFICES ASSUME NEW M \in Nodes,
                      NEW b \in (node'[M].start + 1)..k, NEW c \in (node'[M].start + 1)..k,
                      blocks'[b].hdr.producer \in M, blocks'[c].hdr.producer \in M,
                      b < c, blocks'[b].hdr.producer = blocks'[c].hdr.producer
               PROVE  Confirms(b)' \cap Confirms(c)' = {}
    BY <1>5 DEF ConfirmsOnce
  <2>1. /\ b \in 1..L /\ b \in (node[M].start + 1)..L /\ node[M].start < b
        /\ c \in 1..k /\ c \in (node[M].start + 1)..k /\ (c # k => c \in (node[M].start + 1)..L /\ c \in 1..L)
    BY <1>4, <1>10
  <2>2. Confirms(b)' = Confirms(b) /\ blocks'[b].hdr.producer = blocks[b].hdr.producer
    BY <1>5, <2>1 DEF Confirms
  <2>3. CASE c = k
    <3>1. blocks[b].hdr.producer = p /\ M = N
      BY <1>2, <1>5, <1>10, <2>2, <2>3
    <3>2. blocks[b].hdr.num <= s.mark[p]
      BY <1>0, <2>1, <3>1 DEF Remembered, L
    <3>3. blocks[b].hdr.num \in Nat /\ blocks[b].confirmed \in Nat
      BY <1>0, <2>1, BlockFacts DEF L
    <3>4. Confirms(c)' = (x.hdr.num - x.confirmed)..x.hdr.num
      BY <1>5, <2>3 DEF Confirms
    <3>5. Confirms(b) = (blocks[b].hdr.num - blocks[b].confirmed)..blocks[b].hdr.num
      BY DEF Confirms
    <3>6. blocks[b].hdr.num < x.hdr.num - x.confirmed
      <4> DEFINE u == blocks[b].hdr.num
                 v == x.hdr.num
                 w == x.confirmed
                 y == s.mark[p]
                 z == h.num
      <4>1. u \in Nat /\ w \in Nat /\ y \in Nat /\ z \in Nat /\ v = z + 1 /\ y + w <= z /\ u <= y
        BY <1>2, <1>7, <3>2, <3>3
      <4> HIDE DEF u, v, w, y, z
      <4>2. u < v - w
        BY <4>1
      <4> QED BY <4>2 DEF u, v, w
    <3>7. x.hdr.num \in Nat
      BY <1>2, <1>7
    <3> QED BY <1>7, <2>2, <3>3, <3>4, <3>5, <3>6, <3>7
  <2>4. CASE c # k
    <3>1. Confirms(c)' = Confirms(c) /\ blocks'[c].hdr.producer = blocks[c].hdr.producer
      BY <1>5, <2>1, <2>4 DEF Confirms
    <3>2. Confirms(b) \cap Confirms(c) = {}
      BY <1>0, <2>1, <2>2, <2>4, <3>1 DEF ConfirmsOnce, L
    <3> QED BY <2>2, <3>1, <3>2
  <2> QED BY <2>3, <2>4
<1>14. ASSUME restarts = 0 PROVE NotBehind' /\ NoneRefused'
  <2>0. NotBehind /\ NoneRefused
    BY <1>14 DEF ProductionInv
  <2>1. ASSUME NEW M \in Nodes, NEW q \in M, NEW b \in 1..L, q \in DOMAIN blocks[b].hdr.lastProduced
        PROVE  blocks[b].hdr.lastProduced[q] <= node'[M].mark[q]
    <3>1. blocks[b].hdr.lastProduced[q] <= node[M].mark[q]
      BY <2>0, <2>1 DEF NotBehind, L
    <3>2. blocks[b].hdr.lastProduced[q] \in Nat
      <4>1. blocks[b].hdr.lastProduced \in Numbers
        BY <1>0, BlockFacts DEF L, Header
      <4> QED BY <2>1, <4>1, NumbersFacts
    <3>3. node[M].mark[q] \in Nat /\ node'[M].mark[q] \in Nat /\ node[M].mark[q] <= node'[M].mark[q]
      BY <1>9, <1>10 DEF NodesRun, NodeState
    <3> QED BY <3>1, <3>2, <3>3
  <2>2. NotBehind'
    <3> SUFFICES ASSUME NEW M \in Nodes, NEW q \in M, NEW b \in 1..k,
                        q \in DOMAIN blocks'[b].hdr.lastProduced
                 PROVE  blocks'[b].hdr.lastProduced[q] <= node'[M].mark[q]
      BY <1>5 DEF NotBehind
    <3>1. CASE b = k
      <4>1. blocks'[b] = x
        BY <1>5, <3>1
      <4>2. CASE q = p
        BY <1>2, <1>7, <1>10, <1>11, <4>1, <4>2
      <4>3. CASE q # p
        BY <1>2, <1>6, <2>1, <4>1, <4>3 DEF h
      <4> QED BY <4>2, <4>3
    <3>2. CASE b # k
      <4>1. b \in 1..L
        BY <1>4, <3>2
      <4> QED BY <1>5, <2>1, <4>1
    <3> QED BY <3>1, <3>2
  <2>3. NoneRefused'
    <3> SUFFICES ASSUME NEW b \in 2..k
                 PROVE  ~DoubleConfirms(blocks'[Prev(blocks', b)].hdr, blocks'[b].hdr.producer,
                                        blocks'[b].confirmed)
      BY <1>5 DEF NoneRefused
    <3>1. CASE b = k
      <4>1. Len(x.chain) = h.num + 1
        BY <1>2 DEF WellMade
      <4>2. Prev(blocks', b) = hd
        <5>1. blocks'[b] = x /\ h.num + 1 # 1 /\ (h.num + 1) - 1 = h.num
          BY <1>5, <1>7, <3>1
        <5> QED BY <1>2, <4>1, <5>1 DEF Prev, Num
      <4>3. blocks'[hd].hdr = h
        BY <1>5, <1>6 DEF h
      <4>4. p \in DOMAIN h.lastProduced => h.lastProduced[p] <= s.mark[p] /\ h.lastProduced[p] \in Nat
        <5>1. h.lastProduced \in Numbers
          BY <1>0, <1>6, BlockFacts DEF L, Header, h
        <5> QED BY <1>6, <2>0, <5>1, NumbersFacts DEF NotBehind, h, L
      <4>5. ~DoubleConfirms(h, p, x.confirmed)
        BY <1>2, <1>7, <4>4 DEF DoubleConfirms
      <4> QED BY <1>2, <1>5, <3>1, <4>2, <4>3, <4>5
    <3>2. CASE b # k
      <4>1. b \in 1..L /\ b \in 2..L /\ b # 1
        BY <1>4, <3>2
      <4>2. blocks'[b] = blocks[b]
        BY <1>5, <4>1
      <4>3. Prev(blocks', b) = Prev(blocks, b)
        BY <4>2 DEF Prev, Num
      <4>4. Prev(blocks, b) \in 1..L
        <5> DEFINE c == blocks[b].chain
                   m == Len(c)
        <5>1. m \in Nat /\ m >= 2 /\ \A j \in 1..m : c[j] \in 1..b
          BY <1>0, <4>1, BlockFacts DEF WellMade, L
        <5>2. Prev(blocks, b) = IF m = 1 THEN 0 ELSE c[m - 1]
          BY DEF Prev, Num
        <5> HIDE DEF c, m
        <5>3. m - 1 \in 1..m /\ m # 1
          BY <5>1
        <5>4. c[m - 1] \in 1..b
          BY <5>1, <5>3
        <5> QED BY <1>4, <4>1, <5>2, <5>3, <5>4
      <4>5. ~DoubleConfirms(blocks[Prev(blocks, b)].hdr, blocks[b].hdr.producer, blocks[b].confirmed)
        BY <2>0, <4>1 DEF NoneRefused, L
      <4> QED BY <1>5, <4>2, <4>3, <4>4, <4>5
    <3> QED BY <3>1, <3>2
  <2> QED BY <2>2, <2>3
<1>15. restarts' \in Nat /\ (restarts' = 0 => restarts = 0)
  BY <1>0, <1>2
<1> QED BY <1>8, <1>9, <1>12, <1>13, <1>14, <1>15 DEF ProductionInv

(* Better forks have three blocks and more, all of them shared with the    *)
(* head's chain at the bottom; so on_block sees none but steady ones.      *)
LEMMA ReceiveFacts ==
    ASSUME ProductionInv, NEW N \in Nodes, NEW b \in DOMAIN blocks, ReceiveBlocks(N, b)
    PROVE  /\ UNCHANGED <<blocks, restarts>> /\ b \in 3..Len(blocks)
           /\ DOMAIN node' = DOMAIN node /\ \A M \in Nodes \ {N} : node'[M] = node[M]
           /\ node'[N] \in NodeState(N) /\ node'[N].head = b
           /\ node'[N].mark = node[N].mark /\ node'[N].start = node[N].start
<1> DEFINE L == Len(blocks)
           s == node[N]
           hd == s.head
           ch == blocks[b].chain
           n == Len(ch)
           sh == Shared(N, b)
           k == Max(sh)
           bs == SubSeq(ch, k + 1, n)
           t == OnBlocks(blocks, N, s, bs)
<1>0. BlocksMade /\ NodesRun
  BY DEF ProductionInv
<1>1. s \in NodeState(N) /\ hd \in 3..L /\ L \in Nat /\ DOMAIN node = Nodes
  BY <1>0 DEF NodesRun, BlocksMade
<1>2. b \in 1..L
  BY <1>0 DEF BlocksMade
<1>3. hd \in 1..L
  BY <1>1
<1>4. /\ ch \in Seq(Nat) /\ n \in Nat /\ WellMade(blocks[b], b) /\ blocks[b].lib \in Nat
      /\ blocks[b].hdr.num = n
  BY <1>0, <1>2, BlockFacts
<1>5. /\ WellMade(blocks[hd], hd) /\ blocks[hd].lib \in Nat /\ Num(blocks, hd) \in Nat
      /\ Num(blocks, hd) >= 3 /\ \A j \in 1..3 : blocks[hd].chain[j] = j
      /\ blocks[hd].chain \in Seq(Nat)
  <2>1. WellMade(blocks[hd], hd) /\ blocks[hd].lib \in Nat /\ blocks[hd].chain \in Seq(Nat)
        /\ blocks[hd].hdr.num \in Nat /\ Len(blocks[hd].chain) = blocks[hd].hdr.num
    BY <1>0, <1>3, BlockFacts
  <2>2. hd >= 3
    BY <1>1
  <2> HIDE DEF hd
  <2> QED BY <2>1, <2>2 DEF WellMade, Num
<1>6. /\ Better(blocks, b, hd) /\ UNCHANGED <<blocks, restarts>>
      /\ node' = [node EXCEPT ![N] = [OnBlocks(blocks, N, @, Branch(blocks, b, k)) EXCEPT !.head = b]]
  BY DEF ReceiveBlocks
<1>7. b \in 3..L
  <2> SUFFICES ASSUME b <= 2 PROVE FALSE
    BY <1>1, <1>2
  <2>1. blocks[b].lib = 0 /\ n <= 2
    BY <1>4 DEF WellMade
  <2> HIDE DEF hd, ch
  <2> QED BY <1>4, <1>5, <1>6, <2>1 DEF Better, Num, ch
<1>8. /\ n >= 3 /\ (\A j \in 1..3 : ch[j] = j)
      /\ \A j \in 1..n : ch[j] \in 1..b /\ (j >= 4 => ch[j] >= 4)
  BY <1>4, <1>7 DEF WellMade
<1>9. sh \subseteq 1..n /\ 3 \in sh
  <2>1. 3 \in DOMAIN blocks[hd].chain /\ blocks[hd].chain[3] = 3
    BY <1>5 DEF Num
  <2>2. 3 \in Chain(blocks, hd)
    BY <2>1 DEF Chain, Range
  <2>3. ch[3] = 3 /\ 3 \in 1..n
    BY <1>4, <1>8
  <2> QED BY <2>2, <2>3 DEF Shared, Num
<1> HIDE DEF L, hd, ch, n, sh
<1>10. k \in 1..n /\ k >= 3
  <2>1. \E m \in sh : \A x \in sh : m >= x
    BY <1>4, <1>9, LargestExists
  <2>2. k \in sh /\ \A x \in sh : k >= x
    BY <2>1 DEF Max
  <2> QED BY <1>4, <1>9, <2>2
<1> HIDE DEF k
<1>11. Len(bs) \in Nat /\ \A i \in 1..Len(bs) : bs[i] \in 4..b
  <2>1. \A i \in (k + 1)..n : ch[i] \in 4..b
    <3> SUFFICES ASSUME NEW i \in (k + 1)..n PROVE ch[i] \in 4..b
      OBVIOUS
    <3>1. i \in 1..n /\ i >= 4
      BY <1>4, <1>10
    <3> QED BY <1>2, <1>8, <3>1
  <2>2. /\ Len(bs) = IF k + 1 <= n THEN n - (k + 1) + 1 ELSE 0
        /\ \A i \in 1..(n - (k + 1) + 1) : bs[i] = ch[(k + 1) + i - 1]
    <3>1. k + 1 \in Int /\ n \in Int
      BY <1>4, <1>10
    <3> QED BY <2>1, <3>1, SubSeqProperties
  <2>3. Len(bs) = n - k
    BY <1>4, <1>10, <2>2
  <2>4. ASSUME NEW i \in 1..Len(bs) PROVE bs[i] \in 4..b
    <3>1. i \in 1..(n - (k + 1) + 1) /\ (k + 1) + i - 1 \in (k + 1)..n
      BY <1>4, <1>10, <2>3
    <3> QED BY <2>1, <2>2, <3>1
  <2> HIDE DEF bs
  <2>5. Len(bs) \in Nat
    BY <1>4, <1>10, <2>3
  <2> QED BY <2>4, <2>5
<1> HIDE DEF bs
<1>12. t \in NodeState(N) /\ t.mark = s.mark /\ t.start = s.start
  <2>1. ASSUME NEW i \in 1..Len(bs)
        PROVE  /\ bs[i] \in Nat /\ blocks[bs[i]].hdr \in Header /\ Fits(blocks[bs[i]].hdr)
               /\ Steady(blocks[bs[i]].hdr) /\ blocks[bs[i]].next \in Everyone
    <3> DEFINE c == bs[i]
    <3>1. c \in 1..Len(blocks) /\ c >= 4 /\ c \in Nat
      BY <1>1, <1>2, <1>11 DEF L
    <3> HIDE DEF c
    <3>2. blocks[c].hdr \in Header /\ Fits(blocks[c].hdr) /\ blocks[c].next \in Everyone
          /\ WellMade(blocks[c], c)
      BY <1>0, <3>1, BlockFacts
    <3>3. Steady(blocks[c].hdr)
      BY <3>1, <3>2 DEF WellMade
    <3> QED BY <3>1, <3>2, <3>3 DEF c
  <2> HIDE DEF s
  <2> QED BY <1>1, <1>11, <2>1, OnBlocksKeep
<1>13. Branch(blocks, b, k) = bs
  BY DEF Branch, Num, bs, n, ch
<1>14. b \in Nat
  BY <1>1, <1>2
<1>15. DOMAIN node' = DOMAIN node /\ (\A M \in Nodes \ {N} : node'[M] = node[M])
       /\ node'[N] = [t EXCEPT !.head = b]
  BY <1>1, <1>6, <1>13
<1> HIDE DEF t
<1>16. LET u == [t EXCEPT !.head = b]
       IN u \in NodeState(N) /\ u.head = b /\ u.mark = s.mark /\ u.start = s.start
  BY <1>12, <1>14 DEF NodeState
<1> QED BY <1>6, <1>7, <1>15, <1>16 DEF L

(* A step that makes no block keeps the invariant when it leaves the start *)
(* and the watermarks alone, or starts a node again.                       *)
LEMMA QuietKeeps ==
    ASSUME ProductionInv, NEW N \in Nodes, blocks' = blocks, restarts' \in Nat, restarts' >= restarts,
           DOMAIN node' = DOMAIN node, \A M \in Nodes \ {N} : node'[M] = node[M],
           node'[N] \in NodeState(N), node'[N].head \in 3..Len(blocks),
           \/ /\ node'[N].start = node[N].start /\ node'[N].mark = node[N].mark
           \/ /\ node'[N].start = Len(blocks) /\ restarts' # 0
    PROVE  ProductionInv'
<1>0. BlocksMade /\ NodesRun /\ Remembered /\ ConfirmsOnce /\ restarts \in Nat
  BY DEF ProductionInv
<1>1. Len(blocks) \in Nat /\ Len(blocks) >= 4
  BY <1>0 DEF BlocksMade
<1>2. BlocksMade'
  BY <1>0 DEF BlocksMade
<1>3. ASSUME NEW M \in Nodes
      PROVE  /\ node[M].start \in 1..Len(blocks)
             /\ \/ node'[M].start = node[M].start /\ node'[M].mark = node[M].mark
                \/ node'[M].start = Len(blocks) /\ restarts' # 0
             /\ node'[M] \in NodeState(M) /\ node'[M].head \in 3..Len(blocks)
  BY <1>0 DEF NodesRun
<1>4. NodesRun'
  <2>1. \A M \in Nodes : node'[M].start \in 1..Len(blocks)
    BY <1>1, <1>3
  <2> QED BY <1>0, <1>3, <2>1 DEF NodesRun
<1>5. Remembered'
  <2> SUFFICES ASSUME NEW M \in Nodes, NEW p \in M, NEW b \in 1..Len(blocks),
                      node'[M].start < b, blocks[b].hdr.producer = p
               PROVE  blocks[b].hdr.num <= node'[M].mark[p]
    BY DEF Remembered
  <2>1. node'[M].start # Len(blocks)
    BY <1>1
  <2>2. node'[M].start = node[M].start /\ node'[M].mark = node[M].mark
    BY <1>3, <2>1
  <2> QED BY <1>0, <2>2 DEF Remembered
<1>6. ConfirmsOnce'
  <2> SUFFICES ASSUME NEW M \in Nodes,
                      NEW b \in (node'[M].start + 1)..Len(blocks), NEW c \in (node'[M].start + 1)..Len(blocks),
                      blocks[b].hdr.producer \in M, blocks[c].hdr.producer \in M,
                      b < c, blocks[b].hdr.producer = blocks[c].hdr.producer
               PROVE  Confirms(b)' \cap Confirms(c)' = {}
    BY DEF ConfirmsOnce
  <2>1. node'[M].start # Len(blocks)
    BY <1>1
  <2>2. node'[M].start = node[M].start
    BY <1>3, <2>1
  <2>3. Confirms(b)' = Confirms(b) /\ Confirms(c)' = Confirms(c)
    BY DEF Confirms
  <2>4. Confirms(b) \cap Confirms(c) = {}
    BY <1>0, <2>2 DEF ConfirmsOnce
  <2> QED BY <2>3, <2>4
<1>7. ASSUME restarts' = 0 PROVE NotBehind' /\ NoneRefused'
  <2>1. restarts = 0
    BY <1>0, <1>7
  <2>2. NotBehind /\ NoneRefused
    BY <2>1 DEF ProductionInv
  <2>3. \A M \in Nodes : node'[M].mark = node[M].mark
    BY <1>3, <1>7
  <2>4. NotBehind'
    BY <2>2, <2>3 DEF NotBehind
  <2>5. NoneRefused'
    BY <2>2 DEF NoneRefused
  <2> QED BY <2>4, <2>5
<1> QED BY <1>2, <1>4, <1>5, <1>6, <1>7 DEF ProductionInv

(* What a restart leaves of a node: its head.                              *)
LEMMA RestartFacts ==
    ASSUME ProductionInv, NEW N \in Nodes, RestartNode(N)
    PROVE  /\ blocks' = blocks /\ restarts' = restarts + 1 /\ restarts \in Nat
           /\ DOMAIN node' = DOMAIN node /\ \A M \in Nodes \ {N} : node'[M] = node[M]
           /\ node'[N] \in NodeState(N) /\ node'[N].head \in 3..Len(blocks)
           /\ node'[N].start = Len(blocks)
<1> DEFINE L == Len(blocks)
           z == [p \in N |-> 0]
           s == node[N]
           u == [s EXCEPT !.mark = z, !.signed = 0, !.start = L]
<1>1. L \in Nat /\ s \in NodeState(N) /\ s.head \in 3..L /\ DOMAIN node = Nodes /\ restarts \in Nat
  BY DEF ProductionInv, BlocksMade, NodesRun
<1>2. z \in [N -> Nat]
  OBVIOUS
<1>3. blocks' = blocks /\ restarts' = restarts + 1 /\ node' = [node EXCEPT ![N] = u]
  BY DEF RestartNode
<1> HIDE DEF L, z, s
<1>4. u \in NodeState(N) /\ u.head = s.head /\ u.start = L
  BY <1>1, <1>2 DEF NodeState
<1> HIDE DEF u
<1> QED BY <1>1, <1>3, <1>4 DEF L, s

(* Every step keeps the invariant.                                         *)
LEMMA ProductionStep ==
    ASSUME Second \subseteq First, ProductionInv, [Next]_vars
    PROVE  ProductionInv'
<1>1. ASSUME NEW N \in Nodes, NEW p \in N, ProduceBlock(N, p) PROVE ProductionInv'
  BY <1>1, ProduceKeeps
<1>2. ASSUME NEW N \in Nodes, NEW b \in DOMAIN blocks, ReceiveBlocks(N, b) PROVE ProductionInv'
  <2>1. restarts \in Nat
    BY DEF ProductionInv
  <2> QED BY <1>2, <2>1, ReceiveFacts, QuietKeeps
<1>3. ASSUME NEW N \in Nodes, RestartNode(N) PROVE ProductionInv'
  BY <1>3, RestartFacts, QuietKeeps
<1>4. CASE UNCHANGED vars
  BY <1>4 DEF vars, ProductionInv, BlocksMade, NodesRun, Remembered, ConfirmsOnce, Confirms,
              NotBehind, NoneRefused
<1> QED BY <1>1, <1>2, <1>3, <1>4 DEF Next

(* The invariant: a watermark is not below any block that its producer made*)
(* since its node started, nor below what any fork remembers of it while no*)
(* node was started again.                                                 *)
THEOREM ProductionInvariant == ASSUME Second \subseteq First PROVE Spec => []ProductionInv
<1>1. Init => ProductionInv
  BY ProductionInit
<1>2. ProductionInv /\ [Next]_vars => ProductionInv'
  BY ProductionStep
<1> QED BY <1>1, <1>2, PTL DEF Spec

(* While its node runs, a producer confirms each block number once, on     *)
(* whatever forks, unless a schedule brings in producers that were not     *)
(* active (produce_block, on_block and start_block of the producer plugin).*)
THEOREM ConfirmedOnce == ASSUME Second \subseteq First PROVE Spec => []ConfirmsOnce
<1>1. ProductionInv => ConfirmsOnce
  BY DEF ProductionInv
<1> QED BY <1>1, ProductionInvariant, PTL

(* Until a node is started again, next accepts the header of every block   *)
(* made: producer_double_confirm is never thrown.                          *)
THEOREM AcceptedHeaders == ASSUME Second \subseteq First PROVE Spec => []HeadersAccepted
<1>1. ProductionInv => HeadersAccepted
  BY DEF ProductionInv, HeadersAccepted
<1> QED BY <1>1, ProductionInvariant, PTL
=============================================================================
