----------------------------- MODULE FoldProofs -----------------------------
(***************************************************************************)
(* Sums over finite sets (SumFunctionOnSet of the community modules) and   *)
(* functions that are defined by recursion.  The induction theorems of the *)
(* library take the property as an operator, which the provers cannot      *)
(* instantiate; with the property as a set (NatSetInduction,               *)
(* SubsetInduction) they can.                                              *)
(***************************************************************************)
EXTENDS Integers, FiniteSets, Functions, FiniteSetTheorems, WellFoundedInduction, TLAPS

(* Every set of natural numbers has a least one.                           *)
LEMMA LeastNat ==
    ASSUME NEW T, T \subseteq Nat, T # {}
    PROVE  \E x \in T : \A y \in T : x <= y
<1>1. IsWellFoundedOn(OpToRel(<, Nat), Nat)
  BY NatLessThanWellFounded
<1>2. PICK x \in T : \A y \in T : ~(<<y, x>> \in OpToRel(<, Nat))
  BY <1>1, WFMin, Zenon
<1>3. \A y \in T : ~(y < x)
  BY <1>2 DEF OpToRel
<1> QED BY <1>3

(* Induction over the natural numbers, with the property as a set.         *)
LEMMA NatSetInduction ==
    ASSUME NEW P, 0 \in P, \A n \in Nat : n \in P => n + 1 \in P
    PROVE  Nat \subseteq P
<1> DEFINE T == Nat \ P
<1> SUFFICES ASSUME T # {} PROVE FALSE
  OBVIOUS
<1>1. PICK x \in T : \A y \in T : x <= y
  <2>1. T \subseteq Nat
    OBVIOUS
  <2> HIDE DEF T
  <2> QED BY <2>1, LeastNat
<1>2. x # 0 /\ x - 1 \in Nat /\ x - 1 \notin T
  BY <1>1
<1> QED BY <1>2

(* g adds up f over every set of R, element by element.                    *)
AddsUp(g, f, R) == g = [s \in R |->
    IF s = {} THEN 0 ELSE LET x == CHOOSE x \in s : TRUE IN f[x] + g[s \ {x}]]

(* The fold of the community modules, without its operator parameters.     *)
LEMMA SumChosen ==
    ASSUME NEW f, NEW S
    PROVE  SumFunctionOnSet(f, S) = (CHOOSE g : AddsUp(g, f, SUBSET S))[S]
BY DEF SumFunctionOnSet, FoldFunctionOnSet, MapThenFoldSet, AddsUp

(* The function that the fold chooses exists.                              *)
LEMMA AddsUpExists ==
    ASSUME NEW f, NEW S, IsFiniteSet(S)
    PROVE  \E g : AddsUp(g, f, SUBSET S)
<1> DEFINE Upto(n) == {s \in SUBSET S : Cardinality(s) <= n}
           P == {n \in Nat : \E g : AddsUp(g, f, Upto(n))}
<1>1. \A s \in SUBSET S : IsFiniteSet(s) /\ Cardinality(s) \in Nat
  BY FS_Subset, FS_CardinalityType
<1>2. \A s \in SUBSET S : s # {} => LET x == CHOOSE x \in s : TRUE
                                 IN x \in s /\ Cardinality(s \ {x}) = Cardinality(s) - 1
  BY <1>1, FS_RemoveElement
<1>3. 0 \in P
  <2>1. AddsUp([s \in Upto(0) |-> 0], f, Upto(0))
    <3>1. \A s \in Upto(0) : s = {}
      BY <1>1, FS_EmptySet
    <3> QED BY <3>1 DEF AddsUp
  <2> QED BY <2>1
<1>4. \A n \in Nat : n \in P => n + 1 \in P
  <2> TAKE n \in Nat
  <2> HAVE n \in P
  <2>1. PICK g : AddsUp(g, f, Upto(n))
    OBVIOUS
  <2> DEFINE h == [s \in Upto(n + 1) |->
                      IF s = {} THEN 0 ELSE LET x == CHOOSE x \in s : TRUE IN f[x] + g[s \ {x}]]
  <2>2. Upto(n) \subseteq Upto(n + 1)
    BY <1>1
  <2>3. \A s \in Upto(n) : h[s] = g[s]
    BY <2>1, <2>2 DEF AddsUp
  <2>4. \A s \in Upto(n + 1) : s # {} => s \ {CHOOSE x \in s : TRUE} \in Upto(n)
    BY <1>1, <1>2
  <2>5. AddsUp(h, f, Upto(n + 1))
    <3> HIDE DEF Upto
    <3>1. h = [s \in Upto(n + 1) |->
                 IF s = {} THEN 0 ELSE LET x == CHOOSE x \in s : TRUE IN f[x] + h[s \ {x}]]
      BY <2>3, <2>4
    <3> HIDE DEF h
    <3> QED BY <3>1 DEF AddsUp
  <2> HIDE DEF h, Upto
  <2> QED BY <2>5
<1>5. Cardinality(S) \in P
  <2> HIDE DEF P
  <2> QED BY <1>1, <1>3, <1>4, NatSetInduction
<1>6. Upto(Cardinality(S)) = SUBSET S
  BY <1>1, FS_Subset
<1> HIDE DEF Upto
<1> QED BY <1>5, <1>6

(* Two such functions agree.                                               *)
LEMMA AddsUpUnique ==
    ASSUME NEW f, NEW g, NEW h, NEW S, NEW R, IsFiniteSet(S), S \subseteq R,
           AddsUp(h, f, SUBSET S), AddsUp(g, f, SUBSET R)
    PROVE  h[S] = g[S]
<1> DEFINE P == {n \in Nat : \A s \in SUBSET S : Cardinality(s) = n => h[s] = g[s]}
<1>1. \A s \in SUBSET S : IsFiniteSet(s) /\ Cardinality(s) \in Nat
  BY FS_Subset, FS_CardinalityType
<1>2. \A s \in SUBSET S : s # {} => LET x == CHOOSE x \in s : TRUE
                                 IN x \in s /\ Cardinality(s \ {x}) = Cardinality(s) - 1
  BY <1>1, FS_RemoveElement
<1>3. 0 \in P
  <2>1. \A s \in SUBSET S : Cardinality(s) = 0 => s = {}
    BY <1>1, FS_EmptySet
  <2> QED BY <2>1 DEF AddsUp
<1>4. \A n \in Nat : n \in P => n + 1 \in P
  <2> SUFFICES ASSUME NEW n \in Nat, n \in P, NEW s \in SUBSET S, Cardinality(s) = n + 1
               PROVE  h[s] = g[s]
    OBVIOUS
  <2>1. s # {}
    BY <1>1, FS_EmptySet
  <2> DEFINE x == CHOOSE x \in s : TRUE
  <2>2. h[s \ {x}] = g[s \ {x}]
    BY <1>1, <1>2, <2>1
  <2>3. h[s] = f[x] + h[s \ {x}] /\ g[s] = f[x] + g[s \ {x}]
    BY <2>1 DEF AddsUp
  <2> QED BY <2>2, <2>3
<1>5. Cardinality(S) \in P
  <2> HIDE DEF P
  <2> QED BY <1>1, <1>3, <1>4, NatSetInduction
<1> QED BY <1>5

(* The empty sum.                                                          *)
LEMMA SumEmpty ==
    ASSUME NEW f
    PROVE  SumFunctionOnSet(f, {}) = 0
<1>1. AddsUp(CHOOSE g : AddsUp(g, f, SUBSET {}), f, SUBSET {})
  BY AddsUpExists, FS_EmptySet
<1> QED BY <1>1, SumChosen DEF AddsUp

(* A sum takes one element after the other.                                *)
LEMMA SumStep ==
    ASSUME NEW f, NEW S, IsFiniteSet(S), S # {}
    PROVE  \E x \in S : SumFunctionOnSet(f, S) = f[x] + SumFunctionOnSet(f, S \ {x})
<1> DEFINE x == CHOOSE x \in S : TRUE
           R == S \ {x}
           g == CHOOSE g : AddsUp(g, f, SUBSET S)
           h == CHOOSE h : AddsUp(h, f, SUBSET R)
<1>1. IsFiniteSet(R)
  BY FS_Subset
<1>2. AddsUp(g, f, SUBSET S)
  BY AddsUpExists
<1>3. AddsUp(h, f, SUBSET R)
  BY AddsUpExists, <1>1
<1>4. h[R] = g[R]
  <2> HIDE DEF R, g, h
  <2>1. R \subseteq S
    BY DEF R
  <2> QED BY <1>1, <1>2, <1>3, <2>1, AddsUpUnique
<1>5. g[S] = f[x] + g[R]
  <2> HIDE DEF g
  <2> QED BY <1>2 DEF AddsUp
<1>6. SumFunctionOnSet(f, S) = g[S] /\ SumFunctionOnSet(f, R) = h[R]
  BY SumChosen
<1>7. x \in S
  OBVIOUS
<1> HIDE DEF g, h
<1> QED BY <1>4, <1>5, <1>6, <1>7

(* Induction over the subsets of a finite set.                             *)
LEMMA SubsetInduction ==
    ASSUME NEW S, IsFiniteSet(S), NEW P,
           \A s \in SUBSET S : (\A x \in s : s \ {x} \in P) => s \in P
    PROVE  SUBSET S \subseteq P
<1> DEFINE Q == {n \in Nat : \A s \in SUBSET S : Cardinality(s) = n => s \in P}
<1>1. \A s \in SUBSET S : IsFiniteSet(s) /\ Cardinality(s) \in Nat
  BY FS_Subset, FS_CardinalityType
<1>2. 0 \in Q
  BY <1>1, FS_EmptySet
<1>3. \A n \in Nat : n \in Q => n + 1 \in Q
  <2> SUFFICES ASSUME NEW n \in Nat, n \in Q, NEW s \in SUBSET S, Cardinality(s) = n + 1
               PROVE  s \in P
    OBVIOUS
  <2>1. \A x \in s : Cardinality(s \ {x}) = n
    BY <1>1, FS_RemoveElement
  <2> QED BY <2>1
<1>4. Nat \subseteq Q
  <2> HIDE DEF Q
  <2> QED BY <1>2, <1>3, NatSetInduction
<1> QED BY <1>1, <1>4

(* A sum of integers is one.                                               *)
LEMMA SumInt ==
    ASSUME NEW S, IsFiniteSet(S), NEW f, \A x \in S : f[x] \in Int
    PROVE  SumFunctionOnSet(f, S) \in Int
<1> DEFINE P == {s \in SUBSET S : SumFunctionOnSet(f, s) \in Int}
<1>1. ASSUME NEW s \in SUBSET S, \A x \in s : s \ {x} \in P
      PROVE  s \in P
  <2>1. CASE s = {}
    BY <2>1, SumEmpty
  <2>2. CASE s # {}
    <3>1. PICK x \in s : SumFunctionOnSet(f, s) = f[x] + SumFunctionOnSet(f, s \ {x})
      BY <2>2, FS_Subset, SumStep
    <3> QED BY <1>1, <3>1
  <2> QED BY <2>1, <2>2
<1>2. SUBSET S \subseteq P
  <2> HIDE DEF P
  <2> QED BY <1>1, SubsetInduction
<1> QED BY <1>2

(* The order does not matter: any element can be taken first.              *)
LEMMA SumTakeOne ==
    ASSUME NEW S, IsFiniteSet(S), NEW f, \A x \in S : f[x] \in Int, NEW e \in S
    PROVE  SumFunctionOnSet(f, S) = f[e] + SumFunctionOnSet(f, S \ {e})
<1> DEFINE Sum(s) == SumFunctionOnSet(f, s)
           P == {s \in SUBSET S : \A x \in s : Sum(s) = f[x] + Sum(s \ {x})}
<1>0. \A s \in SUBSET S : IsFiniteSet(s) /\ Sum(s) \in Int
  BY FS_Subset, SumInt
<1>1. ASSUME NEW s \in SUBSET S, \A x \in s : s \ {x} \in P
      PROVE  s \in P
  <2> SUFFICES ASSUME NEW x \in s
               PROVE  Sum(s) = f[x] + Sum(s \ {x})
    OBVIOUS
  <2>1. PICK c \in s : Sum(s) = f[c] + Sum(s \ {c})
    BY <1>0, SumStep
  <2>2. CASE x # c
    <3> DEFINE r == s \ {c, x}
    <3>1. Sum(s \ {c}) = f[x] + Sum((s \ {c}) \ {x}) /\ Sum(s \ {x}) = f[c] + Sum((s \ {x}) \ {c})
      <4> HIDE DEF Sum
      <4> QED BY <1>1, <2>2
    <3>2. (s \ {c}) \ {x} = r /\ (s \ {x}) \ {c} = r
      OBVIOUS
    <3>3. Sum(r) \in Int /\ f[x] \in Int /\ f[c] \in Int
      BY <1>0
    <3> HIDE DEF r, Sum
    <3> QED BY <3>1, <3>2, <3>3, <2>1
  <2> HIDE DEF Sum
  <2> QED BY <2>1, <2>2
<1>2. SUBSET S \subseteq P
  <2> HIDE DEF P
  <2> QED BY <1>1, SubsetInduction
<1> HIDE DEF Sum
<1>3. Sum(S) = f[e] + Sum(S \ {e})
  BY <1>2
<1> QED BY <1>3 DEF Sum

(* Functions that agree have the same sum.                                 *)
LEMMA SumSame ==
    ASSUME NEW S, IsFiniteSet(S), NEW f, NEW g,
           \A x \in S : f[x] \in Int /\ g[x] = f[x]
    PROVE  SumFunctionOnSet(g, S) = SumFunctionOnSet(f, S)
<1> DEFINE P == {s \in SUBSET S : SumFunctionOnSet(g, s) = SumFunctionOnSet(f, s)}
<1>1. ASSUME NEW s \in SUBSET S, \A x \in s : s \ {x} \in P
      PROVE  s \in P
  <2>1. CASE s = {}
    BY <2>1, SumEmpty
  <2>2. CASE s # {}
    <3>1. PICK x \in s : TRUE
      BY <2>2
    <3>2. IsFiniteSet(s) /\ \A y \in s : f[y] \in Int /\ g[y] \in Int
      BY FS_Subset
    <3>3. SumFunctionOnSet(f, s) = f[x] + SumFunctionOnSet(f, s \ {x})
      BY <3>2, SumTakeOne
    <3>4. SumFunctionOnSet(g, s) = g[x] + SumFunctionOnSet(g, s \ {x})
      BY <3>2, SumTakeOne
    <3> QED BY <1>1, <3>3, <3>4
  <2> QED BY <2>1, <2>2
<1>2. SUBSET S \subseteq P
  <2> HIDE DEF P
  <2> QED BY <1>1, SubsetInduction
<1> QED BY <1>2

(* The sum of sums.                                                        *)
LEMMA SumPlus ==
    ASSUME NEW S, IsFiniteSet(S), NEW f, NEW g, NEW h,
           \A x \in S : f[x] \in Int /\ g[x] \in Int /\ h[x] = f[x] + g[x]
    PROVE  SumFunctionOnSet(h, S) = SumFunctionOnSet(f, S) + SumFunctionOnSet(g, S)
<1> DEFINE P == {s \in SUBSET S :
                   SumFunctionOnSet(h, s) = SumFunctionOnSet(f, s) + SumFunctionOnSet(g, s)}
<1>1. ASSUME NEW s \in SUBSET S, \A x \in s : s \ {x} \in P
      PROVE  s \in P
  <2>1. CASE s = {}
    BY <2>1, SumEmpty
  <2>2. CASE s # {}
    <3>1. PICK x \in s : TRUE
      BY <2>2
    <3>2. IsFiniteSet(s) /\ IsFiniteSet(s \ {x})
          /\ \A y \in s : f[y] \in Int /\ g[y] \in Int /\ h[y] \in Int
      BY FS_Subset
    <3>3. SumFunctionOnSet(f, s) = f[x] + SumFunctionOnSet(f, s \ {x})
      BY <3>2, SumTakeOne
    <3>4. SumFunctionOnSet(g, s) = g[x] + SumFunctionOnSet(g, s \ {x})
      BY <3>2, SumTakeOne
    <3>5. SumFunctionOnSet(h, s) = h[x] + SumFunctionOnSet(h, s \ {x})
      BY <3>2, SumTakeOne
    <3>6. SumFunctionOnSet(f, s \ {x}) \in Int /\ SumFunctionOnSet(g, s \ {x}) \in Int
      BY <3>2, SumInt
    <3> QED BY <1>1, <3>2, <3>3, <3>4, <3>5, <3>6
  <2> QED BY <2>1, <2>2
<1>2. SUBSET S \subseteq P
  <2> HIDE DEF P
  <2> QED BY <1>1, SubsetInduction
<1> QED BY <1>2

(* The sum of multiples.                                                   *)
LEMMA SumTimes ==
    ASSUME NEW S, IsFiniteSet(S), NEW f, NEW g, NEW c \in Int,
           \A x \in S : f[x] \in Int /\ g[x] = c * f[x]
    PROVE  SumFunctionOnSet(g, S) = c * SumFunctionOnSet(f, S)
<1> DEFINE P == {s \in SUBSET S : SumFunctionOnSet(g, s) = c * SumFunctionOnSet(f, s)}
<1>1. ASSUME NEW s \in SUBSET S, \A x \in s : s \ {x} \in P
      PROVE  s \in P
  <2>1. CASE s = {}
    BY <2>1, SumEmpty
  <2>2. CASE s # {}
    <3>1. PICK x \in s : TRUE
      BY <2>2
    <3>2. IsFiniteSet(s) /\ IsFiniteSet(s \ {x}) /\ \A y \in s : f[y] \in Int /\ g[y] \in Int
      BY FS_Subset
    <3>3. SumFunctionOnSet(f, s) = f[x] + SumFunctionOnSet(f, s \ {x})
      BY <3>2, SumTakeOne
    <3>4. SumFunctionOnSet(g, s) = g[x] + SumFunctionOnSet(g, s \ {x})
      BY <3>2, SumTakeOne
    <3>5. SumFunctionOnSet(f, s \ {x}) \in Int
      BY <3>2, SumInt
    <3>6. SumFunctionOnSet(g, s \ {x}) = c * SumFunctionOnSet(f, s \ {x}) /\ g[x] = c * f[x] /\ f[x] \in Int
      BY <1>1
    <3>7. c * (f[x] + SumFunctionOnSet(f, s \ {x})) = c * f[x] + c * SumFunctionOnSet(f, s \ {x})
      BY <3>5, <3>6
    <3> QED BY <3>3, <3>4, <3>6, <3>7
  <2> QED BY <2>1, <2>2
<1>2. SUBSET S \subseteq P
  <2> HIDE DEF P
  <2> QED BY <1>1, SubsetInduction
<1> QED BY <1>2

(* Sums are monotone.                                                      *)
LEMMA SumLeq ==
    ASSUME NEW S, IsFiniteSet(S), NEW f, NEW g,
           \A x \in S : f[x] \in Int /\ g[x] \in Int /\ f[x] <= g[x]
    PROVE  SumFunctionOnSet(f, S) <= SumFunctionOnSet(g, S)
<1> DEFINE P == {s \in SUBSET S : SumFunctionOnSet(f, s) <= SumFunctionOnSet(g, s)}
<1>1. ASSUME NEW s \in SUBSET S, \A x \in s : s \ {x} \in P
      PROVE  s \in P
  <2>1. CASE s = {}
    BY <2>1, SumEmpty
  <2>2. CASE s # {}
    <3>1. PICK x \in s : TRUE
      BY <2>2
    <3>2. IsFiniteSet(s) /\ IsFiniteSet(s \ {x})
      BY FS_Subset
    <3>3. SumFunctionOnSet(f, s) = f[x] + SumFunctionOnSet(f, s \ {x})
      BY <3>2, SumTakeOne
    <3>4. SumFunctionOnSet(g, s) = g[x] + SumFunctionOnSet(g, s \ {x})
      BY <3>2, SumTakeOne
    <3>6. SumFunctionOnSet(f, s \ {x}) \in Int /\ SumFunctionOnSet(g, s \ {x}) \in Int
      BY <3>2, SumInt
    <3> QED BY <1>1, <3>3, <3>4, <3>6
  <2> QED BY <2>1, <2>2
<1>2. SUBSET S \subseteq P
  <2> HIDE DEF P
  <2> QED BY <1>1, SubsetInduction
<1> QED BY <1>2

(* The sum over a part and the rest.                                       *)
LEMMA SumSplit ==
    ASSUME NEW S, IsFiniteSet(S), NEW f, \A x \in S : f[x] \in Int, NEW T \in SUBSET S
    PROVE  SumFunctionOnSet(f, S) = SumFunctionOnSet(f, T) + SumFunctionOnSet(f, S \ T)
<1> DEFINE P == {s \in SUBSET T :
                   SumFunctionOnSet(f, S) = SumFunctionOnSet(f, s) + SumFunctionOnSet(f, S \ s)}
<1>0. IsFiniteSet(T)
  BY FS_Subset
<1>1. ASSUME NEW s \in SUBSET T, \A x \in s : s \ {x} \in P
      PROVE  s \in P
  <2>1. CASE s = {}
    <3>1. S \ s = S /\ SumFunctionOnSet(f, S) \in Int
      BY <2>1, SumInt
    <3> QED BY <2>1, <3>1, SumEmpty
  <2>2. CASE s # {}
    <3>1. PICK x \in s : TRUE
      BY <2>2
    <3>2. IsFiniteSet(s) /\ IsFiniteSet(S \ s) /\ IsFiniteSet(S \ (s \ {x})) /\ IsFiniteSet(s \ {x})
      BY FS_Subset, <1>0
    <3>3. SumFunctionOnSet(f, s) = f[x] + SumFunctionOnSet(f, s \ {x})
      BY <3>2, SumTakeOne
    <3>4. SumFunctionOnSet(f, S \ (s \ {x})) = f[x] + SumFunctionOnSet(f, S \ s)
      <4>1. (S \ (s \ {x})) \ {x} = S \ s
        BY <3>1
      <4>2. SumFunctionOnSet(f, S \ (s \ {x})) = f[x] + SumFunctionOnSet(f, (S \ (s \ {x})) \ {x})
        BY <3>2, SumTakeOne
      <4> QED BY <4>1, <4>2
    <3>6. SumFunctionOnSet(f, s \ {x}) \in Int /\ SumFunctionOnSet(f, S \ s) \in Int
      BY <3>2, SumInt
    <3> QED BY <1>1, <3>3, <3>4, <3>6
  <2> QED BY <2>1, <2>2
<1>2. SUBSET T \subseteq P
  <2> HIDE DEF P
  <2> QED BY <1>0, <1>1, SubsetInduction
<1> QED BY <1>2

(* f and g are the same on S, but for e.                                   *)
DifferAt(f, g, S, e) ==
    \A x \in S : f[x] \in Int /\ g[x] \in Int /\ (x # e => g[x] = f[x])

(* A sum after one summand changed.                                        *)
LEMMA SumChanged ==
    ASSUME NEW S, IsFiniteSet(S), NEW f, NEW g, NEW e \in S, DifferAt(f, g, S, e)
    PROVE  SumFunctionOnSet(g, S) = SumFunctionOnSet(f, S) - f[e] + g[e]
<1> USE DEF DifferAt
<1>1. IsFiniteSet(S \ {e})
  BY FS_Subset
<1>2. SumFunctionOnSet(g, S \ {e}) = SumFunctionOnSet(f, S \ {e})
  BY <1>1, SumSame
<1>3. SumFunctionOnSet(f, S) = f[e] + SumFunctionOnSet(f, S \ {e})
  BY SumTakeOne
<1>4. SumFunctionOnSet(g, S) = g[e] + SumFunctionOnSet(g, S \ {e})
  BY SumTakeOne
<1>5. SumFunctionOnSet(f, S \ {e}) \in Int
  BY <1>1, SumInt
<1> QED BY <1>2, <1>3, <1>4, <1>5

(* A sum of natural numbers is one.                                        *)
LEMMA SumNat ==
    ASSUME NEW S, IsFiniteSet(S), NEW f, \A x \in S : f[x] \in Nat
    PROVE  SumFunctionOnSet(f, S) \in Nat
<1> DEFINE P == {s \in SUBSET S : SumFunctionOnSet(f, s) \in Nat}
<1>1. ASSUME NEW s \in SUBSET S, \A x \in s : s \ {x} \in P
      PROVE  s \in P
  <2>1. CASE s = {}
    BY <2>1, SumEmpty
  <2>2. CASE s # {}
    <3>1. PICK x \in s : SumFunctionOnSet(f, s) = f[x] + SumFunctionOnSet(f, s \ {x})
      BY <2>2, FS_Subset, SumStep
    <3> QED BY <1>1, <3>1
  <2> QED BY <2>1, <2>2
<1>2. SUBSET S \subseteq P
  <2> HIDE DEF P
  <2> QED BY <1>1, SubsetInduction
<1> QED BY <1>2

(* A sum over the positions of a sequence.                                 *)
LEMMA SumRange ==
    ASSUME NEW n \in Nat, NEW f, \A i \in 1..n : f[i] \in Int
    PROVE  IsFiniteSet(1..n) /\ SumFunctionOnSet(f, 1..n) \in Int
<1>1. IsFiniteSet(1..n)
  BY FS_Interval
<1> QED BY <1>1, SumInt

(* The last position.                                                      *)
LEMMA SumNext ==
    ASSUME NEW n \in Nat, NEW f, \A i \in 1..(n + 1) : f[i] \in Int
    PROVE  SumFunctionOnSet(f, 1..(n + 1)) = SumFunctionOnSet(f, 1..n) + f[n + 1]
<1>1. IsFiniteSet(1..(n + 1)) /\ IsFiniteSet(1..n)
  BY FS_Interval
<1>2. (1..(n + 1)) \ {n + 1} = 1..n /\ n + 1 \in 1..(n + 1)
  OBVIOUS
<1>3. SumFunctionOnSet(f, 1..(n + 1)) = f[n + 1] + SumFunctionOnSet(f, (1..(n + 1)) \ {n + 1})
  BY <1>1, <1>2, SumTakeOne
<1>4. SumFunctionOnSet(f, 1..n) \in Int
  BY <1>1, SumInt
<1>5. f[n + 1] \in Int
  BY <1>2
<1>6. SumFunctionOnSet(f, (1..(n + 1)) \ {n + 1}) = SumFunctionOnSet(f, 1..n)
  BY <1>2, Zenon
<1> QED BY <1>3, <1>4, <1>5, <1>6

(* f lists the first m values of a and then the first n of b.              *)
Joined(f, a, m, b, n) == /\ \A i \in 1..m : a[i] \in Int /\ f[i] = a[i]
                         /\ \A i \in 1..n : b[i] \in Int /\ f[m + i] = b[i]

(* The positions of two sequences, one after the other.                    *)
LEMMA SumConcat ==
    ASSUME NEW m \in Nat, NEW n \in Nat, NEW f, NEW a, NEW b, Joined(f, a, m, b, n)
    PROVE  SumFunctionOnSet(f, 1..(m + n)) =
              SumFunctionOnSet(a, 1..m) + SumFunctionOnSet(b, 1..n)
<1> USE DEF Joined
<1> DEFINE P == {k \in Nat : k <= n => SumFunctionOnSet(f, 1..(m + k)) =
                    SumFunctionOnSet(a, 1..m) + SumFunctionOnSet(b, 1..k)}
<1>1. IsFiniteSet(1..m) /\ SumFunctionOnSet(a, 1..m) \in Int
  BY SumRange
<1>2. 0 \in P
  <2>1. SumFunctionOnSet(f, 1..m) = SumFunctionOnSet(a, 1..m)
    BY <1>1, SumSame
  <2>2. 1..0 = {} /\ m + 0 = m
    OBVIOUS
  <2> QED BY <1>1, <2>1, <2>2, SumEmpty
<1>3. ASSUME NEW k \in Nat, k \in P
      PROVE  k + 1 \in P
  <2> SUFFICES ASSUME k + 1 <= n
               PROVE  SumFunctionOnSet(f, 1..(m + (k + 1))) =
                        SumFunctionOnSet(a, 1..m) + SumFunctionOnSet(b, 1..(k + 1))
    OBVIOUS
  <2>1. \A i \in 1..(m + k + 1) : f[i] \in Int
    <3> TAKE i \in 1..(m + k + 1)
    <3>1. CASE i <= m
      BY <3>1
    <3>2. CASE i > m
      <4>1. i - m \in 1..n /\ m + (i - m) = i
        BY <3>2
      <4> QED BY <4>1
    <3> QED BY <3>1, <3>2
  <2>2. SumFunctionOnSet(f, 1..((m + k) + 1)) = SumFunctionOnSet(f, 1..(m + k)) + f[(m + k) + 1]
    <3>1. m + k \in Nat
      OBVIOUS
    <3> QED BY <2>1, <3>1, SumNext
  <2>3. SumFunctionOnSet(b, 1..(k + 1)) = SumFunctionOnSet(b, 1..k) + b[k + 1]
    BY SumNext
  <2>4. SumFunctionOnSet(b, 1..k) \in Int
    BY SumRange
  <2>5. f[(m + k) + 1] = b[k + 1] /\ b[k + 1] \in Int /\ (m + k) + 1 = m + (k + 1)
    <3>1. k + 1 \in 1..n /\ (m + k) + 1 = m + (k + 1)
      OBVIOUS
    <3> QED BY <3>1
  <2>6. SumFunctionOnSet(f, 1..(m + k)) = SumFunctionOnSet(a, 1..m) + SumFunctionOnSet(b, 1..k)
    BY <1>3
  <2> QED BY <1>1, <2>2, <2>3, <2>4, <2>5, <2>6
<1>4. n \in P
  <2> HIDE DEF P
  <2> QED BY <1>2, <1>3, NatSetInduction
<1> QED BY <1>4

(* g takes the steps 1..n of F, from b on.                                 *)
Steps(g, n, T, b, F) ==
    g \in [0..n -> T] /\ g[0] = b /\ \A i \in 1..n : g[i] = F[<<i, g[i - 1]>>]

(* A function that is defined by recursion over 0..n exists.               *)
LEMMA RecursionExists ==
    ASSUME NEW n \in Nat, NEW T, NEW b \in T, NEW F \in [(1..n) \X T -> T]
    PROVE  \E g : Steps(g, n, T, b, F)
<1> DEFINE P == {k \in Nat : k <= n => \E g \in [0..k -> T] :
                    g[0] = b /\ \A i \in 1..k : g[i] = F[<<i, g[i - 1]>>]}
<1>1. 0 \in P
  <2> DEFINE g == [i \in 0..0 |-> b]
  <2>1. g \in [0..0 -> T] /\ g[0] = b /\ 1..0 = {}
    OBVIOUS
  <2> HIDE DEF g
  <2> QED BY <2>1
<1>2. ASSUME NEW k \in Nat, k \in P
      PROVE  k + 1 \in P
  <2> SUFFICES ASSUME k + 1 <= n
               PROVE  \E g \in [0..(k + 1) -> T] :
                        g[0] = b /\ \A i \in 1..(k + 1) : g[i] = F[<<i, g[i - 1]>>]
    OBVIOUS
  <2>1. PICK g \in [0..k -> T] : g[0] = b /\ \A i \in 1..k : g[i] = F[<<i, g[i - 1]>>]
    BY <1>2
  <2> DEFINE h == [i \in 0..(k + 1) |-> IF i = k + 1 THEN F[<<k + 1, g[k]>>] ELSE g[i]]
  <2>2. h \in [0..(k + 1) -> T]
    OBVIOUS
  <2>3. h[0] = b
    BY <2>1
  <2>4. ASSUME NEW i \in 1..(k + 1)
        PROVE  h[i] = F[<<i, h[i - 1]>>]
    <3>1. CASE i = k + 1
      <4>1. h[i] = F[<<k + 1, g[k]>>] /\ h[k] = g[k] /\ i - 1 = k
        BY <3>1
      <4> HIDE DEF h
      <4> QED BY <3>1, <4>1
    <3>2. CASE i # k + 1
      <4>1. i \in 1..k /\ h[i] = g[i] /\ h[i - 1] = g[i - 1]
        BY <3>2
      <4> HIDE DEF h
      <4> QED BY <2>1, <4>1
    <3> QED BY <3>1, <3>2
  <2> HIDE DEF h
  <2> QED BY <2>2, <2>3, <2>4
<1>3. n \in P
  <2> HIDE DEF P
  <2> QED BY <1>1, <1>2, NatSetInduction
<1> QED BY <1>3 DEF Steps

(* Nothing but zeros adds up to zero.                                      *)
LEMMA SumZero ==
    ASSUME NEW S, IsFiniteSet(S), NEW f, \A x \in S : f[x] = 0
    PROVE  SumFunctionOnSet(f, S) = 0
<1>1. SumFunctionOnSet(f, S) \in Int
  BY SumInt
<1>2. SumFunctionOnSet(f, S) = 2 * SumFunctionOnSet(f, S)
  <2>1. 2 \in Int /\ \A x \in S : f[x] \in Int /\ f[x] = 2 * f[x]
    OBVIOUS
  <2> QED BY <2>1, SumTimes
<1> QED BY <1>1, <1>2

(* A non-empty set of positions has a largest one.                         *)
LEMMA LargestExists ==
    ASSUME NEW n \in Nat, NEW S, S \subseteq 1..n, S # {}
    PROVE  \E m \in S : \A x \in S : m >= x
<1> DEFINE T == {m \in Nat : \A x \in S : x <= m}
<1>1. n \in T
  OBVIOUS
<1>2. PICK m \in T : \A y \in T : m <= y
  <2>1. T \subseteq Nat /\ T # {}
    BY <1>1
  <2> HIDE DEF T
  <2> QED BY <2>1, LeastNat
<1>3. m \in S
  <2> SUFFICES ASSUME m \notin S PROVE FALSE
    OBVIOUS
  <2>0. m \in Nat /\ \A x \in S : x \in Nat \ {0} /\ x <= m /\ x # m
    OBVIOUS
  <2>1. m # 0 /\ m - 1 \in Nat /\ \A x \in S : x <= m - 1
    <3>1. PICK e \in S : TRUE
      OBVIOUS
    <3>2. m # 0 /\ m - 1 \in Nat
      BY <2>0, <3>1
    <3> QED BY <2>0, <3>2
  <2>2. m - 1 \in T
    BY <2>1
  <2> QED BY <1>2, <2>2
<1>4. \A x \in S : m >= x
  OBVIOUS
<1> QED BY <1>3, <1>4

(* The value of f with at most k below and more than k up to it.           *)
LEMMA RankExists ==
    ASSUME NEW f, IsFiniteSet(DOMAIN f), \A p \in DOMAIN f : f[p] \in Nat,
           NEW k \in Nat, k < Cardinality(DOMAIN f)
    PROVE  \E v \in {f[p] : p \in DOMAIN f} :
              /\ Cardinality({p \in DOMAIN f : f[p] < v}) <= k
              /\ k < Cardinality({p \in DOMAIN f : f[p] <= v})
<1> DEFINE D == DOMAIN f
           UpTo(m) == {p \in D : f[p] <= m}
           Below(m) == {p \in D : f[p] < m}
           T == {m \in Nat : k < Cardinality(UpTo(m))}
           M == SumFunctionOnSet(f, D)
<1>1. M \in Nat /\ \A p \in D : f[p] <= M
  <2>1. M \in Nat
    BY SumNat
  <2>2. ASSUME NEW p \in D PROVE f[p] <= M
    <3>1. M = f[p] + SumFunctionOnSet(f, D \ {p})
      BY SumTakeOne
    <3>2. IsFiniteSet(D \ {p})
      BY FS_Subset
    <3>3. SumFunctionOnSet(f, D \ {p}) \in Nat
      BY <3>2, SumNat
    <3> QED BY <3>1, <3>3
  <2> QED BY <2>1, <2>2
<1> HIDE DEF M
<1>2. M \in T
  <2>1. UpTo(M) = D
    BY <1>1
  <2>2. k < Cardinality(D)
    OBVIOUS
  <2> HIDE DEF UpTo, D
  <2> QED BY <1>1, <2>1, <2>2
<1>3. PICK m \in T : \A y \in T : m <= y
  <2>1. T \subseteq Nat /\ T # {}
    BY <1>2
  <2> HIDE DEF T
  <2> QED BY <2>1, LeastNat
<1>4. \A x : IsFiniteSet(UpTo(x)) /\ IsFiniteSet(Below(x))
  BY FS_Subset
<1>5. m \in Nat /\ k < Cardinality(UpTo(m))
  OBVIOUS
<1>6. Cardinality(Below(m)) <= k
  <2>1. CASE m = 0
    <3>1. Below(m) = {}
      BY <2>1
    <3> HIDE DEF Below
    <3> QED BY <3>1, FS_EmptySet
  <2>2. CASE m # 0
    <3>1. m - 1 \in Nat /\ m - 1 \notin T
      BY <1>3, <1>5, <2>2
    <3>2. ~(k < Cardinality(UpTo(m - 1)))
      BY <3>1
    <3>3. Below(m) = UpTo(m - 1)
      BY <1>5, <3>1
    <3>4. Cardinality(UpTo(m - 1)) \in Nat
      <4> HIDE DEF UpTo
      <4> QED BY <1>4, FS_CardinalityType
    <3> HIDE DEF UpTo, Below
    <3> QED BY <3>2, <3>3, <3>4
  <2> QED BY <2>1, <2>2
<1>7. \E p \in D : f[p] = m
  <2> SUFFICES ASSUME \A p \in D : f[p] # m PROVE FALSE
    OBVIOUS
  <2>1. Below(m) = UpTo(m)
    BY <1>5
  <2>2. Cardinality(UpTo(m)) \in Nat
    <3> HIDE DEF UpTo
    <3> QED BY <1>4, FS_CardinalityType
  <2> HIDE DEF UpTo, Below
  <2> QED BY <1>5, <1>6, <2>1, <2>2
<1>8. m \in {f[p] : p \in D} /\ Cardinality(Below(m)) <= k /\ k < Cardinality(UpTo(m))
  BY <1>5, <1>6, <1>7
<1> QED BY <1>8
=============================================================================
