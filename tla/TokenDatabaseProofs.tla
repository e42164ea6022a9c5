------------------------ MODULE TokenDatabaseProofs ------------------------
(***************************************************************************)
(* The token database and its caches.  Token keys: they implement a        *)
(* store with savepoints for every set of keys and values and every bound, *)
(* provided that either the node is never restarted or no block writes a   *)
(* token key twice.  Asset keys, with the write cache in front of the      *)
(* column family: see the second part.  The object cache of the contracts: *)
(* see the third part.                                                     *)
(***************************************************************************)
EXTENDS TokenDatabaseCache, SequenceTheorems, WellFoundedInduction, FiniteSetTheorems,
        FunctionTheorems, TLAPS

(* The token keys of a group are written by one action each.               *)
Unique(sp) == \A k \in TokenKeys : \A i, j \in DOMAIN sp.acts :
                 Touches(sp, i, k) /\ Touches(sp, j, k) => i = j

(* Maps without the empty string.                                          *)
CleanMaps == [TokenKeys -> Values \cup {NoVal}]

(* A group sp of writes leads from the tokens h to the tokens n.           *)
Untouched(sp, h, n) == \A k \in TokenKeys : ~Touched(sp, k) => n[k] = h[k]
Kept(sp, h, n)      == \A k \in TokenKeys : (h[k] # NoVal \/ Touched(sp, k)) => n[k] # NoVal
AddsNew(sp, h)      == \A k \in TokenKeys : \A i \in DOMAIN sp.acts :
                          Touches(sp, i, k) /\ sp.acts[i].op = "add" => h[k] = NoVal
UpdatesOld(sp, h)   == \A k \in TokenKeys : \A i \in DOMAIN sp.acts :
                          (/\ Touches(sp, i, k) /\ sp.acts[i].op = "update"
                           /\ \A j \in 1..(i - 1) : ~Touches(sp, j, k)) => h[k] # NoVal
Recorded(sp, h)     == \A k \in TokenKeys : \A i \in DOMAIN sp.acts :
                          Touches(sp, i, k) /\ sp.acts[i].op # "add" =>
                             sp.acts[i].old[k] = IF h[k] = NoVal THEN Empty ELSE h[k]
GroupOK(sp, h, n) ==
    /\ Untouched(sp, h, n) /\ Kept(sp, h, n) /\ AddsNew(sp, h) /\ UpdatesOld(sp, h)
    /\ sp.kind = "rt" => sp.snap = h
    /\ sp.kind = "pd" => Unique(sp) /\ Recorded(sp, h)

(* Rolling a group back undoes it exactly, and does not throw.             *)
LEMMA GroupRollback ==
    ASSUME NEW sp \in Savepoints, NEW h \in CleanMaps, NEW n \in CleanMaps, GroupOK(sp, h, n)
    PROVE  /\ RollbackGroup(n, sp) = h
           /\ sp.kind = "rt" => ~RtGroupThrows(sp)
<1>1. CASE sp.kind = "rt"
  <2>1. \A k \in TokenKeys : RollbackRtGroup(n, sp)[k] = h[k]
    BY <1>1 DEF GroupOK, Untouched, AddsNew, RollbackRtGroup, Touched
  <2>2. RollbackRtGroup(n, sp) = h
    BY <2>1 DEF RollbackRtGroup, CleanMaps
  <2>3. ~RtGroupThrows(sp)
    BY <1>1 DEF GroupOK, UpdatesOld, RtGroupThrows
  <2> QED BY <1>1, <2>2, <2>3 DEF RollbackGroup
<1>2. CASE sp.kind = "pd"
  <2>1. ASSUME NEW k \in TokenKeys PROVE RollbackPdGroup(n, sp)[k] = h[k]
    <3>1. CASE ~Touched(sp, k)
      BY <3>1 DEF GroupOK, Untouched, RollbackPdGroup
    <3>2. CASE Touched(sp, k)
      <4> DEFINE P(i) == /\ Touches(sp, i, k)
                         /\ \A j \in DOMAIN sp.acts : Touches(sp, j, k) => j <= i
                 i0 == CHOOSE i \in DOMAIN sp.acts : P(i)
      <4>1. PICK i \in DOMAIN sp.acts : Touches(sp, i, k)
        BY <3>2 DEF Touched
      <4>2. P(i)
        BY <4>1, <1>2 DEF GroupOK, Unique, Savepoints
      <4>3. i0 \in DOMAIN sp.acts /\ P(i0)
        BY <4>2
      <4>4. RollbackPdGroup(n, sp)[k] =
               IF sp.acts[i0].op = "add" \/ (sp.acts[i0].op = "put" /\ sp.acts[i0].old[k] = Empty)
               THEN NoVal ELSE sp.acts[i0].old[k]
        BY <3>2 DEF RollbackPdGroup
      <4> HIDE DEF i0
      <4>5. CASE sp.acts[i0].op = "add"
        BY <4>3, <4>4, <4>5 DEF GroupOK, AddsNew
      <4>6. CASE sp.acts[i0].op = "put"
        <5>1. sp.acts[i0].old[k] = IF h[k] = NoVal THEN Empty ELSE h[k]
          BY <4>3, <4>6, <1>2 DEF GroupOK, Recorded
        <5> QED BY <5>1, <4>4, <4>6, TokenDatabaseAssumption DEF CleanMaps
      <4>7. CASE sp.acts[i0].op = "update"
        <5>1. sp.acts[i0].old[k] = IF h[k] = NoVal THEN Empty ELSE h[k]
          BY <4>3, <4>7, <1>2 DEF GroupOK, Recorded
        <5>2. \A j \in 1..(i0 - 1) : ~Touches(sp, j, k)
          BY <4>3, <1>2 DEF GroupOK, Unique, Savepoints
        <5>3. h[k] # NoVal
          BY <5>2, <4>3, <4>7 DEF GroupOK, UpdatesOld
        <5> QED BY <5>1, <5>3, <4>4, <4>7
      <4>8. sp.acts[i0] \in Actions
        BY <4>3 DEF Savepoints
      <4> QED BY <4>5, <4>6, <4>7, <4>8 DEF Actions, Ops
    <3> QED BY <3>1, <3>2
  <2>2. RollbackPdGroup(n, sp) = h
    BY <2>1 DEF RollbackPdGroup, CleanMaps
  <2> QED BY <1>2, <2>2 DEF RollbackGroup
<1> QED BY <1>1, <1>2 DEF Savepoints

(* A savepoint just taken leads from the tokens to themselves.             *)
LEMMA GroupNew ==
    ASSUME NEW q \in Nat, NEW h \in CleanMaps
    PROVE  LET sp == [seq |-> q, kind |-> "rt", snap |-> h, acts |-> <<>>]
           IN sp \in Savepoints /\ GroupOK(sp, h, h) /\ Unique(sp)
<1> DEFINE sp == [seq |-> q, kind |-> "rt", snap |-> h, acts |-> <<>>]
<1>1. sp \in Savepoints
  BY DEF Savepoints, CleanMaps, TokenMaps
<1>2. GroupOK(sp, h, h) /\ Unique(sp)
  BY DEF GroupOK, Untouched, Kept, AddsNew, UpdatesOld, Unique, Touched
<1> QED BY <1>1, <1>2

(* Writing keys, as PutTokens does, extends the group that is being written.*)
PutGroup(sp, op, K) ==
    [sp EXCEPT !.acts = Append(@, [op |-> op, keys |-> K, old |-> NoOld])]
PutMap(n, K, v) == [k \in TokenKeys |-> IF k \in K THEN v ELSE n[k]]

(* A write is recorded in the group: undoing it still leads to h.          *)
LEMMA GroupPut ==
    ASSUME NEW sp \in Savepoints, NEW h \in CleanMaps, NEW n \in CleanMaps, GroupOK(sp, h, n),
           sp.kind = "rt", NEW op \in Ops, NEW K \in SUBSET TokenKeys, NEW v \in Values,
           op = "add" => \A k \in K : n[k] = NoVal,
           op = "update" => \A k \in K : n[k] # NoVal
    PROVE  /\ PutGroup(sp, op, K) \in Savepoints /\ PutMap(n, K, v) \in CleanMaps
           /\ GroupOK(PutGroup(sp, op, K), h, PutMap(n, K, v))
           /\ PutGroup(sp, op, K).kind = "rt" /\ PutGroup(sp, op, K).seq = sp.seq
           /\ \A k \in TokenKeys : Touched(PutGroup(sp, op, K), k) <=> (Touched(sp, k) \/ k \in K)
           /\ Unique(sp) /\ (\A k \in K : ~Touched(sp, k)) => Unique(PutGroup(sp, op, K))
<1> DEFINE a   == [op |-> op, keys |-> K, old |-> NoOld]
           sp2 == PutGroup(sp, op, K)
           n2  == PutMap(n, K, v)
           m   == Len(sp.acts)
<1>1. a \in Actions
  BY DEF Actions, NoOld
<1>2. /\ sp2 \in Savepoints /\ sp2.kind = "rt" /\ sp2.snap = sp.snap /\ sp2.acts = Append(sp.acts, a)
      /\ sp2.seq = sp.seq
  BY <1>1 DEF Savepoints, PutGroup
<1>3. /\ m \in Nat /\ DOMAIN sp.acts = 1..m /\ DOMAIN sp2.acts = 1..(m + 1)
      /\ \A i \in 1..m : sp2.acts[i] = sp.acts[i]
      /\ sp2.acts[m + 1] = a
  BY <1>1, <1>2 DEF Savepoints
<1>4. n2 \in CleanMaps
  BY DEF CleanMaps, PutMap
<1> HIDE DEF sp2
<1>5. \A k \in TokenKeys : /\ \A i \in 1..m : Touches(sp2, i, k) <=> Touches(sp, i, k)
                           /\ Touches(sp2, m + 1, k) <=> k \in K
  BY <1>3 DEF Touches
<1>6. \A k \in TokenKeys : Touched(sp2, k) <=> (Touched(sp, k) \/ k \in K)
  BY <1>3, <1>5 DEF Touched
<1>7. Untouched(sp2, h, n2)
  BY <1>6 DEF GroupOK, Untouched, PutMap
<1>8. Kept(sp2, h, n2)
  BY <1>6, TokenDatabaseAssumption DEF GroupOK, Kept, PutMap
<1>9. AddsNew(sp2, h)
  <2> SUFFICES ASSUME NEW k \in TokenKeys, NEW i \in 1..(m + 1),
                      Touches(sp2, i, k), sp2.acts[i].op = "add"
               PROVE  h[k] = NoVal
    BY <1>3 DEF AddsNew
  <2>1. CASE i \in 1..m
    BY <2>1, <1>3, <1>5 DEF GroupOK, AddsNew
  <2>2. CASE i = m + 1
    BY <2>2, <1>3, <1>5 DEF GroupOK, Kept
  <2> QED BY <1>3, <2>1, <2>2
<1>10. UpdatesOld(sp2, h)
  <2> SUFFICES ASSUME NEW k \in TokenKeys, NEW i \in 1..(m + 1),
                      Touches(sp2, i, k), sp2.acts[i].op = "update",
                      \A j \in 1..(i - 1) : ~Touches(sp2, j, k)
               PROVE  h[k] # NoVal
    BY <1>3 DEF UpdatesOld
  <2>1. CASE i \in 1..m
    BY <2>1, <1>3, <1>5 DEF GroupOK, UpdatesOld
  <2>2. CASE i = m + 1
    <3>1. ~Touched(sp, k)
      BY <2>2, <1>3, <1>5 DEF Touched
    <3> QED BY <2>2, <3>1, <1>3, <1>5 DEF GroupOK, Untouched
  <2> QED BY <1>3, <2>1, <2>2
<1>11. GroupOK(sp2, h, n2)
  BY <1>2, <1>7, <1>8, <1>9, <1>10 DEF GroupOK
<1>12. ASSUME Unique(sp), \A k \in K : ~Touched(sp, k) PROVE Unique(sp2)
  <2> SUFFICES ASSUME NEW k \in TokenKeys, NEW i \in 1..(m + 1), NEW j \in 1..(m + 1),
                      Touches(sp2, i, k), Touches(sp2, j, k)
               PROVE  i = j
    BY <1>3 DEF Unique
  <2>1. CASE k \in K
    BY <2>1, <1>12, <1>3, <1>5 DEF Touched
  <2>2. CASE k \notin K
    BY <2>2, <1>12, <1>3, <1>5 DEF Unique
  <2> QED BY <2>1, <2>2
<1> QED BY <1>2, <1>4, <1>6, <1>11, <1>12 DEF sp2

(* squash: two groups in a row become one.                                 *)
SquashGroup(sp, sq) == [sp EXCEPT !.acts = @ \o sq.acts]

(* The concatenation of two groups undoes both.                            *)
LEMMA GroupSquash ==
    ASSUME NEW sp \in Savepoints, NEW sq \in Savepoints, sp.kind = "rt",
           NEW h \in CleanMaps, NEW m \in CleanMaps, NEW n \in CleanMaps,
           GroupOK(sp, h, m), GroupOK(sq, m, n)
    PROVE  /\ SquashGroup(sp, sq) \in Savepoints /\ GroupOK(SquashGroup(sp, sq), h, n)
           /\ SquashGroup(sp, sq).kind = "rt" /\ SquashGroup(sp, sq).seq = sp.seq
           /\ \A k \in TokenKeys : Touched(SquashGroup(sp, sq), k) <=> Touched(sp, k) \/ Touched(sq, k)
           /\ Unique(sp) /\ Unique(sq) /\ (\A k \in TokenKeys : ~(Touched(sp, k) /\ Touched(sq, k)))
                 => Unique(SquashGroup(sp, sq))
<1> DEFINE s2 == SquashGroup(sp, sq)
           a  == Len(sp.acts)
           b  == Len(sq.acts)
<1>0. sp.acts \in Seq(Actions) /\ sq.acts \in Seq(Actions) /\ sp.acts \o sq.acts \in Seq(Actions)
  BY DEF Savepoints
<1>1. /\ s2 \in Savepoints /\ s2.kind = "rt" /\ s2.snap = sp.snap /\ s2.acts = sp.acts \o sq.acts
      /\ s2.seq = sp.seq
  BY <1>0 DEF Savepoints, SquashGroup
<1> HIDE DEF s2
<1>2. /\ a \in Nat /\ b \in Nat /\ DOMAIN sp.acts = 1..a /\ DOMAIN sq.acts = 1..b
      /\ DOMAIN s2.acts = 1..(a + b)
  BY <1>0, <1>1
<1>c. \A i \in 1..(a + b) : s2.acts[i] = IF i <= a THEN sp.acts[i] ELSE sq.acts[i - a]
  BY <1>0, <1>1, ConcatProperties
<1> HIDE DEF a, b
<1>3. \A i \in 1..a : s2.acts[i] = sp.acts[i]
  BY <1>2, <1>c
<1>4. \A i \in 1..b : s2.acts[a + i] = sq.acts[i]
  <2> SUFFICES ASSUME NEW i \in 1..b PROVE s2.acts[a + i] = sq.acts[i]
    OBVIOUS
  <2>1. a + i \in 1..(a + b) /\ ~(a + i <= a) /\ (a + i) - a = i
    BY <1>2
  <2> QED BY <2>1, <1>c
<1>5. \A i \in 1..(a + b) : i \in 1..a \/ \E j \in 1..b : i = a + j
  <2> SUFFICES ASSUME NEW i \in 1..(a + b), i \notin 1..a PROVE \E j \in 1..b : i = a + j
    OBVIOUS
  <2>1. i - a \in 1..b /\ i = a + (i - a)
    BY <1>2
  <2> QED BY <2>1
<1>6. \A k \in TokenKeys, i \in 1..a : Touches(s2, i, k) <=> Touches(sp, i, k)
  BY <1>3 DEF Touches
<1>7. \A k \in TokenKeys, j \in 1..b : Touches(s2, a + j, k) <=> Touches(sq, j, k)
  BY <1>4 DEF Touches
<1>8. /\ \A i \in 1..a : i \in 1..(a + b)
      /\ \A j \in 1..b : a + j \in 1..(a + b)
  BY <1>2
<1>9. ASSUME NEW k \in TokenKeys PROVE Touched(s2, k) <=> Touched(sp, k) \/ Touched(sq, k)
  BY <1>2, <1>5, <1>6, <1>7, <1>8 DEF Touched
<1>10. Untouched(s2, h, n) /\ Kept(s2, h, n)
  BY <1>9 DEF GroupOK, Untouched, Kept
<1>11. AddsNew(s2, h)
  <2> SUFFICES ASSUME NEW k \in TokenKeys, NEW i \in 1..(a + b),
                      Touches(s2, i, k), s2.acts[i].op = "add"
               PROVE  h[k] = NoVal
    BY <1>2 DEF AddsNew
  <2>1. CASE i \in 1..a
    BY <2>1, <1>2, <1>3, <1>6 DEF GroupOK, AddsNew
  <2>2. CASE \E j \in 1..b : i = a + j
    <3>1. PICK j \in 1..b : i = a + j
      BY <2>2
    <3>2. m[k] = NoVal
      BY <3>1, <1>2, <1>4, <1>7 DEF GroupOK, AddsNew
    <3> QED BY <3>2 DEF GroupOK, Kept
  <2> QED BY <1>5, <2>1, <2>2
<1>12. UpdatesOld(s2, h)
  <2> SUFFICES ASSUME NEW k \in TokenKeys, NEW i \in 1..(a + b),
                      Touches(s2, i, k), s2.acts[i].op = "update",
                      \A j \in 1..(i - 1) : ~Touches(s2, j, k)
               PROVE  h[k] # NoVal
    BY <1>2 DEF UpdatesOld
  <2>1. CASE i \in 1..a
    <3>1. \A j \in 1..(i - 1) : j \in 1..a
      BY <2>1, <1>2
    <3>2. \A j \in 1..(i - 1) : ~Touches(sp, j, k)
      BY <3>1, <1>6
    <3> QED BY <2>1, <3>2, <1>2, <1>3, <1>6 DEF GroupOK, UpdatesOld
  <2>2. CASE \E j \in 1..b : i = a + j
    <3>1. PICK j \in 1..b : i = a + j
      BY <2>2
    <3>2. /\ \A x \in 1..a : x \in 1..(i - 1)
          /\ \A x \in 1..(j - 1) : x \in 1..b /\ a + x \in 1..(i - 1)
      BY <3>1, <1>2
    <3>3. ~Touched(sp, k)
      BY <3>2, <1>2, <1>6 DEF Touched
    <3>4. \A x \in 1..(j - 1) : ~Touches(sq, x, k)
      BY <3>2, <1>7
    <3>5. m[k] # NoVal
      BY <3>1, <3>4, <1>2, <1>4, <1>7 DEF GroupOK, UpdatesOld
    <3> QED BY <3>3, <3>5 DEF GroupOK, Untouched
  <2> QED BY <1>5, <2>1, <2>2
<1>13. GroupOK(s2, h, n)
  BY <1>1, <1>10, <1>11, <1>12 DEF GroupOK
<1>14. ASSUME Unique(sp), Unique(sq), \A k \in TokenKeys : ~(Touched(sp, k) /\ Touched(sq, k))
       PROVE  Unique(s2)
  <2> SUFFICES ASSUME NEW k \in TokenKeys, NEW i \in 1..(a + b), NEW j \in 1..(a + b),
                      Touches(s2, i, k), Touches(s2, j, k)
               PROVE  i = j
    BY <1>2 DEF Unique
  <2>1. CASE i \in 1..a /\ j \in 1..a
    BY <2>1, <1>14, <1>2, <1>6 DEF Unique
  <2>2. CASE \E x, y \in 1..b : i = a + x /\ j = a + y
    <3>1. PICK x \in 1..b, y \in 1..b : i = a + x /\ j = a + y
      BY <2>2
    <3>2. Touches(sq, x, k) /\ Touches(sq, y, k)
      BY <3>1, <1>7
    <3> QED BY <3>1, <3>2, <1>14, <1>2 DEF Unique
  <2>3. CASE i \in 1..a /\ \E y \in 1..b : j = a + y
    BY <2>3, <1>14, <1>2, <1>6, <1>7 DEF Touched
  <2>4. CASE j \in 1..a /\ \E x \in 1..b : i = a + x
    BY <2>4, <1>14, <1>2, <1>6, <1>7 DEF Touched
  <2> QED BY <2>1, <2>2, <2>3, <2>4, <1>5
<1> QED BY <1>1, <1>9, <1>13, <1>14 DEF s2

(* persist_savepoints keeps what a rollback of the group needs, when each  *)
(* key was written once.                                                   *)
LEMMA GroupPersist ==
    ASSUME NEW sp \in Savepoints, NEW h \in CleanMaps, NEW n \in CleanMaps,
           GroupOK(sp, h, n), Unique(sp)
    PROVE  /\ PersistGroup(sp) \in Savepoints
           /\ GroupOK(PersistGroup(sp), h, n)
           /\ Unique(PersistGroup(sp))
           /\ PersistGroup(sp).seq = sp.seq
<1>1. CASE sp.kind = "pd"
  BY <1>1 DEF PersistGroup
<1>2. CASE sp.kind = "rt"
  <2> DEFINE s2 == PersistGroup(sp)
             Keeps(i, k) == /\ Touches(sp, i, k)
                            /\ sp.acts[i].op # "add"
                            /\ \A j \in 1..(i - 1) : ~Touches(sp, j, k)
                            /\ sp.snap[k] # NoVal
             Old(i) == [k \in TokenKeys |-> IF Keeps(i, k) THEN sp.snap[k] ELSE Empty]
             m == Len(sp.acts)
  <2>1. m \in Nat /\ DOMAIN sp.acts = 1..m
    BY DEF Savepoints
  <2>2. s2 = [seq |-> sp.seq, kind |-> "pd", snap |-> NoTokens,
              acts |-> [i \in 1..m |-> [op |-> sp.acts[i].op, keys |-> sp.acts[i].keys, old |-> Old(i)]]]
    BY <1>2, <2>1 DEF PersistGroup
  <2>3. \A i \in 1..m : Old(i) \in [TokenKeys -> Values \cup {Empty}]
    BY <1>2 DEF GroupOK, CleanMaps
  <2>4. \A i \in 1..m, k \in TokenKeys :
           Touches(sp, i, k) /\ sp.acts[i].op # "add" =>
              Old(i)[k] = IF h[k] = NoVal THEN Empty ELSE h[k]
    BY <1>2, <2>1 DEF GroupOK, Unique
  <2> HIDE DEF s2, Old, m
  <2>5. /\ s2.seq = sp.seq /\ s2.kind = "pd" /\ s2.snap = NoTokens /\ DOMAIN s2.acts = 1..m
        /\ \A i \in 1..m : /\ s2.acts[i].op = sp.acts[i].op
                           /\ s2.acts[i].keys = sp.acts[i].keys
                           /\ s2.acts[i].old = Old(i)
    BY <2>2
  <2>6. s2 \in Savepoints
    <3>1. \A i \in 1..m : sp.acts[i] \in Actions
      BY <2>1 DEF Savepoints
    <3>2. \A i \in 1..m : [op |-> sp.acts[i].op, keys |-> sp.acts[i].keys, old |-> Old(i)] \in Actions
      BY <3>1, <2>3 DEF Actions
    <3>3. [i \in 1..m |-> [op |-> sp.acts[i].op, keys |-> sp.acts[i].keys, old |-> Old(i)]]
             \in Seq(Actions)
      BY <3>2, <2>1
    <3>4. sp.seq \in Nat /\ NoTokens \in TokenMaps
      BY DEF Savepoints, NoTokens, TokenMaps
    <3> QED BY <3>3, <3>4, <2>2 DEF Savepoints
  <2>7. \A k \in TokenKeys, i \in 1..m : Touches(s2, i, k) <=> Touches(sp, i, k)
    BY <2>5 DEF Touches
  <2>8. \A k \in TokenKeys : Touched(s2, k) <=> Touched(sp, k)
    BY <2>1, <2>5, <2>7 DEF Touched
  <2>9. Unique(s2)
    BY <2>1, <2>5, <2>7 DEF Unique
  <2>10. Untouched(s2, h, n) /\ Kept(s2, h, n)
    BY <2>8 DEF GroupOK, Untouched, Kept
  <2>11. AddsNew(s2, h)
    BY <2>1, <2>5, <2>7 DEF GroupOK, AddsNew
  <2>12. UpdatesOld(s2, h)
    <3> SUFFICES ASSUME NEW k \in TokenKeys, NEW i \in 1..m,
                        Touches(s2, i, k), s2.acts[i].op = "update",
                        \A j \in 1..(i - 1) : ~Touches(s2, j, k)
                 PROVE  h[k] # NoVal
      BY <2>5 DEF UpdatesOld
    <3>1. \A j \in 1..(i - 1) : j \in 1..m
      BY <2>1
    <3>2. \A j \in 1..(i - 1) : ~Touches(sp, j, k)
      BY <3>1, <2>7
    <3> QED BY <3>2, <2>1, <2>5, <2>7 DEF GroupOK, UpdatesOld
  <2>13. Recorded(s2, h)
    BY <2>4, <2>5, <2>7 DEF Recorded
  <2> QED BY <2>5, <2>6, <2>9, <2>10, <2>11, <2>12, <2>13 DEF GroupOK, s2
<1> QED BY <1>1, <1>2 DEF Savepoints

-----------------------------------------------------------------------------
(* What every state satisfies, restarts and repeated writes included.  The *)
(* savepoints of the open sessions are numbered above the head, so that    *)
(* on_irreversible never drops one of them.                                *)
OpenIdx   == (Len(savepoints) - open + 1)..Len(savepoints)
OpenAbove == \A i \in OpenIdx : savepoints[i].seq > head

BaseInv == /\ TokenTypeOK
           /\ Len(tokenHist) = Len(savepoints)
           /\ open <= Len(savepoints)
           /\ OpenAbove

Hists == [seq : Nat, val : TokenMaps]

(* The last and the front of a stack.                                      *)
LEMMA StackFacts ==
    ASSUME NEW S, NEW s \in Seq(S), Len(s) > 0
    PROVE  /\ Front(s) \in Seq(S) /\ Len(Front(s)) = Len(s) - 1
           /\ \A i \in 1..(Len(s) - 1) : Front(s)[i] = s[i]
           /\ Last(s) = s[Len(s)] /\ Last(s) \in S /\ s # <<>>
           /\ DOMAIN Front(s) = 1..(Len(s) - 1)
<1>1. Len(s) \in Nat /\ Len(s) \in 1..Len(s)
  OBVIOUS
<1>2. s[Len(s)] \in S
  BY <1>1
<1>3. SubSeq(s, 1, Len(s) - 1) \in Seq(S) /\ Len(SubSeq(s, 1, Len(s) - 1)) = Len(s) - 1
  <2>1. \A i \in 1..(Len(s) - 1) : s[i] \in S
    BY <1>1
  <2>2. 1 \in Int /\ Len(s) - 1 \in Int /\ ((Len(s) - 1) - 1) + 1 = Len(s) - 1
    BY <1>1
  <2>3. /\ SubSeq(s, 1, Len(s) - 1) \in Seq(S)
        /\ Len(SubSeq(s, 1, Len(s) - 1)) =
              IF 1 <= Len(s) - 1 THEN (Len(s) - 1) - 1 + 1 ELSE 0
    BY <2>1, <2>2, SubSeqProperties
  <2>4. CASE 1 <= Len(s) - 1
    <3>1. Len(SubSeq(s, 1, Len(s) - 1)) = (Len(s) - 1) - 1 + 1
      BY <2>3, <2>4
    <3> QED BY <2>2, <2>3, <3>1
  <2>5. CASE ~(1 <= Len(s) - 1)
    <3>1. Len(SubSeq(s, 1, Len(s) - 1)) = 0
      BY <2>3, <2>5
    <3>2. \A m \in Nat : m \in 1..m /\ ~(1 <= m - 1) => m - 1 = 0
      OBVIOUS
    <3>3. Len(s) - 1 = 0
      BY ONLY <1>1, <2>5, <3>2, Zenon
    <3> QED BY <2>3, <3>1, <3>3
  <2> QED BY <2>4, <2>5
<1>4. \A i \in 1..(Len(s) - 1) : SubSeq(s, 1, Len(s) - 1)[i] = s[i]
  BY <1>1
<1> QED BY <1>1, <1>2, <1>3, <1>4 DEF Front, Last

(* What dropping the first n members leaves of a sequence.                 *)
LEMMA DropFacts ==
    ASSUME NEW S, NEW s \in Seq(S), NEW n \in 0..Len(s)
    PROVE  /\ SubSeq(s, n + 1, Len(s)) \in Seq(S)
           /\ Len(SubSeq(s, n + 1, Len(s))) = Len(s) - n
           /\ \A i \in 1..(Len(s) - n) : SubSeq(s, n + 1, Len(s))[i] = s[n + i]
  OBVIOUS

(* A bounded nonempty set of numbers has a largest member.                 *)
LEMMA MaxOfBounded ==
    ASSUME NEW D \in SUBSET Nat, D # {}, NEW b \in Nat, \A i \in D : i <= b
    PROVE  \E i \in D : \A j \in D : j <= i
<1> DEFINE C == {c \in Nat : \A i \in D : i <= c}
           R == OpToRel(<, Nat)
<1>1. \A x, y \in Nat : <<x, y>> \in R <=> x < y
  BY DEF OpToRel
<1>2. C \in SUBSET Nat /\ b \in C /\ IsWellFoundedOn(R, Nat)
  BY NatLessThanWellFounded
<1> HIDE DEF R
<1>3. PICK c \in C : \A m \in C : ~(<<m, c>> \in R)
  BY <1>2, WFMin
<1>4. \A m \in C : ~(m < c)
  BY <1>1, <1>3
<1>5. c \in D
  <2> SUFFICES ASSUME c \notin D PROVE FALSE
    OBVIOUS
  <2>1. PICK i \in D : TRUE
    OBVIOUS
  <2>2. c - 1 \in C
    BY <2>1
  <2> QED BY <2>2, <1>4
<1> QED BY <1>5

(* A rollback leaves a map of tokens.                                      *)
LEMMA RollbackType ==
    ASSUME NEW t \in TokenMaps, NEW sp \in Savepoints
    PROVE  RollbackGroup(t, sp) \in TokenMaps
<1>1. RollbackRtGroup(t, sp) \in TokenMaps
  BY DEF RollbackRtGroup, TokenMaps, Savepoints
<1>2. RollbackPdGroup(t, sp) \in TokenMaps
  <2> SUFFICES ASSUME NEW k \in TokenKeys
               PROVE  RollbackPdGroup(t, sp)[k] \in Values \cup {NoVal, Empty}
    BY DEF RollbackPdGroup, TokenMaps
  <2>1. CASE ~Touched(sp, k)
    BY <2>1 DEF RollbackPdGroup, TokenMaps
  <2>2. CASE Touched(sp, k)
    <3> DEFINE P(i) == /\ Touches(sp, i, k)
                       /\ \A j \in DOMAIN sp.acts : Touches(sp, j, k) => j <= i
               i0 == CHOOSE i \in DOMAIN sp.acts : P(i)
    <3>1. i0 \in DOMAIN sp.acts
      <4> DEFINE D == {i \in DOMAIN sp.acts : Touches(sp, i, k)}
      <4>1. D # {} /\ D \in SUBSET Nat /\ \A i \in D : i <= Len(sp.acts)
        BY <2>2 DEF Touched, Savepoints
      <4>2. Len(sp.acts) \in Nat
        BY DEF Savepoints
      <4> HIDE DEF D
      <4>3. \E i \in D : \A j \in D : j <= i
        BY <4>1, <4>2, MaxOfBounded
      <4> QED BY <4>3 DEF D
    <3>2. sp.acts[i0] \in Actions
      BY <3>1 DEF Savepoints
    <3>3. RollbackPdGroup(t, sp)[k] =
             IF sp.acts[i0].op = "add" \/ (sp.acts[i0].op = "put" /\ sp.acts[i0].old[k] = Empty)
             THEN NoVal ELSE sp.acts[i0].old[k]
      BY <2>2 DEF RollbackPdGroup
    <3> HIDE DEF i0
    <3> QED BY <3>2, <3>3 DEF Actions
  <2> QED BY <2>1, <2>2
<1> QED BY <1>1, <1>2 DEF RollbackGroup

(* The database of the genesis block has its types.                        *)
LEMMA BaseInit == Init => BaseInv
<1> SUFFICES ASSUME Init PROVE BaseInv
  OBVIOUS
<1>1. TokenTypeOK /\ savepoints = <<>> /\ tokenHist = <<>> /\ open = 0
  BY DEF Init, TokenTypeOK, TokenMaps
<1>2. OpenIdx = {}
  BY <1>1 DEF OpenIdx
<1> QED BY <1>1, <1>2 DEF BaseInv, OpenAbove

(* The three changes of the stack that the actions are made of.            *)
LEMMA BaseAdd ==
    ASSUME BaseInv, NEW q \in Nat, AddSavepoint(q)
    PROVE  /\ savepoints' \in Seq(Savepoints) /\ tokenHist' \in Seq(Hists) /\ tokens' \in TokenMaps
           /\ Len(savepoints') = Len(savepoints) + 1 /\ Len(tokenHist') = Len(tokenHist) + 1
<1>1. [seq |-> q, kind |-> "rt", snap |-> tokens, acts |-> <<>>] \in Savepoints
  BY DEF BaseInv, TokenTypeOK, Savepoints
<1>2. [seq |-> q, val |-> tokens] \in Hists
  BY DEF BaseInv, TokenTypeOK, Hists
<1> QED BY <1>1, <1>2 DEF AddSavepoint, BaseInv, TokenTypeOK, Hists

(* rollback_to_latest_savepoint keeps the types and drops one savepoint and*)
(* its history.                                                            *)
LEMMA BaseRollback ==
    ASSUME BaseInv, RollbackToLatestSavepoint
    PROVE  /\ savepoints' \in Seq(Savepoints) /\ tokenHist' \in Seq(Hists) /\ tokens' \in TokenMaps
           /\ Len(savepoints') = Len(savepoints) - 1 /\ Len(tokenHist') = Len(tokenHist) - 1
<1>1. /\ savepoints \in Seq(Savepoints) /\ tokenHist \in Seq(Hists) /\ tokens \in TokenMaps
      /\ Len(savepoints) > 0 /\ Len(tokenHist) > 0
  BY DEF RollbackToLatestSavepoint, BaseInv, TokenTypeOK, Hists
<1>2. tokens' \in TokenMaps
  BY <1>1, StackFacts, RollbackType DEF RollbackToLatestSavepoint
<1>3. savepoints' = Front(savepoints) /\ tokenHist' = Front(tokenHist)
  BY DEF RollbackToLatestSavepoint
<1> QED BY <1>1, <1>2, <1>3, StackFacts

(* pop_savepoints keeps the types, the open sessions and their savepoints. *)
LEMMA BasePop ==
    ASSUME BaseInv, NEW u \in Nat, PopSavepoints(u), u < head, open <= 1, UNCHANGED <<open, head>>
    PROVE  /\ savepoints' \in Seq(Savepoints) /\ tokenHist' \in Seq(Hists) /\ tokens' \in TokenMaps
           /\ Len(savepoints') = Len(tokenHist')
           /\ open' <= Len(savepoints') /\ OpenAbove'
           /\ \E d \in Nat : \A i \in OpenIdx' :
                 /\ i + d \in OpenIdx /\ savepoints'[i] = savepoints[i + d]
<1>1. PICK n \in 0..Len(savepoints) :
         /\ \A i \in 1..n : savepoints[i].seq < u
         /\ savepoints' = SubSeq(savepoints, n + 1, Len(savepoints))
         /\ tokenHist' = SubSeq(tokenHist, n + 1, Len(tokenHist))
         /\ tokens' = tokens
  BY DEF PopSavepoints
<1>2. savepoints \in Seq(Savepoints) /\ tokenHist \in Seq(Hists) /\ Len(tokenHist) = Len(savepoints)
  BY DEF BaseInv, TokenTypeOK, Hists
<1>3. /\ savepoints' \in Seq(Savepoints) /\ Len(savepoints') = Len(savepoints) - n
  BY <1>1, <1>2, DropFacts
<1>4. /\ tokenHist' \in Seq(Hists) /\ Len(tokenHist') = Len(tokenHist) - n
  BY <1>1, <1>2, DropFacts
<1>5. open <= Len(savepoints) - n
  <2>1. CASE open = 0
    BY <2>1, <1>2
  <2>2. CASE open # 0
    <3>1. open = 1 /\ Len(savepoints) \in Nat /\ Len(savepoints) >= 1 /\ head \in Nat
      BY <2>2, <1>2 DEF BaseInv, TokenTypeOK
    <3>2. Len(savepoints) \in OpenIdx
      BY <3>1 DEF OpenIdx
    <3>3. savepoints[Len(savepoints)] \in Savepoints
      BY <1>2, <3>1
    <3>4. savepoints[Len(savepoints)].seq \in Nat
      BY <3>3 DEF Savepoints
    <3>5. savepoints[Len(savepoints)].seq > head
      BY <3>2 DEF BaseInv, OpenAbove
    <3>6. ~(Len(savepoints) \in 1..n)
      BY <1>1, <3>1, <3>4, <3>5
    <3> QED BY <3>1, <3>6
  <2> QED BY <2>1, <2>2
<1>6. \A i \in OpenIdx' : i + n \in OpenIdx /\ savepoints'[i] = savepoints[i + n]
  <2> SUFFICES ASSUME NEW i \in OpenIdx' 
               PROVE  i + n \in OpenIdx /\ savepoints'[i] = savepoints[i + n]
    OBVIOUS
  <2>1. open \in Nat /\ Len(savepoints) \in Nat /\ n \in Nat /\ open' = open
    BY <1>2 DEF BaseInv, TokenTypeOK
  <2>2. i \in (Len(savepoints) - n - open + 1)..(Len(savepoints) - n)
    BY <1>3, <2>1 DEF OpenIdx
  <2>3. i \in 1..(Len(savepoints) - n) /\ i + n \in OpenIdx
    BY <1>5, <2>1, <2>2 DEF OpenIdx
  <2> QED BY <1>1, <1>2, <2>3, DropFacts
<1>7. OpenAbove'
  BY <1>6 DEF OpenAbove, BaseInv
<1>8. \E d \in Nat : \A i \in OpenIdx' :
         i + d \in OpenIdx /\ savepoints'[i] = savepoints[i + d]
  <2>1. n \in Nat
    BY <1>2
  <2> QED BY <2>1, <1>6
<1>9. tokens' \in TokenMaps
  BY <1>1 DEF BaseInv, TokenTypeOK
<1>10. open' <= Len(savepoints') /\ Len(savepoints') = Len(tokenHist')
  BY <1>2, <1>3, <1>4, <1>5
<1> QED BY <1>3, <1>4, <1>7, <1>8, <1>9, <1>10

(* The sessions that stay open keep their numbers.                         *)
LEMMA OpenStep == ASSUME BaseInv, [Next]_vars PROVE OpenAbove'
<1>0. /\ savepoints \in Seq(Savepoints) /\ Len(savepoints) \in Nat
      /\ open \in Nat /\ head \in Nat /\ lib \in Nat /\ open <= Len(savepoints)
      /\ \A i \in (Len(savepoints) - open + 1)..Len(savepoints) : savepoints[i].seq > head
      /\ \A i \in 1..Len(savepoints) : savepoints[i] \in Savepoints
  BY DEF BaseInv, TokenTypeOK, OpenAbove, OpenIdx
<1>s. ASSUME UNCHANGED <<savepoints, open, head>> PROVE OpenAbove'
  BY <1>s DEF BaseInv, OpenAbove, OpenIdx
<1>z. ASSUME open' = 0, Len(savepoints') \in Nat PROVE OpenAbove'
  BY <1>z DEF OpenAbove, OpenIdx
<1>r. ASSUME RollbackToLatestSavepoint, open' = open - 1, head' = head PROVE OpenAbove'
  <2>1. Len(savepoints) > 0 /\ savepoints' = Front(savepoints)
    BY <1>0, <1>r DEF RollbackToLatestSavepoint
  <2>2. /\ Len(savepoints') = Len(savepoints) - 1
        /\ \A i \in 1..(Len(savepoints) - 1) : savepoints'[i] = savepoints[i]
    BY <1>0, <2>1, StackFacts
  <2> QED BY <1>0, <1>r, <2>2 DEF OpenAbove, OpenIdx
<1>a. ASSUME NEW q \in Nat, AddSavepoint(q), q > head, open' = open + 1, head' = head PROVE OpenAbove'
  <2>1. /\ Len(savepoints') = Len(savepoints) + 1
        /\ \A i \in 1..Len(savepoints) : savepoints'[i] = savepoints[i]
        /\ savepoints'[Len(savepoints) + 1].seq = q
    BY <1>0, <1>a DEF AddSavepoint
  <2> QED BY <1>0, <1>a, <2>1 DEF OpenAbove, OpenIdx
<1>p. ASSUME NEW op \in Ops, NEW K \in SUBSET TokenKeys, NEW v \in Values, PutTokens(op, K, v)
      PROVE  OpenAbove'
  <2>1. /\ Len(savepoints') = Len(savepoints) /\ UNCHANGED <<open, head>>
        /\ \A i \in 1..Len(savepoints) : savepoints'[i].seq = savepoints[i].seq
    BY <1>0, <1>p DEF PutTokens, WriteTokens, ctlVars, Savepoints
  <2> QED BY <1>0, <2>1 DEF OpenAbove, OpenIdx
<1>1. CASE PutToken \/ IssueTokens
  BY <1>1, <1>p DEF PutToken, IssueTokens, Ops
<1>2. CASE WriteAsset \/ UNCHANGED vars
  BY <1>2, <1>s DEF WriteAsset, PutAsset, ctlVars, vars, dbVars
<1>3. CASE StartBlock
  BY <1>0, <1>3, <1>a DEF StartBlock
<1>4. CASE StartTrx
  <2>1. Last(savepoints) = savepoints[Len(savepoints)] /\ Len(savepoints) > 0 /\ open >= 1
    <3>1. open >= 1 /\ Len(savepoints) > 0 /\ savepoints \in Seq(Savepoints)
      BY <1>0, <1>4 DEF StartTrx
    <3>2. Last(savepoints) = savepoints[Len(savepoints)]
      BY ONLY <3>1, StackFacts
    <3> QED BY <3>1, <3>2
  <2>2. Last(savepoints).seq \in Nat /\ Last(savepoints).seq > head
    <3>1. Len(savepoints) \in (Len(savepoints) - open + 1)..Len(savepoints)
      BY <1>0, <2>1
    <3>2. Len(savepoints) \in 1..Len(savepoints)
      BY <1>0, <2>1
    <3>3. savepoints[Len(savepoints)] \in Savepoints
      BY <1>0, <3>2
    <3> QED BY <1>0, <2>1, <3>1, <3>3 DEF Savepoints
  <2> QED BY <1>0, <1>4, <2>2, <1>a DEF StartTrx
<1>5. CASE SquashTrx
  <2>1. /\ Len(savepoints) >= 2 /\ open' = open - 1 /\ head' = head /\ open >= 2
        /\ savepoints' = [Front(savepoints) EXCEPT ![Len(savepoints) - 1].acts
                             = @ \o savepoints[Len(savepoints)].acts]
    BY <1>0, <1>5 DEF SquashTrx
  <2>2. /\ Front(savepoints) \in Seq(Savepoints) /\ Len(Front(savepoints)) = Len(savepoints) - 1
        /\ \A i \in 1..(Len(savepoints) - 1) : Front(savepoints)[i] = savepoints[i]
    <3>1. savepoints \in Seq(Savepoints) /\ Len(savepoints) > 0
      BY <1>0, <2>1
    <3> QED BY ONLY <3>1, StackFacts
  <2>3. /\ Len(savepoints') = Len(savepoints) - 1
        /\ \A i \in 1..(Len(savepoints) - 1) : savepoints'[i].seq = savepoints[i].seq
    <3> DEFINE F == Front(savepoints)
               n == Len(savepoints)
    <3>1. /\ F \in Seq(Savepoints) /\ Len(F) = n - 1 /\ n \in Nat /\ n >= 2
          /\ \A i \in 1..(n - 1) : F[i] = savepoints[i]
          /\ savepoints' = [F EXCEPT ![n - 1].acts = @ \o savepoints[n].acts]
      BY <1>0, <2>1, <2>2
    <3> HIDE DEF F, n
    <3>2. DOMAIN F = 1..(n - 1) /\ \A i \in 1..(n - 1) : F[i] \in Savepoints
      BY <3>1
    <3>3. Len(savepoints') = n - 1 /\ \A i \in 1..(n - 1) : savepoints'[i].seq = F[i].seq
      BY <3>1, <3>2 DEF Savepoints
    <3> QED BY <3>1, <3>3 DEF n
  <2> SUFFICES ASSUME NEW i \in OpenIdx' PROVE savepoints'[i].seq > head'
    BY DEF OpenAbove
  <2>4. i \in (Len(savepoints) - 1 - (open - 1) + 1)..(Len(savepoints) - 1)
    BY <2>1, <2>3 DEF OpenIdx
  <2>5. i \in 1..(Len(savepoints) - 1) /\ i \in (Len(savepoints) - open + 1)..Len(savepoints)
    BY <1>0, <2>1, <2>4
  <2> QED BY <1>0, <2>1, <2>3, <2>5
<1>6. CASE UndoTrx \/ AbortBlock
  BY <1>0, <1>6, <1>r DEF UndoTrx, AbortBlock
<1>7. CASE CommitBlock
  BY <1>0, <1>7, <1>z DEF CommitBlock, dbVars
<1>8. CASE PopBlock
  <2>1. Len(savepoints') \in Nat /\ open' = 0
    BY <1>0, <1>8, BaseRollback DEF PopBlock
  <2> QED BY <2>1, <1>z
<1>9. CASE Irreversible
  BY <1>0, <1>9, BasePop DEF Irreversible
<1>10. CASE Restart
  <2>1. Len(savepoints') \in Nat /\ open' = 0
    BY <1>0, <1>10 DEF Restart
  <2> QED BY <2>1, <1>z
<1> QED BY <1>1, <1>2, <1>3, <1>4, <1>5, <1>6, <1>7, <1>8, <1>9, <1>10 DEF Next

(* A savepoint written to the file and read back is a savepoint.           *)
LEMMA PersistType ==
    ASSUME NEW sp \in Savepoints PROVE PersistGroup(sp) \in Savepoints
<1>1. CASE sp.kind = "pd"
  BY <1>1 DEF PersistGroup
<1>2. CASE sp.kind = "rt" /\ \A k \in TokenKeys : sp.snap[k] # NoVal => sp.snap[k] \in Values \cup {Empty}
  <2> DEFINE Keeps(i, k) == /\ Touches(sp, i, k)
                            /\ sp.acts[i].op # "add"
                            /\ \A j \in 1..(i - 1) : ~Touches(sp, j, k)
                            /\ sp.snap[k] # NoVal
             Old(i) == [k \in TokenKeys |-> IF Keeps(i, k) THEN sp.snap[k] ELSE Empty]
             m == Len(sp.acts)
  <2>1. m \in Nat /\ DOMAIN sp.acts = 1..m
    BY DEF Savepoints
  <2>2. PersistGroup(sp) = [seq |-> sp.seq, kind |-> "pd", snap |-> NoTokens,
              acts |-> [i \in 1..m |-> [op |-> sp.acts[i].op, keys |-> sp.acts[i].keys, old |-> Old(i)]]]
    BY <1>2, <2>1 DEF PersistGroup
  <2>3. \A i \in 1..m : Old(i) \in [TokenKeys -> Values \cup {Empty}]
    BY <1>2
  <2> HIDE DEF Old, m
  <2>4. \A i \in 1..m : sp.acts[i] \in Actions
    BY <2>1 DEF Savepoints
  <2>5. \A i \in 1..m : [op |-> sp.acts[i].op, keys |-> sp.acts[i].keys, old |-> Old(i)] \in Actions
    BY <2>3, <2>4 DEF Actions
  <2>6. [i \in 1..m |-> [op |-> sp.acts[i].op, keys |-> sp.acts[i].keys, old |-> Old(i)]]
           \in Seq(Actions)
    BY <2>5, <2>1
  <2>7. sp.seq \in Nat /\ NoTokens \in TokenMaps
    BY DEF Savepoints, NoTokens, TokenMaps
  <2> QED BY <2>2, <2>6, <2>7 DEF Savepoints
<1>3. \A k \in TokenKeys : sp.snap[k] # NoVal => sp.snap[k] \in Values \cup {Empty}
  BY DEF Savepoints, TokenMaps
<1> QED BY <1>1, <1>2, <1>3 DEF Savepoints

(* Every step keeps the types and the numbering of the open sessions.      *)
LEMMA BaseStep == BaseInv /\ [Next]_vars => BaseInv'
<1> SUFFICES ASSUME BaseInv, [Next]_vars PROVE BaseInv'
  OBVIOUS
<1>0. /\ savepoints \in Seq(Savepoints) /\ tokenHist \in Seq(Hists) /\ tokens \in TokenMaps
      /\ open \in Nat /\ head \in Nat /\ lib \in Nat /\ restarts \in Nat
      /\ Len(tokenHist) = Len(savepoints) /\ open <= Len(savepoints) /\ Len(savepoints) \in Nat
  BY DEF BaseInv, TokenTypeOK, Hists
<1>o. OpenAbove'
  BY OpenStep
<1>i. ASSUME savepoints' \in Seq(Savepoints), tokenHist' \in Seq(Hists), tokens' \in TokenMaps,
             open' \in Nat, head' \in Nat, lib' \in Nat, restarts' \in Nat,
             Len(tokenHist') = Len(savepoints'), open' <= Len(savepoints')
      PROVE  BaseInv'
  BY <1>i, <1>o DEF BaseInv, TokenTypeOK, Hists
<1>1. ASSUME NEW op \in Ops, NEW K \in SUBSET TokenKeys, NEW v \in Values, PutTokens(op, K, v)
      PROVE  BaseInv'
  <2> DEFINE n == Len(savepoints)
             a == [op |-> op, keys |-> K, old |-> NoOld]
  <2>1. /\ n \in Nat \ {0} /\ a \in Actions /\ UNCHANGED <<open, head, lib, restarts, tokenHist>>
        /\ savepoints' = [savepoints EXCEPT ![n].acts = Append(@, a)]
        /\ tokens' = [k \in TokenKeys |-> IF k \in K THEN v ELSE tokens[k]]
    BY <1>0, <1>1 DEF PutTokens, WriteTokens, Actions, NoOld, ctlVars, histVars
  <2>2. savepoints[n] \in Savepoints
    BY <1>0, <2>1
  <2>2a. savepoints[n].acts \in Seq(Actions)
    BY <2>2 DEF Savepoints
  <2>2b. Append(savepoints[n].acts, a) \in Seq(Actions)
    BY <2>1, <2>2a
  <2>3. [savepoints[n] EXCEPT !.acts = Append(@, a)] \in Savepoints
    BY <2>2, <2>2b DEF Savepoints
  <2>4. savepoints' \in Seq(Savepoints) /\ Len(savepoints') = n
    BY <1>0, <2>1, <2>3
  <2>5. tokens' \in TokenMaps
    BY <1>0, <2>1 DEF TokenMaps
  <2> QED BY <1>0, <2>1, <2>4, <2>5, <1>i
<1>2. CASE PutToken
  BY <1>1, <1>2 DEF PutToken
<1>3. CASE IssueTokens
  BY <1>1, <1>3 DEF IssueTokens, Ops
<1>4. CASE WriteAsset
  BY <1>4, <1>o DEF WriteAsset, PutAsset, BaseInv, TokenTypeOK, ctlVars, histVars
<1>5. CASE StartBlock
  <2>1. AddSavepoint(head + 1) /\ head + 1 \in Nat /\ open' = 1 /\ UNCHANGED <<head, lib, restarts>>
    BY <1>0, <1>5 DEF StartBlock
  <2> QED BY <1>0, <2>1, BaseAdd, <1>i
<1>6. CASE StartTrx
  <2>1. /\ AddSavepoint(Last(savepoints).seq + 1) /\ open' = open + 1
        /\ Len(savepoints) > 0 /\ UNCHANGED <<head, lib, restarts>>
    BY <1>0, <1>6 DEF StartTrx
  <2>2. Last(savepoints) \in Savepoints
    BY <1>0, <2>1, StackFacts
  <2>3. Last(savepoints).seq + 1 \in Nat
    BY <2>2 DEF Savepoints
  <2> QED BY <1>0, <2>1, <2>3, BaseAdd, <1>i
<1>7. CASE SquashTrx
  <2> DEFINE n == Len(savepoints)
             F == Front(savepoints)
  <2>1. /\ n \in Nat /\ n >= 2 /\ open' = open - 1 /\ UNCHANGED <<tokens, head, lib, restarts>>
        /\ savepoints' = [F EXCEPT ![n - 1].acts = @ \o savepoints[n].acts]
        /\ tokenHist' = Front(tokenHist)
    BY <1>0, <1>7 DEF SquashTrx
  <2>2. /\ F \in Seq(Savepoints) /\ Len(F) = n - 1
        /\ tokenHist' \in Seq(Hists) /\ Len(tokenHist') = n - 1
    <3>1. savepoints \in Seq(Savepoints) /\ tokenHist \in Seq(Hists) /\ Len(tokenHist) = n /\ n > 0
      BY <1>0, <2>1
    <3>2. F \in Seq(Savepoints) /\ Len(F) = n - 1
      BY <3>1, StackFacts
    <3>3. Front(tokenHist) \in Seq(Hists) /\ Len(Front(tokenHist)) = n - 1
      BY <3>1, StackFacts
    <3> QED BY <2>1, <3>2, <3>3
  <2>3. F[n - 1] \in Savepoints /\ savepoints[n] \in Savepoints
    BY <1>0, <2>1, <2>2
  <2>4. F[n - 1].acts \in Seq(Actions) /\ savepoints[n].acts \in Seq(Actions)
    BY <2>3 DEF Savepoints
  <2>5. F[n - 1].acts \o savepoints[n].acts \in Seq(Actions)
    BY <2>4
  <2>6. [F[n - 1] EXCEPT !.acts = @ \o savepoints[n].acts] \in Savepoints
    BY <2>3, <2>5 DEF Savepoints
  <2> HIDE DEF F
  <2>7. savepoints' \in Seq(Savepoints) /\ Len(savepoints') = n - 1
    BY <2>1, <2>2, <2>6
  <2>8. open' \in Nat /\ open' <= n - 1
    BY <1>0, <1>7, <2>1 DEF SquashTrx
  <2> QED BY <1>0, <2>1, <2>2, <2>7, <2>8, <1>i
<1>8. CASE UndoTrx
  BY <1>0, <1>8, <1>o, BaseRollback DEF UndoTrx, BaseInv, TokenTypeOK, Hists
<1>9. CASE AbortBlock
  BY <1>0, <1>9, <1>o, BaseRollback DEF AbortBlock, BaseInv, TokenTypeOK, Hists
<1>10. CASE CommitBlock
  BY <1>0, <1>10, <1>o DEF CommitBlock, BaseInv, TokenTypeOK, Hists, dbVars, histVars
<1>11. CASE PopBlock
  BY <1>0, <1>11, <1>o, BaseRollback DEF PopBlock, PrevKept, BaseInv, TokenTypeOK, Hists
<1>12. CASE Irreversible
  <2>1. /\ PopSavepoints(lib + 1) /\ lib + 1 \in Nat /\ lib' = lib + 1 /\ lib + 1 < head
        /\ open <= 1 /\ UNCHANGED <<open, head, restarts>>
    BY <1>0, <1>12 DEF Irreversible
  <2>2. /\ savepoints' \in Seq(Savepoints) /\ tokenHist' \in Seq(Hists) /\ tokens' \in TokenMaps
        /\ Len(savepoints') = Len(tokenHist') /\ open' <= Len(savepoints')
    BY <2>1, BasePop
  <2> QED BY <1>0, <2>1, <2>2, <1>i
<1>13. CASE Restart
  <2>1. savepoints' = [i \in 1..Len(savepoints) |-> PersistGroup(savepoints[i])]
    BY <1>0, <1>13 DEF Restart
  <2>2. \A i \in 1..Len(savepoints) : PersistGroup(savepoints[i]) \in Savepoints
    BY <1>0, PersistType
  <2>3. savepoints' \in Seq(Savepoints) /\ Len(savepoints') = Len(savepoints)
    BY <1>0, <2>1, <2>2
  <2> QED BY <1>0, <1>13, <1>o, <2>3 DEF Restart, BaseInv, TokenTypeOK, Hists, histVars
<1>14. CASE UNCHANGED vars
  BY <1>14, <1>o DEF vars, dbVars, ctlVars, histVars, BaseInv, TokenTypeOK
<1> QED BY <1>2, <1>3, <1>4, <1>5, <1>6, <1>7, <1>8, <1>9, <1>10, <1>11, <1>12, <1>13, <1>14 DEF Next

(* The token side of the database keeps its types, whatever the calls.     *)
THEOREM TokenTypeCorrect == Spec => []TokenTypeOK
<1>1. BaseInv => TokenTypeOK
  BY DEF BaseInv
<1> QED BY BaseInit, BaseStep, <1>1, PTL DEF Spec

-----------------------------------------------------------------------------
(* The inductive invariant.  After(i) is what the tokens were when the     *)
(* savepoint after the i-th was taken, or what they are now: the i-th      *)
(* group leads there from what the i-th savepoint remembers.               *)
After(i) == IF i = Len(savepoints) THEN tokens ELSE tokenHist[i + 1].val

Clean     == /\ tokens \in CleanMaps
             /\ \A i \in 1..Len(savepoints) : tokenHist[i].val \in CleanMaps
SameSeqs  == \A i \in 1..Len(savepoints) : tokenHist[i].seq = savepoints[i].seq
OpenAreRt == \A i \in OpenIdx : savepoints[i].kind = "rt"
GroupsOK  == \A i \in 1..Len(savepoints) : GroupOK(savepoints[i], tokenHist[i].val, After(i))
WrittenOnce ==
    ~RepeatWrites =>
       /\ \A i \in 1..Len(savepoints) : Unique(savepoints[i])
       /\ \A k \in TokenKeys : \A i, j \in OpenIdx :
             Touched(savepoints[i], k) /\ Touched(savepoints[j], k) => i = j

IInv == BaseInv /\ Clean /\ SameSeqs /\ OpenAreRt /\ GroupsOK /\ WrittenOnce

(* No restart happens, or no key is written twice by a block.              *)
Recoverable == MaxRestarts = 0 \/ ~RepeatWrites

(* Without savepoints there is nothing to undo.                            *)
LEMMA IInvInit == Init => IInv
<1> SUFFICES ASSUME Init PROVE IInv
  OBVIOUS
<1>1. BaseInv
  BY BaseInit
<1>2. savepoints = <<>> /\ Len(savepoints) = 0 /\ open = 0 /\ tokens \in CleanMaps
  BY DEF Init, CleanMaps
<1>3. 1..Len(savepoints) = {} /\ OpenIdx = {}
  BY <1>2 DEF OpenIdx
<1> QED BY <1>1, <1>2, <1>3 DEF IInv, Clean, SameSeqs, OpenAreRt, GroupsOK, WrittenOnce

(* put_token and put_tokens.                                               *)
LEMMA IInvPut ==
    ASSUME IInv, BaseInv', NEW op \in Ops, NEW K \in SUBSET TokenKeys, NEW v \in Values,
           PutTokens(op, K, v)
    PROVE  IInv'
<1> DEFINE n  == Len(savepoints)
           sp == savepoints[n]
           s2 == PutGroup(sp, op, K)
           t2 == PutMap(tokens, K, v)
<1>1. /\ savepoints \in Seq(Savepoints) /\ n \in Nat /\ n >= 2 /\ open \in Nat /\ open >= 2 /\ open <= n
      /\ Len(tokenHist) = n
  BY DEF IInv, BaseInv, TokenTypeOK, PutTokens, WriteTokens
<1>2. /\ savepoints' = [savepoints EXCEPT ![n] = s2] /\ tokens' = t2
      /\ tokenHist' = tokenHist /\ open' = open
      /\ op = "add" => \A k \in K : tokens[k] = NoVal
      /\ op = "update" => \A k \in K : tokens[k] # NoVal
      /\ RepeatWrites \/ K \cap WrittenInBlock = {}
  BY DEF PutTokens, WriteTokens, ctlVars, histVars, PutGroup, PutMap
<1>3. n \in OpenIdx /\ n \in 1..n /\ OpenIdx \subseteq 1..n
  BY <1>1 DEF OpenIdx
<1>4. /\ sp \in Savepoints /\ sp.kind = "rt" /\ GroupOK(sp, tokenHist[n].val, tokens)
      /\ tokens \in CleanMaps /\ tokenHist[n].val \in CleanMaps
  BY <1>1, <1>3 DEF IInv, OpenAreRt, GroupsOK, After, Clean
<1> DEFINE h == tokenHist[n].val
<1>4a. op = "add" => \A k \in K : tokens[k] = NoVal
  BY <1>2
<1>4b. op = "update" => \A k \in K : tokens[k] # NoVal
  BY <1>2
<1>4c. sp \in Savepoints /\ h \in CleanMaps /\ tokens \in CleanMaps
  BY <1>4
<1>4d. GroupOK(sp, h, tokens) /\ sp.kind = "rt"
  BY <1>4
<1> HIDE DEF sp, h
<1>5. /\ s2 \in Savepoints /\ t2 \in CleanMaps
      /\ GroupOK(s2, h, t2) /\ s2.kind = "rt" /\ s2.seq = sp.seq
      /\ \A k \in TokenKeys : Touched(s2, k) <=> (Touched(sp, k) \/ k \in K)
      /\ Unique(sp) /\ (\A k \in K : ~Touched(sp, k)) => Unique(s2)
  BY <1>4a, <1>4b, <1>4c, <1>4d, GroupPut
<1> HIDE DEF s2, t2
<1>6. /\ Len(savepoints') = n /\ savepoints'[n] = s2
      /\ \A i \in 1..n : i # n => savepoints'[i] = savepoints[i]
      /\ OpenIdx' = OpenIdx
  BY <1>1, <1>2, <1>3 DEF OpenIdx
<1>7. Clean'
  BY <1>2, <1>5, <1>6 DEF IInv, Clean
<1>8. SameSeqs'
  BY <1>2, <1>5, <1>6 DEF IInv, SameSeqs, sp
<1>9. OpenAreRt'
  BY <1>3, <1>5, <1>6 DEF IInv, OpenAreRt
<1>10. GroupsOK'
  <2> SUFFICES ASSUME NEW i \in 1..n PROVE GroupOK(savepoints'[i], tokenHist'[i].val, After(i)')
    BY <1>6 DEF GroupsOK
  <2>1. CASE i = n
    BY <2>1, <1>2, <1>5, <1>6 DEF After, h
  <2>2. CASE i # n
    <3>1. After(i)' = After(i)
      BY <2>2, <1>2, <1>6 DEF After
    <3> QED BY <2>2, <3>1, <1>2, <1>6 DEF IInv, GroupsOK
  <2> QED BY <2>1, <2>2
<1>11. WrittenOnce'
  <2> SUFFICES ASSUME ~RepeatWrites
               PROVE  /\ \A i \in 1..n : Unique(savepoints'[i])
                      /\ \A k \in TokenKeys : \A i, j \in OpenIdx :
                            Touched(savepoints'[i], k) /\ Touched(savepoints'[j], k) => i = j
    BY <1>6 DEF WrittenOnce
  <2>1. \A k \in K, i \in OpenIdx : ~Touched(savepoints[i], k)
    BY <1>2 DEF WrittenInBlock, OpenIdx
  <2>2. Unique(s2)
    BY <2>1, <1>3, <1>5 DEF IInv, WrittenOnce, sp
  <2>3. \A i \in 1..n : Unique(savepoints'[i])
    BY <2>2, <1>6 DEF IInv, WrittenOnce
  <2>4. ASSUME NEW k \in TokenKeys, NEW i \in OpenIdx, NEW j \in OpenIdx,
               Touched(savepoints'[i], k), Touched(savepoints'[j], k)
        PROVE  i = j
    <3>1. CASE k \in K
      BY <2>1, <2>4, <3>1, <1>3, <1>6
    <3>2. CASE k \notin K
      <4>1. Touched(savepoints[i], k) /\ Touched(savepoints[j], k)
        BY <2>4, <3>2, <1>3, <1>5, <1>6 DEF sp
      <4> QED BY <4>1 DEF IInv, WrittenOnce
    <3> QED BY <3>1, <3>2
  <2> QED BY <2>3, <2>4
<1> QED BY <1>7, <1>8, <1>9, <1>10, <1>11 DEF IInv

(* add_savepoint, by start_block and by a transaction context.             *)
LEMMA IInvAdd ==
    ASSUME IInv, BaseInv', NEW q \in Nat, AddSavepoint(q), open' = open + 1
    PROVE  IInv'
<1> DEFINE n  == Len(savepoints)
           sp == [seq |-> q, kind |-> "rt", snap |-> tokens, acts |-> <<>>]
           hh == [seq |-> q, val |-> tokens]
<1>1. /\ savepoints \in Seq(Savepoints) /\ tokenHist \in Seq(Hists) /\ n \in Nat
      /\ open \in Nat /\ open <= n /\ Len(tokenHist) = n /\ tokens \in CleanMaps
  BY DEF IInv, BaseInv, TokenTypeOK, Clean, Hists
<1>2. /\ savepoints' = Append(savepoints, sp) /\ tokenHist' = Append(tokenHist, hh)
      /\ tokens' = tokens
  BY DEF AddSavepoint
<1>3. sp \in Savepoints /\ GroupOK(sp, tokens, tokens) /\ Unique(sp)
  BY <1>1, GroupNew
<1>4. \A k \in TokenKeys : ~Touched(sp, k)
  BY DEF Touched
<1>4a. sp.kind = "rt" /\ sp.seq = q /\ hh.seq = q /\ hh.val = tokens /\ hh \in Hists
  BY <1>1 DEF Hists, CleanMaps, TokenMaps
<1> HIDE DEF sp, hh
<1>5. /\ Len(savepoints') = n + 1 /\ savepoints'[n + 1] = sp /\ tokenHist'[n + 1] = hh
      /\ \A i \in 1..n : savepoints'[i] = savepoints[i] /\ tokenHist'[i] = tokenHist[i]
  BY <1>1, <1>2, <1>3, <1>4a
<1>6. \A i \in 1..(n + 1) : i \in 1..n \/ i = n + 1
  BY <1>1
<1>7. \A i \in OpenIdx' : i = n + 1 \/ (i \in OpenIdx /\ i \in 1..n)
  BY <1>1, <1>5 DEF OpenIdx
<1>8. Clean'
  BY <1>1, <1>2, <1>4a, <1>5, <1>6 DEF IInv, Clean
<1>9. SameSeqs'
  BY <1>4a, <1>5, <1>6 DEF IInv, SameSeqs
<1>10. OpenAreRt'
  BY <1>4a, <1>5, <1>7 DEF IInv, OpenAreRt
<1>11. GroupsOK'
  <2> SUFFICES ASSUME NEW i \in 1..(n + 1)
               PROVE  GroupOK(savepoints'[i], tokenHist'[i].val, After(i)')
    BY <1>5 DEF GroupsOK
  <2>1. CASE i = n + 1
    BY <2>1, <1>2, <1>3, <1>4a, <1>5 DEF After
  <2>2. CASE i \in 1..n
    <3>1. After(i)' = After(i)
      <4>1. i # n + 1
        BY <2>2, <1>1
      <4>2. After(i)' = tokenHist'[i + 1].val
        BY <4>1, <1>5 DEF After
      <4>3. CASE i = n
        BY <4>2, <4>3, <1>4a, <1>5 DEF After
      <4>4. CASE i # n
        <5>1. i + 1 \in 1..n
          BY <2>2, <4>4, <1>1
        <5> QED BY <4>2, <4>4, <5>1, <1>5 DEF After
      <4> QED BY <4>3, <4>4
    <3> QED BY <2>2, <3>1, <1>5 DEF IInv, GroupsOK
  <2> QED BY <2>1, <2>2, <1>6
<1>12. WrittenOnce'
  <2> SUFFICES ASSUME ~RepeatWrites
               PROVE  /\ \A i \in 1..(n + 1) : Unique(savepoints'[i])
                      /\ \A k \in TokenKeys : \A i, j \in OpenIdx' :
                            Touched(savepoints'[i], k) /\ Touched(savepoints'[j], k) => i = j
    BY <1>5 DEF WrittenOnce
  <2>1. \A i \in 1..(n + 1) : Unique(savepoints'[i])
    BY <1>3, <1>5, <1>6 DEF IInv, WrittenOnce
  <2>2. ASSUME NEW k \in TokenKeys, NEW i \in OpenIdx', NEW j \in OpenIdx',
               Touched(savepoints'[i], k), Touched(savepoints'[j], k)
        PROVE  i = j
    <3>1. i # n + 1 /\ j # n + 1
      BY <2>2, <1>4, <1>5
    <3>2. i \in OpenIdx /\ j \in OpenIdx /\ i \in 1..n /\ j \in 1..n
      BY <3>1, <1>7
    <3>3. Touched(savepoints[i], k) /\ Touched(savepoints[j], k)
      BY <2>2, <3>2, <1>5
    <3> QED BY <3>2, <3>3 DEF IInv, WrittenOnce
  <2> QED BY <2>1, <2>2
<1> QED BY <1>8, <1>9, <1>10, <1>11, <1>12 DEF IInv

(* Rolling back reaches the tokens that the savepoint remembers.           *)
LEMMA RollbackValue ==
    ASSUME IInv, RollbackToLatestSavepoint
    PROVE  Len(tokenHist) > 0 /\ tokens' = tokenHist[Len(tokenHist)].val
<1> DEFINE n == Len(savepoints)
<1>1. /\ savepoints \in Seq(Savepoints) /\ n \in Nat /\ n > 0 /\ Len(tokenHist) = n
      /\ Last(savepoints) = savepoints[n]
      /\ tokens' = RollbackGroup(tokens, savepoints[n])
  <2>1. /\ savepoints \in Seq(Savepoints) /\ n \in Nat /\ n > 0 /\ Len(tokenHist) = n
        /\ tokens' = RollbackGroup(tokens, Last(savepoints))
    BY DEF IInv, BaseInv, TokenTypeOK, RollbackToLatestSavepoint
  <2>2. Last(savepoints) = savepoints[n]
    BY ONLY <2>1, StackFacts
  <2> QED BY <2>1, <2>2
<1>2. /\ savepoints[n] \in Savepoints /\ tokenHist[n].val \in CleanMaps /\ tokens \in CleanMaps
      /\ GroupOK(savepoints[n], tokenHist[n].val, tokens)
  BY <1>1 DEF IInv, Clean, GroupsOK, After
<1>3. RollbackGroup(tokens, savepoints[n]) = tokenHist[n].val
  BY <1>2, GroupRollback
<1> QED BY <1>1, <1>3

(* undo of a session, abort_block and pop_block.                           *)
LEMMA IInvRollback ==
    ASSUME IInv, BaseInv', RollbackToLatestSavepoint,
           open' = open - 1 \/ (open = 0 /\ open' = 0)
    PROVE  IInv'
<1> DEFINE n == Len(savepoints)
<1>1. /\ savepoints \in Seq(Savepoints) /\ tokenHist \in Seq(Hists) /\ n \in Nat
      /\ open \in Nat /\ Len(tokenHist) = n
  BY DEF IInv, BaseInv, TokenTypeOK, Hists
<1>2. n > 0 /\ tokens' = tokenHist[n].val
  BY <1>1, RollbackValue
<1>3. /\ Len(savepoints') = n - 1
      /\ \A i \in 1..(n - 1) : savepoints'[i] = savepoints[i] /\ tokenHist'[i] = tokenHist[i]
  BY <1>1, <1>2, StackFacts DEF RollbackToLatestSavepoint
<1>4. /\ \A i \in 1..(n - 1) : i \in 1..n /\ i + 1 \in 1..n /\ i # n
      /\ n \in 1..n
      /\ \A i \in OpenIdx' : i \in OpenIdx /\ i \in 1..(n - 1)
  <2>1. CASE open = 0 /\ open' = 0
    BY <2>1, <1>1, <1>2, <1>3 DEF OpenIdx
  <2>2. CASE open' = open - 1
    <3>1. open <= n
      BY DEF IInv, BaseInv
    <3>2. OpenIdx' = (n - open + 1)..(n - 1) /\ OpenIdx = (n - open + 1)..n
      BY <2>2, <1>1, <1>2, <1>3 DEF OpenIdx
    <3>3. open' \in Nat
      BY DEF BaseInv, TokenTypeOK
    <3> QED BY <2>2, <3>1, <3>2, <3>3, <1>1, <1>2
  <2> QED BY <2>1, <2>2
<1> HIDE DEF n
<1>5. Clean'
  BY <1>2, <1>3, <1>4 DEF IInv, Clean, n
<1>6. SameSeqs'
  BY <1>3, <1>4 DEF IInv, SameSeqs, n
<1>7. OpenAreRt'
  BY <1>3, <1>4 DEF IInv, OpenAreRt
<1>8. GroupsOK'
  <2> SUFFICES ASSUME NEW i \in 1..(n - 1)
               PROVE  GroupOK(savepoints'[i], tokenHist'[i].val, After(i)')
    BY <1>3 DEF GroupsOK
  <2>1. After(i)' = After(i)
    <3>0. After(i) = tokenHist[i + 1].val
      BY <1>4 DEF After, n
    <3>1. CASE i = n - 1
      <4>1. i + 1 = n
        BY <3>1, <1>1
      <4> QED BY <3>0, <3>1, <4>1, <1>2, <1>3 DEF After
    <3>2. CASE i # n - 1
      <4>1. i + 1 \in 1..(n - 1)
        BY <3>2, <1>1
      <4> QED BY <3>0, <3>2, <4>1, <1>3 DEF After
    <3> QED BY <3>1, <3>2
  <2> QED BY <2>1, <1>3, <1>4 DEF IInv, GroupsOK, n
<1>9. WrittenOnce'
  <2> SUFFICES ASSUME ~RepeatWrites
               PROVE  /\ \A i \in 1..(n - 1) : Unique(savepoints'[i])
                      /\ \A k \in TokenKeys : \A i, j \in OpenIdx' :
                            Touched(savepoints'[i], k) /\ Touched(savepoints'[j], k) => i = j
    BY <1>3 DEF WrittenOnce
  <2>1. \A i \in 1..(n - 1) : Unique(savepoints'[i])
    BY <1>3, <1>4 DEF IInv, WrittenOnce, n
  <2>2. ASSUME NEW k \in TokenKeys, NEW i \in OpenIdx', NEW j \in OpenIdx',
               Touched(savepoints'[i], k), Touched(savepoints'[j], k)
        PROVE  i = j
    <3>1. i \in OpenIdx /\ j \in OpenIdx /\ i \in 1..(n - 1) /\ j \in 1..(n - 1)
      BY <1>4
    <3>2. Touched(savepoints[i], k) /\ Touched(savepoints[j], k)
      BY <2>2, <3>1, <1>3
    <3> QED BY <3>1, <3>2 DEF IInv, WrittenOnce
  <2> QED BY <2>1, <2>2
<1> QED BY <1>5, <1>6, <1>7, <1>8, <1>9 DEF IInv

(* squash: the last group joins the one below.                             *)
LEMMA IInvSquash ==
    ASSUME IInv, BaseInv', SquashTrx
    PROVE  IInv'
<1> DEFINE n  == Len(savepoints)
           sp == savepoints[n - 1]
           sq == savepoints[n]
           h  == tokenHist[n - 1].val
           m  == tokenHist[n].val
           s2 == SquashGroup(sp, sq)
<1>1. /\ savepoints \in Seq(Savepoints) /\ tokenHist \in Seq(Hists) /\ n \in Nat
      /\ open \in Nat /\ open >= 2 /\ open <= n /\ Len(tokenHist) = n
  BY DEF IInv, BaseInv, TokenTypeOK, Hists, SquashTrx
<1>2. /\ Front(savepoints) \in Seq(Savepoints) /\ Len(Front(savepoints)) = n - 1
      /\ \A i \in 1..(n - 1) : Front(savepoints)[i] = savepoints[i]
      /\ \A i \in 1..(n - 1) : Front(tokenHist)[i] = tokenHist[i]
  <2>1. Len(savepoints) > 0 /\ Len(tokenHist) > 0 /\ Len(tokenHist) = Len(savepoints)
    BY <1>1
  <2>2. /\ Front(savepoints) \in Seq(Savepoints)
        /\ Len(Front(savepoints)) = Len(savepoints) - 1
        /\ \A i \in 1..(Len(savepoints) - 1) : Front(savepoints)[i] = savepoints[i]
    BY <1>1, <2>1, StackFacts
  <2>3. \A i \in 1..(Len(tokenHist) - 1) : Front(tokenHist)[i] = tokenHist[i]
    BY <1>1, <2>1, StackFacts
  <2> QED BY <2>1, <2>2, <2>3
<1>3. /\ tokenHist' = Front(tokenHist) /\ tokens' = tokens /\ open' = open - 1
      /\ savepoints' = [Front(savepoints) EXCEPT ![n - 1].acts = @ \o savepoints[n].acts]
  BY DEF SquashTrx
<1>4. n - 1 \in 1..(n - 1) /\ n - 1 \in 1..n /\ n \in 1..n /\ n - 1 # n /\ (n - 1) + 1 = n
  BY <1>1
<1>5. Len(savepoints') = n - 1 /\ savepoints'[n - 1] = s2
  <2> DEFINE F == Front(savepoints)
  <2>1. F[n - 1] = sp /\ F \in Seq(Savepoints) /\ Len(F) = n - 1
    BY <1>2, <1>4
  <2>2. savepoints' = [F EXCEPT ![n - 1] = [F[n - 1] EXCEPT !.acts = @ \o sq.acts]]
    BY <1>3
  <2> HIDE DEF F, sp, sq
  <2>3. Len(savepoints') = n - 1
    BY <2>1, <2>2, <1>1
  <2>4. savepoints'[n - 1] = [F[n - 1] EXCEPT !.acts = @ \o sq.acts]
    BY <2>1, <2>2, <1>1, <1>4
  <2> QED BY <2>1, <2>3, <2>4 DEF SquashGroup
<1>6. \A i \in 1..(n - 1) : i # n - 1 => savepoints'[i] = savepoints[i]
  BY <1>1, <1>2, <1>3, <1>4
<1>7. \A i \in 1..(n - 1) : tokenHist'[i] = tokenHist[i]
  BY <1>2, <1>3
<1>8. /\ OpenIdx = (n - open + 1)..n /\ OpenIdx' = (n - open + 1)..(n - 1)
      /\ n \in OpenIdx /\ n - 1 \in OpenIdx
      /\ \A i \in OpenIdx' : i \in OpenIdx /\ i \in 1..(n - 1) /\ i # n
      /\ \A i \in 1..(n - 1) : i \in 1..n /\ i # n
  BY <1>1, <1>3, <1>5 DEF OpenIdx
<1>9. /\ sp \in Savepoints /\ sq \in Savepoints /\ sp.kind = "rt" /\ sq.kind = "rt"
      /\ h \in CleanMaps /\ m \in CleanMaps /\ tokens \in CleanMaps
  BY <1>1, <1>4, <1>8 DEF IInv, Clean, OpenAreRt
<1>10. GroupOK(sp, h, m) /\ GroupOK(sq, m, tokens)
  <2>1. After(n - 1) = m /\ After(n) = tokens
    BY <1>4 DEF After
  <2> QED BY <2>1, <1>4 DEF IInv, GroupsOK
<1> HIDE DEF n, sp, sq, h, m
<1>11. /\ s2 \in Savepoints /\ GroupOK(s2, h, tokens) /\ s2.kind = "rt" /\ s2.seq = sp.seq
       /\ \A k \in TokenKeys : Touched(s2, k) <=> Touched(sp, k) \/ Touched(sq, k)
       /\ Unique(sp) /\ Unique(sq) /\ (\A k \in TokenKeys : ~(Touched(sp, k) /\ Touched(sq, k)))
             => Unique(s2)
  BY <1>9, <1>10, GroupSquash
<1> HIDE DEF s2
<1>12. Clean'
  BY <1>3, <1>5, <1>7, <1>8 DEF IInv, Clean, n
<1>13. SameSeqs'
  BY <1>4, <1>5, <1>6, <1>7, <1>8, <1>11 DEF IInv, SameSeqs, n, sp
<1>14. OpenAreRt'
  BY <1>5, <1>6, <1>8, <1>11 DEF IInv, OpenAreRt
<1>15. GroupsOK'
  <2> SUFFICES ASSUME NEW i \in 1..(n - 1)
               PROVE  GroupOK(savepoints'[i], tokenHist'[i].val, After(i)')
    BY <1>5 DEF GroupsOK
  <2>1. CASE i = n - 1
    <3>1. After(i)' = tokens
      BY <2>1, <1>3, <1>5 DEF After
    <3> QED BY <2>1, <3>1, <1>5, <1>7, <1>11 DEF h
  <2>2. CASE i # n - 1
    <3>1. i + 1 \in 1..(n - 1) /\ i # n /\ i \in 1..n
      BY <2>2, <1>1, <1>8 DEF n
    <3>2. After(i)' = After(i)
      BY <2>2, <3>1, <1>5, <1>7 DEF After, n
    <3> QED BY <2>2, <3>1, <3>2, <1>6, <1>7 DEF IInv, GroupsOK, n
  <2> QED BY <2>1, <2>2
<1>16. WrittenOnce'
  <2> SUFFICES ASSUME ~RepeatWrites
               PROVE  /\ \A i \in 1..(n - 1) : Unique(savepoints'[i])
                      /\ \A k \in TokenKeys : \A i, j \in OpenIdx' :
                            Touched(savepoints'[i], k) /\ Touched(savepoints'[j], k) => i = j
    BY <1>5 DEF WrittenOnce
  <2>0. /\ \A i \in 1..n : Unique(savepoints[i])
        /\ \A k \in TokenKeys : \A i, j \in OpenIdx :
              Touched(savepoints[i], k) /\ Touched(savepoints[j], k) => i = j
    BY DEF IInv, WrittenOnce, n
  <2>1. \A k \in TokenKeys : ~(Touched(sp, k) /\ Touched(sq, k))
    BY <2>0, <1>4, <1>8 DEF sp, sq
  <2>2. Unique(s2)
    BY <2>0, <2>1, <1>4, <1>11 DEF sp, sq
  <2>3. \A i \in 1..(n - 1) : Unique(savepoints'[i])
    BY <2>0, <2>2, <1>5, <1>6, <1>8
  <2>4. ASSUME NEW k \in TokenKeys, NEW i \in OpenIdx', NEW j \in OpenIdx',
               Touched(savepoints'[i], k), Touched(savepoints'[j], k)
        PROVE  i = j
    <3>1. \A x \in OpenIdx' : Touched(savepoints'[x], k) =>
             Touched(savepoints[x], k) \/ (x = n - 1 /\ Touched(savepoints[n], k))
      BY <1>5, <1>6, <1>8, <1>11 DEF sp, sq
    <3> QED BY <2>0, <2>4, <3>1, <1>8
  <2> QED BY <2>3, <2>4
<1> QED BY <1>12, <1>13, <1>14, <1>15, <1>16 DEF IInv

(* on_irreversible: the oldest groups go, the others keep their chain.     *)
LEMMA IInvPop ==
    ASSUME IInv, BaseInv', NEW u \in Nat, PopSavepoints(u), u < head, open <= 1,
           UNCHANGED <<open, head>>
    PROVE  IInv'
<1> DEFINE n == Len(savepoints)
<1>1. /\ savepoints \in Seq(Savepoints) /\ tokenHist \in Seq(Hists) /\ n \in Nat
      /\ Len(tokenHist) = n
  BY DEF IInv, BaseInv, TokenTypeOK, Hists
<1>2. PICK d \in 0..n : /\ savepoints' = SubSeq(savepoints, d + 1, n)
                        /\ tokenHist' = SubSeq(tokenHist, d + 1, n)
                        /\ tokens' = tokens
  BY <1>1 DEF PopSavepoints
<1>3. /\ Len(savepoints') = n - d
      /\ \A i \in 1..(n - d) : savepoints'[i] = savepoints[d + i]
      /\ \A i \in 1..(n - d) : tokenHist'[i] = tokenHist[d + i]
  BY <1>1, <1>2, DropFacts
<1>4. PICK e \in Nat : \A i \in OpenIdx' : i + e \in OpenIdx /\ savepoints'[i] = savepoints[i + e]
  BY BasePop DEF IInv
<1>5. \A i \in 1..(n - d) : d + i \in 1..n
  BY <1>1
<1> HIDE DEF n
<1>6. Clean'
  BY <1>2, <1>3, <1>5 DEF IInv, Clean, n
<1>7. SameSeqs'
  BY <1>3, <1>5 DEF IInv, SameSeqs, n
<1>8. OpenAreRt'
  BY <1>4 DEF OpenAreRt, IInv
<1>9. GroupsOK'
  <2> SUFFICES ASSUME NEW i \in 1..(n - d)
               PROVE  GroupOK(savepoints'[i], tokenHist'[i].val, After(i)')
    BY <1>3 DEF GroupsOK
  <2>1. After(i)' = After(d + i)
    <3>1. CASE i = n - d
      <4>1. d + i = n
        BY <3>1, <1>1
      <4> QED BY <3>1, <4>1, <1>2, <1>3 DEF After, n
    <3>2. CASE i # n - d
      <4>1. d + i # n /\ i + 1 \in 1..(n - d) /\ (d + i) + 1 = d + (i + 1)
        BY <3>2, <1>1
      <4> QED BY <3>2, <4>1, <1>3 DEF After, n
    <3> QED BY <3>1, <3>2
  <2> QED BY <2>1, <1>3, <1>5 DEF IInv, GroupsOK, n
<1>10. WrittenOnce'
  <2> SUFFICES ASSUME ~RepeatWrites
               PROVE  /\ \A i \in 1..(n - d) : Unique(savepoints'[i])
                      /\ \A k \in TokenKeys : \A i, j \in OpenIdx' :
                            Touched(savepoints'[i], k) /\ Touched(savepoints'[j], k) => i = j
    BY <1>3 DEF WrittenOnce
  <2>1. \A i \in OpenIdx' : i \in Int
    BY <1>3, <1>1 DEF OpenIdx, n, IInv, BaseInv, TokenTypeOK
  <2> QED BY <2>1, <1>3, <1>4, <1>5 DEF IInv, WrittenOnce, n
<1> QED BY <1>6, <1>7, <1>8, <1>9, <1>10 DEF IInv

(* A clean restart, when no group writes a key twice.                      *)
LEMMA IInvRestart ==
    ASSUME IInv, BaseInv', Restart, Recoverable
    PROVE  IInv'
<1> DEFINE n == Len(savepoints)
<1>0. ~RepeatWrites
  BY TokenDatabaseAssumption DEF Restart, Recoverable, IInv, BaseInv, TokenTypeOK
<1>1. /\ savepoints \in Seq(Savepoints) /\ n \in Nat /\ DOMAIN savepoints = 1..n
      /\ open = 0 /\ open' = 0 /\ tokens' = tokens /\ tokenHist' = tokenHist
  BY DEF IInv, BaseInv, TokenTypeOK, Restart, histVars
<1>2. savepoints' = [i \in 1..n |-> PersistGroup(savepoints[i])]
  BY <1>1 DEF Restart
<1>3. \A i \in 1..n : savepoints'[i] = PersistGroup(savepoints[i])
  BY <1>2
<1>4. \A i \in 1..n : /\ savepoints[i] \in Savepoints
                      /\ Unique(savepoints[i])
                      /\ tokenHist[i].val \in CleanMaps /\ After(i) \in CleanMaps
                      /\ GroupOK(savepoints[i], tokenHist[i].val, After(i))
  <2> SUFFICES ASSUME NEW i \in 1..n
               PROVE  /\ savepoints[i] \in Savepoints
                      /\ Unique(savepoints[i])
                      /\ tokenHist[i].val \in CleanMaps /\ After(i) \in CleanMaps
                      /\ GroupOK(savepoints[i], tokenHist[i].val, After(i))
    OBVIOUS
  <2>1. After(i) \in CleanMaps
    <3>1. CASE i = n
      BY <3>1 DEF After, IInv, Clean
    <3>2. CASE i # n
      <4>1. n \in Nat
        BY <1>1
      <4> HIDE DEF n
      <4>2. i + 1 \in 1..n
        BY <3>2, <4>1
      <4> QED BY <3>2, <4>2 DEF After, IInv, Clean, n
    <3> QED BY <3>1, <3>2
  <2> QED BY <2>1, <1>0, <1>1 DEF IInv, Clean, GroupsOK, WrittenOnce
<1>5. \A i \in 1..n : /\ GroupOK(PersistGroup(savepoints[i]), tokenHist[i].val, After(i))
                      /\ Unique(PersistGroup(savepoints[i]))
                      /\ PersistGroup(savepoints[i]).seq = savepoints[i].seq
  BY <1>4, GroupPersist
<1>6. Len(savepoints') = n /\ OpenIdx' = {}
  <2>1. Len(savepoints') = n
    BY <1>1, <1>2
  <2> QED BY <2>1, <1>1 DEF OpenIdx
<1>7. \A i \in 1..n : After(i)' = After(i)
  BY <1>1, <1>6 DEF After
<1> HIDE DEF n
<1>8. Clean' /\ SameSeqs' /\ OpenAreRt'
  BY <1>1, <1>3, <1>5, <1>6 DEF IInv, Clean, SameSeqs, OpenAreRt, n
<1>9. GroupsOK'
  BY <1>1, <1>3, <1>5, <1>6, <1>7 DEF GroupsOK
<1>10. WrittenOnce'
  BY <1>3, <1>5, <1>6 DEF WrittenOnce
<1> QED BY <1>8, <1>9, <1>10 DEF IInv

(* Steps that leave the stack, the history and the tokens alone.           *)
LEMMA IInvSame ==
    ASSUME IInv, BaseInv', UNCHANGED <<tokens, savepoints, tokenHist>>, open' = open \/ open' = 0
    PROVE  IInv'
<1>1. OpenIdx' \subseteq OpenIdx
  BY DEF OpenIdx, IInv, BaseInv, TokenTypeOK
<1>2. \A i : After(i)' = After(i)
  BY DEF After
<1> QED BY <1>1, <1>2 DEF IInv, Clean, SameSeqs, OpenAreRt, GroupsOK, WrittenOnce

(* Every step keeps the inductive invariant.                               *)
LEMMA IInvStep == ASSUME Recoverable PROVE IInv /\ [Next]_vars => IInv'
<1> SUFFICES ASSUME IInv, [Next]_vars PROVE IInv'
  OBVIOUS
<1>0. BaseInv' /\ open \in Nat /\ head \in Nat /\ lib \in Nat
  BY BaseStep DEF IInv, BaseInv, TokenTypeOK
<1>1. CASE PutToken
  BY <1>0, <1>1, IInvPut DEF PutToken
<1>2. CASE IssueTokens
  BY <1>0, <1>2, IInvPut DEF IssueTokens, Ops
<1>3. CASE WriteAsset
  BY <1>0, <1>3, IInvSame DEF WriteAsset, PutAsset, ctlVars, histVars
<1>4. CASE StartBlock
  BY <1>0, <1>4, IInvAdd DEF StartBlock
<1>5. CASE StartTrx
  <2>1. savepoints \in Seq(Savepoints) /\ Len(savepoints) > 0
    BY <1>5 DEF StartTrx, IInv, BaseInv, TokenTypeOK
  <2>2. Last(savepoints) \in Savepoints
    BY <2>1, StackFacts
  <2>3. Last(savepoints).seq + 1 \in Nat
    BY <2>2 DEF Savepoints
  <2> QED BY <1>0, <1>5, <2>3, IInvAdd DEF StartTrx
<1>6. CASE SquashTrx
  BY <1>0, <1>6, IInvSquash
<1>7. CASE UndoTrx
  BY <1>0, <1>7, IInvRollback DEF UndoTrx
<1>8. CASE AbortBlock
  BY <1>0, <1>8, IInvRollback DEF AbortBlock
<1>9. CASE CommitBlock
  BY <1>0, <1>9, IInvSame DEF CommitBlock, dbVars, histVars
<1>10. CASE PopBlock
  BY <1>0, <1>10, IInvRollback DEF PopBlock
<1>11. CASE Irreversible
  BY <1>0, <1>11, IInvPop DEF Irreversible
<1>12. CASE Restart
  BY <1>0, <1>12, IInvRestart
<1>13. CASE UNCHANGED vars
  BY <1>0, <1>13, IInvSame DEF vars, dbVars, ctlVars, histVars
<1> QED
  BY <1>1, <1>2, <1>3, <1>4, <1>5, <1>6, <1>7, <1>8, <1>9, <1>10, <1>11, <1>12, <1>13 DEF Next

(* The invariant of all savepoints gives the property of the latest.       *)
LEMMA IInvExact == IInv => TokenRollbackExact
<1> SUFFICES ASSUME IInv, savepoints # <<>>
             PROVE  /\ Last(savepoints).kind = "rt" => ~RtGroupThrows(Last(savepoints))
                    /\ RollbackGroup(tokens, Last(savepoints)) = Last(tokenHist).val
  BY DEF TokenRollbackExact
<1> DEFINE n == Len(savepoints)
<1>1. /\ savepoints \in Seq(Savepoints) /\ tokenHist \in Seq(Hists) /\ n \in Nat /\ n > 0
      /\ Len(tokenHist) = n
  BY DEF IInv, BaseInv, TokenTypeOK, Hists
<1>2. Last(savepoints) = savepoints[n] /\ Last(tokenHist) = tokenHist[n]
  BY <1>1, StackFacts
<1>3. /\ savepoints[n] \in Savepoints /\ tokenHist[n].val \in CleanMaps /\ tokens \in CleanMaps
      /\ GroupOK(savepoints[n], tokenHist[n].val, tokens)
  BY <1>1 DEF IInv, Clean, GroupsOK, After
<1> QED BY <1>2, <1>3, GroupRollback

(* Rolling back to the latest savepoint restores every token to what it    *)
(* was when the savepoint was taken and does not throw, for all keys,      *)
(* values and histories, if the node is not restarted or no block writes a *)
(* token key twice (rollback_to_latest_savepoint, persist_savepoints).     *)
THEOREM TokenRollbackCorrect == ASSUME Recoverable PROVE Spec => []TokenRollbackExact
<1>1. IInv /\ [Next]_vars => IInv'
  BY IInvStep
<1> QED BY IInvInit, <1>1, IInvExact, PTL DEF Spec

-----------------------------------------------------------------------------
(* The refinement: each action is an operation of the abstract store.      *)

(* The abstract store takes the last member and the rest as the database   *)
(* does.                                                                   *)
LEMMA StoreOps == \A s : TokenStore!Last(s) = Last(s) /\ TokenStore!Front(s) = Front(s)
  BY DEF Last, Front, TokenStore!Last, TokenStore!Front

(* The database starts as an abstract store does.                          *)
LEMMA StoreInit == Init => TokenStore!Init
  BY DEF Init, TokenStore!Init, TokenMaps

(* add_savepoint is a save of the abstract store.                          *)
LEMMA StoreSave ==
    ASSUME IInv, NEW q \in Nat, AddSavepoint(q)
    PROVE  TokenStore!Save
<1> DEFINE hh == [seq |-> q, val |-> tokens]
           n  == Len(tokenHist)
<1>1. /\ tokenHist \in Seq(Hists) /\ savepoints \in Seq(Savepoints) /\ n \in Nat
      /\ Len(savepoints) = n /\ tokens \in TokenMaps
  BY DEF IInv, BaseInv, TokenTypeOK, Hists
<1>2. tokenHist' = Append(tokenHist, hh) /\ tokens' = tokens /\ hh \in Hists
  BY <1>1 DEF AddSavepoint, Hists
<1>3. hh.seq = q /\ hh.val = tokens
  OBVIOUS
<1>4. tokenHist' \in Seq(Hists) /\ Len(tokenHist') = n + 1 /\ tokenHist'[n + 1] = hh
  BY <1>1, <1>2
<1>4a. \A s \in Seq(Hists) : Len(s) > 0 => Last(s) = s[Len(s)]
  BY StackFacts
<1> HIDE DEF hh
<1>5. Last(tokenHist') = hh
  BY <1>1, <1>4, <1>4a
<1>6. tokenHist # <<>> => Last(tokenHist).seq < q
  <2> SUFFICES ASSUME tokenHist # <<>> PROVE Last(tokenHist).seq < q
    OBVIOUS
  <2>1. n > 0 /\ savepoints # <<>>
    BY <1>1
  <2>2. Last(savepoints) = savepoints[n] /\ Last(tokenHist) = tokenHist[n]
    BY <1>1, <2>1, StackFacts
  <2>3. tokenHist[n].seq = savepoints[n].seq
    BY <1>1, <2>1 DEF IInv, SameSeqs
  <2> QED BY <2>1, <2>2, <2>3 DEF AddSavepoint
<1>7. tokenHist' = Append(tokenHist, [seq |-> Last(tokenHist').seq, val |-> tokens])
  BY <1>2, <1>3, <1>5 DEF hh
<1> QED BY <1>2, <1>3, <1>4, <1>5, <1>6, <1>7, StoreOps DEF TokenStore!Save, hh

(* rollback_to_latest_savepoint is a rollback of the abstract store.       *)
LEMMA StoreRollback ==
    ASSUME IInv, RollbackToLatestSavepoint
    PROVE  TokenStore!Rollback
<1>1. Len(tokenHist) > 0 /\ tokens' = tokenHist[Len(tokenHist)].val
  BY RollbackValue
<1>2. tokenHist \in Seq(Hists) /\ tokenHist' = Front(tokenHist)
  BY DEF RollbackToLatestSavepoint, IInv, BaseInv, TokenTypeOK, Hists
<1>3. Last(tokenHist) = tokenHist[Len(tokenHist)] /\ tokenHist # <<>>
  BY <1>1, <1>2, StackFacts
<1> QED BY <1>1, <1>2, <1>3, StoreOps DEF TokenStore!Rollback

(* pop_savepoints is a commit of the abstract store, or changes nothing.   *)
LEMMA StorePop ==
    ASSUME IInv, NEW u \in Nat, PopSavepoints(u)
    PROVE  [TokenStore!Next]_(TokenStore!vars)
<1> DEFINE n == Len(tokenHist)
<1>1. tokenHist \in Seq(Hists) /\ n \in Nat /\ Len(savepoints) = n
  BY DEF IInv, BaseInv, TokenTypeOK, Hists
<1>2. PICK d \in 0..n : tokenHist' = SubSeq(tokenHist, d + 1, n) /\ tokens' = tokens
  BY <1>1 DEF PopSavepoints
<1>3. CASE d = 0
  <2>1. tokenHist' = SubSeq(tokenHist, 1, n)
    BY <1>2, <1>3
  <2>2. SubSeq(tokenHist, 1, n) = tokenHist
    BY <1>1
  <2> QED BY <1>2, <2>1, <2>2 DEF TokenStore!vars
<1>4. CASE d # 0
  <2>1. d \in 1..n
    BY <1>1, <1>4
  <2> QED BY <1>2, <2>1 DEF TokenStore!Commit, TokenStore!Next
<1> QED BY <1>3, <1>4

(* Every step is one of the abstract store, or a stutter.                  *)
LEMMA StoreStep ==
    ASSUME IInv, BaseInv', [Next]_vars PROVE [TokenStore!Next]_(TokenStore!vars)
<1>0. lib \in Nat /\ head \in Nat /\ open \in Nat /\ tokens' \in TokenMaps
  BY DEF IInv, BaseInv, TokenTypeOK
<1>1. CASE PutToken
  BY <1>0, <1>1 DEF PutToken, PutTokens, WriteTokens, histVars, TokenStore!Write, TokenStore!Next
<1>2. CASE IssueTokens
  BY <1>0, <1>2 DEF IssueTokens, PutTokens, WriteTokens, histVars, TokenStore!Write, TokenStore!Next
<1>3. CASE WriteAsset
  BY <1>3 DEF WriteAsset, PutAsset, histVars, TokenStore!vars
<1>4. CASE StartBlock
  BY <1>0, <1>4, StoreSave DEF StartBlock, TokenStore!Next
<1>5. CASE StartTrx
  <2>1. savepoints \in Seq(Savepoints) /\ Len(savepoints) > 0
    BY <1>5 DEF StartTrx, IInv, BaseInv, TokenTypeOK
  <2>2. Last(savepoints) \in Savepoints
    BY <2>1, StackFacts
  <2>3. Last(savepoints).seq + 1 \in Nat
    BY <2>2 DEF Savepoints
  <2> QED BY <1>5, <2>3, StoreSave DEF StartTrx, TokenStore!Next
<1>6. CASE SquashTrx
  BY <1>6, StoreOps DEF SquashTrx, IInv, BaseInv, TokenTypeOK, TokenStore!Squash, TokenStore!Next
<1>7. CASE UndoTrx
  BY <1>7, StoreRollback DEF UndoTrx, TokenStore!Next
<1>8. CASE AbortBlock
  BY <1>8, StoreRollback DEF AbortBlock, TokenStore!Next
<1>9. CASE CommitBlock
  BY <1>9 DEF CommitBlock, dbVars, histVars, TokenStore!vars
<1>10. CASE PopBlock
  BY <1>10, StoreRollback DEF PopBlock, TokenStore!Next
<1>11. CASE Irreversible
  BY <1>0, <1>11, StorePop DEF Irreversible
<1>12. CASE Restart
  BY <1>12 DEF Restart, histVars, TokenStore!vars
<1>13. CASE UNCHANGED vars
  BY <1>13 DEF vars, dbVars, histVars, TokenStore!vars
<1> QED
  BY <1>1, <1>2, <1>3, <1>4, <1>5, <1>6, <1>7, <1>8, <1>9, <1>10, <1>11, <1>12, <1>13 DEF Next

(* The savepoint stack with its snapshots, action lists and restarts is,   *)
(* to its callers, a stack of remembered states: every behaviour of the    *)
(* token side is one of SavepointStore, under the same condition.          *)
THEOREM TokenStoreRefinement == ASSUME Recoverable PROVE Spec => TokenStoreSpec
<1>1. IInv /\ [Next]_vars => IInv'
  BY IInvStep
<1>2. IInv /\ IInv' /\ [Next]_vars => [TokenStore!Next]_(TokenStore!vars)
  BY StoreStep DEF IInv
<1> QED BY IInvInit, <1>1, StoreInit, <1>2, PTL DEF Spec, TokenStoreSpec, TokenStore!Spec
-----------------------------------------------------------------------------
(*************************************************************************)
(* Proofs about the asset side of the token database, for any keys, values *)
(* and bounds: the write cache counts its users right, stays in step with  *)
(* the savepoints and the block numbers, and irreversible blocks and       *)
(* restarts change no balance that a reader sees.  A rollback is exact but *)
(* for the balances whose replaced values were thrown away.                *)
(*                                                                         *)
(* The inductive invariant is AssetInv: Healthy(wcache), which every       *)
(* method of write_cache_layer keeps, and Stacked, which numbers both      *)
(* stacks from the oldest block that may be undone up to the head and the  *)
(* open sessions.  Exact rollback also needs Traced: what each savepoint's *)
(* writes do to a key, in the values that were replaced (pv), in the cache *)
(* and in the column family below it, agrees with the balance remembered   *)
(* when the savepoint was taken; a balance is Held when its first write    *)
(* under a savepoint replaced a cached value, be it that of a savepoint    *)
(* that pop_front has dropped.                                             *)
(*************************************************************************)
(* The states of the write cache.                                          *)
Writes == [key : AssetKeys, pv : Values \cup {Empty}]
Levels == [seq : Nat, vec : Seq(Writes)]
Entries == [used : Nat, value : Values \cup {NoVal}]
Caches == [data : [AssetKeys -> Entries], ops : Seq(Levels)]

(* The writes of key k under the i-th savepoint, and the value one         *)
(* replaced.                                                               *)
At(wc, i, k) == {j \in DOMAIN wc.ops[i].vec : wc.ops[i].vec[j].key = k}
Pv(wc, i, j) == wc.ops[i].vec[j].pv
(* A savepoint below the i-th one has a write of k.                        *)
Below(wc, i, k) == \E m \in 1..(i - 1) : At(wc, m, k) # {}
(* All recorded writes of k.                                               *)
Uses(wc, k) == OpsOn(wc, 1..Len(wc.ops), k)

(* The parts of a cache have their types.                                  *)
LEMMA CacheFacts ==
    ASSUME NEW wc \in Caches
    PROVE  /\ Len(wc.ops) \in Nat /\ DOMAIN wc.ops = 1..Len(wc.ops)
           /\ \A i \in 1..Len(wc.ops) :
                /\ wc.ops[i].seq \in Nat /\ wc.ops[i].vec \in Seq(Writes)
                /\ Len(wc.ops[i].vec) \in Nat /\ DOMAIN wc.ops[i].vec = 1..Len(wc.ops[i].vec)
                /\ \A j \in 1..Len(wc.ops[i].vec) :
                      wc.ops[i].vec[j].key \in AssetKeys /\ Pv(wc, i, j) \in Values \cup {Empty}
<1>1. wc.ops \in Seq(Levels)
  BY DEF Caches
<1>2. \A i \in 1..Len(wc.ops) : wc.ops[i] \in Levels
  BY <1>1
<1>3. \A i \in 1..Len(wc.ops) : wc.ops[i].seq \in Nat /\ wc.ops[i].vec \in Seq(Writes)
  BY <1>2 DEF Levels
<1>4. \A s \in Seq(Writes) : /\ Len(s) \in Nat /\ DOMAIN s = 1..Len(s)
                             /\ \A j \in 1..Len(s) : s[j].key \in AssetKeys /\ s[j].pv \in Values \cup {Empty}
  <2> SUFFICES ASSUME NEW s \in Seq(Writes), NEW j \in 1..Len(s)
               PROVE  s[j].key \in AssetKeys /\ s[j].pv \in Values \cup {Empty}
    OBVIOUS
  <2>1. s[j] \in Writes
    OBVIOUS
  <2> QED BY <2>1 DEF Writes
<1> QED BY <1>1, <1>3, <1>4 DEF Pv

(* The writes of a key under a savepoint are finitely many.                *)
LEMMA AtFacts ==
    ASSUME NEW wc \in Caches, NEW i \in 1..Len(wc.ops), NEW k
    PROVE  /\ At(wc, i, k) \subseteq 1..Len(wc.ops[i].vec) /\ IsFiniteSet(At(wc, i, k))
           /\ At(wc, i, k) \subseteq Nat
           /\ \A j \in At(wc, i, k) : Pv(wc, i, j) \in Values \cup {Empty}
<1>1. At(wc, i, k) \subseteq 1..Len(wc.ops[i].vec) /\ Len(wc.ops[i].vec) \in Nat
  BY CacheFacts DEF At
<1>2. IsFiniteSet(1..Len(wc.ops[i].vec)) /\ 1..Len(wc.ops[i].vec) \subseteq Nat
  <2>1. \A n \in Nat : IsFiniteSet(1..n) /\ 1..n \subseteq Nat
    BY FS_Interval
  <2> QED BY <1>1, <2>1
<1>3. IsFiniteSet(At(wc, i, k))
  BY <1>1, <1>2, FS_Subset
<1>4. \A j \in At(wc, i, k) : Pv(wc, i, j) \in Values \cup {Empty}
  BY <1>1, CacheFacts
<1> QED BY <1>1, <1>2, <1>3, <1>4

(* The first of a set of numbers is well defined.                          *)
LEMMA FirstAt ==
    ASSUME NEW D, D \subseteq Nat, D # {}
    PROVE  LET f == CHOOSE j \in D : \A i \in D : j <= i
           IN f \in D /\ \A i \in D : f <= i
<1>1. \E j \in D : \A i \in D : j <= i
  <2>1. IsWellFoundedOn(OpToRel(<, Nat), Nat)
    BY NatLessThanWellFounded
  <2>2. PICK x \in D : \A y \in D : ~(<<y, x>> \in OpToRel(<, Nat))
    BY <2>1, WFMin, Zenon
  <2>3. \A y \in D : ~(y < x)
    BY <2>2 DEF OpToRel
  <2> QED BY <2>3
<1> QED BY <1>1

(* A recorded write is a savepoint and a place in its list.                *)
LEMMA OnPair ==
    ASSUME NEW wc, NEW I, NEW k, NEW p
    PROVE  p \in OpsOn(wc, I, k) <=> \E i \in I : \E j \in At(wc, i, k) : p = <<i, j>>
  BY DEF OpsOn, At

(* The members of D, counted from b, paired with a.                        *)
Pairs(a, b, D) == {<<a, b + j>> : j \in D}

(* Pairing a set with a number does not change its size.                   *)
LEMMA PairsCount ==
    ASSUME NEW D, D \subseteq Nat, IsFiniteSet(D), NEW a, NEW b \in Nat
    PROVE  IsFiniteSet(Pairs(a, b, D)) /\ Cardinality(Pairs(a, b, D)) = Cardinality(D)
<1> DEFINE T == {<<a, b + j>> : j \in D}
           f == [j \in D |-> <<a, b + j>>]
<1>1. f \in [D -> T]
  OBVIOUS
<1>2. \A x, y \in D : f[x] = f[y] => x = y
  <2> SUFFICES ASSUME NEW x \in D, NEW y \in D, f[x] = f[y] PROVE x = y
    OBVIOUS
  <2>1. <<a, b + x>> = <<a, b + y>>
    OBVIOUS
  <2>2. b + x = b + y
    BY <2>1
  <2> QED BY <2>2
<1>3. \A t \in T : \E j \in D : f[j] = t
  OBVIOUS
<1> HIDE DEF T, f
<1>4. f \in Bijection(D, T)
  BY <1>1, <1>2, <1>3 DEF Bijection, Injection, Surjection, IsInjective
<1>5. ExistsBijection(D, T)
  BY <1>4 DEF ExistsBijection
<1>6. IsFiniteSet(T) /\ Cardinality(T) = Cardinality(D)
  BY <1>5, FS_Bijection
<1> QED BY <1>6 DEF T, Pairs

(* The recorded writes of a key are finitely many.                         *)
LEMMA OpsFinite ==
    ASSUME NEW wc \in Caches, NEW I, I \subseteq 1..Len(wc.ops), NEW k
    PROVE  IsFiniteSet(OpsOn(wc, I, k))
<1> DEFINE part(i) == {<<i, j>> : j \in At(wc, i, k)}
           T == {part(i) : i \in I}
           f == [i \in I |-> part(i)]
<1>1. IsFiniteSet(I)
  <2>1. \A n \in Nat : IsFiniteSet(1..n)
    BY FS_Interval
  <2>2. Len(wc.ops) \in Nat
    BY CacheFacts
  <2> QED BY <2>1, <2>2, FS_Subset
<1>2. \A i \in I : IsFiniteSet(part(i))
  <2> SUFFICES ASSUME NEW i \in I PROVE IsFiniteSet(part(i))
    OBVIOUS
  <2>1. At(wc, i, k) \subseteq Nat /\ IsFiniteSet(At(wc, i, k))
    BY AtFacts
  <2>2. 0 \in Nat /\ IsFiniteSet(Pairs(i, 0, At(wc, i, k)))
    BY <2>1, PairsCount
  <2>3. part(i) = Pairs(i, 0, At(wc, i, k))
    BY <2>1 DEF Pairs
  <2> QED BY <2>2, <2>3
<1>3. f \in Surjection(I, T)
  <2> HIDE DEF part
  <2> QED BY DEF Surjection
<1>4. IsFiniteSet(T)
  <2> HIDE DEF f, T
  <2> QED BY <1>1, <1>3, FS_Surjection
<1>5. \A t \in T : IsFiniteSet(t)
  <2> HIDE DEF part
  <2> QED BY <1>2
<1>6. OpsOn(wc, I, k) = UNION T
  BY DEF OpsOn, At
<1> HIDE DEF T
<1> QED BY <1>4, <1>5, <1>6, FS_UNION

(* Writes under different savepoints add up.                               *)
LEMMA OpsSplit ==
    ASSUME NEW wc \in Caches, NEW I, NEW J, I \cup J \subseteq 1..Len(wc.ops), I \cap J = {}, NEW k
    PROVE  /\ Cardinality(OpsOn(wc, I \cup J, k)) = Cardinality(OpsOn(wc, I, k)) + Cardinality(OpsOn(wc, J, k))
           /\ Cardinality(OpsOn(wc, I, k)) \in Nat /\ Cardinality(OpsOn(wc, J, k)) \in Nat
<1> DEFINE A == OpsOn(wc, I, k)
           B == OpsOn(wc, J, k)
<1>1. IsFiniteSet(A) /\ IsFiniteSet(B)
  BY OpsFinite
<1>2. OpsOn(wc, I \cup J, k) = A \cup B
  <2>1. \A p : p \in OpsOn(wc, I \cup J, k) <=> p \in A \/ p \in B
    BY OnPair
  <2> HIDE DEF A, B
  <2> QED BY <2>1
<1>3. A \cap B = {}
  BY OnPair
<1> HIDE DEF A, B
<1>4. Cardinality(A \cup B) = Cardinality(A) + Cardinality(B) - Cardinality({})
  BY <1>1, <1>3, FS_Union
<1>5. Cardinality(A) \in Nat /\ Cardinality(B) \in Nat /\ Cardinality({}) = 0
  BY <1>1, FS_CardinalityType, FS_EmptySet
<1>6. Cardinality(A \cup B) = Cardinality(A) + Cardinality(B)
  BY <1>4, <1>5
<1> QED BY <1>2, <1>5, <1>6 DEF A, B

(* The writes under one savepoint.                                         *)
LEMMA OpsOne ==
    ASSUME NEW wc \in Caches, NEW i \in 1..Len(wc.ops), NEW k
    PROVE  Cardinality(OpsOn(wc, {i}, k)) = Cardinality(At(wc, i, k))
<1>1. At(wc, i, k) \subseteq Nat /\ IsFiniteSet(At(wc, i, k))
  BY AtFacts
<1>2. OpsOn(wc, {i}, k) = Pairs(i, 0, At(wc, i, k))
  <2>1. \A j \in At(wc, i, k) : 0 + j = j
    BY <1>1
  <2>2. \A p : p \in OpsOn(wc, {i}, k) <=> \E j \in At(wc, i, k) : p = <<i, j>>
    BY OnPair
  <2> QED BY <2>1, <2>2 DEF Pairs
<1>3. 0 \in Nat
  OBVIOUS
<1> QED BY <1>1, <1>2, <1>3, PairsCount

(* The recorded writes are the same when each savepoint has the same.      *)
LEMMA OpsSame ==
    ASSUME NEW wc, NEW wd, NEW I, NEW k, \A i \in I : At(wd, i, k) = At(wc, i, k)
    PROVE  OpsOn(wd, I, k) = OpsOn(wc, I, k)
<1>1. \A p : p \in OpsOn(wd, I, k) <=> p \in OpsOn(wc, I, k)
  BY OnPair
<1> QED BY <1>1

(* A count of zero means that nobody wrote the key.                        *)
LEMMA OpsNone ==
    ASSUME NEW wc \in Caches, NEW I, I \subseteq 1..Len(wc.ops), NEW k
    PROVE  /\ (Cardinality(OpsOn(wc, I, k)) = 0) <=> \A i \in I : At(wc, i, k) = {}
           /\ (OpsOn(wc, I, k) = {}) <=> \A i \in I : At(wc, i, k) = {}
<1>1. (OpsOn(wc, I, k) = {}) <=> \A i \in I : At(wc, i, k) = {}
  <2>1. ASSUME NEW i \in I, NEW j \in At(wc, i, k) PROVE <<i, j>> \in OpsOn(wc, I, k)
    BY OnPair
  <2>2. ASSUME NEW p \in OpsOn(wc, I, k) PROVE \E i \in I : At(wc, i, k) # {}
    BY OnPair
  <2> QED BY <2>1, <2>2
<1>2. (Cardinality(OpsOn(wc, I, k)) = 0) <=> OpsOn(wc, I, k) = {}
  BY OpsFinite, FS_EmptySet
<1> QED BY <1>1, <1>2

-----------------------------------------------------------------------------

(* The value that a write of k replaces.                                   *)
PvOf(wc, k) == IF Cached(wc, k) THEN wc.data[k].value ELSE Empty

(* wd is wc after a write of k, recorded as the x-th under savepoint n.    *)
IsPut(wc, wd, n, x, k, v) ==
    /\ wd \in Caches /\ Len(wd.ops) = n /\ x \in Nat
    /\ \A i \in 1..n : wd.ops[i].seq = wc.ops[i].seq
    /\ wd.data[k] = [used |-> wc.data[k].used + 1, value |-> v]
    /\ \A q \in AssetKeys \ {k} : wd.data[q] = wc.data[q]
    /\ \A j \in At(wc, n, k) : j < x
    /\ At(wd, n, k) = At(wc, n, k) \cup {x} /\ Pv(wd, n, x) = PvOf(wc, k)
    /\ \A i \in 1..n, q \in AssetKeys : i # n \/ q # k => At(wd, i, q) = At(wc, i, q)
    /\ \A i \in 1..n, q \in AssetKeys : \A j \in At(wc, i, q) : Pv(wd, i, j) = Pv(wc, i, j)

(* What put changes.                                                       *)
LEMMA PutFacts ==
    ASSUME NEW wc \in Caches, Len(wc.ops) > 0, NEW k \in AssetKeys, NEW v \in Values,
           Cached(wc, k) => wc.data[k].value \in Values
    PROVE  IsPut(wc, WCPut(wc, k, v), Len(wc.ops), Len(wc.ops[Len(wc.ops)].vec) + 1, k, v)
<1> DEFINE n == Len(wc.ops)
           wd == WCPut(wc, k, v)
           vec == wc.ops[n].vec
           x == Len(vec) + 1
           e == [key |-> k, pv |-> PvOf(wc, k)]
           lev == [wc.ops[n] EXCEPT !.vec = Append(@, e)]
<1>1. /\ n \in Nat /\ n \in 1..n /\ DOMAIN wc.ops = 1..n /\ wc.ops \in Seq(Levels)
      /\ wc.ops[n] \in Levels /\ vec \in Seq(Writes) /\ wc.ops[n].seq \in Nat
  <2>1. wc.ops \in Seq(Levels) /\ n \in Nat /\ DOMAIN wc.ops = 1..n
    BY CacheFacts DEF Caches
  <2>2. n \in 1..n
    BY <2>1
  <2>3. wc.ops[n] \in Levels
    BY <2>1, <2>2
  <2> QED BY <2>1, <2>2, <2>3 DEF Levels
<1>2. wc.data \in [AssetKeys -> Entries]
  BY DEF Caches
<1>3. e \in Writes
  BY DEF Writes, PvOf
<1>4. /\ Append(vec, e) \in Seq(Writes) /\ Len(vec) \in Nat /\ x \in Nat
      /\ DOMAIN Append(vec, e) = 1..x /\ DOMAIN vec = 1..Len(vec)
      /\ Append(vec, e)[x] = e /\ \A j \in 1..Len(vec) : Append(vec, e)[j] = vec[j]
  <2> HIDE DEF e, n
  <2> QED BY <1>1, <1>3
<1>5. wd.data = [wc.data EXCEPT ![k] = [used |-> @.used + 1, value |-> v]]
      /\ wd.ops = [wc.ops EXCEPT ![n] = lev] /\ wd = [data |-> wd.data, ops |-> wd.ops]
  BY DEF WCPut, PvOf
<1>6. lev \in Levels /\ lev.seq = wc.ops[n].seq /\ lev.vec = Append(vec, e)
  <2> HIDE DEF e, n
  <2> QED BY <1>1, <1>4 DEF Levels
<1>7. wd.ops \in Seq(Levels) /\ Len(wd.ops) = n /\ wd.ops[n] = lev
      /\ \A i \in 1..n : i # n => wd.ops[i] = wc.ops[i]
  <2> HIDE DEF lev, wd
  <2> QED BY <1>1, <1>5, <1>6
<1>8. /\ wd.data \in [AssetKeys -> Entries]
      /\ wd.data[k] = [used |-> wc.data[k].used + 1, value |-> v]
      /\ \A q \in AssetKeys \ {k} : wd.data[q] = wc.data[q]
  <2>1. wc.data[k].used + 1 \in Nat
    BY <1>2 DEF Entries
  <2>2. [used |-> wc.data[k].used + 1, value |-> v] \in Entries
    BY <2>1 DEF Entries
  <2> HIDE DEF wd
  <2> QED BY <1>2, <1>5, <2>2
<1>9. wd \in Caches
  <2> HIDE DEF wd
  <2> QED BY <1>5, <1>7, <1>8 DEF Caches
<1>10. \A i \in 1..n : wd.ops[i].seq = wc.ops[i].seq
  <2> HIDE DEF wd, lev
  <2> QED BY <1>6, <1>7
<1> HIDE DEF wd, lev
<1>11. wd.ops[n].vec = Append(vec, e)
  BY <1>6, <1>7
<1>12. \A j \in At(wc, n, k) : j \in 1..Len(vec) /\ j < x
  <2>1. \A j \in At(wc, n, k) : j \in 1..Len(vec)
    BY <1>4 DEF At
  <2>2. \A j \in 1..Len(vec) : j < x
    BY <1>4
  <2> QED BY <2>1, <2>2
<1>13. \A q \in AssetKeys : At(wd, n, q) = At(wc, n, q) \cup (IF q = k THEN {x} ELSE {})
  <2> SUFFICES ASSUME NEW q \in AssetKeys, NEW j
               PROVE  j \in At(wd, n, q) <=> j \in At(wc, n, q) \/ (q = k /\ j = x)
    OBVIOUS
  <2>1. j \in At(wd, n, q) <=> j \in 1..x /\ Append(vec, e)[j].key = q
    BY <1>4, <1>11 DEF At
  <2>2. j \in At(wc, n, q) <=> j \in 1..Len(vec) /\ vec[j].key = q
    BY <1>4 DEF At
  <2>3. j \in 1..x <=> j \in 1..Len(vec) \/ j = x
    <3>1. \A m \in Nat : j \in 1..(m + 1) <=> j \in 1..m \/ j = m + 1
      OBVIOUS
    <3> QED BY <1>4, <3>1
  <2>4. e.key = k
    OBVIOUS
  <2>5. j \in 1..Len(vec) => j # x
    <3>1. \A m \in Nat : m + 1 \notin 1..m
      OBVIOUS
    <3> QED BY <1>4, <3>1
  <2> HIDE DEF e, vec, x
  <2> QED BY <1>4, <2>1, <2>2, <2>3, <2>4, <2>5
<1>14. \A i \in 1..n, q \in AssetKeys : i # n \/ q # k => At(wd, i, q) = At(wc, i, q)
  <2> SUFFICES ASSUME NEW i \in 1..n, NEW q \in AssetKeys, i # n \/ q # k
               PROVE  At(wd, i, q) = At(wc, i, q)
    OBVIOUS
  <2>1. CASE i # n
    BY <1>7, <2>1 DEF At
  <2>2. CASE i = n
    BY <1>13, <2>2
  <2> QED BY <2>1, <2>2
<1>15. At(wd, n, k) = At(wc, n, k) \cup {x} /\ Pv(wd, n, x) = PvOf(wc, k)
  BY <1>4, <1>11, <1>13 DEF Pv
<1>16. \A i \in 1..n, q \in AssetKeys : \A j \in At(wc, i, q) : Pv(wd, i, j) = Pv(wc, i, j)
  <2> SUFFICES ASSUME NEW i \in 1..n, NEW q \in AssetKeys, NEW j \in At(wc, i, q)
               PROVE  Pv(wd, i, j) = Pv(wc, i, j)
    OBVIOUS
  <2>1. CASE i # n
    BY <1>7, <2>1 DEF Pv
  <2>2. CASE i = n
    <3>1. j \in 1..Len(vec)
      BY <1>4, <2>2 DEF At
    <3> QED BY <1>4, <1>11, <2>2, <3>1 DEF Pv
  <2> QED BY <2>1, <2>2
<1>17. IsPut(wc, wd, n, x, k, v)
  BY <1>4, <1>7, <1>8, <1>9, <1>10, <1>12, <1>14, <1>15, <1>16 DEF IsPut
<1> QED BY <1>17 DEF wd

(* Replacing the savepoints of a cache.                                    *)
LEMMA WithOps ==
    ASSUME NEW wc \in Caches, NEW x
    PROVE  [wc EXCEPT !.ops = x] = [data |-> wc.data, ops |-> x]
  BY DEF Caches

(* What add_savepoint changes.                                             *)
LEMMA AddFacts ==
    ASSUME NEW wc \in Caches, NEW q \in Nat
    PROVE  LET wd == WCAddSavepoint(wc, q)
               n == Len(wc.ops)
           IN /\ wd \in Caches /\ Len(wd.ops) = n + 1 /\ wd.data = wc.data
              /\ \A i \in 1..n : wd.ops[i] = wc.ops[i]
              /\ wd.ops[n + 1].seq = q /\ \A k : At(wd, n + 1, k) = {}
<1> DEFINE n == Len(wc.ops)
           wd == WCAddSavepoint(wc, q)
           lev == [seq |-> q, vec |-> <<>>]
<1>1. n \in Nat /\ wc.ops \in Seq(Levels) /\ wc.data \in [AssetKeys -> Entries]
  BY CacheFacts DEF Caches
<1>2. lev \in Levels
  BY DEF Levels
<1>3. wd = [data |-> wc.data, ops |-> Append(wc.ops, lev)]
  <2>1. wd = [wc EXCEPT !.ops = Append(@, lev)]
    BY DEF WCAddSavepoint
  <2>2. wd = [wc EXCEPT !.ops = Append(wc.ops, lev)]
    BY <2>1
  <2> HIDE DEF lev, wd
  <2> QED BY <2>2, WithOps
<1>4. wd.data = wc.data /\ wd.ops = Append(wc.ops, lev)
  BY <1>3
<1> HIDE DEF lev, wd
<1>5. wd.ops \in Seq(Levels) /\ Len(wd.ops) = n + 1 /\ wd.ops[n + 1] = lev
      /\ \A i \in 1..n : wd.ops[i] = wc.ops[i]
  BY <1>1, <1>2, <1>4
<1>6. wd \in Caches
  BY <1>1, <1>3, <1>4, <1>5 DEF Caches
<1>7. lev.seq = q /\ lev.vec = <<>>
  BY DEF lev
<1>8. \A k : At(wd, n + 1, k) = {}
  BY <1>5, <1>7 DEF At
<1> QED BY <1>4, <1>5, <1>6, <1>7, <1>8 DEF wd
(* What the cache entry of a key is after a rollback.                      *)
Back(wc, k) ==
    LET D == At(wc, Len(wc.ops), k)
        left == wc.data[k].used - Cardinality(D)
    IN IF D = {} THEN wc.data[k]
       ELSE IF left = 0 THEN NoEntry
       ELSE [used |-> left, value |-> Pv(wc, Len(wc.ops), CHOOSE j \in D : \A i \in D : j <= i)]

(* What rollback_to_latest_savepoint changes.                              *)
LEMMA RollbackFacts ==
    ASSUME NEW wc \in Caches, Len(wc.ops) > 0
    PROVE  LET wd == WCRollback(wc)
               n == Len(wc.ops)
           IN /\ wd = [data |-> wd.data, ops |-> wd.ops] /\ wd.ops \in Seq(Levels) /\ Len(wd.ops) = n - 1
              /\ DOMAIN wd.data = AssetKeys /\ wd.data = [k \in AssetKeys |-> Back(wc, k)]
              /\ \A i \in 1..(n - 1) : wd.ops[i] = wc.ops[i]
<1> DEFINE n == Len(wc.ops)
           wd == WCRollback(wc)
<1>1. n \in Nat /\ wc.ops \in Seq(Levels)
  BY CacheFacts DEF Caches
<1>2. /\ Front(wc.ops) \in Seq(Levels) /\ Len(Front(wc.ops)) = n - 1
      /\ \A i \in 1..(n - 1) : Front(wc.ops)[i] = wc.ops[i]
      /\ Last(wc.ops) = wc.ops[n]
  BY <1>1, StackFacts
<1>3. wd = [data |-> wd.data, ops |-> wd.ops] /\ wd.ops = Front(wc.ops)
  BY DEF WCRollback
<1>4. wd.data = [k \in AssetKeys |-> Back(wc, k)]
  BY <1>2 DEF WCRollback, Back, At, Pv
<1> HIDE DEF wd
<1> QED BY <1>2, <1>3, <1>4 DEF wd

(* What squash changes: the latest writes follow those of the savepoint    *)
(* below.                                                                  *)
LEMMA SquashFacts ==
    ASSUME NEW wc \in Caches, Len(wc.ops) >= 2
    PROVE  LET wd == WCSquash(wc)
               n == Len(wc.ops)
               x == Len(wc.ops[n - 1].vec)
           IN /\ wd \in Caches /\ Len(wd.ops) = n - 1 /\ wd.data = wc.data /\ x \in Nat
              /\ \A i \in 1..(n - 1) : wd.ops[i].seq = wc.ops[i].seq
              /\ \A i \in 1..(n - 2) : wd.ops[i] = wc.ops[i]
              /\ \A k : \A j \in At(wc, n - 1, k) : j <= x
              /\ \A k : At(wd, n - 1, k) = At(wc, n - 1, k) \cup {x + j : j \in At(wc, n, k)}
              /\ \A k : \A j \in At(wc, n - 1, k) : Pv(wd, n - 1, j) = Pv(wc, n - 1, j)
              /\ \A k : \A j \in At(wc, n, k) : Pv(wd, n - 1, x + j) = Pv(wc, n, j)
<1> DEFINE n == Len(wc.ops)
           wd == WCSquash(wc)
           u == wc.ops[n - 1].vec
           v == wc.ops[n].vec
           x == Len(u)
           front == Front(wc.ops)
           lev == [wc.ops[n - 1] EXCEPT !.vec = u \o v]
<1>1. n \in Nat /\ n >= 2 /\ wc.ops \in Seq(Levels) /\ wc.data \in [AssetKeys -> Entries]
  BY CacheFacts DEF Caches
<1>2. /\ front \in Seq(Levels) /\ Len(front) = n - 1
      /\ \A i \in 1..(n - 1) : front[i] = wc.ops[i]
  <2>1. wc.ops \in Seq(Levels) /\ Len(wc.ops) > 0
    BY <1>1
  <2> QED BY ONLY <2>1, StackFacts
<1>3. n - 1 \in 1..(n - 1) /\ n - 1 \in 1..n /\ n \in 1..n
  BY <1>1
<1>4. wc.ops[n - 1] \in Levels /\ u \in Seq(Writes) /\ v \in Seq(Writes)
  <2>1. wc.ops[n - 1] \in Levels
    BY <1>1, <1>3
  <2> QED BY <1>3, <2>1, CacheFacts
<1>5. /\ u \o v \in Seq(Writes) /\ x \in Nat /\ Len(v) \in Nat
      /\ DOMAIN u = 1..x /\ DOMAIN v = 1..Len(v) /\ DOMAIN (u \o v) = 1..(x + Len(v))
      /\ \A j \in 1..x : (u \o v)[j] = u[j]
      /\ \A j \in 1..Len(v) : (u \o v)[x + j] = v[j]
  <2> HIDE DEF u, v
  <2> QED BY <1>4
<1>6. lev \in Levels /\ lev.seq = wc.ops[n - 1].seq /\ lev.vec = u \o v
  BY <1>4, <1>5 DEF Levels
<1>7. wd = [wc EXCEPT !.ops = [front EXCEPT ![n - 1] = lev]]
  <2>1. wd = [wc EXCEPT !.ops = [front EXCEPT ![n - 1].vec = @ \o v]]
    BY DEF WCSquash
  <2>2. front[n - 1] = wc.ops[n - 1]
    BY <1>2, <1>3
  <2>3. [front EXCEPT ![n - 1].vec = @ \o v] = [front EXCEPT ![n - 1] = lev]
    BY <2>2
  <2> QED BY <2>1, <2>3
<1>8. wd = [data |-> wc.data, ops |-> [front EXCEPT ![n - 1] = lev]]
  <2> HIDE DEF lev, front, wd, n
  <2> QED BY <1>7, WithOps
<1>9. wd.data = wc.data /\ wd.ops = [front EXCEPT ![n - 1] = lev]
  BY <1>8
<1> HIDE DEF wd, lev
<1>10. wd.ops \in Seq(Levels) /\ Len(wd.ops) = n - 1 /\ wd.ops[n - 1] = lev
       /\ \A i \in 1..(n - 1) : i # n - 1 => wd.ops[i] = front[i]
  <2> HIDE DEF front
  <2> QED BY <1>1, <1>2, <1>3, <1>6, <1>9
<1>11. wd \in Caches
  BY <1>1, <1>8, <1>9, <1>10 DEF Caches
<1>12. \A i \in 1..(n - 2) : wd.ops[i] = wc.ops[i]
  <2>1. \A i \in 1..(n - 2) : i \in 1..(n - 1) /\ i # n - 1
    BY <1>1
  <2> QED BY <1>2, <1>10, <2>1
<1>13. \A i \in 1..(n - 1) : wd.ops[i].seq = wc.ops[i].seq
  BY <1>2, <1>6, <1>10
<1>14. wd.ops[n - 1].vec = u \o v
  BY <1>6, <1>10
<1>15. \A k : \A j \in At(wc, n - 1, k) : j <= x /\ j \in 1..x
  <2>1. \A k : \A j \in At(wc, n - 1, k) : j \in 1..x
    BY <1>5 DEF At
  <2> QED BY <1>5, <2>1
<1>16. \A k : \A j \in At(wc, n, k) : j \in 1..Len(v)
  BY <1>5 DEF At
<1>17. \A k : At(wd, n - 1, k) = At(wc, n - 1, k) \cup {x + j : j \in At(wc, n, k)}
  <2> SUFFICES ASSUME NEW k, NEW j
               PROVE  j \in At(wd, n - 1, k)
                        <=> j \in At(wc, n - 1, k) \/ \E i \in At(wc, n, k) : j = x + i
    OBVIOUS
  <2>1. j \in At(wd, n - 1, k) <=> j \in 1..(x + Len(v)) /\ (u \o v)[j].key = k
    BY <1>5, <1>14 DEF At
  <2>2. j \in At(wc, n - 1, k) <=> j \in 1..x /\ u[j].key = k
    BY <1>5 DEF At
  <2>3. \A i : i \in At(wc, n, k) <=> i \in 1..Len(v) /\ v[i].key = k
    BY <1>5 DEF At
  <2>4. \A a, b \in Nat : j \in 1..(a + b) <=> j \in 1..a \/ \E i \in 1..b : j = a + i
    <3>1. ASSUME NEW a \in Nat, NEW b \in Nat, j \in 1..(a + b), j \notin 1..a
          PROVE  \E i \in 1..b : j = a + i
      <4>1. j - a \in 1..b /\ j = a + (j - a)
        BY <3>1
      <4> QED BY <4>1
    <3>2. ASSUME NEW a \in Nat, NEW b \in Nat, j \in 1..a \/ \E i \in 1..b : j = a + i
          PROVE  j \in 1..(a + b)
      BY <3>2
    <3> QED BY <3>1, <3>2
  <2>5. j \in 1..(x + Len(v)) <=> j \in 1..x \/ \E i \in 1..Len(v) : j = x + i
    BY <1>5, <2>4
  <2>6. \A a \in Nat : \A i \in Nat \ {0} : a + i \notin 1..a
    OBVIOUS
  <2>7. \A i \in 1..Len(v) : x + i \notin 1..x
    BY <1>5, <2>6
  <2>8. ASSUME j \in 1..x
        PROVE  j \in At(wd, n - 1, k) <=> j \in At(wc, n - 1, k)
    <3>1. (u \o v)[j] = u[j] /\ j \in 1..(x + Len(v))
      BY <1>5, <2>5, <2>8
    <3> HIDE DEF u, v
    <3> QED BY <2>1, <2>2, <2>8, <3>1
  <2>9. ASSUME NEW i \in 1..Len(v), j = x + i
        PROVE  j \in At(wd, n - 1, k) <=> i \in At(wc, n, k)
    <3>1. (u \o v)[j] = v[i] /\ j \in 1..(x + Len(v))
      BY <1>5, <2>5, <2>9
    <3> HIDE DEF u, v
    <3> QED BY <2>1, <2>3, <2>9, <3>1
  <2> HIDE DEF u, v, x
  <2> QED BY <1>15, <1>16, <2>1, <2>5, <2>7, <2>8, <2>9
<1>18. \A k : \A j \in At(wc, n - 1, k) : Pv(wd, n - 1, j) = Pv(wc, n - 1, j)
  BY <1>5, <1>14, <1>15 DEF Pv
<1>19. \A k : \A j \in At(wc, n, k) : Pv(wd, n - 1, x + j) = Pv(wc, n, j)
  BY <1>5, <1>14, <1>16 DEF Pv
<1>20. \A k : \A j \in At(wc, n - 1, k) : j <= x
  BY <1>15
<1>21. x \in Nat /\ wd.data = wc.data /\ Len(wd.ops) = n - 1
  BY <1>5, <1>9, <1>10
<1> HIDE DEF n, x, u, v
<1> QED BY <1>11, <1>12, <1>13, <1>17, <1>18, <1>19, <1>20, <1>21 DEF n, x, wd, u

-----------------------------------------------------------------------------

(* The parts of Healthy: entries count their writes, cached entries hold a *)
(* value, and a write that found an entry replaced a value.                *)
Count(wc, k) == Cardinality(Uses(wc, k))
Counted(wc) == \A k \in AssetKeys : wc.data[k].used = Count(wc, k)
Valued(wc) == \A k \in AssetKeys : Cached(wc, k) => wc.data[k].value \in Values
Replaced(wc) ==
    \A i \in 1..Len(wc.ops), k \in AssetKeys : \A j \in At(wc, i, k) :
        (Below(wc, i, k) \/ \E x \in At(wc, i, k) : x < j) => Pv(wc, i, j) \in Values

(* What every method of write_cache_layer keeps.                           *)
Healthy(wc) == wc \in Caches /\ Counted(wc) /\ Valued(wc) /\ Replaced(wc)

(* The parts of an entry have their types.                                 *)
LEMMA EntryFacts ==
    ASSUME NEW wc \in Caches, NEW k \in AssetKeys
    PROVE  /\ wc.data[k] \in Entries /\ wc.data[k].used \in Nat /\ wc.data[k].value \in Values \cup {NoVal}
           /\ DOMAIN wc.data = AssetKeys /\ wc = [data |-> wc.data, ops |-> wc.ops]
           /\ wc.data[k] = [used |-> wc.data[k].used, value |-> wc.data[k].value]
<1>1. wc.data \in [AssetKeys -> Entries] /\ wc = [data |-> wc.data, ops |-> wc.ops]
  BY DEF Caches
<1>2. wc.data[k] \in Entries
  BY <1>1
<1> QED BY <1>1, <1>2 DEF Entries

(* A key is cached exactly when some savepoint records a write of it.      *)
LEMMA CachedIff ==
    ASSUME NEW wc, Healthy(wc), NEW k \in AssetKeys
    PROVE  /\ Cached(wc, k) <=> \E i \in 1..Len(wc.ops) : At(wc, i, k) # {}
           /\ ~Cached(wc, k) => wc.data[k].used = 0
<1>1. wc \in Caches /\ wc.data[k].used = Count(wc, k)
  BY DEF Healthy, Counted
<1>2. wc.data[k].used \in Nat
  BY <1>1, EntryFacts
<1>3. Count(wc, k) = 0 <=> \A i \in 1..Len(wc.ops) : At(wc, i, k) = {}
  BY <1>1, OpsNone DEF Count, Uses
<1> QED BY <1>1, <1>2, <1>3 DEF Cached

(* The users of an entry: those under the latest savepoint and those       *)
(* below.                                                                  *)
LEMMA CountSplit ==
    ASSUME NEW wc \in Caches, Len(wc.ops) > 0, NEW k
    PROVE  LET n == Len(wc.ops)
           IN /\ Count(wc, k) = Cardinality(OpsOn(wc, 1..(n - 1), k)) + Cardinality(At(wc, n, k))
              /\ Cardinality(OpsOn(wc, 1..(n - 1), k)) \in Nat /\ Cardinality(At(wc, n, k)) \in Nat
<1> DEFINE n == Len(wc.ops)
<1>1. n \in Nat /\ n > 0
  BY CacheFacts
<1>2. 1..n = (1..(n - 1)) \cup {n} /\ (1..(n - 1)) \cap {n} = {} /\ n \in 1..n
  <2>1. \A m \in Nat : m > 0 => 1..m = (1..(m - 1)) \cup {m} /\ (1..(m - 1)) \cap {m} = {} /\ m \in 1..m
    OBVIOUS
  <2> HIDE DEF n
  <2> QED BY <1>1, <2>1
<1>3. Cardinality(OpsOn(wc, {n}, k)) = Cardinality(At(wc, n, k))
  BY <1>2, OpsOne
<1>4. /\ Cardinality(OpsOn(wc, (1..(n - 1)) \cup {n}, k))
            = Cardinality(OpsOn(wc, 1..(n - 1), k)) + Cardinality(OpsOn(wc, {n}, k))
      /\ Cardinality(OpsOn(wc, 1..(n - 1), k)) \in Nat /\ Cardinality(OpsOn(wc, {n}, k)) \in Nat
  BY <1>2, OpsSplit
<1> QED BY <1>2, <1>3, <1>4 DEF Count, Uses

(* put keeps the cache healthy.                                            *)
LEMMA HealthyPut ==
    ASSUME NEW wc, Healthy(wc), Len(wc.ops) > 0, NEW k \in AssetKeys, NEW v \in Values
    PROVE  Healthy(WCPut(wc, k, v))
<1> DEFINE n == Len(wc.ops)
           wd == WCPut(wc, k, v)
           x == Len(wc.ops[n].vec) + 1
<1>1. wc \in Caches /\ (Cached(wc, k) => wc.data[k].value \in Values) /\ n \in Nat /\ n > 0 /\ n \in 1..n
  <2>1. wc \in Caches
    BY DEF Healthy
  <2>2. n \in Nat
    BY <2>1, CacheFacts
  <2> QED BY <2>1, <2>2 DEF Healthy, Valued
<1>0. IsPut(wc, wd, n, x, k, v)
  BY <1>1, PutFacts
<1> HIDE DEF wd, x
<1>2. /\ wd \in Caches /\ Len(wd.ops) = n /\ x \in Nat
      /\ wd.data[k] = [used |-> wc.data[k].used + 1, value |-> v]
      /\ \A q \in AssetKeys \ {k} : wd.data[q] = wc.data[q]
      /\ \A j \in At(wc, n, k) : j < x
      /\ At(wd, n, k) = At(wc, n, k) \cup {x} /\ Pv(wd, n, x) = PvOf(wc, k)
      /\ \A i \in 1..n, q \in AssetKeys : i # n \/ q # k => At(wd, i, q) = At(wc, i, q)
      /\ \A i \in 1..n, q \in AssetKeys : \A j \in At(wc, i, q) : Pv(wd, i, j) = Pv(wc, i, j)
  BY <1>0 DEF IsPut
<1>3. Counted(wd)
  <2> SUFFICES ASSUME NEW q \in AssetKeys PROVE wd.data[q].used = Count(wd, q)
    BY DEF Counted
  <2>1. wc.data[q].used = Count(wc, q) /\ wc.data[q].used \in Nat
    BY EntryFacts DEF Healthy, Counted
  <2>2. CASE q # k
    <3>1. Uses(wd, q) = Uses(wc, q)
      BY <1>2, <2>2, OpsSame DEF Uses
    <3> QED BY <1>2, <2>1, <2>2, <3>1 DEF Count
  <2>3. CASE q = k
    <3>1. Uses(wd, k) = Uses(wc, k) \cup {<<n, x>>}
      <4>1. \A p : p \in Uses(wd, k) <=> p \in Uses(wc, k) \/ p = <<n, x>>
        <5> SUFFICES ASSUME NEW p
                     PROVE  p \in Uses(wd, k) <=> p \in Uses(wc, k) \/ p = <<n, x>>
          OBVIOUS
        <5>1. p \in Uses(wd, k) <=> \E i \in 1..n : \E j \in At(wd, i, k) : p = <<i, j>>
          BY <1>2, OnPair DEF Uses
        <5>2. p \in Uses(wc, k) <=> \E i \in 1..n : \E j \in At(wc, i, k) : p = <<i, j>>
          BY OnPair DEF Uses
        <5>3. \A i \in 1..n : i # n => At(wd, i, k) = At(wc, i, k)
          BY <1>2
        <5> HIDE DEF n
        <5> QED BY <1>1, <1>2, <5>1, <5>2, <5>3
      <4> QED BY <4>1
    <3>2. <<n, x>> \notin Uses(wc, k)
      <4>1. x \notin At(wc, n, k)
        BY <1>2
      <4> QED BY <4>1, OnPair DEF Uses
    <3>3. IsFiniteSet(Uses(wc, k))
      BY <1>1, OpsFinite DEF Uses
    <3>4. Count(wd, k) = Count(wc, k) + 1
      BY <3>1, <3>2, <3>3, FS_AddElement DEF Count
    <3> QED BY <1>2, <2>1, <2>3, <3>4
  <2> QED BY <2>2, <2>3
<1>4. Valued(wd)
  BY <1>2 DEF Healthy, Valued, Cached
<1>5. Replaced(wd)
  <2> SUFFICES ASSUME NEW i \in 1..n, NEW q \in AssetKeys, NEW j \in At(wd, i, q),
                      Below(wd, i, q) \/ \E y \in At(wd, i, q) : y < j
               PROVE  Pv(wd, i, j) \in Values
    BY <1>2 DEF Replaced
  <2>1. i - 1 < n /\ \A m \in 1..(i - 1) : m \in 1..n /\ m # n
    <3> HIDE DEF n
    <3> QED BY <1>1
  <2>2. Below(wd, i, q) => Below(wc, i, q)
    BY <1>2, <2>1 DEF Below
  <2>3. CASE j \in At(wc, i, q)
    <3>1. ASSUME NEW y \in At(wd, i, q), y < j PROVE y \in At(wc, i, q)
      <4>1. CASE i # n \/ q # k
        BY <1>2, <4>1
      <4>2. CASE i = n /\ q = k
        <5>1. j < x /\ j \in Nat
          BY <1>1, <1>2, <2>3, <4>2, AtFacts
        <5>2. y # x
          BY <1>2, <3>1, <5>1
        <5> QED BY <1>2, <4>2, <5>2
      <4> QED BY <4>1, <4>2
    <3>2. Below(wc, i, q) \/ \E y \in At(wc, i, q) : y < j
      BY <2>2, <3>1
    <3>3. Pv(wc, i, j) \in Values
      BY <2>3, <3>2 DEF Healthy, Replaced
    <3> QED BY <1>2, <2>3, <3>3
  <2>4. CASE j \notin At(wc, i, q)
    <3>1. i = n /\ q = k /\ j = x
      BY <1>2, <2>4
    <3>2. \E m \in 1..n : At(wc, m, k) # {}
      <4>1. CASE Below(wd, i, q)
        BY <2>1, <2>2, <3>1, <4>1 DEF Below
      <4>2. ASSUME NEW y \in At(wd, i, q), y < j PROVE At(wc, n, k) # {}
        <5>1. y # x
          BY <1>2, <3>1, <4>2
        <5> QED BY <1>2, <3>1, <5>1
      <4> QED BY <1>1, <4>1, <4>2
    <3>3. Cached(wc, k)
      BY <3>2, CachedIff
    <3> QED BY <1>1, <1>2, <3>1, <3>3 DEF PvOf
  <2> QED BY <2>3, <2>4
<1> QED BY <1>2, <1>3, <1>4, <1>5 DEF Healthy, wd

(* add_savepoint keeps the cache healthy.                                  *)
LEMMA HealthyAdd ==
    ASSUME NEW wc, Healthy(wc), NEW q \in Nat
    PROVE  Healthy(WCAddSavepoint(wc, q))
<1> DEFINE n == Len(wc.ops)
           wd == WCAddSavepoint(wc, q)
<1>1. wc \in Caches /\ n \in Nat
  BY CacheFacts DEF Healthy
<1>2. /\ wd \in Caches /\ Len(wd.ops) = n + 1 /\ wd.data = wc.data
      /\ \A i \in 1..n : wd.ops[i] = wc.ops[i]
      /\ \A k : At(wd, n + 1, k) = {}
  BY <1>1, AddFacts
<1> HIDE DEF wd
<1>3. \A i \in 1..n : \A k : At(wd, i, k) = At(wc, i, k) /\ \A j : Pv(wd, i, j) = Pv(wc, i, j)
  BY <1>2 DEF At, Pv
<1>4. \A i : i \in 1..(n + 1) <=> i \in 1..n \/ i = n + 1
  <2> HIDE DEF n
  <2> QED BY <1>1
<1>5. Counted(wd)
  <2> SUFFICES ASSUME NEW k \in AssetKeys PROVE wd.data[k].used = Count(wd, k)
    BY DEF Counted
  <2>1. \A p : p \in Uses(wd, k) <=> p \in Uses(wc, k)
    <3> SUFFICES ASSUME NEW p PROVE p \in Uses(wd, k) <=> p \in Uses(wc, k)
      OBVIOUS
    <3>1. p \in Uses(wd, k) <=> \E i \in 1..(n + 1) : \E j \in At(wd, i, k) : p = <<i, j>>
      BY <1>2, OnPair DEF Uses
    <3>2. p \in Uses(wc, k) <=> \E i \in 1..n : \E j \in At(wc, i, k) : p = <<i, j>>
      BY OnPair DEF Uses
    <3> HIDE DEF n
    <3> QED BY <1>2, <1>3, <1>4, <3>1, <3>2
  <2>2. Uses(wd, k) = Uses(wc, k)
    BY <2>1
  <2> QED BY <1>2, <2>2 DEF Count, Healthy, Counted
<1>6. Valued(wd)
  BY <1>2 DEF Healthy, Valued, Cached
<1>7. Replaced(wd)
  <2> SUFFICES ASSUME NEW i \in 1..(n + 1), NEW k \in AssetKeys, NEW j \in At(wd, i, k),
                      Below(wd, i, k) \/ \E y \in At(wd, i, k) : y < j
               PROVE  Pv(wd, i, j) \in Values
    BY <1>2 DEF Replaced
  <2>1. i \in 1..n
    BY <1>2, <1>4
  <2>2. \A m \in 1..(i - 1) : m \in 1..n
    <3> HIDE DEF n
    <3> QED BY <1>1, <2>1
  <2>3. Below(wd, i, k) => Below(wc, i, k)
    BY <1>3, <2>2 DEF Below
  <2>4. j \in At(wc, i, k) /\ (Below(wc, i, k) \/ \E y \in At(wc, i, k) : y < j)
    BY <1>3, <2>1, <2>3
  <2> QED BY <1>3, <2>1, <2>4 DEF Healthy, Replaced
<1> QED BY <1>2, <1>5, <1>6, <1>7 DEF Healthy, wd

-----------------------------------------------------------------------------

(* The entry that a rollback leaves counts the writes below the latest     *)
(* savepoint and holds what the first undone write replaced.               *)
LEMMA BackFacts ==
    ASSUME NEW wc, Healthy(wc), Len(wc.ops) > 0, NEW k \in AssetKeys
    PROVE  LET n == Len(wc.ops)
               D == At(wc, n, k)
               b == Back(wc, k)
           IN /\ b \in Entries /\ b.used = Cardinality(OpsOn(wc, 1..(n - 1), k))
              /\ b.used > 0 => b.value \in Values
              /\ b.used > 0 <=> Below(wc, n, k)
              /\ D = {} => b = wc.data[k]
              /\ D # {} /\ Below(wc, n, k) => \E f \in D : (\A i \in D : f <= i) /\ b.value = Pv(wc, n, f)
<1> DEFINE n == Len(wc.ops)
           D == At(wc, n, k)
           b == Back(wc, k)
           left == wc.data[k].used - Cardinality(D)
           f == CHOOSE j \in D : \A i \in D : j <= i
           low == Cardinality(OpsOn(wc, 1..(n - 1), k))
<1>1. wc \in Caches /\ n \in Nat /\ n \in 1..n /\ \A m \in 1..(n - 1) : m \in 1..n
  <2>1. wc \in Caches
    BY DEF Healthy
  <2>2. n \in Nat
    BY <2>1, CacheFacts
  <2> QED BY <2>1, <2>2
<1>2. wc.data[k].used = low + Cardinality(D) /\ low \in Nat /\ Cardinality(D) \in Nat
  BY <1>1, CountSplit DEF Healthy, Counted
<1>3. left = low
  <2> HIDE DEF low, D
  <2> QED BY <1>2
<1>4. low = 0 <=> ~Below(wc, n, k)
  BY <1>1, OpsNone DEF Below
<1>5. D \subseteq Nat
  BY <1>1, AtFacts
<1>6. D # {} => f \in D /\ \A i \in D : f <= i
  <2> HIDE DEF D
  <2> QED BY <1>5, FirstAt
<1>7. b = IF D = {} THEN wc.data[k] ELSE IF left = 0 THEN NoEntry ELSE [used |-> left, value |-> Pv(wc, n, f)]
  BY DEF Back
<1>8. wc.data[k] \in Entries
  BY <1>1, EntryFacts
<1>9. D # {} /\ Below(wc, n, k) => Pv(wc, n, f) \in Values
  BY <1>1, <1>6 DEF Healthy, Replaced
<1>10. D = {} => Cardinality(D) = 0
  BY FS_EmptySet
<1>11. wc.data[k].used > 0 => wc.data[k].value \in Values
  BY DEF Healthy, Valued, Cached
<1> HIDE DEF left, low, D, f, b, n
<1>12. CASE D = {}
  <2>1. b = wc.data[k] /\ b.used = low
    BY <1>2, <1>7, <1>10, <1>12
  <2> QED BY <1>2, <1>4, <1>8, <1>11, <1>12, <2>1 DEF n, D, b, low
<1>13. CASE D # {} /\ low = 0
  <2>1. b = NoEntry
    BY <1>3, <1>7, <1>13
  <2>2. NoEntry \in Entries /\ NoEntry.used = 0
    BY DEF NoEntry, Entries
  <2> QED BY <1>4, <1>13, <2>1, <2>2 DEF n, D, b, low
<1>14. CASE D # {} /\ low # 0
  <2>1. b = [used |-> low, value |-> Pv(wc, n, f)]
    BY <1>3, <1>7, <1>14
  <2>2. b.used = low /\ b.value = Pv(wc, n, f) /\ Pv(wc, n, f) \in Values /\ low > 0
    BY <1>2, <1>4, <1>9, <1>14, <2>1
  <2>3. b \in Entries
    BY <1>2, <2>1, <2>2 DEF Entries
  <2>4. \E g \in D : (\A i \in D : g <= i) /\ b.value = Pv(wc, n, g)
    BY <1>6, <1>14, <2>2
  <2>5. Below(wc, n, k)
    BY <1>4, <1>14
  <2> QED BY <1>14, <2>2, <2>3, <2>4, <2>5 DEF n, D, b, low
<1> QED BY <1>12, <1>13, <1>14

(* rollback_to_latest_savepoint keeps the cache healthy.                   *)
LEMMA HealthyRollback ==
    ASSUME NEW wc, Healthy(wc), Len(wc.ops) > 0
    PROVE  Healthy(WCRollback(wc))
<1> DEFINE n == Len(wc.ops)
           wd == WCRollback(wc)
<1>1. wc \in Caches /\ n \in Nat /\ n > 0
  BY CacheFacts DEF Healthy
<1>2. /\ wd = [data |-> wd.data, ops |-> wd.ops] /\ wd.ops \in Seq(Levels) /\ Len(wd.ops) = n - 1
      /\ wd.data = [k \in AssetKeys |-> Back(wc, k)]
      /\ \A i \in 1..(n - 1) : wd.ops[i] = wc.ops[i]
  BY <1>1, RollbackFacts
<1> HIDE DEF wd
<1>3. \A k \in AssetKeys : /\ Back(wc, k) \in Entries
                           /\ Back(wc, k).used = Cardinality(OpsOn(wc, 1..(n - 1), k))
                           /\ Back(wc, k).used > 0 => Back(wc, k).value \in Values
  BY BackFacts
<1>4. wd \in Caches
  <2>1. wd.data \in [AssetKeys -> Entries]
    BY <1>2, <1>3
  <2> QED BY <1>2, <2>1 DEF Caches
<1>5. \A i \in 1..(n - 1) : \A k : At(wd, i, k) = At(wc, i, k) /\ \A j : Pv(wd, i, j) = Pv(wc, i, j)
  BY <1>2 DEF At, Pv
<1>6. Counted(wd)
  <2> SUFFICES ASSUME NEW k \in AssetKeys PROVE wd.data[k].used = Count(wd, k)
    BY DEF Counted
  <2>1. Uses(wd, k) = OpsOn(wc, 1..(n - 1), k)
    <3>1. Len(wd.ops) = n - 1 /\ \A i \in 1..(n - 1) : At(wd, i, k) = At(wc, i, k)
      BY <1>2, <1>5
    <3> HIDE DEF n
    <3>2. OpsOn(wd, 1..(n - 1), k) = OpsOn(wc, 1..(n - 1), k)
      BY <3>1, OpsSame
    <3> QED BY <3>1, <3>2 DEF Uses
  <2> QED BY <1>2, <1>3, <2>1 DEF Count
<1>7. Valued(wd)
  BY <1>2, <1>3 DEF Valued, Cached
<1>8. Replaced(wd)
  <2> SUFFICES ASSUME NEW i \in 1..(n - 1), NEW k \in AssetKeys, NEW j \in At(wd, i, k),
                      Below(wd, i, k) \/ \E y \in At(wd, i, k) : y < j
               PROVE  Pv(wd, i, j) \in Values
    BY <1>2 DEF Replaced
  <2>1. i \in 1..n /\ \A m \in 1..(i - 1) : m \in 1..(n - 1)
    <3> HIDE DEF n
    <3> QED BY <1>1
  <2>2. Below(wd, i, k) => Below(wc, i, k)
    BY <1>5, <2>1 DEF Below
  <2>3. j \in At(wc, i, k) /\ (Below(wc, i, k) \/ \E y \in At(wc, i, k) : y < j)
    BY <1>5, <2>2
  <2> QED BY <1>5, <2>1, <2>3 DEF Healthy, Replaced
<1> QED BY <1>4, <1>6, <1>7, <1>8 DEF Healthy, wd

(* squash keeps the cache healthy: users move down and none is lost.       *)
LEMMA HealthySquash ==
    ASSUME NEW wc, Healthy(wc), Len(wc.ops) >= 2
    PROVE  Healthy(WCSquash(wc))
<1> DEFINE n == Len(wc.ops)
           wd == WCSquash(wc)
           x == Len(wc.ops[n - 1].vec)
<1>1. wc \in Caches /\ n \in Nat /\ n >= 2
  BY CacheFacts DEF Healthy
<1>2. /\ wd \in Caches /\ Len(wd.ops) = n - 1 /\ wd.data = wc.data /\ x \in Nat
      /\ \A i \in 1..(n - 2) : wd.ops[i] = wc.ops[i]
      /\ \A k : \A j \in At(wc, n - 1, k) : j <= x
      /\ \A k : At(wd, n - 1, k) = At(wc, n - 1, k) \cup {x + j : j \in At(wc, n, k)}
      /\ \A k : \A j \in At(wc, n - 1, k) : Pv(wd, n - 1, j) = Pv(wc, n - 1, j)
      /\ \A k : \A j \in At(wc, n, k) : Pv(wd, n - 1, x + j) = Pv(wc, n, j)
  BY <1>1, SquashFacts
<1> HIDE DEF wd, x
<1>3. \A i \in 1..(n - 2) : \A k : At(wd, i, k) = At(wc, i, k) /\ \A j : Pv(wd, i, j) = Pv(wc, i, j)
  BY <1>2 DEF At, Pv
<1>4. /\ n - 1 \in 1..n /\ n \in 1..n /\ 1..(n - 1) = (1..(n - 2)) \cup {n - 1}
      /\ (1..(n - 2)) \cap {n - 1} = {}
  <2> HIDE DEF n
  <2>1. \A i : i \in 1..(n - 1) <=> i \in 1..(n - 2) \/ i = n - 1
    BY <1>1
  <2> QED BY <1>1, <2>1
<1>5. \A k : /\ At(wc, n - 1, k) \subseteq Nat /\ IsFiniteSet(At(wc, n - 1, k))
             /\ At(wc, n, k) \subseteq Nat \ {0} /\ IsFiniteSet(At(wc, n, k))
  <2> SUFFICES ASSUME NEW k
               PROVE  /\ At(wc, n - 1, k) \subseteq Nat /\ IsFiniteSet(At(wc, n - 1, k))
                      /\ At(wc, n, k) \subseteq Nat \ {0} /\ IsFiniteSet(At(wc, n, k))
    OBVIOUS
  <2>1. At(wc, n - 1, k) \subseteq Nat /\ IsFiniteSet(At(wc, n - 1, k))
    BY <1>1, <1>4, AtFacts
  <2>2. At(wc, n, k) \subseteq 1..Len(wc.ops[n].vec) /\ IsFiniteSet(At(wc, n, k)) /\ Len(wc.ops[n].vec) \in Nat
    BY <1>1, <1>4, AtFacts, CacheFacts
  <2>3. \A m \in Nat : 1..m \subseteq Nat \ {0}
    OBVIOUS
  <2> QED BY <2>1, <2>2, <2>3
<1>6. Counted(wd)
  <2> SUFFICES ASSUME NEW k \in AssetKeys PROVE wd.data[k].used = Count(wd, k)
    BY DEF Counted
  <2> DEFINE old == OpsOn(wc, 1..(n - 1), k)
             new == Pairs(n - 1, x, At(wc, n, k))
  <2>1. Uses(wd, k) = old \cup new
    <3>1. \A p : p \in Uses(wd, k) <=> p \in old \/ p \in new
      <4> SUFFICES ASSUME NEW p PROVE p \in Uses(wd, k) <=> p \in old \/ p \in new
        OBVIOUS
      <4>1. p \in Uses(wd, k) <=> \E i \in 1..(n - 1) : \E j \in At(wd, i, k) : p = <<i, j>>
        BY <1>2, OnPair DEF Uses
      <4>2. p \in old <=> \E i \in 1..(n - 1) : \E j \in At(wc, i, k) : p = <<i, j>>
        BY OnPair
      <4>3. p \in new <=> \E j \in At(wc, n, k) : p = <<n - 1, x + j>>
        BY DEF Pairs
      <4>4. \A j : j \in At(wd, n - 1, k) <=> j \in At(wc, n - 1, k) \/ \E y \in At(wc, n, k) : j = x + y
        BY <1>2
      <4>5. \A i \in 1..(n - 1) : i = n - 1 \/ At(wd, i, k) = At(wc, i, k)
        BY <1>3, <1>4
      <4>6. n - 1 \in 1..(n - 1)
        BY <1>4
      <4> HIDE DEF old, new, n
      <4> QED BY <4>1, <4>2, <4>3, <4>4, <4>5, <4>6
    <3> QED BY <3>1
  <2>2. old \cap new = {}
    <3> SUFFICES ASSUME NEW j \in At(wc, n, k), <<n - 1, x + j>> \in old PROVE FALSE
      BY DEF Pairs
    <3>1. x + j \in At(wc, n - 1, k)
      BY OnPair
    <3>2. x + j <= x /\ j \in Nat \ {0}
      BY <1>2, <1>5, <3>1
    <3> QED BY <1>2, <3>2
  <2>3. IsFiniteSet(old) /\ IsFiniteSet(new) /\ Cardinality(new) = Cardinality(At(wc, n, k))
    <3>1. 1..(n - 1) \subseteq 1..n
      <4> HIDE DEF n
      <4> QED BY <1>1
    <3>2. IsFiniteSet(old)
      BY <1>1, <3>1, OpsFinite
    <3>3. IsFiniteSet(new) /\ Cardinality(new) = Cardinality(At(wc, n, k))
      <4>1. At(wc, n, k) \subseteq Nat /\ IsFiniteSet(At(wc, n, k))
        BY <1>5
      <4> QED BY <1>2, <4>1, PairsCount
    <3> QED BY <3>2, <3>3
  <2>4. Count(wc, k) = Cardinality(old) + Cardinality(At(wc, n, k))
    BY <1>1, CountSplit
  <2> HIDE DEF old, new
  <2>5. Cardinality(old \cup new) = Cardinality(old) + Cardinality(new) - Cardinality({})
    BY <2>2, <2>3, FS_Union
  <2>6. Cardinality(old) \in Nat /\ Cardinality(new) \in Nat /\ Cardinality({}) = 0
    BY <2>3, FS_CardinalityType, FS_EmptySet
  <2>7. Count(wd, k) = Count(wc, k)
    BY <2>1, <2>3, <2>4, <2>5, <2>6 DEF Count
  <2> QED BY <1>2, <2>7 DEF Healthy, Counted
<1>7. Valued(wd)
  BY <1>2 DEF Healthy, Valued, Cached
<1>8. Replaced(wd)
  <2> SUFFICES ASSUME NEW i \in 1..(n - 1), NEW k \in AssetKeys, NEW j \in At(wd, i, k),
                      Below(wd, i, k) \/ \E y \in At(wd, i, k) : y < j
               PROVE  Pv(wd, i, j) \in Values
    BY <1>2 DEF Replaced
  <2>1. i \in 1..n /\ \A m \in 1..(i - 1) : m \in 1..(n - 2)
    <3> HIDE DEF n
    <3> QED BY <1>1
  <2>2. Below(wd, i, k) => Below(wc, i, k)
    BY <1>3, <2>1 DEF Below
  <2>3. CASE i # n - 1
    <3>1. i \in 1..(n - 2)
      BY <1>4, <2>3
    <3>2. j \in At(wc, i, k) /\ (Below(wc, i, k) \/ \E y \in At(wc, i, k) : y < j)
      BY <1>3, <2>2, <3>1
    <3> QED BY <1>3, <2>1, <3>1, <3>2 DEF Healthy, Replaced
  <2>4. CASE i = n - 1 /\ j \in At(wc, n - 1, k)
    <3>1. \A y \in At(wd, i, k) : y < j => y \in At(wc, n - 1, k)
      <4> SUFFICES ASSUME NEW y \in At(wc, n, k), x + y < j PROVE FALSE
        BY <1>2, <2>4
      <4>1. j <= x /\ j \in Nat /\ y \in Nat
        BY <1>2, <1>5, <2>4
      <4> QED BY <1>2, <4>1
    <3>2. Below(wc, i, k) \/ \E y \in At(wc, i, k) : y < j
      BY <2>2, <2>4, <3>1
    <3>3. Pv(wc, n - 1, j) \in Values
      BY <1>4, <2>4, <3>2 DEF Healthy, Replaced
    <3> QED BY <1>2, <2>4, <3>3
  <2>5. ASSUME i = n - 1, NEW y \in At(wc, n, k), j = x + y PROVE Pv(wd, i, j) \in Values
    <3>1. Below(wc, n, k) \/ \E z \in At(wc, n, k) : z < y
      <4>1. CASE Below(wd, i, k)
        <5>1. Below(wc, n - 1, k)
          BY <2>2, <2>5, <4>1
        <5>2. \A m \in 1..((n - 1) - 1) : m \in 1..(n - 1)
          <6> HIDE DEF n
          <6> QED BY <1>1
        <5> QED BY <5>1, <5>2 DEF Below
      <4>2. ASSUME NEW z \in At(wd, i, k), z < j
            PROVE  Below(wc, n, k) \/ \E w \in At(wc, n, k) : w < y
        <5>1. CASE z \in At(wc, n - 1, k)
          <6>1. n - 1 \in 1..(n - 1)
            BY <1>4
          <6> QED BY <5>1, <6>1 DEF Below
        <5>2. ASSUME NEW w \in At(wc, n, k), z = x + w PROVE w < y
          <6>1. w \in Nat /\ y \in Nat /\ x + w < x + y
            BY <1>5, <2>5, <4>2, <5>2
          <6> QED BY <1>2, <6>1
        <5> QED BY <1>2, <2>5, <5>1, <5>2
      <4> QED BY <4>1, <4>2
    <3>2. Pv(wc, n, y) \in Values
      BY <1>4, <3>1 DEF Healthy, Replaced
    <3> QED BY <1>2, <2>5, <3>2
  <2> QED BY <1>2, <2>3, <2>4, <2>5
<1> QED BY <1>2, <1>6, <1>7, <1>8 DEF Healthy, wd

-----------------------------------------------------------------------------

(* What pop_front changes.                                                 *)
LEMMA PopFacts ==
    ASSUME NEW wc, Healthy(wc), NEW d \in 0..Len(wc.ops)
    PROVE  LET wd == WCPopFront(wc, d)
               n == Len(wc.ops)
           IN /\ wd = [data |-> wd.data, ops |-> wd.ops] /\ wd.ops \in Seq(Levels) /\ Len(wd.ops) = n - d
              /\ \A i \in 1..(n - d) : wd.ops[i] = wc.ops[d + i]
              /\ wd.data = [k \in AssetKeys |-> IF WCPersisted(wc, d, k) THEN NoEntry
                                              ELSE [used |-> WCUsersLeft(wc, d, k), value |-> wc.data[k].value]]
<1> DEFINE n == Len(wc.ops)
           wd == WCPopFront(wc, d)
<1>1. wc \in Caches /\ n \in Nat /\ wc.ops \in Seq(Levels)
  BY CacheFacts DEF Healthy, Caches
<1>2. /\ SubSeq(wc.ops, d + 1, n) \in Seq(Levels) /\ Len(SubSeq(wc.ops, d + 1, n)) = n - d
      /\ \A i \in 1..(n - d) : SubSeq(wc.ops, d + 1, n)[i] = wc.ops[d + i]
  BY <1>1, DropFacts
<1>3. wd = [data |-> wd.data, ops |-> wd.ops] /\ wd.ops = SubSeq(wc.ops, d + 1, n)
  BY DEF WCPopFront
<1>4. \A k \in AssetKeys : \A u : [wc.data[k] EXCEPT !.used = u] = [used |-> u, value |-> wc.data[k].value]
  <2> SUFFICES ASSUME NEW k \in AssetKeys, NEW u
               PROVE  [wc.data[k] EXCEPT !.used = u] = [used |-> u, value |-> wc.data[k].value]
    OBVIOUS
  <2>1. wc.data[k] \in Entries
    BY <1>1, EntryFacts
  <2> QED BY <2>1 DEF Entries
<1>5. wd.data = [k \in AssetKeys |-> IF WCPersisted(wc, d, k) THEN NoEntry
                                    ELSE [wc.data[k] EXCEPT !.used = WCUsersLeft(wc, d, k)]]
  BY DEF WCPopFront
<1> HIDE DEF wd
<1>6. wd.data = [k \in AssetKeys |-> IF WCPersisted(wc, d, k) THEN NoEntry
                                    ELSE [used |-> WCUsersLeft(wc, d, k), value |-> wc.data[k].value]]
  BY <1>4, <1>5
<1> QED BY <1>2, <1>3, <1>6 DEF wd

(* The users left after pop_front are the writes under the savepoints      *)
(* left, and an entry is persisted exactly when its last user goes.        *)
LEMMA LeftFacts ==
    ASSUME NEW wc, Healthy(wc), NEW d \in 0..Len(wc.ops), NEW k \in AssetKeys
    PROVE  LET n == Len(wc.ops)
           IN /\ WCUsersLeft(wc, d, k) = Cardinality(OpsOn(wc, (d + 1)..n, k))
              /\ WCUsersLeft(wc, d, k) \in Nat
              /\ WCPersisted(wc, d, k) => Cached(wc, k) /\ WCUsersLeft(wc, d, k) = 0
              /\ ~WCPersisted(wc, d, k) => (Cached(wc, k) <=> WCUsersLeft(wc, d, k) > 0)
<1> DEFINE n == Len(wc.ops)
           low == OpsOn(wc, 1..d, k)
           high == OpsOn(wc, (d + 1)..n, k)
           left == WCUsersLeft(wc, d, k)
<1>1. wc \in Caches /\ n \in Nat
  BY CacheFacts DEF Healthy
<1>2. /\ 1..n = (1..d) \cup ((d + 1)..n) /\ (1..d) \cap ((d + 1)..n) = {}
      /\ 1..d \subseteq 1..n
  <2>0. d \in 0..n
    OBVIOUS
  <2> HIDE DEF n
  <2>1. \A i : i \in 1..n <=> i \in 1..d \/ i \in (d + 1)..n
    BY <1>1, <2>0
  <2> QED BY <1>1, <2>0, <2>1
<1>3. /\ Cardinality(OpsOn(wc, (1..d) \cup ((d + 1)..n), k)) = Cardinality(low) + Cardinality(high)
      /\ Cardinality(low) \in Nat /\ Cardinality(high) \in Nat
  BY <1>1, <1>2, OpsSplit
<1>4. wc.data[k].used = Cardinality(low) + Cardinality(high)
  BY <1>2, <1>3 DEF Healthy, Counted, Count, Uses
<1>5. left = wc.data[k].used - Cardinality(low)
  BY DEF WCUsersLeft
<1>6. low # {} <=> Cardinality(low) # 0
  BY <1>1, <1>2, OpsNone
<1>7. WCPersisted(wc, d, k) <=> low # {} /\ left = 0
  BY DEF WCPersisted
<1> HIDE DEF low, high, left, n
<1>8. left = Cardinality(high) /\ left \in Nat
  BY <1>3, <1>4, <1>5
<1>9. WCPersisted(wc, d, k) => wc.data[k].used > 0
  BY <1>3, <1>4, <1>6, <1>7
<1>10. ~WCPersisted(wc, d, k) => (wc.data[k].used > 0 <=> left > 0)
  BY <1>3, <1>4, <1>6, <1>7, <1>8
<1> QED BY <1>7, <1>8, <1>9, <1>10 DEF Cached, left, high, n

(* pop_front keeps the cache healthy, and what it persists is a value.     *)
LEMMA HealthyPop ==
    ASSUME NEW wc, Healthy(wc), NEW d \in 0..Len(wc.ops)
    PROVE  /\ Healthy(WCPopFront(wc, d))
           /\ \A k \in AssetKeys : WCPersisted(wc, d, k) => wc.data[k].value \in Values
<1> DEFINE n == Len(wc.ops)
           wd == WCPopFront(wc, d)
<1>1. wc \in Caches /\ n \in Nat
  BY CacheFacts DEF Healthy
<1>2. /\ wd = [data |-> wd.data, ops |-> wd.ops] /\ wd.ops \in Seq(Levels) /\ Len(wd.ops) = n - d
      /\ \A i \in 1..(n - d) : wd.ops[i] = wc.ops[d + i]
      /\ wd.data = [k \in AssetKeys |-> IF WCPersisted(wc, d, k) THEN NoEntry
                                      ELSE [used |-> WCUsersLeft(wc, d, k), value |-> wc.data[k].value]]
  BY PopFacts
<1> HIDE DEF wd
<1>3. \A k \in AssetKeys :
         /\ WCUsersLeft(wc, d, k) = Cardinality(OpsOn(wc, (d + 1)..n, k)) /\ WCUsersLeft(wc, d, k) \in Nat
         /\ WCPersisted(wc, d, k) => Cached(wc, k) /\ WCUsersLeft(wc, d, k) = 0
         /\ ~WCPersisted(wc, d, k) => (Cached(wc, k) <=> WCUsersLeft(wc, d, k) > 0)
  BY LeftFacts
<1>4. \A k \in AssetKeys : wc.data[k].value \in Values \cup {NoVal}
  BY <1>1, EntryFacts
<1>5. \A k \in AssetKeys : wd.data[k] = IF WCPersisted(wc, d, k) THEN NoEntry
                             ELSE [used |-> WCUsersLeft(wc, d, k), value |-> wc.data[k].value]
  BY <1>2
<1>13. \A k \in AssetKeys : WCPersisted(wc, d, k) => wd.data[k].used = 0
  <2>1. ASSUME NEW k \in AssetKeys, WCPersisted(wc, d, k) PROVE wd.data[k] = NoEntry
    BY <1>5, <2>1, Zenon
  <2> QED BY <2>1 DEF NoEntry
<1>14. \A k \in AssetKeys : ~WCPersisted(wc, d, k) =>
         wd.data[k].used = WCUsersLeft(wc, d, k) /\ wd.data[k].value = wc.data[k].value
  <2> SUFFICES ASSUME NEW k \in AssetKeys, ~WCPersisted(wc, d, k)
               PROVE  wd.data[k].used = WCUsersLeft(wc, d, k) /\ wd.data[k].value = wc.data[k].value
    OBVIOUS
  <2>1. wd.data[k] = [used |-> WCUsersLeft(wc, d, k), value |-> wc.data[k].value]
    BY <1>5, Zenon
  <2> QED BY <2>1
<1>6. wd \in Caches
  <2>1. \A k \in AssetKeys : wd.data[k] \in Entries
    <3>1. NoEntry \in Entries
      BY DEF NoEntry, Entries
    <3>2. \A k \in AssetKeys : [used |-> WCUsersLeft(wc, d, k), value |-> wc.data[k].value] \in Entries
      BY <1>3, <1>4 DEF Entries
    <3> QED BY <1>5, <3>1, <3>2
  <2>2. wd.data \in [AssetKeys -> Entries]
    BY <1>2, <2>1
  <2> QED BY <1>2, <2>2 DEF Caches
<1>7. \A i \in 1..(n - d) : \A k : At(wd, i, k) = At(wc, d + i, k) /\ \A j : Pv(wd, i, j) = Pv(wc, d + i, j)
  BY <1>2 DEF At, Pv
<1>8. \A i \in 1..(n - d) : d + i \in (d + 1)..n /\ d + i \in 1..n
  <2> HIDE DEF n
  <2> QED BY <1>1
<1>9. Counted(wd)
  <2> SUFFICES ASSUME NEW k \in AssetKeys PROVE wd.data[k].used = Count(wd, k)
    BY DEF Counted
  <2> DEFINE S == Uses(wd, k)
             T == OpsOn(wc, (d + 1)..n, k)
             f == [p \in S |-> <<d + p[1], p[2]>>]
  <2>1. IsFiniteSet(S)
    BY <1>6, OpsFinite DEF Uses
  <2>2. \A p \in S : \E i \in 1..(n - d) : \E j \in At(wc, d + i, k) : p = <<i, j>>
    <3>1. \A p \in S : \E i \in 1..(n - d) : \E j \in At(wd, i, k) : p = <<i, j>>
      BY <1>2, OnPair DEF Uses
    <3> QED BY <1>7, <3>1
  <2>3. \A p \in S : f[p] \in T
    <3> SUFFICES ASSUME NEW p \in S PROVE f[p] \in T
      OBVIOUS
    <3>0. PICK i \in 1..(n - d) : \E j \in At(wc, d + i, k) : p = <<i, j>>
      BY <2>2
    <3>1. PICK j \in At(wc, d + i, k) : p = <<i, j>>
      BY <3>0
    <3>2. f[p] = <<d + i, j>>
      BY <3>1
    <3> QED BY <1>8, <3>2, OnPair
  <2>4. \A p, q \in S : f[p] = f[q] => p = q
    <3> SUFFICES ASSUME NEW p \in S, NEW q \in S, f[p] = f[q] PROVE p = q
      OBVIOUS
    <3>0. PICK i \in 1..(n - d) : \E j \in At(wc, d + i, k) : p = <<i, j>>
      BY <2>2
    <3>1. PICK j \in At(wc, d + i, k) : p = <<i, j>>
      BY <3>0
    <3>10. PICK a \in 1..(n - d) : \E b \in At(wc, d + a, k) : q = <<a, b>>
      BY <2>2
    <3>2. PICK b \in At(wc, d + a, k) : q = <<a, b>>
      BY <3>10
    <3>3. <<d + i, j>> = <<d + a, b>>
      BY <3>1, <3>2
    <3>4. d + i = d + a /\ j = b
      BY <3>3
    <3>5. i = a
      BY <3>4
    <3> QED BY <3>1, <3>2, <3>4, <3>5
  <2>5. \A t \in T : \E p \in S : f[p] = t
    <3> SUFFICES ASSUME NEW t \in T PROVE \E p \in S : f[p] = t
      OBVIOUS
    <3>0. PICK m \in (d + 1)..n : \E j \in At(wc, m, k) : t = <<m, j>>
      BY OnPair
    <3>1. PICK j \in At(wc, m, k) : t = <<m, j>>
      BY <3>0
    <3>2. m - d \in 1..(n - d) /\ d + (m - d) = m
      <4> HIDE DEF n
      <4> QED BY <1>1
    <3>3. j \in At(wd, m - d, k)
      BY <1>7, <3>1, <3>2
    <3>4. <<m - d, j>> \in S
      BY <1>2, <3>2, <3>3, OnPair DEF Uses
    <3>5. f[<<m - d, j>>] = t
      BY <3>1, <3>2, <3>4
    <3> QED BY <3>4, <3>5
  <2>6. f \in [S -> T]
    BY <2>3
  <2> HIDE DEF S, T, f
  <2>7. f \in Bijection(S, T)
    BY <2>4, <2>5, <2>6 DEF Bijection, Injection, Surjection, IsInjective
  <2>8. Cardinality(T) = Cardinality(S)
    BY <2>1, <2>7, FS_Bijection DEF ExistsBijection
  <2>9. Count(wd, k) = WCUsersLeft(wc, d, k)
    BY <1>3, <2>8 DEF Count, S, T
  <2> QED BY <1>3, <1>13, <1>14, <2>9
<1>10. Valued(wd)
  <2> SUFFICES ASSUME NEW k \in AssetKeys, wd.data[k].used > 0 PROVE wd.data[k].value \in Values
    BY DEF Valued, Cached
  <2>1. ~WCPersisted(wc, d, k)
    BY <1>13
  <2>2. wd.data[k].used = WCUsersLeft(wc, d, k) /\ wd.data[k].value = wc.data[k].value
    BY <1>14, <2>1
  <2>3. Cached(wc, k)
    BY <1>3, <2>1, <2>2
  <2> QED BY <2>2, <2>3 DEF Healthy, Valued
<1>11. Replaced(wd)
  <2> SUFFICES ASSUME NEW i \in 1..(n - d), NEW k \in AssetKeys, NEW j \in At(wd, i, k),
                      Below(wd, i, k) \/ \E y \in At(wd, i, k) : y < j
               PROVE  Pv(wd, i, j) \in Values
    BY <1>2 DEF Replaced
  <2>1. \A m \in 1..(i - 1) : m \in 1..(n - d) /\ d + m \in 1..((d + i) - 1)
    <3> HIDE DEF n
    <3> QED BY <1>1
  <2>2. Below(wd, i, k) => Below(wc, d + i, k)
    BY <1>7, <2>1 DEF Below
  <2>3. j \in At(wc, d + i, k) /\ (Below(wc, d + i, k) \/ \E y \in At(wc, d + i, k) : y < j)
    BY <1>7, <2>2
  <2> QED BY <1>7, <1>8, <2>3 DEF Healthy, Replaced
<1>12. \A k \in AssetKeys : WCPersisted(wc, d, k) => wc.data[k].value \in Values
  BY <1>3 DEF Healthy, Valued
<1> QED BY <1>6, <1>9, <1>10, <1>11, <1>12 DEF Healthy, wd

-----------------------------------------------------------------------------

(* The value that load_savepoints records for the j-th write of the i-th   *)
(* savepoint: none for the first write of a key, and the value of the      *)
(* entry for the others.                                                   *)
ReloadPv(wc, i, j) ==
    LET k == wc.ops[i].vec[j].key IN
    IF /\ OpsOn(wc, 1..(i - 1), k) = {}
       /\ \A p \in OpsOn(wc, 1..i, k) : p[1] = i => p[2] >= j
    THEN Empty ELSE wc.data[k].value

ReloadVec(wc, i) == [j \in DOMAIN wc.ops[i].vec |-> [key |-> wc.ops[i].vec[j].key, pv |-> ReloadPv(wc, i, j)]]

(* persist_savepoints and load_savepoints, with the value that each loaded *)
(* write replaces.                                                         *)
LEMMA ReloadForm ==
    ASSUME NEW wc
    PROVE  WCReload(wc) =
             [data |-> [k \in AssetKeys |-> IF Cardinality(OpsOn(wc, DOMAIN wc.ops, k)) = 0 THEN NoEntry
                                            ELSE [used |-> Cardinality(OpsOn(wc, DOMAIN wc.ops, k)), value |-> wc.data[k].value]],
              ops |-> [i \in DOMAIN wc.ops |-> [seq |-> wc.ops[i].seq, vec |-> ReloadVec(wc, i)]]]
  BY Zenon DEF WCReload, ReloadVec, ReloadPv

(* A loaded write that finds an entry replaces a value.                    *)
LEMMA ReloadPvFacts ==
    ASSUME NEW wc, Healthy(wc), NEW i \in 1..Len(wc.ops), NEW k \in AssetKeys, NEW j \in At(wc, i, k)
    PROVE  /\ ReloadPv(wc, i, j) \in Values \cup {Empty}
           /\ (Below(wc, i, k) \/ \E y \in At(wc, i, k) : y < j) => ReloadPv(wc, i, j) \in Values
<1> DEFINE n == Len(wc.ops)
<1>1. wc \in Caches /\ n \in Nat
  BY CacheFacts DEF Healthy
<1>2. wc.ops[i].vec[j].key = k
  BY DEF At
<1>3. wc.data[k].value \in Values
  <2>1. Cached(wc, k)
    BY CachedIff
  <2> QED BY <2>1 DEF Healthy, Valued
<1>4. ReloadPv(wc, i, j) \in {Empty, wc.data[k].value}
  BY <1>2 DEF ReloadPv
<1>5. ASSUME Below(wc, i, k) PROVE ReloadPv(wc, i, j) = wc.data[k].value
  <2>0. PICK m \in 1..(i - 1) : At(wc, m, k) # {}
    BY <1>5 DEF Below
  <2>1. PICK y \in At(wc, m, k) : TRUE
    BY <2>0
  <2>2. <<m, y>> \in OpsOn(wc, 1..(i - 1), k)
    BY OnPair
  <2> QED BY <1>2, <2>2 DEF ReloadPv
<1>6. ASSUME NEW y \in At(wc, i, k), y < j PROVE ReloadPv(wc, i, j) = wc.data[k].value
  <2>1. i \in 1..i /\ i \in Nat
    <3> HIDE DEF n
    <3> QED BY <1>1
  <2>2. <<i, y>> \in OpsOn(wc, 1..i, k)
    BY <2>1, OnPair
  <2>3. y \in Nat /\ j \in Nat
    BY <1>1, AtFacts
  <2>4. <<i, y>>[1] = i /\ ~(<<i, y>>[2] >= j)
    BY <1>6, <2>3
  <2> QED BY <1>2, <2>2, <2>4 DEF ReloadPv
<1> QED BY <1>3, <1>4, <1>5, <1>6

(* What a restart changes: only the replaced values.                       *)
LEMMA ReloadFacts ==
    ASSUME NEW wc, Healthy(wc)
    PROVE  LET wd == WCReload(wc)
               n == Len(wc.ops)
           IN /\ wd \in Caches /\ Len(wd.ops) = n
              /\ \A i \in 1..n : wd.ops[i].seq = wc.ops[i].seq
              /\ \A i \in 1..n : \A k : At(wd, i, k) = At(wc, i, k)
              /\ \A i \in 1..n : \A j \in DOMAIN wc.ops[i].vec : Pv(wd, i, j) = ReloadPv(wc, i, j)
              /\ \A k \in AssetKeys : wd.data[k].used = wc.data[k].used
              /\ \A k \in AssetKeys : Cached(wc, k) => wd.data[k].value = wc.data[k].value
<1> DEFINE n == Len(wc.ops)
           wd == WCReload(wc)
           sz(k) == Cardinality(OpsOn(wc, DOMAIN wc.ops, k))
           lev(i) == [seq |-> wc.ops[i].seq, vec |-> ReloadVec(wc, i)]
<1>1. wc \in Caches /\ n \in Nat /\ DOMAIN wc.ops = 1..n
  BY CacheFacts DEF Healthy
<1>2. /\ wd.data = [k \in AssetKeys |-> IF sz(k) = 0 THEN NoEntry ELSE [used |-> sz(k), value |-> wc.data[k].value]]
      /\ wd.ops = [i \in 1..n |-> lev(i)] /\ wd = [data |-> wd.data, ops |-> wd.ops]
  BY <1>1, ReloadForm
<1>3. \A k \in AssetKeys : sz(k) = wc.data[k].used /\ sz(k) \in Nat /\ wc.data[k].value \in Values \cup {NoVal}
  BY <1>1, EntryFacts DEF Healthy, Counted, Count, Uses
<1> HIDE DEF wd, sz
<1>4. \A k \in AssetKeys : wd.data[k] \in Entries /\ wd.data[k].used = wc.data[k].used
                           /\ (Cached(wc, k) => wd.data[k].value = wc.data[k].value)
  <2> SUFFICES ASSUME NEW k \in AssetKeys
               PROVE  wd.data[k] \in Entries /\ wd.data[k].used = wc.data[k].used
                      /\ (Cached(wc, k) => wd.data[k].value = wc.data[k].value)
    OBVIOUS
  <2>1. CASE sz(k) = 0
    <3>1. wd.data[k] = NoEntry
      BY <1>2, <2>1, Zenon
    <3> QED BY <1>3, <2>1, <3>1 DEF NoEntry, Entries, Cached
  <2>2. CASE sz(k) # 0
    <3>1. wd.data[k] = [used |-> sz(k), value |-> wc.data[k].value]
      BY <1>2, <2>2, Zenon
    <3> QED BY <1>3, <3>1 DEF Entries
  <2> QED BY <2>1, <2>2
<1>5. wd.data \in [AssetKeys -> Entries]
  BY <1>2, <1>4
<1>6. ASSUME NEW i \in 1..n
      PROVE  /\ ReloadVec(wc, i) \in Seq(Writes) /\ wc.ops[i].seq \in Nat
             /\ DOMAIN ReloadVec(wc, i) = DOMAIN wc.ops[i].vec
             /\ \A j \in DOMAIN wc.ops[i].vec : ReloadVec(wc, i)[j] = [key |-> wc.ops[i].vec[j].key, pv |-> ReloadPv(wc, i, j)]
  <2> DEFINE m == Len(wc.ops[i].vec)
  <2>1. /\ m \in Nat /\ DOMAIN wc.ops[i].vec = 1..m /\ wc.ops[i].seq \in Nat
        /\ \A j \in 1..m : wc.ops[i].vec[j].key \in AssetKeys
    BY <1>1, CacheFacts
  <2>2. \A j \in 1..m : j \in At(wc, i, wc.ops[i].vec[j].key)
    BY <2>1 DEF At
  <2>3. \A j \in 1..m : ReloadPv(wc, i, j) \in Values \cup {Empty}
    BY <2>1, <2>2, ReloadPvFacts
  <2>4. \A j \in 1..m : [key |-> wc.ops[i].vec[j].key, pv |-> ReloadPv(wc, i, j)] \in Writes
    BY <2>1, <2>3 DEF Writes
  <2>5. DOMAIN ReloadVec(wc, i) = 1..m
        /\ \A j \in 1..m : ReloadVec(wc, i)[j] = [key |-> wc.ops[i].vec[j].key, pv |-> ReloadPv(wc, i, j)]
    BY <2>1 DEF ReloadVec
  <2>6. ReloadVec(wc, i) = [j \in 1..m |-> ReloadVec(wc, i)[j]]
    BY <2>1 DEF ReloadVec
  <2>7. ReloadVec(wc, i) \in [1..m -> Writes]
    <3> HIDE DEF m
    <3> QED BY <2>4, <2>5, <2>6
  <2>8. ReloadVec(wc, i) \in Seq(Writes)
    <3> HIDE DEF m
    <3> QED BY <2>1, <2>7
  <2> QED BY <2>1, <2>5, <2>8
<1>7. \A i \in 1..n : lev(i) \in Levels
  BY <1>6 DEF Levels
<1>8. wd.ops \in Seq(Levels) /\ Len(wd.ops) = n /\ \A i \in 1..n : wd.ops[i] = lev(i)
  <2> HIDE DEF n, lev
  <2>1. wd.ops \in [1..n -> Levels]
    BY <1>2, <1>7
  <2> QED BY <1>1, <1>2, <2>1
<1>9. wd \in Caches
  BY <1>2, <1>5, <1>8 DEF Caches
<1>10. \A i \in 1..n : wd.ops[i].seq = wc.ops[i].seq /\ wd.ops[i].vec = ReloadVec(wc, i)
  <2> SUFFICES ASSUME NEW i \in 1..n
               PROVE  wd.ops[i].seq = wc.ops[i].seq /\ wd.ops[i].vec = ReloadVec(wc, i)
    OBVIOUS
  <2>1. wd.ops[i] = lev(i)
    BY <1>8, Zenon
  <2> QED BY <2>1
<1>11. \A i \in 1..n : \A k : At(wd, i, k) = At(wc, i, k)
  <2> SUFFICES ASSUME NEW i \in 1..n, NEW k PROVE At(wd, i, k) = At(wc, i, k)
    OBVIOUS
  <2>1. /\ DOMAIN ReloadVec(wc, i) = DOMAIN wc.ops[i].vec
        /\ \A j \in DOMAIN wc.ops[i].vec : ReloadVec(wc, i)[j].key = wc.ops[i].vec[j].key
    <3>1. DOMAIN ReloadVec(wc, i) = DOMAIN wc.ops[i].vec
      BY <1>6
    <3>2. ASSUME NEW j \in DOMAIN wc.ops[i].vec PROVE ReloadVec(wc, i)[j].key = wc.ops[i].vec[j].key
      <4>1. ReloadVec(wc, i)[j] = [key |-> wc.ops[i].vec[j].key, pv |-> ReloadPv(wc, i, j)]
        BY <1>6, Zenon
      <4> QED BY <4>1
    <3> QED BY <3>1, <3>2
  <2>2. wd.ops[i].vec = ReloadVec(wc, i)
    BY <1>10
  <2>3. \A j : j \in At(wd, i, k) <=> j \in At(wc, i, k)
    BY <2>1, <2>2 DEF At
  <2> QED BY <2>3
<1>12. \A i \in 1..n : \A j \in DOMAIN wc.ops[i].vec : Pv(wd, i, j) = ReloadPv(wc, i, j)
  <2> SUFFICES ASSUME NEW i \in 1..n, NEW j \in DOMAIN wc.ops[i].vec PROVE Pv(wd, i, j) = ReloadPv(wc, i, j)
    OBVIOUS
  <2>1. ReloadVec(wc, i)[j] = [key |-> wc.ops[i].vec[j].key, pv |-> ReloadPv(wc, i, j)]
    BY <1>6, Zenon
  <2>2. wd.ops[i].vec = ReloadVec(wc, i)
    BY <1>10
  <2> QED BY <2>1, <2>2 DEF Pv
<1> QED BY <1>4, <1>8, <1>9, <1>10, <1>11, <1>12 DEF wd

(* A restart keeps the cache healthy.                                      *)
LEMMA HealthyReload ==
    ASSUME NEW wc, Healthy(wc)
    PROVE  Healthy(WCReload(wc))
<1> DEFINE n == Len(wc.ops)
           wd == WCReload(wc)
<1>1. n \in Nat /\ wc \in Caches
  BY CacheFacts DEF Healthy
<1>2. /\ wd \in Caches /\ Len(wd.ops) = n
      /\ \A i \in 1..n : \A k : At(wd, i, k) = At(wc, i, k)
      /\ \A i \in 1..n : \A j \in DOMAIN wc.ops[i].vec : Pv(wd, i, j) = ReloadPv(wc, i, j)
      /\ \A k \in AssetKeys : wd.data[k].used = wc.data[k].used
      /\ \A k \in AssetKeys : Cached(wc, k) => wd.data[k].value = wc.data[k].value
  BY ReloadFacts
<1> HIDE DEF wd
<1>3. Counted(wd)
  <2> SUFFICES ASSUME NEW k \in AssetKeys PROVE wd.data[k].used = Count(wd, k)
    BY DEF Counted
  <2>1. Uses(wd, k) = Uses(wc, k)
    BY <1>2, OpsSame DEF Uses
  <2> QED BY <1>2, <2>1 DEF Count, Healthy, Counted
<1>4. Valued(wd)
  BY <1>2 DEF Healthy, Valued, Cached
<1>5. Replaced(wd)
  <2> SUFFICES ASSUME NEW i \in 1..n, NEW k \in AssetKeys, NEW j \in At(wd, i, k),
                      Below(wd, i, k) \/ \E y \in At(wd, i, k) : y < j
               PROVE  Pv(wd, i, j) \in Values
    BY <1>2 DEF Replaced
  <2>1. \A m \in 1..(i - 1) : m \in 1..n
    <3> HIDE DEF n
    <3> QED BY <1>1
  <2>2. j \in At(wc, i, k) /\ (Below(wc, i, k) \/ \E y \in At(wc, i, k) : y < j)
    BY <1>2, <2>1 DEF Below
  <2>3. ReloadPv(wc, i, j) \in Values
    BY <2>2, ReloadPvFacts
  <2>4. j \in DOMAIN wc.ops[i].vec
    BY <2>2 DEF At
  <2> QED BY <1>2, <2>3, <2>4
<1> QED BY <1>2, <1>3, <1>4, <1>5 DEF Healthy, wd

-----------------------------------------------------------------------------

(* The number of the oldest savepoint.                                     *)
Oldest == IF lib < 2 THEN 2 ELSE lib

(* Both stacks are numbered from Oldest to the head and the open sessions. *)
Stacked ==
    /\ Len(wcache.ops) = Len(savepoints)
    /\ Len(savepoints) = (head + open + 1) - Oldest
    /\ head >= 1 /\ lib <= head
    /\ \A i \in 1..Len(savepoints) : savepoints[i].seq = (Oldest + i) - 1 /\ wcache.ops[i].seq = (Oldest + i) - 1

(* The balances, and the history entries.                                  *)
AssetMaps == [AssetKeys -> Values \cup {NoVal}]
AssetHists == [seq : Nat, val : AssetMaps]

(* The inductive invariant.                                                *)
AssetInv ==
    /\ BaseInv /\ Stacked /\ Healthy(wcache)
    /\ assets \in AssetMaps /\ assetHist \in Seq(AssetHists) /\ Len(assetHist) = Len(savepoints)

(* The types that the proofs below use.                                    *)
LEMMA Numbers ==
    ASSUME BaseInv
    PROVE  /\ head \in Nat /\ open \in Nat /\ lib \in Nat /\ restarts \in Nat /\ Oldest \in Nat
           /\ savepoints \in Seq(Savepoints) /\ Len(savepoints) \in Nat /\ DOMAIN savepoints = 1..Len(savepoints)
  BY DEF BaseInv, TokenTypeOK, Oldest

(* The stacks stay numbered when d savepoints leave at the bottom and some *)
(* at the top.                                                             *)
LEMMA StackedTo ==
    ASSUME BaseInv, BaseInv', Stacked, NEW d \in Nat, NEW m \in Nat,
           Len(savepoints') = m, Len(wcache'.ops) = m, d + m <= Len(savepoints),
           \A i \in 1..m : savepoints'[i].seq = savepoints[d + i].seq /\ wcache'.ops[i].seq = wcache.ops[d + i].seq,
           Oldest' = Oldest + d, m = (head' + open' + 1) - Oldest', head' >= 1, lib' <= head'
    PROVE  Stacked'
<1> DEFINE n == Len(savepoints)
<1>1. n \in Nat /\ Oldest \in Nat
  BY Numbers
<1>2. d + m <= n
  OBVIOUS
<1>3. ASSUME NEW i \in 1..m PROVE d + i \in 1..n /\ (Oldest + (d + i)) - 1 = ((Oldest + d) + i) - 1
  <2> HIDE DEF n
  <2> QED BY <1>1, <1>2
<1>4. \A i \in 1..m : savepoints'[i].seq = (Oldest' + i) - 1 /\ wcache'.ops[i].seq = (Oldest' + i) - 1
  <2> SUFFICES ASSUME NEW i \in 1..m
               PROVE  savepoints'[i].seq = (Oldest' + i) - 1 /\ wcache'.ops[i].seq = (Oldest' + i) - 1
    OBVIOUS
  <2>1. savepoints[d + i].seq = (Oldest + (d + i)) - 1 /\ wcache.ops[d + i].seq = (Oldest + (d + i)) - 1
    BY <1>3 DEF Stacked
  <2> QED BY <1>3, <2>1
<1> QED BY <1>4 DEF Stacked

(* What add_savepoint does to both stacks and the history.                 *)
LEMMA AddShape ==
    ASSUME AssetInv, BaseInv', NEW q \in Nat, AddSavepoint(q)
    PROVE  LET n == Len(savepoints)
           IN /\ Len(savepoints') = n + 1 /\ Len(wcache'.ops) = n + 1 /\ Len(assetHist') = n + 1
              /\ \A i \in 1..n : savepoints'[i] = savepoints[i] /\ wcache'.ops[i] = wcache.ops[i] /\ assetHist'[i] = assetHist[i]
              /\ savepoints'[n + 1].seq = q /\ wcache'.ops[n + 1].seq = q
              /\ assetHist'[n + 1] = [seq |-> q, val |-> AssetView]
              /\ \A k : At(wcache', n + 1, k) = {}
              /\ wcache'.data = wcache.data /\ wcache' = WCAddSavepoint(wcache, q) /\ assets' = assets
<1> DEFINE n == Len(savepoints)
           sp == [seq |-> q, kind |-> "rt", snap |-> tokens, acts |-> <<>>]
           ah == [seq |-> q, val |-> AssetView]
<1>1. /\ savepoints \in Seq(Savepoints) /\ n \in Nat /\ Len(wcache.ops) = n /\ Len(assetHist) = n
      /\ assetHist \in Seq(AssetHists) /\ wcache \in Caches
  BY Numbers DEF AssetInv, Stacked, Healthy
<1>2. savepoints' = Append(savepoints, sp) /\ assetHist' = Append(assetHist, ah)
      /\ wcache' = WCAddSavepoint(wcache, q) /\ assets' = assets
  BY DEF AddSavepoint
<1>3. sp.seq = q
  OBVIOUS
<1> HIDE DEF sp, ah
<1>4. Len(savepoints') = n + 1 /\ savepoints'[n + 1] = sp /\ \A i \in 1..n : savepoints'[i] = savepoints[i]
  BY <1>1, <1>2
<1>5. Len(assetHist') = n + 1 /\ assetHist'[n + 1] = ah /\ \A i \in 1..n : assetHist'[i] = assetHist[i]
  BY <1>1, <1>2
<1>6. /\ Len(wcache'.ops) = n + 1 /\ wcache'.data = wcache.data
      /\ \A i \in 1..n : wcache'.ops[i] = wcache.ops[i]
      /\ wcache'.ops[n + 1].seq = q /\ \A k : At(wcache', n + 1, k) = {}
  <2> DEFINE wd == WCAddSavepoint(wcache, q)
             m == Len(wcache.ops)
  <2>1. /\ Len(wd.ops) = m + 1 /\ wd.data = wcache.data
        /\ \A i \in 1..m : wd.ops[i] = wcache.ops[i]
        /\ wd.ops[m + 1].seq = q /\ \A k : At(wd, m + 1, k) = {}
    BY <1>1, AddFacts
  <2>2. m = n /\ wcache' = wd
    BY <1>1, <1>2
  <2> HIDE DEF wd, m, n
  <2> QED BY <2>1, <2>2
<1> QED BY <1>2, <1>3, <1>4, <1>5, <1>6 DEF ah

(* read_asset never returns the empty string.                              *)
LEMMA ViewType == ASSUME AssetInv PROVE AssetView \in AssetMaps
<1>1. \A k \in AssetKeys : wcache.data[k].value \in Values \cup {NoVal}
  BY EntryFacts DEF AssetInv, Healthy
<1> QED BY <1>1 DEF AssetInv, AssetView, AssetMaps

(* add_savepoint with the next number keeps the invariant.                 *)
LEMMA AssetAdd ==
    ASSUME AssetInv, BaseInv', NEW q \in Nat, AddSavepoint(q), open' = open + 1, UNCHANGED <<head, lib>>,
           q = head + open + 1
    PROVE  AssetInv'
<1> DEFINE n == Len(savepoints)
           ah == [seq |-> q, val |-> AssetView]
<1>1. /\ n \in Nat /\ Oldest \in Nat /\ head \in Nat /\ open \in Nat /\ Oldest' = Oldest
      /\ n = (head + open + 1) - Oldest /\ head >= 1 /\ lib <= head
  BY Numbers DEF AssetInv, Stacked, Oldest
<1>2. /\ Len(savepoints') = n + 1 /\ Len(wcache'.ops) = n + 1 /\ Len(assetHist') = n + 1
      /\ \A i \in 1..n : savepoints'[i] = savepoints[i] /\ wcache'.ops[i] = wcache.ops[i]
      /\ savepoints'[n + 1].seq = q /\ wcache'.ops[n + 1].seq = q
      /\ wcache' = WCAddSavepoint(wcache, q) /\ assets' = assets
  BY AddShape
<1>3. Stacked'
  <2>1. \A i \in 1..n : savepoints[i].seq = (Oldest + i) - 1 /\ wcache.ops[i].seq = (Oldest + i) - 1
    BY DEF AssetInv, Stacked
  <2> HIDE DEF n
  <2>2. n + 1 = (head' + open' + 1) - Oldest' /\ q = (Oldest + (n + 1)) - 1
    BY <1>1
  <2>3. \A i \in 1..(n + 1) : i \in 1..n \/ i = n + 1
    BY <1>1
  <2>4. \A i \in 1..(n + 1) : savepoints'[i].seq = (Oldest' + i) - 1 /\ wcache'.ops[i].seq = (Oldest' + i) - 1
    BY <1>1, <1>2, <2>1, <2>2, <2>3
  <2> QED BY <1>1, <1>2, <2>2, <2>4 DEF Stacked
<1>4. Healthy(wcache')
  BY <1>2, HealthyAdd DEF AssetInv
<1>5. assetHist' \in Seq(AssetHists)
  <2>1. ah \in AssetHists
    BY ViewType DEF AssetHists
  <2>2. assetHist' = Append(assetHist, ah)
    BY DEF AddSavepoint
  <2> HIDE DEF ah
  <2> QED BY <2>1, <2>2 DEF AssetInv
<1> QED BY <1>2, <1>3, <1>4, <1>5 DEF AssetInv

(* What rollback_to_latest_savepoint does to both stacks and the history.  *)
LEMMA RollbackShape ==
    ASSUME AssetInv, RollbackToLatestSavepoint
    PROVE  LET n == Len(savepoints)
           IN /\ n \in Nat /\ n > 0 /\ Len(savepoints') = n - 1 /\ Len(wcache'.ops) = n - 1 /\ Len(assetHist') = n - 1
              /\ \A i \in 1..(n - 1) : savepoints'[i] = savepoints[i] /\ wcache'.ops[i] = wcache.ops[i] /\ assetHist'[i] = assetHist[i]
              /\ wcache' = WCRollback(wcache) /\ assets' = assets
              /\ assetHist' \in Seq(AssetHists) /\ Last(assetHist) = assetHist[n]
<1> DEFINE n == Len(savepoints)
<1>1. /\ savepoints \in Seq(Savepoints) /\ n \in Nat /\ Len(wcache.ops) = n /\ Len(assetHist) = n
      /\ assetHist \in Seq(AssetHists) /\ wcache \in Caches
  BY Numbers DEF AssetInv, Stacked, Healthy
<1>2. /\ savepoints # <<>> /\ savepoints' = Front(savepoints) /\ wcache' = WCRollback(wcache)
      /\ assetHist' = Front(assetHist) /\ assets' = assets
  BY DEF RollbackToLatestSavepoint
<1>3. n > 0
  BY <1>1, <1>2
<1>4. Len(savepoints') = n - 1 /\ \A i \in 1..(n - 1) : savepoints'[i] = savepoints[i]
  BY <1>1, <1>2, <1>3, StackFacts
<1>5. Len(assetHist') = n - 1 /\ (\A i \in 1..(n - 1) : assetHist'[i] = assetHist[i])
      /\ assetHist' \in Seq(AssetHists) /\ Last(assetHist) = assetHist[n]
  BY <1>1, <1>2, <1>3, StackFacts
<1>6. Len(wcache'.ops) = n - 1 /\ \A i \in 1..(n - 1) : wcache'.ops[i] = wcache.ops[i]
  BY <1>1, <1>2, <1>3, RollbackFacts
<1> QED BY <1>1, <1>2, <1>3, <1>4, <1>5, <1>6

(* rollback_to_latest_savepoint keeps the invariant when a session ends or *)
(* a block is popped.                                                      *)
LEMMA AssetRollback ==
    ASSUME AssetInv, BaseInv', RollbackToLatestSavepoint, lib' = lib, head' \in Nat, open' \in Nat,
           head' + open' + 1 = head + open, head' >= 1, lib <= head'
    PROVE  AssetInv'
<1> DEFINE n == Len(savepoints)
<1>1. /\ n \in Nat /\ n > 0 /\ Len(savepoints') = n - 1 /\ Len(wcache'.ops) = n - 1 /\ Len(assetHist') = n - 1
      /\ \A i \in 1..(n - 1) : savepoints'[i] = savepoints[i] /\ wcache'.ops[i] = wcache.ops[i]
      /\ wcache' = WCRollback(wcache) /\ assets' = assets /\ assetHist' \in Seq(AssetHists)
  BY RollbackShape
<1>2. /\ n = (head + open + 1) - Oldest /\ Oldest' = Oldest /\ Oldest \in Nat /\ head \in Nat /\ open \in Nat
      /\ Len(wcache.ops) = n /\ BaseInv /\ Stacked /\ Healthy(wcache) /\ assets \in AssetMaps
  BY Numbers DEF AssetInv, Stacked, Oldest
<1>3. /\ n - 1 \in Nat /\ 0 + (n - 1) <= n /\ n - 1 = (head' + open' + 1) - Oldest' /\ Oldest' = Oldest + 0
      /\ \A i \in 1..(n - 1) : 0 + i = i
  <2>2. \A m \in Nat : \A i \in 1..(m - 1) : 0 + i = i
    OBVIOUS
  <2>3. n \in Nat /\ n > 0 /\ head' \in Nat /\ open' \in Nat /\ head' + open' + 1 = head + open
    BY <1>1, <1>2
  <2>4. n = (head + open + 1) - Oldest /\ Oldest \in Nat /\ head \in Nat /\ open \in Nat
    BY <1>2
  <2> HIDE DEF n
  <2>5. n - 1 \in Nat /\ 0 + (n - 1) <= n /\ n - 1 = (head' + open' + 1) - Oldest /\ Oldest = Oldest + 0
    <3>1. n - 1 \in Nat /\ 0 + (n - 1) <= n
      BY <2>3
    <3>2. head' + open' + 1 = head + open
      BY <2>3
    <3>3. n - 1 = (head + open) - Oldest
      BY <2>3, <2>4
    <3>4. Oldest = Oldest + 0
      BY <2>4
    <3> QED BY <3>1, <3>2, <3>3, <3>4
  <2>6. \A i \in 1..(n - 1) : 0 + i = i
    BY <2>2, <2>3
  <2> QED BY <1>2, <2>5, <2>6
<1>4. Stacked'
  <2>1. \A i \in 1..(n - 1) : savepoints'[i].seq = savepoints[0 + i].seq /\ wcache'.ops[i].seq = wcache.ops[0 + i].seq
    BY <1>1, <1>3
  <2>2. 0 \in Nat
    OBVIOUS
  <2> QED BY <1>1, <1>2, <1>3, <2>1, <2>2, StackedTo
<1>5. Healthy(wcache')
  BY <1>1, <1>2, HealthyRollback
<1> QED BY <1>1, <1>2, <1>4, <1>5 DEF AssetInv

(* What squash does to both stacks and the history.                        *)
LEMMA SquashShape ==
    ASSUME AssetInv, BaseInv', SquashTrx
    PROVE  LET n == Len(savepoints)
           IN /\ n \in Nat /\ n >= 2 /\ Len(savepoints') = n - 1 /\ Len(wcache'.ops) = n - 1 /\ Len(assetHist') = n - 1
              /\ \A i \in 1..(n - 1) : savepoints'[i].seq = savepoints[i].seq /\ wcache'.ops[i].seq = wcache.ops[i].seq
              /\ \A i \in 1..(n - 1) : assetHist'[i] = assetHist[i]
              /\ wcache' = WCSquash(wcache) /\ assets' = assets /\ assetHist' \in Seq(AssetHists)
<1> DEFINE n == Len(savepoints)
           lev == [savepoints[n - 1] EXCEPT !.acts = @ \o savepoints[n].acts]
<1>1. /\ savepoints \in Seq(Savepoints) /\ n \in Nat /\ Len(wcache.ops) = n /\ Len(assetHist) = n
      /\ assetHist \in Seq(AssetHists) /\ wcache \in Caches /\ open <= n /\ open \in Nat
  BY Numbers DEF AssetInv, Stacked, Healthy, BaseInv
<1>2. /\ open >= 2 /\ savepoints' = [Front(savepoints) EXCEPT ![n - 1].acts = @ \o savepoints[n].acts]
      /\ wcache' = WCSquash(wcache) /\ assetHist' = Front(assetHist) /\ assets' = assets
  BY DEF SquashTrx
<1>3. n >= 2
  BY <1>1, <1>2
<1>4. /\ Len(Front(savepoints)) = n - 1 /\ \A i \in 1..(n - 1) : Front(savepoints)[i] = savepoints[i]
      /\ Front(savepoints) \in Seq(Savepoints)
  <2>1. Len(savepoints) > 0 /\ savepoints \in Seq(Savepoints)
    BY <1>1, <1>3
  <2> QED BY <2>1, StackFacts
<1>5. n - 1 \in 1..(n - 1) /\ n - 1 \in 1..n
  <2> HIDE DEF n
  <2> QED BY <1>1, <1>3
<1>6. savepoints[n - 1] \in Savepoints
  BY <1>1, <1>5
<1>7. lev.seq = savepoints[n - 1].seq
  BY <1>6 DEF Savepoints
<1>8. savepoints' = [Front(savepoints) EXCEPT ![n - 1] = lev]
  <2>1. Front(savepoints)[n - 1] = savepoints[n - 1]
    BY <1>4, <1>5
  <2> QED BY <1>2, <2>1
<1> HIDE DEF lev
<1>9. /\ Len(savepoints') = n - 1 /\ savepoints'[n - 1] = lev
      /\ \A i \in 1..(n - 1) : i # n - 1 => savepoints'[i] = Front(savepoints)[i]
  <2> DEFINE f == Front(savepoints)
  <2> HIDE DEF n, f
  <2>1. f \in Seq(Savepoints) /\ Len(f) = n - 1 /\ savepoints' = [f EXCEPT ![n - 1] = lev]
    BY <1>4, <1>8 DEF f, n
  <2>2. Len(savepoints') = n - 1 /\ savepoints'[n - 1] = lev /\ \A i \in 1..(n - 1) : i # n - 1 => savepoints'[i] = f[i]
    BY <1>1, <1>3, <1>5, <2>1
  <2> QED BY <2>2 DEF f, n
<1>10. \A i \in 1..(n - 1) : savepoints'[i].seq = savepoints[i].seq
  BY <1>4, <1>7, <1>9
<1>11. Len(assetHist') = n - 1 /\ (\A i \in 1..(n - 1) : assetHist'[i] = assetHist[i]) /\ assetHist' \in Seq(AssetHists)
  <2>1. Len(assetHist) > 0
    BY <1>1, <1>3
  <2> QED BY <1>1, <1>2, <2>1, StackFacts
<1>12. Len(wcache'.ops) = n - 1 /\ \A i \in 1..(n - 1) : wcache'.ops[i].seq = wcache.ops[i].seq
  BY <1>1, <1>2, <1>3, SquashFacts
<1> QED BY <1>1, <1>2, <1>3, <1>9, <1>10, <1>11, <1>12

(* squash keeps the invariant.                                             *)
LEMMA AssetSquash ==
    ASSUME AssetInv, BaseInv', SquashTrx
    PROVE  AssetInv'
<1> DEFINE n == Len(savepoints)
<1>1. /\ n \in Nat /\ n >= 2 /\ Len(savepoints') = n - 1 /\ Len(wcache'.ops) = n - 1 /\ Len(assetHist') = n - 1
      /\ \A i \in 1..(n - 1) : savepoints'[i].seq = savepoints[i].seq /\ wcache'.ops[i].seq = wcache.ops[i].seq
      /\ wcache' = WCSquash(wcache) /\ assets' = assets /\ assetHist' \in Seq(AssetHists)
  BY SquashShape
<1>2. /\ n = (head + open + 1) - Oldest /\ Oldest' = Oldest /\ Oldest \in Nat /\ head \in Nat /\ open \in Nat
      /\ Len(wcache.ops) = n /\ BaseInv /\ Stacked /\ Healthy(wcache) /\ assets \in AssetMaps
      /\ open >= 2 /\ open' = open - 1 /\ head' = head /\ lib' = lib /\ head >= 1 /\ lib <= head
  BY Numbers DEF AssetInv, Stacked, Oldest, SquashTrx
<1>3. /\ n - 1 \in Nat /\ 0 + (n - 1) <= n /\ n - 1 = (head' + open' + 1) - Oldest' /\ Oldest' = Oldest + 0
      /\ \A i \in 1..(n - 1) : 0 + i = i
  <2>2. \A m \in Nat : \A i \in 1..(m - 1) : 0 + i = i
    OBVIOUS
  <2>3. n \in Nat /\ n > 0 /\ head' \in Nat /\ open' \in Nat /\ head' + open' + 1 = head + open
    BY <1>1, <1>2
  <2>4. n = (head + open + 1) - Oldest /\ Oldest \in Nat /\ head \in Nat /\ open \in Nat
    BY <1>2
  <2> HIDE DEF n
  <2>5. n - 1 \in Nat /\ 0 + (n - 1) <= n /\ n - 1 = (head' + open' + 1) - Oldest /\ Oldest = Oldest + 0
    <3>1. n - 1 \in Nat /\ 0 + (n - 1) <= n
      BY <2>3
    <3>2. head' + open' + 1 = head + open
      BY <2>3
    <3>3. n - 1 = (head + open) - Oldest
      BY <2>3, <2>4
    <3>4. Oldest = Oldest + 0
      BY <2>4
    <3> QED BY <3>1, <3>2, <3>3, <3>4
  <2>6. \A i \in 1..(n - 1) : 0 + i = i
    BY <2>2, <2>3
  <2> QED BY <1>2, <2>5, <2>6
<1>4. Stacked'
  <2>1. \A i \in 1..(n - 1) : savepoints'[i].seq = savepoints[0 + i].seq /\ wcache'.ops[i].seq = wcache.ops[0 + i].seq
    BY <1>1, <1>3
  <2>2. 0 \in Nat
    OBVIOUS
  <2> QED BY <1>1, <1>2, <1>3, <2>1, <2>2, StackedTo
<1>5. Healthy(wcache')
  BY <1>1, <1>2, HealthySquash
<1> QED BY <1>1, <1>2, <1>4, <1>5 DEF AssetInv

-----------------------------------------------------------------------------

(* A new irreversible block drops one savepoint, and none before block 2.  *)
LEMMA DropCount ==
    ASSUME BaseInv, Stacked, NEW d \in 0..Len(savepoints), open <= 1, lib + 1 < head,
           \A i \in 1..d : savepoints[i].seq < lib + 1,
           d < Len(savepoints) => savepoints[d + 1].seq >= lib + 1,
           lib' = lib + 1, UNCHANGED <<open, head>>
    PROVE  /\ Oldest' = Oldest + d /\ d \in Nat /\ Len(savepoints) - d \in Nat
           /\ Len(savepoints) - d = (head' + open' + 1) - Oldest'
<1> DEFINE n == Len(savepoints)
<1>1. /\ n \in Nat /\ Oldest \in Nat /\ head \in Nat /\ open \in Nat /\ lib \in Nat
      /\ n = (head + open + 1) - Oldest /\ d \in 0..n
  BY Numbers DEF Stacked
<1>2. \A i \in 1..n : savepoints[i].seq = (Oldest + i) - 1
  BY DEF Stacked
<1>3. d > 0 => (Oldest + d) - 1 < lib + 1
  <2> HIDE DEF n
  <2>1. d > 0 => d \in 1..d /\ d \in 1..n
    BY <1>1
  <2> QED BY <1>2, <2>1
<1>4. d < n => (Oldest + (d + 1)) - 1 >= lib + 1
  <2>1. d < n => savepoints[d + 1].seq >= lib + 1
    OBVIOUS
  <2> HIDE DEF n
  <2>2. d < n => d + 1 \in 1..n
    BY <1>1
  <2> QED BY <1>2, <2>1, <2>2
<1>5. d < n
  <2> HIDE DEF n
  <2>1. CASE lib < 2
    <3>1. Oldest = 2
      BY <1>1, <2>1 DEF Oldest
    <3> QED BY <1>1, <1>3, <2>1, <3>1
  <2>2. CASE ~(lib < 2)
    <3>1. Oldest = lib
      BY <1>1, <2>2 DEF Oldest
    <3> QED BY <1>1, <1>3, <2>2, <3>1
  <2> QED BY <2>1, <2>2
<1>6. Oldest' = Oldest + d
  <2> HIDE DEF n
  <2>1. CASE lib < 1
    <3>1. Oldest = 2 /\ Oldest' = 2
      BY <1>1, <2>1 DEF Oldest
    <3> QED BY <1>1, <1>3, <1>4, <1>5, <2>1, <3>1
  <2>2. CASE lib = 1
    <3>1. Oldest = 2 /\ Oldest' = 2
      BY <1>1, <2>2 DEF Oldest
    <3> QED BY <1>1, <1>3, <1>4, <1>5, <2>2, <3>1
  <2>3. CASE lib >= 2
    <3>1. Oldest = lib /\ Oldest' = lib + 1
      BY <1>1, <2>3 DEF Oldest
    <3> QED BY <1>1, <1>3, <1>4, <1>5, <2>3, <3>1
  <2> QED BY <1>1, <2>1, <2>2, <2>3
<1> HIDE DEF n
<1>7. d \in Nat /\ n - d \in Nat /\ n - d = (head' + open' + 1) - Oldest'
  BY <1>1, <1>5, <1>6
<1> QED BY <1>6, <1>7 DEF n

(* on_irreversible keeps the invariant and what readers see.               *)
LEMMA AssetPop ==
    ASSUME AssetInv, BaseInv', Irreversible
    PROVE  AssetInv' /\ UNCHANGED <<tokens, AssetView>>
<1> DEFINE n == Len(savepoints)
<1>1. /\ n \in Nat /\ Len(wcache.ops) = n /\ Len(assetHist) = n /\ assetHist \in Seq(AssetHists)
      /\ savepoints \in Seq(Savepoints) /\ BaseInv /\ Stacked /\ Healthy(wcache) /\ assets \in AssetMaps
      /\ lib \in Nat /\ head \in Nat /\ head >= 1
  BY Numbers DEF AssetInv, Stacked
<1>2. open <= 1 /\ lib + 1 < head /\ lib' = lib + 1 /\ open' = open /\ head' = head /\ PopSavepoints(lib + 1)
  BY DEF Irreversible
<1>3. PICK d \in 0..n :
         /\ \A i \in 1..d : savepoints[i].seq < lib + 1
         /\ d < n => savepoints[d + 1].seq >= lib + 1
         /\ savepoints' = SubSeq(savepoints, d + 1, n)
         /\ wcache' = WCPopFront(wcache, d)
         /\ assets' = [k \in AssetKeys |-> IF WCPersisted(wcache, d, k) THEN wcache.data[k].value ELSE assets[k]]
         /\ assetHist' = SubSeq(assetHist, d + 1, n)
         /\ tokens' = tokens
  BY <1>1, <1>2 DEF PopSavepoints
<1>4. /\ Oldest' = Oldest + d /\ d \in Nat /\ n - d \in Nat
      /\ n - d = (head' + open' + 1) - Oldest'
  BY <1>1, <1>2, <1>3, DropCount
<1>5. Len(savepoints') = n - d /\ \A i \in 1..(n - d) : savepoints'[i] = savepoints[d + i]
  BY <1>1, <1>3, DropFacts
<1>6. Len(assetHist') = n - d /\ assetHist' \in Seq(AssetHists)
  BY <1>1, <1>3, DropFacts
<1>7. /\ Len(wcache'.ops) = n - d /\ \A i \in 1..(n - d) : wcache'.ops[i] = wcache.ops[d + i]
      /\ wcache'.data = [k \in AssetKeys |-> IF WCPersisted(wcache, d, k) THEN NoEntry
                                      ELSE [used |-> WCUsersLeft(wcache, d, k), value |-> wcache.data[k].value]]
  <2> DEFINE wd == WCPopFront(wcache, d)
             m == Len(wcache.ops)
  <2>1. /\ Len(wd.ops) = m - d
        /\ \A i \in 1..(m - d) : wd.ops[i] = wcache.ops[d + i]
        /\ wd.data = [k \in AssetKeys |-> IF WCPersisted(wcache, d, k) THEN NoEntry
                                      ELSE [used |-> WCUsersLeft(wcache, d, k), value |-> wcache.data[k].value]]
    BY <1>1, PopFacts
  <2>2. m = n /\ wcache' = wd
    BY <1>1, <1>3
  <2> HIDE DEF wd, m, n
  <2> QED BY <2>1, <2>2
<1>8. Stacked'
  <2>1. d + (n - d) <= n /\ lib' <= head' /\ head' >= 1
    <3> HIDE DEF n
    <3> QED BY <1>1, <1>2, <1>4
  <2> QED BY <1>1, <1>4, <1>5, <1>7, <2>1, StackedTo
<1>9. Healthy(wcache') /\ \A k \in AssetKeys : WCPersisted(wcache, d, k) => wcache.data[k].value \in Values
  BY <1>1, <1>3, HealthyPop
<1>10. assets' \in AssetMaps
  BY <1>1, <1>3, <1>9 DEF AssetMaps
<1>11. \A k \in AssetKeys : AssetView'[k] = AssetView[k]
  <2> SUFFICES ASSUME NEW k \in AssetKeys PROVE AssetView'[k] = AssetView[k]
    OBVIOUS
  <2>0. AssetView[k] = (IF Cached(wcache, k) THEN wcache.data[k].value ELSE assets[k])
        /\ AssetView'[k] = (IF Cached(wcache', k) THEN wcache'.data[k].value ELSE assets'[k])
    BY DEF AssetView
  <2>1. /\ WCUsersLeft(wcache, d, k) \in Nat
        /\ WCPersisted(wcache, d, k) => Cached(wcache, k)
        /\ ~WCPersisted(wcache, d, k) => (Cached(wcache, k) <=> WCUsersLeft(wcache, d, k) > 0)
    BY <1>1, LeftFacts
  <2>2. CASE WCPersisted(wcache, d, k)
    <3>1. wcache'.data[k] = NoEntry
      BY <1>7, <2>2, Zenon
    <3>2. ~Cached(wcache', k)
      BY <3>1 DEF Cached, NoEntry
    <3>3. assets'[k] = wcache.data[k].value
      BY <1>3, <2>2
    <3> QED BY <2>0, <2>1, <2>2, <3>2, <3>3
  <2>3. CASE ~WCPersisted(wcache, d, k)
    <3>1. wcache'.data[k] = [used |-> WCUsersLeft(wcache, d, k), value |-> wcache.data[k].value]
      BY <1>7, <2>3, Zenon
    <3>2. wcache'.data[k].value = wcache.data[k].value /\ (Cached(wcache', k) <=> Cached(wcache, k))
      BY <2>1, <2>3, <3>1 DEF Cached
    <3>3. assets'[k] = assets[k]
      BY <1>3, <2>3
    <3> QED BY <2>0, <3>2, <3>3
  <2> QED BY <2>2, <2>3
<1>12. AssetView' = AssetView
  BY <1>11 DEF AssetView
<1>13. AssetInv'
  BY <1>5, <1>6, <1>8, <1>9, <1>10 DEF AssetInv
<1> QED BY <1>3, <1>12, <1>13

(* A clean restart keeps the invariant and what readers see.               *)
LEMMA AssetRestart ==
    ASSUME AssetInv, BaseInv', Restart
    PROVE  AssetInv' /\ UNCHANGED <<tokens, AssetView>>
<1> DEFINE n == Len(savepoints)
           wd == WCReload(wcache)
<1>1. /\ n \in Nat /\ Len(wcache.ops) = n /\ Len(assetHist) = n /\ assetHist \in Seq(AssetHists)
      /\ DOMAIN savepoints = 1..n /\ BaseInv /\ Stacked /\ Healthy(wcache) /\ assets \in AssetMaps
      /\ lib \in Nat /\ head \in Nat /\ head >= 1 /\ lib <= head /\ Oldest \in Nat
      /\ n = (head + open + 1) - Oldest
  BY Numbers DEF AssetInv, Stacked
<1>2. /\ savepoints' = [i \in 1..n |-> PersistGroup(savepoints[i])] /\ wcache' = wd
      /\ tokens' = tokens /\ assets' = assets /\ open' = open /\ head' = head /\ lib' = lib /\ assetHist' = assetHist
      /\ Oldest' = Oldest
  BY <1>1 DEF Restart, histVars, Oldest
<1>3. Len(savepoints') = n /\ \A i \in 1..n : savepoints'[i].seq = savepoints[i].seq
  <2>1. Len(savepoints') = n /\ \A i \in 1..n : savepoints'[i] = PersistGroup(savepoints[i])
    BY <1>1, <1>2
  <2>2. \A sp : PersistGroup(sp).seq = sp.seq
    BY DEF PersistGroup
  <2> QED BY <2>1, <2>2
<1>4. /\ Len(wd.ops) = n /\ \A i \in 1..n : wd.ops[i].seq = wcache.ops[i].seq
      /\ \A k \in AssetKeys : wd.data[k].used = wcache.data[k].used
      /\ \A k \in AssetKeys : Cached(wcache, k) => wd.data[k].value = wcache.data[k].value
  BY <1>1, ReloadFacts
<1> HIDE DEF wd
<1>5. Stacked'
  <2>1. 0 \in Nat /\ 0 + n <= n /\ Oldest' = Oldest + 0 /\ n = (head' + open' + 1) - Oldest' /\ \A i \in 1..n : 0 + i = i
    <3> HIDE DEF n
    <3> QED BY <1>1, <1>2
  <2>2. \A i \in 1..n : savepoints'[i].seq = savepoints[0 + i].seq /\ wcache'.ops[i].seq = wcache.ops[0 + i].seq
    BY <1>2, <1>3, <1>4, <2>1
  <2> QED BY <1>1, <1>2, <1>3, <1>4, <2>1, <2>2, StackedTo
<1>6. Healthy(wcache')
  BY <1>1, <1>2, HealthyReload DEF wd
<1>7. \A k \in AssetKeys : AssetView'[k] = AssetView[k]
  BY <1>2, <1>4 DEF AssetView, Cached
<1>8. AssetView' = AssetView
  BY <1>7 DEF AssetView
<1>9. AssetInv'
  BY <1>1, <1>2, <1>3, <1>5, <1>6 DEF AssetInv
<1> QED BY <1>2, <1>8, <1>9

(* Steps that leave both stacks their numbers keep the invariant.          *)
LEMMA AssetSame ==
    ASSUME AssetInv, BaseInv', UNCHANGED <<assets, assetHist, lib>>,
           Healthy(wcache'), Len(wcache'.ops) = Len(wcache.ops),
           \A i \in 1..Len(savepoints) : wcache'.ops[i].seq = wcache.ops[i].seq,
           Len(savepoints') = Len(savepoints),
           \A i \in 1..Len(savepoints) : savepoints'[i].seq = savepoints[i].seq,
           head' >= head, head' + open' = head + open, head' \in Nat, open' \in Nat
    PROVE  AssetInv'
<1> DEFINE n == Len(savepoints)
<1>1. /\ n \in Nat /\ Len(wcache.ops) = n /\ Len(assetHist) = n /\ assetHist \in Seq(AssetHists)
      /\ BaseInv /\ Stacked /\ assets \in AssetMaps /\ Oldest' = Oldest
      /\ lib \in Nat /\ head \in Nat /\ open \in Nat /\ head >= 1 /\ lib <= head /\ Oldest \in Nat
      /\ n = (head + open + 1) - Oldest
  BY Numbers DEF AssetInv, Stacked, Oldest
<1>2. /\ 0 \in Nat /\ 0 + n <= n /\ Oldest' = Oldest + 0 /\ n = (head' + open' + 1) - Oldest' /\ (\A i \in 1..n : 0 + i = i)
      /\ head' >= 1 /\ lib' <= head'
  <2>1. lib' = lib
    OBVIOUS
  <2>2. \A h, o, l, g, p, b, m \in Nat :
           g + p = h + o /\ g >= h /\ h >= 1 /\ l <= h /\ m = (h + o + 1) - b =>
              0 + m <= m /\ b = b + 0 /\ m = (g + p + 1) - b /\ g >= 1 /\ l <= g
    OBVIOUS
  <2>3. /\ 0 + n <= n /\ Oldest = Oldest + 0 /\ n = (head' + open' + 1) - Oldest /\ head' >= 1 /\ lib <= head'
    <3> HIDE DEF n
    <3> QED BY <1>1, <2>2
  <2>4. 0 \in Nat /\ \A i \in 1..n : 0 + i = i
    <3> HIDE DEF n
    <3> QED BY <1>1
  <2> QED BY <1>1, <2>1, <2>3, <2>4
<1>3. \A i \in 1..n : savepoints'[i].seq = savepoints[0 + i].seq /\ wcache'.ops[i].seq = wcache.ops[0 + i].seq
  BY <1>2
<1>4. Stacked'
  BY <1>1, <1>2, <1>3, StackedTo
<1> QED BY <1>1, <1>4 DEF AssetInv

-----------------------------------------------------------------------------

(* The invariant holds after genesis.                                      *)
LEMMA AssetInit == Init => AssetInv
<1> SUFFICES ASSUME Init PROVE AssetInv
  OBVIOUS
<1>1. BaseInv
  BY BaseInit
<1>2. /\ savepoints = <<>> /\ assetHist = <<>> /\ wcache = EmptyCache /\ open = 0 /\ head = 1 /\ lib = 0
      /\ assets \in AssetMaps
  BY DEF Init, AssetMaps
<1>3. wcache.ops = <<>> /\ \A k \in AssetKeys : wcache.data[k] = NoEntry
  BY <1>2 DEF EmptyCache
<1>4. wcache \in Caches
  <2>1. NoEntry \in Entries
    BY DEF NoEntry, Entries
  <2>2. [k \in AssetKeys |-> NoEntry] \in [AssetKeys -> Entries]
    BY <2>1
  <2> QED BY <1>2, <2>2 DEF EmptyCache, Caches
<1>5. \A k \in AssetKeys : wcache.data[k].used = 0
  BY <1>3 DEF NoEntry
<1>6. Len(wcache.ops) = 0 /\ 1..Len(wcache.ops) = {}
  BY <1>3
<1>7. Counted(wcache)
  <2> SUFFICES ASSUME NEW k \in AssetKeys PROVE wcache.data[k].used = Count(wcache, k)
    BY DEF Counted
  <2>1. OpsOn(wcache, {}, k) = {}
    BY DEF OpsOn
  <2>2. Cardinality({}) = 0
    BY FS_EmptySet
  <2> QED BY <1>5, <1>6, <2>1, <2>2 DEF Count, Uses
<1>8. Healthy(wcache)
  BY <1>4, <1>5, <1>6, <1>7 DEF Healthy, Valued, Replaced, Cached
<1>9. Stacked
  BY <1>2, <1>6 DEF Stacked, Oldest
<1> QED BY <1>1, <1>2, <1>8, <1>9 DEF AssetInv

(* What put_asset does.                                                    *)
LEMMA PutShape ==
    ASSUME AssetInv, NEW k \in AssetKeys, NEW v \in Values, PutAsset(k, v)
    PROVE  LET n == Len(savepoints)
               x == Len(wcache.ops[n].vec) + 1
           IN /\ n \in Nat /\ n > 0 /\ Len(wcache.ops) = n /\ wcache' = WCPut(wcache, k, v)
              /\ IsPut(wcache, wcache', n, x, k, v)
              /\ UNCHANGED <<tokens, assets, savepoints, open, head, lib, restarts, tokenHist, assetHist>>
<1> DEFINE n == Len(savepoints)
<1>1. n \in Nat /\ Len(wcache.ops) = n /\ open <= n /\ open \in Nat /\ Healthy(wcache)
  BY Numbers DEF AssetInv, Stacked, BaseInv
<1>2. /\ open >= 2 /\ wcache' = WCPut(wcache, k, v)
      /\ UNCHANGED <<tokens, assets, savepoints, open, head, lib, restarts, tokenHist, assetHist>>
  BY DEF PutAsset, ctlVars, histVars
<1>3. n > 0
  BY <1>1, <1>2
<1>4. IsPut(wcache, WCPut(wcache, k, v), Len(wcache.ops), Len(wcache.ops[Len(wcache.ops)].vec) + 1, k, v)
  BY <1>1, <1>3, PutFacts DEF Healthy, Valued
<1> QED BY <1>1, <1>2, <1>3, <1>4

(* put_asset keeps the invariant.                                          *)
LEMMA AssetPut ==
    ASSUME AssetInv, BaseInv', NEW k \in AssetKeys, NEW v \in Values, PutAsset(k, v)
    PROVE  AssetInv'
<1> DEFINE n == Len(savepoints)
           x == Len(wcache.ops[n].vec) + 1
<1>1. /\ n \in Nat /\ n > 0 /\ Len(wcache.ops) = n /\ wcache' = WCPut(wcache, k, v)
      /\ IsPut(wcache, wcache', n, x, k, v)
      /\ UNCHANGED <<tokens, assets, savepoints, open, head, lib, restarts, tokenHist, assetHist>>
  BY PutShape
<1> HIDE DEF x
<1>2. Len(wcache'.ops) = n /\ \A i \in 1..n : wcache'.ops[i].seq = wcache.ops[i].seq
  BY <1>1 DEF IsPut
<1>3. Healthy(wcache')
  BY <1>1, HealthyPut DEF AssetInv
<1>4. head' >= head /\ head' + open' = head + open /\ head' \in Nat /\ open' \in Nat
  BY <1>1, Numbers DEF AssetInv
<1> QED BY <1>1, <1>2, <1>3, <1>4, AssetSame

(* put_token and put_tokens keep the invariant.                            *)
LEMMA AssetTokens ==
    ASSUME AssetInv, BaseInv', NEW op, NEW K, NEW v, WriteTokens(op, K, v)
    PROVE  AssetInv'
<1> DEFINE n == Len(savepoints)
           lev == [savepoints[n] EXCEPT !.acts = Append(@, [op |-> op, keys |-> K, old |-> NoOld])]
<1>1. /\ n \in Nat /\ savepoints \in Seq(Savepoints) /\ open <= n /\ open \in Nat /\ head \in Nat /\ Healthy(wcache)
  BY Numbers DEF AssetInv, BaseInv
<1>2. /\ open >= 2
      /\ savepoints' = [savepoints EXCEPT ![n] = lev]
      /\ UNCHANGED <<wcache, assets, assetHist, head, open, lib>>
  BY DEF WriteTokens, ctlVars, histVars
<1>3. n \in 1..n
  BY <1>1, <1>2
<1>4. savepoints[n] \in Savepoints
  BY <1>1, <1>3
<1>5. lev.seq = savepoints[n].seq
  BY <1>4 DEF Savepoints
<1> HIDE DEF lev
<1>6. Len(savepoints') = n /\ \A i \in 1..n : savepoints'[i].seq = savepoints[i].seq
  BY <1>1, <1>2, <1>3, <1>5
<1>7. head' >= head /\ head' + open' = head + open /\ head' \in Nat /\ open' \in Nat
  BY <1>1, <1>2
<1> QED BY <1>1, <1>2, <1>6, <1>7, AssetSame

(* The latest savepoint is the innermost session's.                        *)
LEMMA LatestSeq ==
    ASSUME AssetInv, open >= 1
    PROVE  Last(savepoints).seq + 1 = head + open + 1
<1> DEFINE n == Len(savepoints)
<1>1. /\ n \in Nat /\ savepoints \in Seq(Savepoints) /\ open <= n /\ open \in Nat /\ head \in Nat /\ Oldest \in Nat
      /\ n = (head + open + 1) - Oldest
  BY Numbers DEF AssetInv, BaseInv, Stacked
<1>2. n \in 1..n /\ n > 0
  BY <1>1
<1>3. Last(savepoints) = savepoints[n]
  BY <1>1, <1>2, StackFacts
<1>4. savepoints[n].seq = (Oldest + n) - 1
  BY <1>2 DEF AssetInv, Stacked
<1> HIDE DEF n
<1> QED BY <1>1, <1>3, <1>4

(* Every step keeps the invariant.                                         *)
LEMMA AssetStep == AssetInv /\ [Next]_vars => AssetInv'
<1> SUFFICES ASSUME AssetInv, [Next]_vars PROVE AssetInv'
  OBVIOUS
<1>0. /\ BaseInv' /\ BaseInv /\ open \in Nat /\ head \in Nat /\ lib \in Nat /\ restarts \in Nat
      /\ head >= 1 /\ lib <= head /\ Healthy(wcache)
  BY BaseStep, Numbers DEF AssetInv, Stacked
<1>1. CASE PutToken
  BY <1>0, <1>1, AssetTokens DEF PutToken, PutTokens
<1>2. CASE IssueTokens
  BY <1>0, <1>2, AssetTokens DEF IssueTokens, PutTokens
<1>3. CASE WriteAsset
  BY <1>0, <1>3, AssetPut DEF WriteAsset
<1>4. CASE StartBlock
  <2>1. open = 0 /\ AddSavepoint(head + 1) /\ open' = 1 /\ head' = head /\ lib' = lib
    BY <1>4 DEF StartBlock
  <2>2. head + 1 \in Nat /\ open' = open + 1 /\ head + 1 = head + open + 1
    BY <1>0, <2>1
  <2> QED BY <1>0, <2>1, <2>2, AssetAdd
<1>5. CASE StartTrx
  <2>1. open >= 1 /\ AddSavepoint(Last(savepoints).seq + 1) /\ open' = open + 1 /\ head' = head /\ lib' = lib
    BY <1>5 DEF StartTrx
  <2>2. Last(savepoints).seq + 1 = head + open + 1 /\ head + open + 1 \in Nat
    BY <1>0, <2>1, LatestSeq
  <2> QED BY <1>0, <2>1, <2>2, AssetAdd
<1>6. CASE SquashTrx
  BY <1>0, <1>6, AssetSquash
<1>7. CASE UndoTrx
  <2>1. open >= 2 /\ RollbackToLatestSavepoint /\ open' = open - 1 /\ head' = head /\ lib' = lib
    BY <1>7 DEF UndoTrx
  <2>2. head' + open' + 1 = head + open /\ open' \in Nat
    BY <1>0, <2>1
  <2> QED BY <1>0, <2>1, <2>2, AssetRollback
<1>8. CASE AbortBlock
  <2>1. open = 1 /\ RollbackToLatestSavepoint /\ open' = 0 /\ head' = head /\ lib' = lib
    BY <1>8 DEF AbortBlock
  <2>2. head' + open' + 1 = head + open /\ open' \in Nat
    BY <1>0, <2>1
  <2> QED BY <1>0, <2>1, <2>2, AssetRollback
<1>9. CASE CommitBlock
  <2>1. open = 1 /\ open' = 0 /\ head' = head + 1 /\ UNCHANGED <<assets, assetHist, lib, wcache, savepoints>>
    BY <1>9 DEF CommitBlock, dbVars, histVars
  <2>2. head' >= head /\ head' + open' = head + open /\ head' \in Nat /\ open' \in Nat
    BY <1>0, <2>1
  <2> QED BY <1>0, <2>1, <2>2, AssetSame
<1>10. CASE PopBlock
  <2>1. open = 0 /\ PrevKept /\ RollbackToLatestSavepoint /\ open' = open /\ head' = head - 1 /\ lib' = lib
    BY <1>10 DEF PopBlock
  <2>2. Len(savepoints) > 0 /\ Len(savepoints) = (head + open + 1) - Oldest
    BY <2>1, RollbackShape DEF AssetInv, Stacked
  <2>3. Oldest \in Nat /\ Oldest >= 2
    BY <1>0 DEF Oldest
  <2>4. head >= 2
    BY <1>0, <2>1, <2>2, <2>3
  <2>5. head' + open' + 1 = head + open /\ head' \in Nat /\ open' \in Nat /\ head' >= 1 /\ lib <= head'
    BY <1>0, <2>1, <2>4 DEF PrevKept
  <2> QED BY <1>0, <2>1, <2>5, AssetRollback
<1>11. CASE Irreversible
  BY <1>0, <1>11, AssetPop
<1>12. CASE Restart
  BY <1>0, <1>12, AssetRestart
<1>13. CASE UNCHANGED vars
  <2>1. UNCHANGED <<assets, assetHist, lib, wcache, savepoints, head, open>>
    BY <1>13 DEF vars, dbVars, ctlVars, histVars
  <2>2. head' >= head /\ head' + open' = head + open /\ head' \in Nat /\ open' \in Nat
    BY <1>0, <2>1
  <2> QED BY <1>0, <2>1, <2>2, AssetSame
<1> QED
  BY <1>1, <1>2, <1>3, <1>4, <1>5, <1>6, <1>7, <1>8, <1>9, <1>10, <1>11, <1>12, <1>13 DEF Next

(* The invariant implies LockStep.                                         *)
LEMMA StackedLockStep == AssetInv => LockStep
<1> SUFFICES ASSUME AssetInv PROVE LockStep
  OBVIOUS
<1> DEFINE n == Len(savepoints)
<1>1. /\ n \in Nat /\ DOMAIN savepoints = 1..n /\ Len(wcache.ops) = n /\ open \in Nat /\ head \in Nat /\ lib \in Nat
      /\ Oldest \in Nat /\ n = (head + open + 1) - Oldest /\ head >= 1 /\ lib <= head
      /\ \A i \in 1..n : savepoints[i].seq = (Oldest + i) - 1 /\ wcache.ops[i].seq = (Oldest + i) - 1
  BY Numbers DEF AssetInv, Stacked
<1>2. {savepoints[i].seq : i \in 1..n} = {b \in 2..(head + open) : b >= lib}
  <2>1. ASSUME NEW i \in 1..n PROVE savepoints[i].seq \in 2..(head + open) /\ savepoints[i].seq >= lib
    <3>1. savepoints[i].seq = (Oldest + i) - 1
      BY <1>1
    <3> HIDE DEF n
    <3> QED BY <1>1, <3>1 DEF Oldest
  <2>2. ASSUME NEW b \in 2..(head + open), b >= lib PROVE \E i \in 1..n : savepoints[i].seq = b
    <3>1. (b - Oldest) + 1 \in 1..n /\ (Oldest + ((b - Oldest) + 1)) - 1 = b
      <4> HIDE DEF n
      <4> QED BY <1>1, <2>2 DEF Oldest
    <3> QED BY <1>1, <3>1
  <2> QED BY <2>1, <2>2
<1>3. \A i, j \in 1..n : i < j => savepoints[i].seq < savepoints[j].seq
  <2> HIDE DEF n
  <2> QED BY <1>1
<1> QED BY <1>1, <1>2, <1>3 DEF LockStep

(* The savepoint stack and the write cache's stay in step, one savepoint   *)
(* per block that may be undone, numbered as the block (add_savepoint,     *)
(* squash, pop_savepoints, rollback_to_latest_savepoint).                  *)
THEOREM LockStepKept == Spec => []LockStep
  BY AssetInit, AssetStep, StackedLockStep, PTL DEF Spec

(* The invariant implies TypeOK.                                           *)
LEMMA HealthyTyped == AssetInv /\ lost \subseteq AssetKeys => TypeOK
<1> SUFFICES ASSUME AssetInv, lost \subseteq AssetKeys PROVE TypeOK
  OBVIOUS
<1>1. TokenTypeOK /\ wcache \in Caches /\ assets \in AssetMaps /\ assetHist \in Seq(AssetHists)
  BY DEF AssetInv, BaseInv, Healthy
<1>2. wcache.data \in [AssetKeys -> [used : Nat, value : Values \cup {NoVal}]]
  BY <1>1 DEF Caches, Entries
<1>3. \A i \in DOMAIN wcache.ops : \A j \in DOMAIN wcache.ops[i].vec :
          wcache.ops[i].vec[j] \in [key : AssetKeys, pv : Values \cup {Empty}]
  <2> SUFFICES ASSUME NEW i \in DOMAIN wcache.ops, NEW j \in DOMAIN wcache.ops[i].vec
               PROVE  wcache.ops[i].vec[j] \in Writes
    BY DEF Writes
  <2>1. wcache.ops[i].vec \in Seq(Writes)
    BY <1>1, CacheFacts
  <2> QED BY <2>1
<1> QED BY <1>1, <1>2, <1>3 DEF TypeOK, AssetTypeOK, AssetMaps, AssetHists

(* Every variable keeps its type, through restarts and irreversible        *)
(* blocks: no used_count falls below zero and no balance is the empty      *)
(* string (write_cache_layer).                                             *)
THEOREM TypesKept == Spec => []TypeOK
<1>1. Init => lost \subseteq AssetKeys
  BY DEF Init
<1>2. lost \subseteq AssetKeys /\ [Next]_vars => (lost \subseteq AssetKeys)'
  BY DEF Next, PutToken, IssueTokens, WriteAsset, PutTokens, WriteTokens, PutAsset, StartBlock, StartTrx, AddSavepoint,
         SquashTrx, UndoTrx, AbortBlock, CommitBlock, PopBlock, RollbackToLatestSavepoint, Irreversible, PopSavepoints,
         Restart, vars, dbVars, ctlVars, histVars
<1> QED BY AssetInit, AssetStep, HealthyTyped, <1>1, <1>2, PTL DEF Spec

(* The invariant implies UsersCounted.                                     *)
LEMMA HealthyCounted == AssetInv => UsersCounted
<1> SUFFICES ASSUME AssetInv PROVE UsersCounted
  OBVIOUS
<1>1. wcache \in Caches /\ DOMAIN wcache.ops = 1..Len(wcache.ops)
  BY CacheFacts DEF AssetInv, Healthy
<1> QED BY <1>1 DEF AssetInv, Healthy, Counted, Count, Uses, UsersCounted

(* used_count is the number of recorded writes of the key, so that an      *)
(* entry is persisted exactly when its last writer is irreversible (put,   *)
(* squash, pop_front, rollback_to_latest_savepoint, load_savepoints).      *)
THEOREM CountsKept == Spec => []UsersCounted
  BY AssetInit, AssetStep, HealthyCounted, PTL DEF Spec

(* Only on_irreversible and restarts change lib or restarts.               *)
LEMMA InvisibleStep ==
    ASSUME AssetInv, [Next]_vars, lib' # lib \/ restarts' # restarts
    PROVE  UNCHANGED <<tokens, AssetView>>
<1>0. BaseInv'
  BY BaseStep DEF AssetInv
<1>1. Irreversible \/ Restart
  BY DEF Next, PutToken, IssueTokens, WriteAsset, PutTokens, WriteTokens, PutAsset, StartBlock, StartTrx, SquashTrx,
         UndoTrx, AbortBlock, CommitBlock, PopBlock, vars, ctlVars
<1> QED BY <1>0, <1>1, AssetPop, AssetRestart

(* An irreversible block and a clean restart change no token and no        *)
(* balance that a reader sees (pop_savepoints, persist_savepoints,         *)
(* load_savepoints).                                                       *)
THEOREM MaintenanceUnseen == Spec => MaintenanceInvisible
<1>1. AssetInv /\ [Next]_vars => [(lib' # lib \/ restarts' # restarts) => UNCHANGED <<tokens, AssetView>>]_vars
  BY InvisibleStep
<1> QED BY AssetInit, AssetStep, <1>1, PTL DEF Spec, MaintenanceInvisible

-----------------------------------------------------------------------------

(* Undercut, for any cache: a write of k is recorded and none found the    *)
(* cache without an entry.                                                 *)
Cut(wc, k) == Cached(wc, k) /\ ~\E i \in 1..Len(wc.ops) : \E j \in At(wc, i, k) : Pv(wc, i, j) = Empty

(* The first write of k under the i-th savepoint found an entry.           *)
Held(wc, i, k) == Below(wc, i, k) \/ Cut(wc, k)

(* The i-th savepoint remembers h for key k, the next one nx, and the      *)
(* column family holds a: without a write nothing changed; when the first  *)
(* write found an entry it replaced h; otherwise h is still in the column  *)
(* family.                                                                 *)
TracedAt(wc, a, i, k, h, nx) ==
    /\ At(wc, i, k) = {} => nx = h
    /\ ~Held(wc, i, k) => h = a
    /\ Held(wc, i, k) => \A j \in At(wc, i, k) : (\A y \in At(wc, i, k) : j <= y) => Pv(wc, i, j) = h

(* The balances when the next savepoint was taken, or now.                 *)
NextAsset(i) == IF i = Len(assetHist) THEN AssetView ELSE assetHist[i + 1].val

Traced == \A i \in 1..Len(assetHist), k \in AssetKeys \ lost :
             TracedAt(wcache, assets[k], i, k, assetHist[i].val[k], NextAsset(i)[k])

(* The inductive invariant of exact rollback.                              *)
TraceInv == AssetInv /\ Traced

(* Undercut is about the recorded writes one by one.                       *)
LEMMA UndercutIsCut ==
    ASSUME AssetInv, NEW k \in AssetKeys
    PROVE  Undercut(k) <=> Cut(wcache, k)
<1>1. DOMAIN wcache.ops = 1..Len(wcache.ops)
  BY CacheFacts DEF AssetInv, Healthy
<1>2. \A p : p \in OpsOn(wcache, 1..Len(wcache.ops), k) <=> \E i \in 1..Len(wcache.ops) : \E j \in At(wcache, i, k) : p = <<i, j>>
  BY OnPair
<1>3. ASSUME NEW i \in 1..Len(wcache.ops), NEW j \in At(wcache, i, k)
      PROVE  <<i, j>> \in OpsOn(wcache, 1..Len(wcache.ops), k) /\ wcache.ops[<<i, j>>[1]].vec[<<i, j>>[2]].pv = Pv(wcache, i, j)
  BY <1>2 DEF Pv
<1>4. (\A p \in OpsOn(wcache, 1..Len(wcache.ops), k) : wcache.ops[p[1]].vec[p[2]].pv # Empty)
        <=> ~\E i \in 1..Len(wcache.ops) : \E j \in At(wcache, i, k) : Pv(wcache, i, j) = Empty
  <2>1. ASSUME NEW p \in OpsOn(wcache, 1..Len(wcache.ops), k), wcache.ops[p[1]].vec[p[2]].pv = Empty
        PROVE  \E i \in 1..Len(wcache.ops) : \E j \in At(wcache, i, k) : Pv(wcache, i, j) = Empty
    <3>1. PICK i \in 1..Len(wcache.ops) : \E j \in At(wcache, i, k) : p = <<i, j>>
      BY <1>2
    <3>2. PICK j \in At(wcache, i, k) : p = <<i, j>>
      BY <3>1
    <3>3. Pv(wcache, i, j) = Empty
      BY <1>3, <2>1, <3>2
    <3> QED BY <3>3
  <2>2. ASSUME NEW i \in 1..Len(wcache.ops), NEW j \in At(wcache, i, k), Pv(wcache, i, j) = Empty
        PROVE  \E p \in OpsOn(wcache, 1..Len(wcache.ops), k) : wcache.ops[p[1]].vec[p[2]].pv = Empty
    <3>1. <<i, j>> \in OpsOn(wcache, 1..Len(wcache.ops), k) /\ wcache.ops[<<i, j>>[1]].vec[<<i, j>>[2]].pv = Empty
      BY <1>3, <2>2
    <3> QED BY <3>1
  <2> QED BY <2>1, <2>2
<1> QED BY <1>1, <1>4 DEF Undercut, Cut

(* A write that found no entry is the oldest one recorded.                 *)
LEMMA BareIsOldest ==
    ASSUME NEW wc, Healthy(wc), NEW i \in 1..Len(wc.ops), NEW k \in AssetKeys, NEW j \in At(wc, i, k), Pv(wc, i, j) = Empty
    PROVE  ~Below(wc, i, k)
  BY TokenDatabaseAssumption DEF Healthy, Replaced

(* What read_asset returns for one key.                                    *)
LEMMA ViewAt ==
    ASSUME NEW k \in AssetKeys
    PROVE  /\ AssetView[k] = (IF Cached(wcache, k) THEN wcache.data[k].value ELSE assets[k])
           /\ AssetView'[k] = (IF Cached(wcache', k) THEN wcache'.data[k].value ELSE assets'[k])
  BY DEF AssetView

(* A savepoint stays traced when its writes and those below stay.          *)
LEMMA TracedSameLevel ==
    ASSUME NEW wc, NEW wd, NEW a, NEW i, NEW k, NEW h, NEW nx, TracedAt(wc, a, i, k, h, nx),
           At(wd, i, k) = At(wc, i, k), Held(wd, i, k) <=> Held(wc, i, k),
           \A j \in At(wc, i, k) : Pv(wd, i, j) = Pv(wc, i, j)
    PROVE  TracedAt(wd, a, i, k, h, nx)
  BY DEF TracedAt

(* What a reader sees after a rollback is what was remembered.             *)
LEMMA RollbackView ==
    ASSUME AssetInv, Traced, Len(savepoints) > 0, NEW k \in AssetKeys \ lost, ~LostByRollback(k)
    PROVE  LET wd == WCRollback(wcache)
           IN assetHist[Len(savepoints)].val[k] = IF Cached(wd, k) THEN wd.data[k].value ELSE assets[k]
<1> DEFINE n == Len(savepoints)
           wd == WCRollback(wcache)
           h == assetHist[n].val[k]
           D == At(wcache, n, k)
           b == Back(wcache, k)
<1>1. n \in Nat /\ n > 0 /\ Len(wcache.ops) = n /\ Healthy(wcache) /\ Len(assetHist) = n /\ wcache \in Caches
  BY Numbers DEF AssetInv, Stacked, Healthy
<1>2. TracedAt(wcache, assets[k], n, k, h, AssetView[k])
  <2>1. n \in 1..n
    BY <1>1
  <2> QED BY <1>1, <2>1 DEF Traced, NextAsset
<1>3. wd.data[k] = b
  <2>1. wd.data = [q \in AssetKeys |-> Back(wcache, q)]
    BY <1>1, RollbackFacts
  <2> QED BY <2>1
<1>4. /\ b.used > 0 <=> Below(wcache, n, k)
      /\ D = {} => b = wcache.data[k]
      /\ D # {} /\ Below(wcache, n, k) => \E f \in D : (\A i \in D : f <= i) /\ b.value = Pv(wcache, n, f)
  <2> DEFINE m == Len(wcache.ops)
  <2>1. Healthy(wcache) /\ Len(wcache.ops) > 0
    BY <1>1
  <2>2. /\ Back(wcache, k).used > 0 <=> Below(wcache, m, k)
        /\ At(wcache, m, k) = {} => Back(wcache, k) = wcache.data[k]
        /\ At(wcache, m, k) # {} /\ Below(wcache, m, k) =>
              \E f \in At(wcache, m, k) : (\A i \in At(wcache, m, k) : f <= i) /\ Back(wcache, k).value = Pv(wcache, m, f)
    BY <2>1, BackFacts
  <2>3. m = n
    BY <1>1
  <2> HIDE DEF m, n
  <2> QED BY <2>2, <2>3
<1>5. AssetView[k] = (IF Cached(wcache, k) THEN wcache.data[k].value ELSE assets[k])
  BY ViewAt
<1>6. Cached(wd, k) <=> b.used > 0
  BY <1>3 DEF Cached
<1> HIDE DEF wd, b, D, h, n
<1>7. CASE D = {}
  <2>1. AssetView[k] = h
    BY <1>2, <1>7 DEF TracedAt, D
  <2>2. (Cached(wd, k) <=> Cached(wcache, k)) /\ wd.data[k].value = wcache.data[k].value
    BY <1>3, <1>4, <1>7 DEF Cached
  <2> QED BY <1>5, <2>1, <2>2 DEF h, n, wd
<1>8. CASE D # {} /\ Below(wcache, n, k)
  <2>1. b.value = h /\ b.used > 0
    BY <1>2, <1>4, <1>8 DEF TracedAt, Held, D
  <2> QED BY <1>3, <1>6, <2>1 DEF h, n, wd
<1>9. CASE D # {} /\ ~Below(wcache, n, k)
  <2>1. ~Cached(wd, k)
    BY <1>4, <1>6, <1>9
  <2>2. ~Held(wcache, n, k)
    BY <1>9, <2>1, UndercutIsCut DEF LostByRollback, Held, wd
  <2>3. h = assets[k]
    BY <1>2, <2>2 DEF TracedAt
  <2> QED BY <2>1, <2>3 DEF h, n, wd
<1> QED BY <1>7, <1>8, <1>9

(* put_asset keeps the savepoints traced.                                  *)
LEMMA TracedPut ==
    ASSUME AssetInv, AssetInv', Traced, NEW k \in AssetKeys, NEW v \in Values, PutAsset(k, v)
    PROVE  Traced'
<1> DEFINE n == Len(savepoints)
           x == Len(wcache.ops[n].vec) + 1
<1>1. /\ n \in Nat /\ n > 0 /\ Len(wcache.ops) = n /\ IsPut(wcache, wcache', n, x, k, v)
      /\ UNCHANGED <<assets, savepoints, assetHist, lost>> /\ Len(assetHist) = n
      /\ wcache \in Caches /\ wcache' \in Caches /\ Healthy(wcache)
  BY PutShape DEF AssetInv, Healthy, PutAsset, histVars
<1> HIDE DEF x
<1>2. /\ x \in Nat
      /\ wcache'.data[k] = [used |-> wcache.data[k].used + 1, value |-> v]
      /\ \A q \in AssetKeys \ {k} : wcache'.data[q] = wcache.data[q]
      /\ \A j \in At(wcache, n, k) : j < x
      /\ At(wcache', n, k) = At(wcache, n, k) \cup {x} /\ Pv(wcache', n, x) = PvOf(wcache, k)
      /\ \A i \in 1..n, q \in AssetKeys : i # n \/ q # k => At(wcache', i, q) = At(wcache, i, q)
      /\ \A i \in 1..n, q \in AssetKeys : \A j \in At(wcache, i, q) : Pv(wcache', i, j) = Pv(wcache, i, j)
  BY <1>1 DEF IsPut
<1>3. \A i \in 1..n, q \in AssetKeys : Below(wcache', i, q) <=> Below(wcache, i, q)
  <2> SUFFICES ASSUME NEW i \in 1..n, NEW q \in AssetKeys PROVE Below(wcache', i, q) <=> Below(wcache, i, q)
    OBVIOUS
  <2>1. \A m \in 1..(i - 1) : m \in 1..n /\ m # n
    <3> HIDE DEF n
    <3> QED BY <1>1
  <2> QED BY <1>2, <2>1 DEF Below
<1>c. \A q \in AssetKeys : Cut(wcache', q) <=> Cut(wcache, q)
  <2> SUFFICES ASSUME NEW q \in AssetKeys PROVE Cut(wcache', q) <=> Cut(wcache, q)
    OBVIOUS
  <2>1. wcache.data[q].used \in Nat /\ n \in 1..n /\ Len(wcache'.ops) = n
    <3>1. wcache.data[q].used \in Nat
      BY <1>1, EntryFacts
    <3>2. Len(wcache'.ops) = n
      BY <1>1 DEF IsPut
    <3>3. n \in 1..n
      BY <1>1
    <3> QED BY <3>1, <3>2, <3>3
  <2>2. CASE q # k
    <3>1. Cached(wcache', q) <=> Cached(wcache, q)
      BY <1>2, <2>2 DEF Cached
    <3> QED BY <1>1, <1>2, <2>1, <2>2, <3>1 DEF Cut
  <2>3. CASE q = k /\ Cached(wcache, k)
    <3>1. Cached(wcache', k) /\ PvOf(wcache, k) \in Values
      BY <1>1, <1>2, <2>1, <2>3 DEF Cached, PvOf, Healthy, Valued
    <3>2. ASSUME NEW i \in 1..n, NEW j \in At(wcache, i, k), Pv(wcache, i, j) = Empty
          PROVE  j \in At(wcache', i, k) /\ Pv(wcache', i, j) = Empty
      <4>1. Pv(wcache', i, j) = Empty
        BY <1>2, <3>2
      <4> QED BY <1>2, <4>1
    <3>3. ASSUME NEW i \in 1..n, NEW j \in At(wcache', i, k), Pv(wcache', i, j) = Empty
          PROVE  j \in At(wcache, i, k) /\ Pv(wcache, i, j) = Empty
      <4>1. ~(i = n /\ j = x)
        BY <1>2, <3>1, <3>3, TokenDatabaseAssumption
      <4>2. j \in At(wcache, i, k)
        BY <1>2, <4>1
      <4> QED BY <1>2, <3>3, <4>2
    <3> QED BY <1>1, <2>1, <2>3, <3>1, <3>2, <3>3 DEF Cut
  <2>4. CASE q = k /\ ~Cached(wcache, k)
    <3>1. x \in At(wcache', n, k) /\ Pv(wcache', n, x) = Empty
      BY <1>2, <2>4 DEF PvOf
    <3> QED BY <2>1, <2>4, <3>1 DEF Cut
  <2> QED BY <2>2, <2>3, <2>4
<1>h. \A i \in 1..n, q \in AssetKeys : Held(wcache', i, q) <=> Held(wcache, i, q)
  BY <1>3, <1>c DEF Held
<1>4. \A q \in AssetKeys \ {k} : AssetView'[q] = AssetView[q]
  <2> SUFFICES ASSUME NEW q \in AssetKeys \ {k} PROVE AssetView'[q] = AssetView[q]
    OBVIOUS
  <2>1. wcache'.data[q] = wcache.data[q] /\ assets' = assets
    BY <1>1, <1>2
  <2> QED BY <2>1, ViewAt DEF Cached
<1>5. SUFFICES ASSUME NEW i \in 1..n, NEW q \in AssetKeys \ lost
               PROVE  TracedAt(wcache', assets[q], i, q, assetHist[i].val[q], NextAsset(i)'[q])
  BY <1>1 DEF Traced
<1>6. TracedAt(wcache, assets[q], i, q, assetHist[i].val[q], NextAsset(i)[q])
  BY <1>1 DEF Traced
<1>7. i # n \/ q # k => NextAsset(i)'[q] = NextAsset(i)[q]
  <2>1. i # n => NextAsset(i)' = NextAsset(i)
    BY <1>1 DEF NextAsset
  <2>2. i = n => NextAsset(i)' = AssetView' /\ NextAsset(i) = AssetView
    BY <1>1 DEF NextAsset
  <2> QED BY <1>4, <2>1, <2>2
<1>8. CASE i # n \/ q # k
  BY <1>2, <1>h, <1>6, <1>7, <1>8, TracedSameLevel
<1>9. CASE i = n /\ q = k
  <2> DEFINE h == assetHist[n].val[k]
  <2>0. n \in 1..n
    BY <1>9
  <2>1. TracedAt(wcache, assets[k], n, k, h, AssetView[k])
    BY <1>1, <1>6, <1>9 DEF NextAsset
  <2>2. At(wcache', n, k) # {}
    BY <1>2
  <2>3. ~Held(wcache', n, k) => h = assets[k]
    BY <1>h, <2>0, <2>1 DEF TracedAt
  <2>4. ASSUME Held(wcache', n, k), NEW j \in At(wcache', n, k), \A y \in At(wcache', n, k) : j <= y
        PROVE  Pv(wcache', n, j) = h
    <3>1. Held(wcache, n, k)
      BY <1>h, <2>0, <2>4
    <3>2. CASE At(wcache, n, k) = {}
      <4>1. j = x /\ h = AssetView[k]
        BY <1>2, <2>1, <3>2 DEF TracedAt
      <4>2. \A m \in 1..(n - 1) : m \in 1..n
        <5> HIDE DEF n
        <5> QED BY <1>1
      <4>3. Cached(wcache, k)
        BY <1>1, <3>1, <4>2, CachedIff DEF Below, Held, Cut
      <4>4. PvOf(wcache, k) = AssetView[k]
        BY <4>3, ViewAt DEF PvOf
      <4> QED BY <1>2, <4>1, <4>4
    <3>3. CASE At(wcache, n, k) # {}
      <4>1. PICK z \in At(wcache, n, k) : TRUE
        BY <3>3
      <4>2. z < x /\ z \in Nat /\ z \in At(wcache', n, k)
        BY <1>1, <1>2, <2>0, AtFacts
      <4>3. j # x
        BY <1>2, <2>4, <4>2
      <4>4. j \in At(wcache, n, k) /\ \A y \in At(wcache, n, k) : j <= y
        BY <1>2, <2>4, <4>3
      <4>5. Pv(wcache, n, j) = h
        BY <2>1, <3>1, <4>4 DEF TracedAt
      <4> QED BY <1>2, <2>0, <4>4, <4>5
    <3> QED BY <3>2, <3>3
  <2> QED BY <1>9, <2>2, <2>3, <2>4 DEF TracedAt
<1> QED BY <1>8, <1>9

(* A new savepoint is traced, and nothing a reader sees changes.           *)
LEMMA TracedAdd ==
    ASSUME AssetInv, BaseInv', AssetInv', Traced, NEW q \in Nat, AddSavepoint(q)
    PROVE  Traced' /\ AssetView' = AssetView
<1> DEFINE n == Len(savepoints)
<1>1. n \in Nat /\ Len(wcache.ops) = n /\ Len(assetHist) = n /\ Healthy(wcache)
  BY Numbers DEF AssetInv, Stacked
<1>2. /\ Len(assetHist') = n + 1
      /\ \A i \in 1..n : wcache'.ops[i] = wcache.ops[i] /\ assetHist'[i] = assetHist[i]
      /\ assetHist'[n + 1] = [seq |-> q, val |-> AssetView]
      /\ \A k : At(wcache', n + 1, k) = {}
      /\ wcache'.data = wcache.data /\ assets' = assets
  BY AddShape
<1>3. AssetView' = AssetView
  BY <1>2 DEF AssetView, Cached
<1>4. \A i \in 1..n : \A k : At(wcache', i, k) = At(wcache, i, k) /\ \A j : Pv(wcache', i, j) = Pv(wcache, i, j)
  BY <1>2 DEF At, Pv
<1>5. \A i \in 1..(n + 1) : (\A m \in 1..(i - 1) : m \in 1..n) /\ (i \in 1..n \/ i = n + 1) /\ (n + 1) - 1 = n
  <2> HIDE DEF n
  <2> QED BY <1>1
<1>b. \A i \in 1..(n + 1) : \A k : Below(wcache', i, k) <=> Below(wcache, i, k)
  BY <1>4, <1>5 DEF Below
<1>c. \A k : Cut(wcache', k) <=> Cut(wcache, k)
  <2>1. Len(wcache'.ops) = n + 1
    BY AddShape
  <2>2. \A i \in 1..n : i \in 1..(n + 1)
    <3> HIDE DEF n
    <3> QED BY <1>1
  <2> QED BY <1>1, <1>2, <1>4, <1>5, <2>1, <2>2 DEF Cut, Cached
<1>6. \A i \in 1..(n + 1) : \A k : Held(wcache', i, k) <=> Held(wcache, i, k)
  BY <1>b, <1>c DEF Held
<1>7. assetHist'[n + 1].val = AssetView /\ lost' = lost
  BY <1>2 DEF AddSavepoint
<1>8. SUFFICES ASSUME NEW i \in 1..(n + 1), NEW k \in AssetKeys \ lost
               PROVE  TracedAt(wcache', assets[k], i, k, assetHist'[i].val[k], NextAsset(i)'[k])
  BY <1>2, <1>3, <1>7 DEF Traced
<1>9. CASE i \in 1..n
  <2>1. TracedAt(wcache, assets[k], i, k, assetHist[i].val[k], NextAsset(i)[k])
    BY <1>1, <1>9 DEF Traced
  <2>2. NextAsset(i)' = NextAsset(i)
    <3>1. CASE i = n
      <4>1. i # n + 1
        <5> HIDE DEF n
        <5> QED BY <1>1, <3>1
      <4> QED BY <1>1, <1>2, <1>7, <3>1, <4>1 DEF NextAsset
    <3>2. CASE i # n
      <4>1. i # n + 1 /\ i + 1 \in 1..n
        <5> HIDE DEF n
        <5> QED BY <1>1, <1>9, <3>2
      <4> QED BY <1>1, <1>2, <3>2, <4>1 DEF NextAsset
    <3> QED BY <3>1, <3>2
  <2>3. assetHist'[i] = assetHist[i]
    BY <1>2, <1>9
  <2> QED BY <1>4, <1>6, <1>9, <2>1, <2>2, <2>3, TracedSameLevel
<1>10. CASE i = n + 1
  <2>1. At(wcache', i, k) = {} /\ assetHist'[i].val[k] = AssetView[k] /\ NextAsset(i)'[k] = AssetView[k]
    BY <1>2, <1>3, <1>7, <1>10 DEF NextAsset
  <2>2. ASSUME ~Held(wcache', i, k) PROVE AssetView[k] = assets[k]
    <3>1. \A m \in 1..n : At(wcache, m, k) = {}
      BY <1>5, <1>b, <1>10, <2>2 DEF Below, Held
    <3>2. ~Cached(wcache, k)
      BY <1>1, <3>1, CachedIff
    <3> QED BY <3>2, ViewAt
  <2> QED BY <2>1, <2>2 DEF TracedAt
<1> QED BY <1>5, <1>9, <1>10

(* After a rollback the savepoints left are traced, for the balances that  *)
(* are not lost by it.                                                     *)
LEMMA TracedRollback ==
    ASSUME AssetInv, AssetInv', Traced, RollbackToLatestSavepoint
    PROVE  Traced'
<1> DEFINE n == Len(savepoints)
<1>1. /\ n \in Nat /\ n > 0 /\ Len(assetHist') = n - 1 /\ Len(wcache.ops) = n /\ Len(wcache'.ops) = n - 1
      /\ \A i \in 1..(n - 1) : wcache'.ops[i] = wcache.ops[i] /\ assetHist'[i] = assetHist[i]
      /\ wcache' = WCRollback(wcache) /\ assets' = assets
      /\ Len(assetHist) = n /\ Healthy(wcache) /\ Healthy(wcache')
  BY RollbackShape DEF AssetInv, Stacked
<1>2. lost' = lost \cup {k \in AssetKeys : LostByRollback(k)}
  BY DEF RollbackToLatestSavepoint
<1>3. \A k \in AssetKeys \ lost' : k \in AssetKeys \ lost /\ ~LostByRollback(k)
  BY <1>2
<1>4. \A k \in AssetKeys \ lost' : AssetView'[k] = assetHist[n].val[k]
  <2> SUFFICES ASSUME NEW k \in AssetKeys \ lost' PROVE AssetView'[k] = assetHist[n].val[k]
    OBVIOUS
  <2>1. assetHist[n].val[k] = IF Cached(WCRollback(wcache), k) THEN WCRollback(wcache).data[k].value ELSE assets[k]
    BY <1>1, <1>3, RollbackView
  <2> QED BY <1>1, <2>1, ViewAt
<1>5. \A i \in 1..(n - 1) : \A k : At(wcache', i, k) = At(wcache, i, k) /\ \A j : Pv(wcache', i, j) = Pv(wcache, i, j)
  BY <1>1 DEF At, Pv
<1>6. /\ \A i \in 1..(n - 1) : i \in 1..n /\ i # n /\ \A m \in 1..(i - 1) : m \in 1..(n - 1)
      /\ \A i \in 1..n : i \in 1..(n - 1) \/ i = n
  <2> HIDE DEF n
  <2> QED BY <1>1
<1>7. \A k \in AssetKeys \ lost' : Cut(wcache', k) <=> Cut(wcache, k)
  <2> SUFFICES ASSUME NEW k \in AssetKeys \ lost' PROVE Cut(wcache', k) <=> Cut(wcache, k)
    OBVIOUS
  <2>1. Cached(wcache', k) => Cached(wcache, k)
    <3>1. Cached(wcache', k) => \E i \in 1..(n - 1) : At(wcache', i, k) # {}
      BY <1>1, CachedIff
    <3>2. (\E i \in 1..n : At(wcache, i, k) # {}) => Cached(wcache, k)
      BY <1>1, CachedIff
    <3> QED BY <1>5, <1>6, <3>1, <3>2
  <2>2. ASSUME Cut(wcache, k) PROVE Cut(wcache', k)
    <3>1. Cached(wcache', k)
      BY <1>1, <1>3, <2>2, UndercutIsCut DEF LostByRollback
    <3> QED BY <1>1, <1>5, <1>6, <2>2, <3>1 DEF Cut
  <2>3. ASSUME Cut(wcache', k), ~Cut(wcache, k) PROVE FALSE
    <3>1. Cached(wcache', k)
      BY <2>3 DEF Cut
    <3>2. PICK i \in 1..n : \E j \in At(wcache, i, k) : Pv(wcache, i, j) = Empty
      BY <1>1, <2>1, <2>3, <3>1 DEF Cut
    <3>3. i \notin 1..(n - 1)
      BY <1>1, <1>5, <2>3, <3>2 DEF Cut
    <3>4. i = n
      BY <1>6, <3>3
    <3>5. ~Below(wcache, n, k)
      BY <1>1, <3>2, <3>4, BareIsOldest
    <3>6. \A m \in 1..(n - 1) : At(wcache', m, k) = {}
      BY <1>5, <3>5 DEF Below
    <3> QED BY <1>1, <3>1, <3>6, CachedIff
  <2> QED BY <2>2, <2>3
<1>8. \A i \in 1..(n - 1), k \in AssetKeys \ lost' : Held(wcache', i, k) <=> Held(wcache, i, k)
  <2>1. \A i \in 1..(n - 1) : \A k : Below(wcache', i, k) <=> Below(wcache, i, k)
    BY <1>5, <1>6 DEF Below
  <2> QED BY <1>7, <2>1 DEF Held
<1> SUFFICES ASSUME NEW i \in 1..(n - 1), NEW k \in AssetKeys \ lost'
             PROVE  TracedAt(wcache', assets[k], i, k, assetHist'[i].val[k], NextAsset(i)'[k])
  BY <1>1 DEF Traced
<1>9. TracedAt(wcache, assets[k], i, k, assetHist[i].val[k], NextAsset(i)[k])
  BY <1>1, <1>3, <1>6 DEF Traced
<1>10. NextAsset(i)'[k] = NextAsset(i)[k]
  <2>0. NextAsset(i) = assetHist[i + 1].val
    BY <1>1, <1>6 DEF NextAsset
  <2>1. CASE i = n - 1
    <3>1. i + 1 = n
      <4> HIDE DEF n
      <4> QED BY <1>1, <2>1
    <3>2. NextAsset(i)' = AssetView'
      BY <1>1, <2>1 DEF NextAsset
    <3> QED BY <1>4, <2>0, <3>1, <3>2
  <2>2. CASE i # n - 1
    <3>1. i + 1 \in 1..(n - 1)
      <4> HIDE DEF n
      <4> QED BY <1>1, <2>2
    <3> QED BY <1>1, <2>0, <2>2, <3>1 DEF NextAsset
  <2> QED BY <2>1, <2>2
<1>11. assetHist'[i] = assetHist[i]
  BY <1>1
<1> QED BY <1>5, <1>8, <1>9, <1>10, <1>11, TracedSameLevel

-----------------------------------------------------------------------------

(* Two savepoints that become one are traced: the first write of a key in  *)
(* either has replaced the value remembered by the lower one.              *)
LEMMA TracedSquash ==
    ASSUME AssetInv, BaseInv', AssetInv', Traced, SquashTrx
    PROVE  Traced'
<1> DEFINE n == Len(savepoints)
           x == Len(wcache.ops[n - 1].vec)
<1>1. /\ n \in Nat /\ n >= 2 /\ Len(assetHist') = n - 1
      /\ \A i \in 1..(n - 1) : assetHist'[i] = assetHist[i]
      /\ wcache' = WCSquash(wcache) /\ assets' = assets /\ lost' = lost
      /\ Len(assetHist) = n /\ Len(wcache.ops) = n /\ Len(wcache'.ops) = n - 1 /\ wcache \in Caches
  BY SquashShape DEF AssetInv, Stacked, Healthy, SquashTrx
<1>2. /\ wcache'.data = wcache.data /\ x \in Nat
      /\ \A i \in 1..(n - 2) : wcache'.ops[i] = wcache.ops[i]
      /\ \A k : \A j \in At(wcache, n - 1, k) : j <= x
      /\ \A k : At(wcache', n - 1, k) = At(wcache, n - 1, k) \cup {x + j : j \in At(wcache, n, k)}
      /\ \A k : \A j \in At(wcache, n - 1, k) : Pv(wcache', n - 1, j) = Pv(wcache, n - 1, j)
      /\ \A k : \A j \in At(wcache, n, k) : Pv(wcache', n - 1, x + j) = Pv(wcache, n, j)
  <2> DEFINE m == Len(wcache.ops)
             wd == WCSquash(wcache)
             y == Len(wcache.ops[m - 1].vec)
  <2>1. wcache \in Caches /\ Len(wcache.ops) >= 2
    BY <1>1
  <2>2. /\ wd.data = wcache.data /\ y \in Nat
        /\ \A i \in 1..(m - 2) : wd.ops[i] = wcache.ops[i]
        /\ \A k : \A j \in At(wcache, m - 1, k) : j <= y
        /\ \A k : At(wd, m - 1, k) = At(wcache, m - 1, k) \cup {y + j : j \in At(wcache, m, k)}
        /\ \A k : \A j \in At(wcache, m - 1, k) : Pv(wd, m - 1, j) = Pv(wcache, m - 1, j)
        /\ \A k : \A j \in At(wcache, m, k) : Pv(wd, m - 1, y + j) = Pv(wcache, m, j)
    BY <2>1, SquashFacts
  <2>3. m = n /\ wcache' = wd
    BY <1>1
  <2>4. y = x
    BY <2>3
  <2> HIDE DEF m, n, wd, x, y
  <2> QED BY <2>2, <2>3, <2>4
<1>3. AssetView' = AssetView
  BY <1>1, <1>2 DEF AssetView, Cached
<1> HIDE DEF x
<1>4. \A i \in 1..(n - 2) : \A k : At(wcache', i, k) = At(wcache, i, k) /\ \A j : Pv(wcache', i, j) = Pv(wcache, i, j)
  BY <1>2 DEF At, Pv
<1>5. /\ \A i \in 1..(n - 1) : i \in 1..n /\ i # n /\ (i \in 1..(n - 2) \/ i = n - 1) /\ \A m \in 1..(i - 1) : m \in 1..(n - 2)
      /\ n - 1 \in 1..(n - 1) /\ n \in 1..n /\ (n - 1) + 1 = n /\ n # n - 1
  <2> HIDE DEF n
  <2> QED BY <1>1
<1>c. \A k \in AssetKeys : Cut(wcache', k) <=> Cut(wcache, k)
  <2> SUFFICES ASSUME NEW k \in AssetKeys PROVE Cut(wcache', k) <=> Cut(wcache, k)
    OBVIOUS
  <2>1. Cached(wcache', k) <=> Cached(wcache, k)
    BY <1>2 DEF Cached
  <2>2. ASSUME NEW i \in 1..n, NEW j \in At(wcache, i, k), Pv(wcache, i, j) = Empty
        PROVE  \E m \in 1..(n - 1) : \E y \in At(wcache', m, k) : Pv(wcache', m, y) = Empty
    <3>1. CASE i \in 1..(n - 2)
      <4>1. i \in 1..(n - 1)
        <5> HIDE DEF n
        <5> QED BY <1>1, <3>1
      <4> QED BY <1>4, <2>2, <3>1, <4>1
    <3>2. CASE i = n - 1
      BY <1>2, <1>5, <2>2, <3>2
    <3>3. CASE i = n
      <4>1. x + j \in At(wcache', n - 1, k) /\ Pv(wcache', n - 1, x + j) = Empty
        BY <1>2, <2>2, <3>3
      <4> QED BY <1>5, <4>1
    <3>4. i \in 1..(n - 2) \/ i = n - 1 \/ i = n
      <4> HIDE DEF n
      <4> QED BY <1>1
    <3> QED BY <3>1, <3>2, <3>3, <3>4
  <2>3. ASSUME NEW m \in 1..(n - 1), NEW y \in At(wcache', m, k), Pv(wcache', m, y) = Empty
        PROVE  \E i \in 1..n : \E j \in At(wcache, i, k) : Pv(wcache, i, j) = Empty
    <3>1. CASE m \in 1..(n - 2)
      BY <1>4, <1>5, <2>3, <3>1
    <3>2. CASE m = n - 1
      <4>1. CASE y \in At(wcache, n - 1, k)
        BY <1>2, <1>5, <2>3, <3>2, <4>1
      <4>2. CASE y \notin At(wcache, n - 1, k)
        <5>1. PICK j \in At(wcache, n, k) : y = x + j
          BY <1>2, <3>2, <4>2
        <5> QED BY <1>2, <1>5, <2>3, <3>2, <5>1
      <4> QED BY <4>1, <4>2
    <3> QED BY <1>5, <3>1, <3>2
  <2> QED BY <1>1, <2>1, <2>2, <2>3 DEF Cut
<1>b. \A i \in 1..(n - 1) : \A k : Below(wcache', i, k) <=> Below(wcache, i, k)
  BY <1>4, <1>5 DEF Below
<1>6. \A i \in 1..(n - 1), k \in AssetKeys : Held(wcache', i, k) <=> Held(wcache, i, k)
  BY <1>b, <1>c DEF Held
<1>7. \A i \in 1..n, k \in AssetKeys \ lost : TracedAt(wcache, assets[k], i, k, assetHist[i].val[k], NextAsset(i)[k])
  BY <1>1 DEF Traced
<1>8. SUFFICES ASSUME NEW i \in 1..(n - 1), NEW k \in AssetKeys \ lost
               PROVE  TracedAt(wcache', assets[k], i, k, assetHist[i].val[k], NextAsset(i)'[k])
  BY <1>1, <1>3 DEF Traced
<1>9. CASE i \in 1..(n - 2)
  <2>1. NextAsset(i)' = NextAsset(i)
    <3>1. i # n - 1 /\ i # n /\ i + 1 \in 1..(n - 1)
      <4> HIDE DEF n
      <4> QED BY <1>1, <1>9
    <3> QED BY <1>1, <3>1 DEF NextAsset
  <2>2. TracedAt(wcache, assets[k], i, k, assetHist[i].val[k], NextAsset(i)'[k])
    BY <1>5, <1>7, <2>1
  <2> QED BY <1>4, <1>6, <1>9, <2>2, TracedSameLevel
<1>10. CASE i = n - 1
  <2> DEFINE h == assetHist[n - 1].val[k]
             g == assetHist[n].val[k]
  <2>1. TracedAt(wcache, assets[k], n - 1, k, h, g)
    <3>1. NextAsset(n - 1) = assetHist[n].val
      BY <1>1, <1>5 DEF NextAsset
    <3> QED BY <1>5, <1>7, <3>1
  <2>2. TracedAt(wcache, assets[k], n, k, g, AssetView[k])
    <3>1. NextAsset(n) = AssetView
      BY <1>1 DEF NextAsset
    <3> QED BY <1>5, <1>7, <3>1
  <2>3. NextAsset(i)' = AssetView
    BY <1>1, <1>3, <1>10 DEF NextAsset
  <2>4. At(wcache', n - 1, k) = {} => AssetView[k] = h
    <3>1. At(wcache', n - 1, k) = {} => At(wcache, n - 1, k) = {} /\ At(wcache, n, k) = {}
      <4>1. At(wcache', n - 1, k) = At(wcache, n - 1, k) \cup {x + j : j \in At(wcache, n, k)}
        BY <1>2
      <4>2. ASSUME NEW j \in At(wcache, n, k) PROVE x + j \in At(wcache', n - 1, k)
        BY <4>1
      <4> HIDE DEF n
      <4> QED BY <4>1, <4>2
    <3> HIDE DEF n, h, g
    <3> QED BY <2>1, <2>2, <3>1 DEF TracedAt
  <2>5. ~Held(wcache', n - 1, k) => h = assets[k]
    BY <1>5, <1>6, <2>1 DEF TracedAt
  <2>6. ASSUME Held(wcache', n - 1, k), NEW j \in At(wcache', n - 1, k), \A y \in At(wcache', n - 1, k) : j <= y
        PROVE  Pv(wcache', n - 1, j) = h
    <3>1. Held(wcache, n - 1, k)
      BY <1>5, <1>6, <2>6
    <3>2. At(wcache, n - 1, k) \subseteq Nat /\ At(wcache, n, k) \subseteq 1..Len(wcache.ops[n].vec) /\ Len(wcache.ops[n].vec) \in Nat
      BY <1>1, <1>5, AtFacts, CacheFacts
    <3>3. CASE At(wcache, n - 1, k) # {}
      <4>1. PICK z \in At(wcache, n - 1, k) : TRUE
        BY <3>3
      <4>2. z <= x /\ z \in Nat /\ j <= z
        BY <1>2, <2>6, <3>2
      <4>3. \A y \in At(wcache, n, k) : y \in Nat /\ y > 0
        BY <3>2
      <4>4. j \in At(wcache, n - 1, k)
        <5> SUFFICES ASSUME NEW y \in At(wcache, n, k), j = x + y PROVE FALSE
          BY <1>2
        <5> QED BY <1>2, <4>2, <4>3
      <4>5. \A y \in At(wcache, n - 1, k) : j <= y
        BY <1>2, <2>6
      <4> QED BY <1>2, <2>1, <3>1, <4>4, <4>5 DEF TracedAt
    <3>4. CASE At(wcache, n - 1, k) = {}
      <4>1. PICK w \in At(wcache, n, k) : j = x + w
        BY <1>2, <3>4
      <4>2. \A y \in At(wcache, n, k) : w <= y
        <5> SUFFICES ASSUME NEW y \in At(wcache, n, k) PROVE w <= y
          OBVIOUS
        <5>1. x + w <= x + y /\ w \in Nat /\ y \in Nat
          BY <1>2, <2>6, <3>2, <4>1
        <5> QED BY <1>2, <5>1
      <4>3. \A m \in 1..((n - 1) - 1) : m \in 1..(n - 1)
        <5> HIDE DEF n
        <5> QED BY <1>1
      <4>4. Held(wcache, n, k)
        BY <3>1, <4>3 DEF Below, Held
      <4>5. Pv(wcache, n, w) = g /\ g = h
        BY <2>1, <2>2, <3>4, <4>2, <4>4 DEF TracedAt
      <4> QED BY <1>2, <4>1, <4>5
    <3> QED BY <3>3, <3>4
  <2> QED BY <1>10, <2>3, <2>4, <2>5, <2>6 DEF TracedAt
<1> QED BY <1>5, <1>9, <1>10

(* Steps that do not touch assets keep the savepoints traced.              *)
LEMMA TracedSame ==
    ASSUME AssetInv, Traced, UNCHANGED <<assets, wcache, assetHist, lost>>
    PROVE  Traced'
  BY DEF Traced, NextAsset, AssetView

(* From a savepoint above the last write of k on, every savepoint          *)
(* remembers what a reader sees now.                                       *)
LEMMA TracedTop ==
    ASSUME AssetInv, Traced, NEW k \in AssetKeys \ lost, NEW e \in 1..Len(savepoints),
           \A m \in e..Len(savepoints) : At(wcache, m, k) = {}
    PROVE  assetHist[e].val[k] = AssetView[k]
<1> DEFINE n == Len(savepoints)
           D == {d \in 0..(n - e) : assetHist[n - d].val[k] # AssetView[k]}
<1>1. n \in Nat /\ Len(assetHist) = n /\ e \in 1..n /\ \A m \in e..n : At(wcache, m, k) = {}
  BY Numbers DEF AssetInv
<1>2. \A i \in 1..n : TracedAt(wcache, assets[k], i, k, assetHist[i].val[k], NextAsset(i)[k])
  BY <1>1 DEF Traced
<1>3. \A i \in 1..n : i \in e..n => assetHist[i].val[k] = NextAsset(i)[k]
  BY <1>1, <1>2 DEF TracedAt
<1> HIDE DEF n
<1>4. D = {}
  <2> SUFFICES ASSUME D # {} PROVE FALSE
    OBVIOUS
  <2>1. D \subseteq Nat
    BY <1>1
  <2>2. PICK f \in D : \A d \in D : f <= d
    <3> HIDE DEF D
    <3> QED BY <2>1, FirstAt
  <2>3. f \in 0..(n - e) /\ assetHist[n - f].val[k] # AssetView[k] /\ n - f \in 1..n /\ n - f \in e..n
    BY <1>1
  <2>4. assetHist[n - f].val[k] = NextAsset(n - f)[k]
    BY <1>3, <2>3
  <2>5. CASE f = 0
    <3>1. n - f = n
      BY <1>1, <2>5
    <3> QED BY <1>1, <2>3, <2>4, <3>1 DEF NextAsset
  <2>6. CASE f # 0
    <3>1. n - f # n /\ (n - f) + 1 = n - (f - 1) /\ f - 1 \in 0..(n - e) /\ ~(f <= f - 1)
      BY <1>1, <2>3, <2>6
    <3>2. f - 1 \notin D
      BY <2>2, <3>1
    <3>3. assetHist[n - (f - 1)].val[k] = AssetView[k]
      BY <3>1, <3>2
    <3> QED BY <1>1, <2>3, <2>4, <3>1, <3>3 DEF NextAsset
  <2> QED BY <2>5, <2>6
<1>5. n - e \in 0..(n - e) /\ n - (n - e) = e
  BY <1>1
<1> QED BY <1>4, <1>5

(* on_irreversible keeps the savepoints left traced: a balance that leaves *)
(* the cache has had no write since, and one whose oldest write is dropped *)
(* is undercut from then on.                                               *)
LEMMA TracedPop ==
    ASSUME AssetInv, BaseInv', AssetInv', Traced, Irreversible
    PROVE  Traced'
<1> DEFINE n == Len(savepoints)
<1>1. /\ n \in Nat /\ Len(wcache.ops) = n /\ Len(assetHist) = n /\ assetHist \in Seq(AssetHists)
      /\ Healthy(wcache) /\ Healthy(wcache') /\ AssetView' = AssetView
  BY Numbers, AssetPop DEF AssetInv, Stacked
<1>2. PICK d \in 0..n :
         /\ wcache' = WCPopFront(wcache, d)
         /\ assets' = [k \in AssetKeys |-> IF WCPersisted(wcache, d, k) THEN wcache.data[k].value ELSE assets[k]]
         /\ assetHist' = SubSeq(assetHist, d + 1, n)
         /\ lost' = lost
  BY <1>1 DEF Irreversible, PopSavepoints
<1>3. Len(assetHist') = n - d /\ \A i \in 1..(n - d) : assetHist'[i] = assetHist[d + i]
  BY <1>1, <1>2, DropFacts
<1>4. Len(wcache'.ops) = n - d /\ \A i \in 1..(n - d) : wcache'.ops[i] = wcache.ops[d + i]
  <2> DEFINE wd == WCPopFront(wcache, d)
             m == Len(wcache.ops)
  <2>1. /\ Len(wd.ops) = m - d
        /\ \A i \in 1..(m - d) : wd.ops[i] = wcache.ops[d + i]
        /\ wd.data = [k \in AssetKeys |-> IF WCPersisted(wcache, d, k) THEN NoEntry
                                      ELSE [used |-> WCUsersLeft(wcache, d, k), value |-> wcache.data[k].value]]
    BY <1>1, PopFacts
  <2>2. m = n /\ wcache' = wd
    BY <1>1, <1>2
  <2> HIDE DEF wd, m, n
  <2> QED BY <2>1, <2>2
<1>5. \A i \in 1..(n - d) : \A k : At(wcache', i, k) = At(wcache, d + i, k) /\ \A j : Pv(wcache', i, j) = Pv(wcache, d + i, j)
  BY <1>4 DEF At, Pv
<1>d. d \in 0..n
  OBVIOUS
<1>6. /\ \A i \in 1..(n - d) : d + i \in 1..n /\ \A m \in 1..(i - 1) : m \in 1..(n - d) /\ d + m \in 1..((d + i) - 1)
      /\ \A i \in (d + 1)..n : i - d \in 1..(n - d) /\ d + (i - d) = i
      /\ \A i \in 1..n : i \in 1..d \/ i \in (d + 1)..n
  <2> HIDE DEF n
  <2> QED BY <1>1, <1>d
<1> SUFFICES ASSUME NEW i \in 1..(n - d), NEW k \in AssetKeys \ lost
             PROVE  TracedAt(wcache', assets'[k], i, k, assetHist'[i].val[k], NextAsset(i)'[k])
  BY <1>2, <1>3 DEF Traced
<1> DEFINE e == d + i
           h == assetHist[e].val[k]
<1>7. e \in 1..n /\ TracedAt(wcache, assets[k], e, k, h, NextAsset(e)[k]) /\ assetHist'[i].val[k] = h
  BY <1>1, <1>3, <1>6 DEF Traced
<1>8. NextAsset(i)' = NextAsset(e)
  <2>1. CASE i = n - d
    <3>1. e = n
      <4> HIDE DEF n
      <4> QED BY <1>1, <1>d, <2>1
    <3> QED BY <1>1, <1>3, <2>1, <3>1 DEF NextAsset
  <2>2. CASE i # n - d
    <3>1. e # n /\ i + 1 \in 1..(n - d) /\ d + (i + 1) = e + 1
      <4> HIDE DEF n
      <4> QED BY <1>1, <1>d, <2>2
    <3> QED BY <1>1, <1>3, <2>2, <3>1 DEF NextAsset
  <2> QED BY <2>1, <2>2
<1>9. Below(wcache', i, k) => Below(wcache, e, k)
  <2> SUFFICES ASSUME NEW m \in 1..(i - 1), At(wcache', m, k) # {} PROVE Below(wcache, e, k)
    BY DEF Below
  <2>1. m \in 1..(n - d) /\ d + m \in 1..(e - 1)
    BY <1>6
  <2>2. At(wcache, d + m, k) # {}
    BY <1>5, <2>1
  <2> QED BY <2>1, <2>2 DEF Below
<1>10. At(wcache', i, k) = {} => NextAsset(i)'[k] = h
  BY <1>5, <1>7, <1>8 DEF TracedAt
<1>11. ASSUME Held(wcache', i, k), NEW j \in At(wcache', i, k), \A y \in At(wcache', i, k) : j <= y
       PROVE  Pv(wcache', i, j) = h
  <2>1. j \in At(wcache, e, k) /\ (\A y \in At(wcache, e, k) : j <= y) /\ Pv(wcache', i, j) = Pv(wcache, e, j)
    BY <1>5, <1>11
  <2>2. Held(wcache, e, k)
    <3> SUFFICES ASSUME ~Held(wcache, e, k) PROVE FALSE
      OBVIOUS
    <3>1. ~Below(wcache, e, k) /\ ~Cut(wcache, k) /\ Cut(wcache', k)
      BY <1>9, <1>11 DEF Held
    <3>2. Cached(wcache, k)
      BY <1>1, <1>7, <2>1, CachedIff
    <3>3. PICK m \in 1..n : \E y \in At(wcache, m, k) : Pv(wcache, m, y) = Empty
      BY <1>1, <3>1, <3>2 DEF Cut
    <3>4. ~Below(wcache, m, k)
      BY <1>1, <3>3, BareIsOldest
    <3>5. m = e
      <4>1. ~(m < e)
        <5> SUFFICES ASSUME m < e PROVE FALSE
          OBVIOUS
        <5>1. m \in 1..(e - 1)
          <6> HIDE DEF n, e
          <6> QED BY <1>1, <1>7
        <5> QED BY <3>1, <3>3, <5>1 DEF Below
      <4>2. ~(e < m)
        <5> SUFFICES ASSUME e < m PROVE FALSE
          OBVIOUS
        <5>1. e \in 1..(m - 1)
          <6> HIDE DEF n, e
          <6> QED BY <1>1, <1>7
        <5> QED BY <2>1, <3>4, <5>1 DEF Below
      <4> HIDE DEF n, e
      <4> QED BY <1>1, <1>7, <4>1, <4>2
    <3>6. \E y \in At(wcache', i, k) : Pv(wcache', i, y) = Empty
      BY <1>5, <3>3, <3>5
    <3> QED BY <1>4, <3>1, <3>6 DEF Cut
  <2> QED BY <1>7, <2>1, <2>2 DEF TracedAt
<1>12. ASSUME ~Held(wcache', i, k) PROVE h = assets'[k]
  <2>1. ~Below(wcache', i, k) /\ ~Cut(wcache', k)
    BY <1>12 DEF Held
  <2>2. /\ assets'[k] = IF WCPersisted(wcache, d, k) THEN wcache.data[k].value ELSE assets[k]
        /\ WCPersisted(wcache, d, k) => Cached(wcache, k) /\ WCUsersLeft(wcache, d, k) = 0
        /\ WCUsersLeft(wcache, d, k) = Cardinality(OpsOn(wcache, (d + 1)..n, k))
        /\ ~WCPersisted(wcache, d, k) => (Cached(wcache, k) <=> WCUsersLeft(wcache, d, k) > 0)
    BY <1>1, <1>2, LeftFacts
  <2>3. CASE WCPersisted(wcache, d, k)
    <3>1. \A m \in (d + 1)..n : At(wcache, m, k) = {}
      <4>1. (d + 1)..n \subseteq 1..n
        <5> HIDE DEF n
        <5> QED BY <1>1, <1>d
      <4>2. wcache \in Caches
        BY <1>1 DEF Healthy
      <4> QED BY <1>1, <2>2, <2>3, <4>1, <4>2, OpsNone
    <3>2. \A m \in e..n : m \in (d + 1)..n
      <4> HIDE DEF n
      <4> QED BY <1>1, <1>d
    <3>3. h = AssetView[k]
      BY <1>7, <3>1, <3>2, TracedTop
    <3> QED BY <2>2, <2>3, <3>3, ViewAt
  <2>4. CASE ~WCPersisted(wcache, d, k) /\ ~Cached(wcache, k)
    <3>1. \A m \in 1..n : At(wcache, m, k) = {}
      BY <1>1, <2>4, CachedIff
    <3>2. ~Held(wcache, e, k)
      <4>1. \A m \in 1..(e - 1) : m \in 1..n
        <5> HIDE DEF n, e
        <5> QED BY <1>1, <1>7
      <4> QED BY <2>4, <3>1, <4>1 DEF Held, Below, Cut
    <3> QED BY <1>7, <2>2, <2>4, <3>2 DEF TracedAt
  <2>5. CASE ~WCPersisted(wcache, d, k) /\ Cached(wcache, k)
    <3>1. Cached(wcache', k)
      <4>1. \E m \in (d + 1)..n : At(wcache, m, k) # {}
        <5>1. (d + 1)..n \subseteq 1..n
          <6> HIDE DEF n
          <6> QED BY <1>1, <1>d
        <5>2. wcache \in Caches
          BY <1>1 DEF Healthy
        <5>3. Cardinality(OpsOn(wcache, (d + 1)..n, k)) # 0
          BY <2>2, <2>5
        <5> QED BY <1>1, <5>1, <5>2, <5>3, OpsNone
      <4>2. PICK m \in (d + 1)..n : At(wcache, m, k) # {}
        BY <4>1
      <4>3. At(wcache', m - d, k) # {} /\ m - d \in 1..(n - d)
        BY <1>5, <1>6, <4>2
      <4> QED BY <1>1, <1>4, <4>3, CachedIff
    <3>2. PICK m \in 1..(n - d) : \E y \in At(wcache', m, k) : Pv(wcache', m, y) = Empty
      BY <1>4, <2>1, <3>1 DEF Cut
    <3>3. d + m \in 1..n /\ \E y \in At(wcache, d + m, k) : Pv(wcache, d + m, y) = Empty
      BY <1>5, <1>6, <3>2
    <3>4. ~Cut(wcache, k) /\ ~Below(wcache, d + m, k)
      BY <1>1, <3>3, BareIsOldest DEF Cut
    <3>5. ~Below(wcache, e, k)
      <4> SUFFICES ASSUME NEW q \in 1..(e - 1), At(wcache, q, k) # {} PROVE FALSE
        BY DEF Below
      <4>1. CASE q < d + m
        <5>1. q \in 1..((d + m) - 1)
          <6> HIDE DEF n, e
          <6> QED BY <1>1, <1>d, <1>7, <4>1
        <5> QED BY <3>4, <5>1 DEF Below
      <4>2. CASE ~(q < d + m)
        <5>1. q - d \in 1..(i - 1) /\ q - d \in 1..(n - d) /\ d + (q - d) = q
          <6>1. e = d + i
            OBVIOUS
          <6> HIDE DEF n, e
          <6> QED BY <1>1, <1>d, <1>7, <4>2, <6>1
        <5>2. At(wcache', q - d, k) # {}
          BY <1>5, <5>1
        <5> QED BY <2>1, <5>1, <5>2 DEF Below
      <4> QED BY <4>1, <4>2
    <3> QED BY <1>7, <2>2, <2>5, <3>4, <3>5 DEF TracedAt, Held
  <2> QED BY <2>3, <2>4, <2>5
<1> QED BY <1>7, <1>10, <1>11, <1>12 DEF TracedAt

(* A balance with at most one user has at most one recorded write.         *)
LEMMA OneWrite ==
    ASSUME NEW wc, Healthy(wc), NEW k \in AssetKeys, ~(wc.data[k].used > 1),
           NEW p \in Uses(wc, k), NEW q \in Uses(wc, k)
    PROVE  p = q
<1> SUFFICES ASSUME p # q PROVE FALSE
  OBVIOUS
<1>1. IsFiniteSet(Uses(wc, k)) /\ wc.data[k].used = Cardinality(Uses(wc, k))
  BY OpsFinite DEF Healthy, Counted, Count, Uses
<1>2. Cardinality({q}) = 1 /\ IsFiniteSet({q})
  BY FS_Singleton
<1>3. Cardinality({q} \cup {p}) = 2 /\ {q} \cup {p} \subseteq Uses(wc, k)
  <2>1. p \notin {q}
    OBVIOUS
  <2>2. Cardinality({q} \cup {p}) = Cardinality({q}) + 1
    BY <1>2, <2>1, FS_AddElement
  <2> QED BY <1>2, <2>2
<1>4. Cardinality({q} \cup {p}) <= Cardinality(Uses(wc, k)) /\ Cardinality(Uses(wc, k)) \in Nat
  BY <1>1, <1>3, FS_Subset, FS_CardinalityType
<1> QED BY <1>1, <1>3, <1>4

(* A restart keeps the savepoints traced, for the balances that are not    *)
(* lost by it: those have at most one recorded write, which found no entry *)
(* and finds none when it is loaded.                                       *)
LEMMA TracedRestart ==
    ASSUME AssetInv, BaseInv', AssetInv', Traced, Restart
    PROVE  Traced'
<1> DEFINE n == Len(savepoints)
<1>1. /\ n \in Nat /\ Len(wcache.ops) = n /\ Len(assetHist) = n
      /\ Healthy(wcache) /\ Healthy(wcache') /\ AssetView' = AssetView
      /\ wcache' = WCReload(wcache) /\ assets' = assets /\ assetHist' = assetHist
  BY Numbers, AssetRestart DEF AssetInv, Stacked, Restart
<1>2. lost' = lost \cup {k \in AssetKeys : LostByRestart(k)}
  BY DEF Restart
<1>3. /\ Len(wcache'.ops) = n
      /\ \A i \in 1..n : \A k : At(wcache', i, k) = At(wcache, i, k)
      /\ \A i \in 1..n : \A j \in DOMAIN wcache.ops[i].vec : Pv(wcache', i, j) = ReloadPv(wcache, i, j)
      /\ \A k \in AssetKeys : wcache'.data[k].used = wcache.data[k].used
  BY <1>1, ReloadFacts
<1>4. SUFFICES ASSUME NEW i \in 1..n, NEW k \in AssetKeys \ lost'
               PROVE  TracedAt(wcache', assets[k], i, k, assetHist[i].val[k], NextAsset(i)[k])
  BY <1>1 DEF Traced, NextAsset
<1>5. k \in AssetKeys \ lost /\ ~Cut(wcache, k) /\ ~(wcache.data[k].used > 1)
  BY <1>2, UndercutIsCut DEF LostByRestart
<1>6. TracedAt(wcache, assets[k], i, k, assetHist[i].val[k], NextAsset(i)[k])
  BY <1>1, <1>5 DEF Traced
<1>7. ASSUME NEW a \in 1..n, NEW b \in 1..n, NEW x \in At(wcache, a, k), NEW y \in At(wcache, b, k)
      PROVE  a = b /\ x = y
  <2>1. <<a, x>> \in Uses(wcache, k) /\ <<b, y>> \in Uses(wcache, k)
    BY <1>1, OnPair DEF Uses
  <2>2. <<a, x>> = <<b, y>>
    BY <1>1, <1>5, <2>1, OneWrite
  <2> QED BY <2>2
<1>8. \A a \in 1..n : \A m \in 1..(a - 1) : m \in 1..n /\ m # a
  <2> HIDE DEF n
  <2> QED BY <1>1
<1>9. \A a \in 1..n : At(wcache, a, k) # {} => ~Below(wcache, a, k)
  BY <1>7, <1>8 DEF Below
<1>10. Below(wcache', i, k) <=> Below(wcache, i, k)
  BY <1>3, <1>8 DEF Below
<1>11. ~Cut(wcache', k)
  <2> SUFFICES ASSUME Cached(wcache', k) PROVE \E a \in 1..n : \E j \in At(wcache', a, k) : Pv(wcache', a, j) = Empty
    BY <1>3 DEF Cut
  <2>1. PICK a \in 1..n : At(wcache, a, k) # {}
    BY <1>1, <1>3, CachedIff
  <2>2. PICK j \in At(wcache, a, k) : TRUE
    BY <2>1
  <2>3. j \in DOMAIN wcache.ops[a].vec /\ wcache.ops[a].vec[j].key = k
    BY <2>2 DEF At
  <2>4. OpsOn(wcache, 1..(a - 1), k) = {}
    BY <1>9, <2>2, OnPair DEF Below
  <2>5. \A p \in OpsOn(wcache, 1..a, k) : p[1] = a => p[2] >= j
    <3> SUFFICES ASSUME NEW p \in OpsOn(wcache, 1..a, k), p[1] = a PROVE p[2] >= j
      OBVIOUS
    <3>1. PICK m \in 1..a : \E y \in At(wcache, m, k) : p = <<m, y>>
      BY OnPair
    <3>2. PICK y \in At(wcache, m, k) : p = <<m, y>>
      BY <3>1
    <3>3. p[2] = y /\ m = a
      BY <3>2
    <3>4. y = j
      BY <1>7, <2>2, <3>2, <3>3
    <3>5. j \in Nat
      BY <1>1, <2>2, AtFacts DEF Healthy
    <3> QED BY <3>3, <3>4, <3>5
  <2>6. ReloadPv(wcache, a, j) = Empty
    BY <2>3, <2>4, <2>5 DEF ReloadPv
  <2> QED BY <1>3, <2>2, <2>3, <2>6
<1>12. CASE Below(wcache, i, k)
  <2>1. At(wcache, i, k) = {}
    BY <1>9, <1>12
  <2> QED BY <1>3, <1>6, <1>10, <1>12, <2>1 DEF TracedAt, Held
<1>13. CASE ~Below(wcache, i, k)
  BY <1>3, <1>5, <1>6, <1>10, <1>11, <1>13 DEF TracedAt, Held
<1> QED BY <1>12, <1>13

(* Every step keeps the savepoints traced.                                 *)
LEMMA TracedStep == ASSUME AssetInv, Traced, [Next]_vars PROVE Traced'
<1>0. BaseInv' /\ AssetInv' /\ lib \in Nat /\ restarts \in Nat /\ head \in Nat /\ open \in Nat
  BY BaseStep, AssetStep, Numbers DEF AssetInv
<1>1. CASE PutToken
  BY <1>0, <1>1, TracedSame DEF PutToken, PutTokens, WriteTokens, histVars
<1>2. CASE IssueTokens
  BY <1>0, <1>2, TracedSame DEF IssueTokens, PutTokens, WriteTokens, histVars
<1>3. CASE WriteAsset
  BY <1>0, <1>3, TracedPut DEF WriteAsset
<1>4. CASE StartBlock
  BY <1>0, <1>4, TracedAdd DEF StartBlock
<1>5. CASE StartTrx
  <2>1. Last(savepoints).seq + 1 \in Nat
    BY <1>0, <1>5, LatestSeq DEF StartTrx
  <2> QED BY <1>0, <1>5, <2>1, TracedAdd DEF StartTrx
<1>6. CASE SquashTrx
  BY <1>0, <1>6, TracedSquash
<1>7. CASE UndoTrx
  BY <1>0, <1>7, TracedRollback DEF UndoTrx
<1>8. CASE AbortBlock
  BY <1>0, <1>8, TracedRollback DEF AbortBlock
<1>9. CASE CommitBlock
  BY <1>9, TracedSame DEF CommitBlock, dbVars, histVars
<1>10. CASE PopBlock
  BY <1>0, <1>10, TracedRollback DEF PopBlock
<1>11. CASE Irreversible
  BY <1>0, <1>11, TracedPop
<1>12. CASE Restart
  BY <1>0, <1>12, TracedRestart
<1>13. CASE UNCHANGED vars
  BY <1>13, TracedSame DEF vars, dbVars, histVars
<1> QED
  BY <1>1, <1>2, <1>3, <1>4, <1>5, <1>6, <1>7, <1>8, <1>9, <1>10, <1>11, <1>12, <1>13 DEF Next

(* The invariant of exact rollback holds after genesis.                    *)
LEMMA TraceInit == Init => TraceInv
<1> SUFFICES ASSUME Init PROVE TraceInv
  OBVIOUS
<1>1. AssetInv
  BY AssetInit
<1>2. 1..Len(assetHist) = {}
  BY DEF Init
<1> QED BY <1>1, <1>2 DEF TraceInv, Traced

(* Every step keeps the invariant of exact rollback.                       *)
LEMMA TraceStep == TraceInv /\ [Next]_vars => TraceInv'
  BY AssetStep, TracedStep DEF TraceInv

(* The invariant implies AssetRollbackExact.                               *)
LEMMA TraceExact == TraceInv => AssetRollbackExact
<1> SUFFICES ASSUME TraceInv, savepoints # <<>>, NEW k \in AssetKeys \ lost, ~LostByRollback(k)
             PROVE  LET wc == WCRollback(wcache)
                    IN Last(assetHist).val[k] = IF Cached(wc, k) THEN wc.data[k].value ELSE assets[k]
  BY DEF AssetRollbackExact
<1> DEFINE n == Len(savepoints)
<1>1. n \in Nat /\ savepoints \in Seq(Savepoints) /\ Len(assetHist) = n /\ assetHist \in Seq(AssetHists)
      /\ AssetInv /\ Traced
  BY Numbers DEF TraceInv, AssetInv
<1>2. n > 0
  BY <1>1
<1>3. Last(assetHist) = assetHist[n]
  BY <1>1, <1>2, StackFacts
<1> QED BY <1>1, <1>2, <1>3, RollbackView

(* What read_asset returns after a rollback is what it returned when the   *)
(* savepoint was taken, for any nesting of sessions, any order of writes,  *)
(* any number of irreversible blocks and restarts, but for the balances    *)
(* whose replaced values pop_front or load_savepoints has thrown away      *)
(* (rollback_to_latest_savepoint).                                         *)
THEOREM AssetRollbackCorrect == Spec => []AssetRollbackExact
  BY TraceInit, TraceStep, TraceExact, PTL DEF Spec

-----------------------------------------------------------------------------
(***************************************************************************)
(* As long as the node is not restarted and no action throws after it      *)
(* changed a cached object, the object cache is invisible: it agrees with  *)
(* the database, and contracts that read through it see the store with     *)
(* savepoints that the database itself is.                                 *)
(***************************************************************************)
(* No restart, and every check comes before the first change.              *)
NoFaults == MaxRestarts = 0 /\ LateChecks = FALSE

AllRt == \A i \in 1..Len(savepoints) : savepoints[i].kind = "rt"

CInv == /\ BaseInv /\ AllRt /\ CacheCoherent
        /\ cache \in [TokenKeys -> Values \cup {NoVal, Empty}]

(* An empty cache agrees with any database.                                *)
LEMMA CInvInit == CacheInit => CInv
<1> SUFFICES ASSUME CacheInit PROVE CInv
  OBVIOUS
<1>1. Init /\ cache = NothingCached
  BY DEF CacheInit
<1>2. BaseInv
  BY <1>1, BaseInit
<1>3. Len(savepoints) = 0
  BY <1>1 DEF Init
<1>4. AllRt
  BY <1>3 DEF AllRt
<1> QED BY <1>1, <1>2, <1>4 DEF CInv, CacheCoherent, NothingCached

(* With a coherent cache the contracts' calls are those of TokenDatabase:  *)
(* an object found in the cache exists in the database.                    *)
LEMMA CacheStepIsStep ==
    ASSUME CInv, NoFaults, [CacheNext]_cacheVars
    PROVE  [Next]_vars
<1>1. CASE \E k \in TokenKeys : ReadToken(k) \/ Evict(k)
  BY <1>1 DEF ReadToken, Evict
<1>2. ASSUME NEW op \in Ops, NEW k \in TokenKeys, NEW v \in Values, CachedPut(op, k, v)
      PROVE  Next
  <2>1. PutTokens(op, {k}, v)
    <3>1. op = "update" => tokens[k] # NoVal
      BY <1>2 DEF CachedPut, CInv, CacheCoherent
    <3>2. (op = "add" => tokens[k] = NoVal) /\ WriteTokens(op, {k}, v)
      BY <1>2 DEF CachedPut
    <3> QED BY <3>1, <3>2 DEF PutTokens
  <2> QED BY <2>1 DEF PutToken, Next
<1>3. ~(\E k \in TokenKeys, v \in Values : ThrowAfterChange(k, v))
  BY DEF ThrowAfterChange, NoFaults
<1>4. CASE IssueUncached
  BY <1>4 DEF IssueUncached, Next
<1>5. CASE RollBack
  BY <1>5 DEF RollBack, Next
<1>6. CASE GoOn
  BY <1>6 DEF GoOn, Next
<1>7. CASE RestartNode
  BY <1>7 DEF RestartNode, Next
<1>8. CASE UNCHANGED cacheVars
  BY <1>8 DEF cacheVars
<1> QED BY <1>1, <1>2, <1>3, <1>4, <1>5, <1>6, <1>7, <1>8 DEF CacheNext

(* Every savepoint is a runtime one.                                       *)
LEMMA AllRtStep ==
    ASSUME BaseInv, BaseInv', AllRt, NoFaults, [Next]_vars
    PROVE  AllRt'
<1> DEFINE n == Len(savepoints)
<1>0. /\ savepoints \in Seq(Savepoints) /\ n \in Nat /\ open \in Nat /\ open <= n
      /\ restarts \in Nat /\ MaxRestarts = 0 /\ lib \in Nat /\ head \in Nat
  BY DEF BaseInv, TokenTypeOK, NoFaults
<1>1. ASSUME NEW op \in Ops, NEW K \in SUBSET TokenKeys, NEW v \in Values, PutTokens(op, K, v)
      PROVE  AllRt'
  <2>1. n >= 2 /\ savepoints' = [savepoints EXCEPT ![n] = PutGroup(savepoints[n], op, K)]
    BY <1>0, <1>1 DEF PutTokens, WriteTokens, PutGroup
  <2>2. savepoints[n] \in Savepoints /\ n \in 1..n
    BY <1>0, <2>1
  <2>3. PutGroup(savepoints[n], op, K).kind = savepoints[n].kind
    BY <2>2 DEF PutGroup, Savepoints
  <2>4. Len(savepoints') = n /\ \A i \in 1..n :
           savepoints'[i] = IF i = n THEN PutGroup(savepoints[n], op, K) ELSE savepoints[i]
    BY <1>0, <2>1
  <2> QED BY <2>2, <2>3, <2>4 DEF AllRt
<1>2. ASSUME NEW q \in Nat, AddSavepoint(q) PROVE AllRt'
  <2> DEFINE sp == [seq |-> q, kind |-> "rt", snap |-> tokens, acts |-> <<>>]
  <2>1. savepoints' = Append(savepoints, sp) /\ sp.kind = "rt"
    BY <1>2 DEF AddSavepoint
  <2> HIDE DEF sp
  <2>2. /\ Len(savepoints') = n + 1 /\ savepoints'[n + 1] = sp
        /\ \A i \in 1..n : savepoints'[i] = savepoints[i]
    BY <1>0, <2>1
  <2>3. \A i \in 1..(n + 1) : i \in 1..n \/ i = n + 1
    BY <1>0
  <2> QED BY <2>1, <2>2, <2>3 DEF AllRt
<1>3. ASSUME RollbackToLatestSavepoint PROVE AllRt'
  <2>1. n > 0 /\ savepoints' = Front(savepoints)
    BY <1>0, <1>3 DEF RollbackToLatestSavepoint
  <2>2. Len(savepoints') = n - 1 /\ \A i \in 1..(n - 1) : savepoints'[i] = savepoints[i]
    BY <1>0, <2>1, StackFacts
  <2>3. \A i \in 1..(n - 1) : i \in 1..n
    BY <1>0
  <2> QED BY <2>2, <2>3 DEF AllRt
<1>4. CASE PutToken
  BY <1>1, <1>4 DEF PutToken
<1>5. CASE IssueTokens
  BY <1>1, <1>5 DEF IssueTokens, Ops
<1>6. CASE WriteAsset \/ CommitBlock \/ UNCHANGED vars
  BY <1>6 DEF WriteAsset, PutAsset, CommitBlock, vars, dbVars, AllRt
<1>7. CASE StartBlock
  BY <1>0, <1>2, <1>7 DEF StartBlock
<1>8. CASE StartTrx
  <2>1. Last(savepoints) \in Savepoints
    BY <1>0, <1>8, StackFacts DEF StartTrx
  <2>2. Last(savepoints).seq + 1 \in Nat
    BY <2>1 DEF Savepoints
  <2> QED BY <1>2, <1>8, <2>2 DEF StartTrx
<1>9. CASE SquashTrx
  <2> DEFINE F == Front(savepoints)
  <2>1. n >= 2 /\ savepoints' = [F EXCEPT ![n - 1] = SquashGroup(F[n - 1], savepoints[n])]
    BY <1>0, <1>9 DEF SquashTrx, SquashGroup
  <2>2. /\ F \in Seq(Savepoints) /\ Len(F) = n - 1
        /\ \A i \in 1..(n - 1) : F[i] = savepoints[i]
    BY <1>0, <2>1, StackFacts
  <2>3. F[n - 1] \in Savepoints /\ n - 1 \in 1..(n - 1) /\ \A i \in 1..(n - 1) : i \in 1..n
    BY <1>0, <2>1, <2>2
  <2> HIDE DEF F
  <2>4. SquashGroup(F[n - 1], savepoints[n]).kind = F[n - 1].kind
    BY <2>3 DEF SquashGroup, Savepoints
  <2>5. Len(savepoints') = n - 1 /\ \A i \in 1..(n - 1) :
           savepoints'[i] = IF i = n - 1 THEN SquashGroup(F[n - 1], savepoints[n]) ELSE F[i]
    BY <1>0, <2>1, <2>2
  <2> QED BY <2>2, <2>3, <2>4, <2>5 DEF AllRt
<1>10. CASE UndoTrx \/ AbortBlock \/ PopBlock
  BY <1>3, <1>10 DEF UndoTrx, AbortBlock, PopBlock
<1>11. CASE Irreversible
  <2>1. PICK d \in 0..n : savepoints' = SubSeq(savepoints, d + 1, n)
    BY <1>11 DEF Irreversible, PopSavepoints
  <2>2. /\ Len(savepoints') = n - d
        /\ \A i \in 1..(n - d) : savepoints'[i] = savepoints[d + i]
    BY <1>0, <2>1, DropFacts
  <2>3. \A i \in 1..(n - d) : d + i \in 1..n
    BY <1>0
  <2> QED BY <2>2, <2>3 DEF AllRt
<1>12. ~Restart
  BY <1>0 DEF Restart
<1> QED
  BY <1>4, <1>5, <1>6, <1>7, <1>8, <1>9, <1>10, <1>11, <1>12 DEF Next

(* Every step keeps the cache coherent, when there are no faults.          *)
LEMMA CInvStep == ASSUME NoFaults PROVE CInv /\ [CacheNext]_cacheVars => CInv'
<1> SUFFICES ASSUME CInv, [CacheNext]_cacheVars PROVE CInv'
  OBVIOUS
<1>1. [Next]_vars
  BY CacheStepIsStep
<1>2. BaseInv'
  BY <1>1, BaseStep DEF CInv
<1>3. AllRt'
  BY <1>1, <1>2, AllRtStep DEF CInv
<1>4. /\ tokens \in [TokenKeys -> Values \cup {NoVal, Empty}]
      /\ cache \in [TokenKeys -> Values \cup {NoVal, Empty}]
      /\ CacheCoherent
  BY DEF CInv, BaseInv, TokenTypeOK, TokenMaps
<1>5. CASE \E k \in TokenKeys : ReadToken(k) \/ Evict(k)
  <2>1. PICK k \in TokenKeys : ReadToken(k) \/ Evict(k)
    BY <1>5
  <2>2. tokens' = tokens /\ (cache' = [cache EXCEPT ![k] = tokens[k]] \/ cache' = [cache EXCEPT ![k] = NoVal])
    BY <2>1 DEF ReadToken, Evict, vars, dbVars
  <2> QED BY <2>2, <1>4, <1>2, <1>3 DEF CInv, CacheCoherent
<1>6. ASSUME NEW op \in Ops, NEW k \in TokenKeys, NEW v \in Values, CachedPut(op, k, v)
      PROVE  CInv'
  <2>1. /\ tokens' = [x \in TokenKeys |-> IF x \in {k} THEN v ELSE tokens[x]]
        /\ cache' = [cache EXCEPT ![k] = v]
    BY <1>6 DEF CachedPut, WriteTokens
  <2> QED BY <2>1, <1>4, <1>2, <1>3 DEF CInv, CacheCoherent
<1>7. CASE IssueUncached
  <2>1. PICK K \in SUBSET TokenKeys, v \in Values : PutTokens("add", K, v)
    BY <1>7 DEF IssueUncached, IssueTokens
  <2>2. /\ tokens' = [x \in TokenKeys |-> IF x \in K THEN v ELSE tokens[x]]
        /\ \A k \in K : tokens[k] = NoVal
        /\ cache' = cache
    BY <2>1, <1>7 DEF PutTokens, WriteTokens, IssueUncached
  <2> QED BY <2>2, <1>4, <1>2, <1>3 DEF CInv, CacheCoherent
<1>8. CASE RollBack
  <2> DEFINE n == Len(savepoints)
             sp == savepoints[n]
  <2>1. RollbackToLatestSavepoint
    BY <1>8 DEF RollBack, UndoTrx, AbortBlock, PopBlock
  <2>2. savepoints \in Seq(Savepoints) /\ n \in Nat /\ n > 0
    BY <2>1 DEF RollbackToLatestSavepoint, CInv, BaseInv, TokenTypeOK
  <2>3. Last(savepoints) = sp /\ sp.kind = "rt"
    <3>1. n \in 1..n /\ AllRt
      BY <2>2 DEF CInv
    <3> QED BY <3>1, <2>2, StackFacts DEF AllRt
  <2>4. tokens' = RollbackRtGroup(tokens, sp) /\ cache' = ForgetRolledBack(sp)
    BY <2>1, <2>3, <1>8 DEF RollBack, RollbackToLatestSavepoint, RollbackGroup
  <2> HIDE DEF sp
  <2>5. cache' = [k \in TokenKeys |-> IF Touched(sp, k) THEN NoVal ELSE cache[k]]
    BY <2>3, <2>4 DEF ForgetRolledBack
  <2>6. \A k \in TokenKeys : ~Touched(sp, k) => tokens'[k] = tokens[k]
    BY <2>4 DEF RollbackRtGroup, Touched
  <2> QED BY <2>5, <2>6, <1>4, <1>2, <1>3 DEF CInv, CacheCoherent
<1>9. CASE GoOn
  <2>1. tokens' = tokens /\ cache' = cache
    BY <1>9 DEF GoOn, StartBlock, StartTrx, AddSavepoint, SquashTrx, CommitBlock, dbVars,
                Irreversible, PopSavepoints
  <2> QED BY <2>1, <1>4, <1>2, <1>3 DEF CInv, CacheCoherent
<1>10. ~RestartNode /\ ~(\E k \in TokenKeys, v \in Values : ThrowAfterChange(k, v))
  BY DEF RestartNode, Restart, ThrowAfterChange, NoFaults, CInv, BaseInv, TokenTypeOK
<1>11. CASE UNCHANGED cacheVars
  BY <1>11, <1>2, <1>3 DEF cacheVars, vars, dbVars, CInv, CacheCoherent
<1> QED BY <1>5, <1>6, <1>7, <1>8, <1>9, <1>10, <1>11 DEF CacheNext

(* Without restarts and late checks a cached object is always the one the  *)
(* database holds, whatever is rolled back, evicted or issued directly     *)
(* (watch_db and the signals of rollback_rt_group).                        *)
THEOREM CacheCorrect == ASSUME NoFaults PROVE CacheSpec => []CacheCoherent
<1>1. CInv /\ [CacheNext]_cacheVars => CInv'
  BY CInvStep
<1>2. CInv => CacheCoherent
  BY DEF CInv
<1> QED BY CInvInit, <1>1, <1>2, PTL DEF CacheSpec

(* ... and every run of the database behind the cache is one of the        *)
(* database alone, so that what is proved of TokenDatabase holds of it.    *)
THEOREM CacheImplementsDatabase == ASSUME NoFaults PROVE CacheSpec => Spec
<1>1. CInv /\ [CacheNext]_cacheVars => CInv'
  BY CInvStep
<1>2. CInv /\ [CacheNext]_cacheVars => [Next]_vars
  BY CacheStepIsStep
<1>3. CacheInit => Init
  BY DEF CacheInit
<1> QED BY CInvInit, <1>1, <1>2, <1>3, PTL DEF CacheSpec, Spec

(* With a coherent cache contracts read what the database holds.           *)
LEMMA CoherentView == CInv => CachedView = tokens
<1> SUFFICES ASSUME CInv PROVE CachedView = tokens
  OBVIOUS
<1>1. tokens \in [TokenKeys -> Values \cup {NoVal, Empty}]
  BY DEF CInv, BaseInv, TokenTypeOK, TokenMaps
<1> QED BY <1>1 DEF CInv, CacheCoherent, CachedView

(* Contracts that read through the cache see a stack of remembered states: *)
(* rolling back restores what they read, squash and irreversibility change *)
(* nothing they read.                                                      *)
THEOREM CacheStoreRefinement == ASSUME NoFaults PROVE CacheSpec => CacheStoreSpec
<1>1. CInv /\ [CacheNext]_cacheVars => CInv'
  BY CInvStep
<1>2. CacheInit => IInv /\ CacheStore!Init
  <2> SUFFICES ASSUME CacheInit PROVE IInv /\ CacheStore!Init
    OBVIOUS
  <2>1. Init /\ CachedView = tokens
    BY CInvInit, CoherentView DEF CacheInit
  <2>2. TokenStore!Init
    BY <2>1, StoreInit
  <2> QED BY <2>1, <2>2, IInvInit DEF CacheStore!Init, TokenStore!Init
<1>3. CInv /\ IInv /\ [CacheNext]_cacheVars => IInv'
  <2>1. Recoverable
    BY DEF Recoverable, NoFaults
  <2> QED BY <2>1, IInvStep, CacheStepIsStep
<1>4. CInv /\ CInv' /\ IInv /\ IInv' /\ [CacheNext]_cacheVars
         => [CacheStore!Next]_(CacheStore!vars)
  <2> SUFFICES ASSUME CInv, CInv', IInv, IInv', [CacheNext]_cacheVars
               PROVE  [CacheStore!Next]_(CacheStore!vars)
    OBVIOUS
  <2>1. [TokenStore!Next]_(TokenStore!vars)
    BY CacheStepIsStep, StoreStep DEF IInv
  <2>2. CachedView = tokens /\ CachedView' = tokens'
    <3>1. tokens' \in [TokenKeys -> Values \cup {NoVal, Empty}]
      BY DEF CInv, BaseInv, TokenTypeOK, TokenMaps
    <3>2. CachedView' = tokens'
      BY <3>1 DEF CInv, CacheCoherent, CachedView
    <3> QED BY <3>2, CoherentView
  <2>3. \A s : CacheStore!Last(s) = TokenStore!Last(s) /\ CacheStore!Front(s) = TokenStore!Front(s)
    BY DEF CacheStore!Last, CacheStore!Front, TokenStore!Last, TokenStore!Front
  <2>4. CASE TokenStore!vars' = TokenStore!vars
    BY <2>2, <2>4 DEF TokenStore!vars, CacheStore!vars
  <2>5. CASE TokenStore!Write
    BY <2>2, <2>5 DEF TokenStore!Write, CacheStore!Write, CacheStore!Next
  <2>6. CASE TokenStore!Save
    BY <2>2, <2>3, <2>6 DEF TokenStore!Save, CacheStore!Save, CacheStore!Next
  <2>7. CASE TokenStore!Rollback
    BY <2>2, <2>3, <2>7 DEF TokenStore!Rollback, CacheStore!Rollback, CacheStore!Next
  <2>8. CASE TokenStore!Squash
    BY <2>2, <2>3, <2>8 DEF TokenStore!Squash, CacheStore!Squash, CacheStore!Next
  <2>9. CASE TokenStore!Commit
    BY <2>2, <2>9 DEF TokenStore!Commit, CacheStore!Commit, CacheStore!Next
  <2> QED BY <2>1, <2>4, <2>5, <2>6, <2>7, <2>8, <2>9 DEF TokenStore!Next
<1> QED
  BY CInvInit, <1>1, <1>2, <1>3, <1>4, PTL DEF CacheSpec, CacheStoreSpec, CacheStore!Spec
-----------------------------------------------------------------------------
(* With restarts and late throws nothing but this is known of the cache.   *)
CacheIsMap == cache = [k \in TokenKeys |-> cache[k]]

(* A write keeps the types, also when a stale object led the contract to   *)
(* update a key that the database does not have.                           *)
LEMMA BaseWrite ==
    ASSUME BaseInv, NEW op \in Ops, NEW k \in TokenKeys, NEW v \in Values, WriteTokens(op, {k}, v)
    PROVE  BaseInv'
<1> DEFINE n == Len(savepoints)
           a == [op |-> op, keys |-> {k}, old |-> NoOld]
<1>0. /\ savepoints \in Seq(Savepoints) /\ tokenHist \in Seq(Hists) /\ tokens \in TokenMaps
      /\ open \in Nat /\ head \in Nat /\ lib \in Nat /\ restarts \in Nat
      /\ Len(tokenHist) = n /\ open <= n /\ n \in Nat
      /\ \A i \in (n - open + 1)..n : savepoints[i].seq > head
  BY DEF BaseInv, TokenTypeOK, Hists, OpenAbove, OpenIdx
<1>1. /\ n \in Nat \ {0} /\ a \in Actions /\ UNCHANGED <<open, head, lib, restarts, tokenHist>>
      /\ savepoints' = [savepoints EXCEPT ![n].acts = Append(@, a)]
      /\ tokens' = [c \in TokenKeys |-> IF c \in {k} THEN v ELSE tokens[c]]
  BY <1>0 DEF WriteTokens, Actions, NoOld, ctlVars, histVars
<1>2. savepoints[n] \in Savepoints
  BY <1>0, <1>1
<1>3. savepoints[n].acts \in Seq(Actions)
  BY <1>2 DEF Savepoints
<1>4. Append(savepoints[n].acts, a) \in Seq(Actions)
  BY <1>1, <1>3
<1>5. [savepoints[n] EXCEPT !.acts = Append(@, a)] \in Savepoints
  BY <1>2, <1>4 DEF Savepoints
<1>6. savepoints' \in Seq(Savepoints) /\ Len(savepoints') = n
  BY <1>0, <1>1, <1>5
<1>7. tokens' \in TokenMaps
  BY <1>0, <1>1 DEF TokenMaps
<1>8. \A i \in 1..n : savepoints'[i].seq = savepoints[i].seq
  BY <1>0, <1>1, <1>2 DEF Savepoints
<1>9. OpenAbove'
  BY <1>0, <1>1, <1>6, <1>8 DEF OpenAbove, OpenIdx
<1> QED BY <1>0, <1>1, <1>6, <1>7, <1>9 DEF BaseInv, TokenTypeOK, Hists

(* So every step keeps them, with restarts and late throws.                *)
LEMMA BaseCacheStep == BaseInv /\ [CacheNext]_cacheVars => BaseInv'
<1> SUFFICES ASSUME BaseInv, [CacheNext]_cacheVars PROVE BaseInv'
  OBVIOUS
<1>1. CASE \E op \in Ops, k \in TokenKeys, v \in Values : CachedPut(op, k, v)
  BY <1>1, BaseWrite DEF CachedPut
<1>2. ASSUME [Next]_vars PROVE BaseInv'
  BY <1>2, BaseStep
<1>3. CASE (\E k \in TokenKeys : ReadToken(k) \/ Evict(k)) \/ UNCHANGED cacheVars
  BY <1>2, <1>3 DEF ReadToken, Evict, cacheVars
<1>4. CASE \E k \in TokenKeys, v \in Values : ThrowAfterChange(k, v)
  BY <1>2, <1>4 DEF ThrowAfterChange, Next
<1>5. CASE IssueUncached \/ RollBack \/ GoOn \/ RestartNode
  BY <1>2, <1>5 DEF IssueUncached, RollBack, GoOn, RestartNode, Next
<1> QED BY <1>1, <1>3, <1>4, <1>5 DEF CacheNext

(* What rolling back the latest savepoint does to a coherent cache: only   *)
(* one that was read from the file changes tokens behind its back.         *)
LEMMA RollbackCoherent ==
    ASSUME CacheCoherent, RollbackToLatestSavepoint, Last(savepoints).kind = "rt",
           NEW k \in TokenKeys, ForgetRolledBack(Last(savepoints))[k] # NoVal
    PROVE  /\ ~Touched(Last(savepoints), k) /\ tokens'[k] = tokens[k]
           /\ ForgetRolledBack(Last(savepoints))[k] = cache[k] /\ cache[k] = tokens'[k]
<1> DEFINE sp == Last(savepoints)
<1>1. tokens' = RollbackRtGroup(tokens, sp)
  BY DEF RollbackToLatestSavepoint, RollbackGroup
<1>2. ~Touched(sp, k) /\ ForgetRolledBack(sp)[k] = cache[k]
  BY DEF ForgetRolledBack
<1>3. tokens'[k] = tokens[k]
  BY <1>1, <1>2 DEF RollbackRtGroup, Touched
<1> QED BY <1>2, <1>3 DEF CacheCoherent

(* The cache stays a map from keys to objects.                             *)
LEMMA CacheMapStep == CacheIsMap /\ [CacheNext]_cacheVars => CacheIsMap'
<1> SUFFICES ASSUME CacheIsMap, [CacheNext]_cacheVars PROVE CacheIsMap'
  OBVIOUS
<1>1. CASE \E k \in TokenKeys : ReadToken(k) \/ Evict(k)
  BY <1>1 DEF ReadToken, Evict, CacheIsMap
<1>2. CASE \E op \in Ops, k \in TokenKeys, v \in Values : CachedPut(op, k, v)
  BY <1>2 DEF CachedPut, CacheIsMap
<1>3. ForgetRolledBack(Last(savepoints)) = [k \in TokenKeys |-> ForgetRolledBack(Last(savepoints))[k]]
  BY DEF ForgetRolledBack, CacheIsMap
<1>4. CASE \E k \in TokenKeys, v \in Values : ThrowAfterChange(k, v)
  BY <1>3, <1>4 DEF ThrowAfterChange, CacheIsMap
<1>5. CASE RollBack
  BY <1>3, <1>5 DEF RollBack, CacheIsMap
<1>6. CASE IssueUncached \/ GoOn \/ UNCHANGED cacheVars
  BY <1>6 DEF IssueUncached, GoOn, cacheVars, CacheIsMap
<1>7. CASE RestartNode
  BY <1>7 DEF RestartNode, NothingCached, CacheIsMap
<1> QED BY <1>1, <1>2, <1>4, <1>5, <1>6, <1>7 DEF CacheNext

(* How a step makes a coherent cache disagree with the database.           *)
LEMMA CoherenceStep ==
    ASSUME BaseInv, CacheIsMap, CacheCoherent, CacheNext
    PROVE  \/ CacheCoherent'
           \/ /\ savepoints # <<>> /\ savepoints' = Front(savepoints)
              /\ \/ Last(savepoints).kind = "pd"
                 \/ open >= 2 /\ \E k \in TokenKeys :
                                    /\ ~Touched(Last(savepoints), k)
                                    /\ cache[k] # NoVal /\ cache'[k] \notin {NoVal, cache[k]}
<1> DEFINE sp == Last(savepoints)
           Lost == \/ sp.kind = "pd"
                   \/ open >= 2 /\ \E k \in TokenKeys :
                                      /\ ~Touched(sp, k)
                                      /\ cache[k] # NoVal /\ cache'[k] \notin {NoVal, cache[k]}
<1>1. CASE \E k \in TokenKeys : ReadToken(k) \/ Evict(k)
  <2>1. CacheCoherent'
    BY <1>1 DEF ReadToken, Evict, CacheIsMap, CacheCoherent, vars, dbVars
  <2> QED BY <2>1
<1>2. CASE \E op \in Ops, k \in TokenKeys, v \in Values : CachedPut(op, k, v)
  <2>1. CacheCoherent'
    BY <1>2 DEF CachedPut, WriteTokens, CacheIsMap, CacheCoherent
  <2> QED BY <2>1
<1>3. CASE IssueUncached
  <2>1. PICK K \in SUBSET TokenKeys, v \in Values : PutTokens("add", K, v)
    BY <1>3 DEF IssueUncached, IssueTokens
  <2>2. (\A k \in K : tokens[k] = NoVal) /\ tokens' = [k \in TokenKeys |-> IF k \in K THEN v ELSE tokens[k]]
    BY <2>1 DEF PutTokens, WriteTokens
  <2>3. CacheCoherent'
    BY <1>3, <2>2 DEF IssueUncached, CacheCoherent
  <2> QED BY <2>3
<1>4. ASSUME UndoTrx \/ AbortBlock \/ PopBlock
      PROVE  RollbackToLatestSavepoint /\ savepoints # <<>> /\ savepoints' = Front(savepoints)
  BY <1>4 DEF UndoTrx, AbortBlock, PopBlock, RollbackToLatestSavepoint
<1>4a. savepoints # <<>> => sp.kind = "rt" \/ sp.kind = "pd"
  <2> SUFFICES ASSUME savepoints # <<>> PROVE sp.kind \in {"rt", "pd"}
    OBVIOUS
  <2>1. savepoints \in Seq(Savepoints)
    BY DEF BaseInv, TokenTypeOK
  <2>2. Len(savepoints) > 0
    BY <2>1
  <2>3. sp \in Savepoints
    BY <2>1, <2>2, StackFacts
  <2> QED BY <2>3 DEF Savepoints
<1>5. CASE RollBack
  <2>1. RollbackToLatestSavepoint /\ savepoints # <<>> /\ savepoints' = Front(savepoints)
    BY <1>4, <1>5 DEF RollBack
  <2>2. sp.kind = "rt" => CacheCoherent'
    BY <1>5, <2>1, RollbackCoherent DEF RollBack, CacheCoherent
  <2>3. sp.kind = "rt" \/ sp.kind = "pd"
    BY <1>4a, <2>1
  <2> QED BY <2>1, <2>2, <2>3
<1>6. ASSUME NEW k \in TokenKeys, NEW v \in Values, ThrowAfterChange(k, v)
      PROVE  CacheCoherent' \/ (savepoints # <<>> /\ savepoints' = Front(savepoints) /\ Lost)
  <2>1. UndoTrx /\ cache[k] # NoVal /\ open >= 2 /\ v # NoVal
    BY <1>6, TokenDatabaseAssumption DEF ThrowAfterChange, UndoTrx
  <2>2. cache' = [ForgetRolledBack(sp) EXCEPT ![k] = IF Touched(sp, k) THEN NoVal ELSE v]
    BY <1>6 DEF ThrowAfterChange
  <2>3. RollbackToLatestSavepoint /\ savepoints # <<>> /\ savepoints' = Front(savepoints)
    BY <1>4, <2>1
  <2>4. ForgetRolledBack(sp) = [c \in TokenKeys |-> ForgetRolledBack(sp)[c]]
    BY DEF ForgetRolledBack, CacheIsMap
  <2>5. /\ cache'[k] = (IF Touched(sp, k) THEN NoVal ELSE v)
        /\ \A c \in TokenKeys \ {k} : cache'[c] = ForgetRolledBack(sp)[c]
    BY <2>2, <2>4
  <2>6. CASE ~Touched(sp, k) /\ v # cache[k]
    <3>1. cache'[k] \notin {NoVal, cache[k]}
      BY <2>1, <2>5, <2>6
    <3> QED BY <2>1, <2>3, <2>6, <3>1
  <2>7. CASE sp.kind = "rt" /\ (Touched(sp, k) \/ v = cache[k])
    <3>1. \A c \in TokenKeys \ {k} : cache'[c] # NoVal => cache'[c] = tokens'[c]
      BY <2>3, <2>5, <2>7, RollbackCoherent
    <3>2. cache'[k] # NoVal => cache'[k] = tokens'[k]
      <4> SUFFICES ASSUME cache'[k] # NoVal PROVE cache'[k] = tokens'[k]
        OBVIOUS
      <4>1. ~Touched(sp, k) /\ cache'[k] = cache[k]
        BY <2>5, <2>7
      <4>2. ForgetRolledBack(sp)[k] # NoVal
        BY <4>1, <2>1, <2>7 DEF ForgetRolledBack
      <4> QED BY <4>1, <4>2, <2>3, <2>7, RollbackCoherent
    <3>3. CacheCoherent'
      BY <3>1, <3>2 DEF CacheCoherent
    <3> QED BY <3>3
  <2> QED BY <2>3, <2>6, <2>7, <1>4a
<1>7. CASE GoOn
  <2>1. tokens' = tokens /\ cache' = cache
    BY <1>7 DEF GoOn, StartBlock, StartTrx, SquashTrx, CommitBlock, Irreversible, AddSavepoint, PopSavepoints, dbVars
  <2>2. CacheCoherent'
    BY <2>1 DEF CacheCoherent
  <2> QED BY <2>2
<1>8. CASE RestartNode
  <2>1. CacheCoherent'
    BY <1>8 DEF RestartNode, NothingCached, CacheCoherent
  <2> QED BY <2>1
<1> QED BY <1>1, <1>2, <1>3, <1>5, <1>6, <1>7, <1>8 DEF CacheNext
(* With restarts and late throws the cache stops agreeing with the database*)
(* in two ways only: a block from before the restart is popped, for which  *)
(* rollback_pd_group raises no signal, or a transaction fails after an     *)
(* action changed a cached object and before put_token.                    *)
THEOREM CoherenceLosses == CacheSpec => CoherenceLostKnowingly
<1>1. CacheInit => BaseInv /\ CacheIsMap
  BY BaseInit DEF CacheInit, CacheIsMap, NothingCached
<1>2. BaseInv /\ CacheIsMap /\ [CacheNext]_cacheVars =>
         [CacheCoherent /\ ~CacheCoherent' =>
             /\ savepoints # <<>> /\ savepoints' = Front(savepoints)
             /\ \/ Last(savepoints).kind = "pd"
                \/ open >= 2 /\ \E k \in TokenKeys :
                                   /\ ~Touched(Last(savepoints), k)
                                   /\ cache[k] # NoVal /\ cache'[k] \notin {NoVal, cache[k]}
         ]_cacheVars
  BY CoherenceStep
<1> QED BY <1>1, <1>2, BaseCacheStep, CacheMapStep, PTL DEF CacheSpec, CoherenceLostKnowingly
=============================================================================
