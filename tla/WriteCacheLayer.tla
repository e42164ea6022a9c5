-------------------------- MODULE WriteCacheLayer --------------------------
(***************************************************************************)
(* The write cache in front of the assets column family                    *)
(* (class write_cache_layer, token_database.cpp).  Its state is a record   *)
(*   data : for every key the cached entry, [used, value]; used = 0 when   *)
(*          data_ has no entry for the key                                 *)
(*   ops  : one [seq, vec] per savepoint, oldest first, vec the writes     *)
(*          under that savepoint with the value each one replaced (pv)     *)
(* Each operator below is one method and returns the state it leaves.      *)
(***************************************************************************)
EXTENDS Naturals, FiniteSets, SequencesExt

CONSTANTS AssetKeys,     \* keys of the assets column family
          NoVal,         \* no value is stored
          Empty          \* the empty string

NoEntry == [used |-> 0, value |-> NoVal]

EmptyCache == [data |-> [k \in AssetKeys |-> NoEntry], ops |-> <<>>]

Cached(wc, k) == wc.data[k].used > 0

(* The writes of key k under the savepoints in I.                          *)
OpsOn(wc, I, k) ==
    UNION {{<<i, j>> : j \in {x \in DOMAIN wc.ops[i].vec : wc.ops[i].vec[x].key = k}} : i \in I}

(* put: a new entry records no previous value, an existing one counts the  *)
(* writer and records the value it replaces.                               *)
WCPut(wc, k, v) ==
    LET pv == IF Cached(wc, k) THEN wc.data[k].value ELSE Empty
        n  == Len(wc.ops)
    IN [data |-> [wc.data EXCEPT ![k] = [used |-> @.used + 1, value |-> v]],
        ops  |-> [wc.ops EXCEPT ![n].vec = Append(@, [key |-> k, pv |-> pv])]]

WCAddSavepoint(wc, seq) ==
    [wc EXCEPT !.ops = Append(@, [seq |-> seq, vec |-> <<>>])]

(* Mutant: the writes are walked forwards, so the last one's pv stays.     *)
WCRollbackForwards(wc) ==
    LET vec == Last(wc.ops).vec
        At(k) == {j \in DOMAIN vec : vec[j].key = k}
        Latest(k) == CHOOSE j \in At(k) : \A i \in At(k) : j >= i
        After(k) == LET left == wc.data[k].used - Cardinality(At(k)) IN
                    IF At(k) = {} THEN wc.data[k]
                    ELSE IF left = 0 THEN NoEntry
                    ELSE [used |-> left, value |-> vec[Latest(k)].pv]
    IN [data |-> [k \in AssetKeys |-> After(k)], ops |-> Front(wc.ops)]

(* rollback_to_latest_savepoint walks the latest writes backwards: the     *)
(* entry goes away with its last user, and otherwise ends with the value   *)
(* that the first of these writes replaced.                                *)
WCRollback(wc) ==
    LET vec == Last(wc.ops).vec
        At(k) == {j \in DOMAIN vec : vec[j].key = k}
        First(k) == CHOOSE j \in At(k) : \A i \in At(k) : j <= i
        After(k) == LET left == wc.data[k].used - Cardinality(At(k)) IN
                    IF At(k) = {} THEN wc.data[k]
                    ELSE IF left = 0 THEN NoEntry
                    ELSE [used |-> left, value |-> vec[First(k)].pv]
    IN [data |-> [k \in AssetKeys |-> After(k)], ops |-> Front(wc.ops)]

(* Mutant: squash keeps the number of the latest savepoint.                *)
WCSquashRenumbers(wc) ==
    LET n == Len(wc.ops) IN
    [wc EXCEPT !.ops = [Front(@) EXCEPT ![n - 1] =
        [seq |-> wc.ops[n].seq, vec |-> wc.ops[n - 1].vec \o wc.ops[n].vec]]]

(* squash: the latest writes are appended to those of the savepoint below. *)
WCSquash(wc) ==
    LET n == Len(wc.ops) IN
    [wc EXCEPT !.ops = [Front(wc.ops) EXCEPT ![n - 1].vec = @ \o wc.ops[n].vec]]

(* pop_front, n times: an entry none of whose users is left is persisted.  *)
WCUsersLeft(wc, n, k) == wc.data[k].used - Cardinality(OpsOn(wc, 1..n, k))

WCPersisted(wc, n, k) == OpsOn(wc, 1..n, k) # {} /\ WCUsersLeft(wc, n, k) = 0

(* Mutant: pop_front forgets to count the users that leave.                *)
WCPopFrontUncounted(wc, n) ==
    [data |-> [k \in AssetKeys |-> IF WCPersisted(wc, n, k) THEN NoEntry ELSE wc.data[k]],
     ops  |-> SubSeq(wc.ops, n + 1, Len(wc.ops))]

WCPopFront(wc, n) ==
    [data |-> [k \in AssetKeys |->
                 IF WCPersisted(wc, n, k) THEN NoEntry
                 ELSE [wc.data[k] EXCEPT !.used = WCUsersLeft(wc, n, k)]],
     ops  |-> SubSeq(wc.ops, n + 1, Len(wc.ops))]

(* persist_savepoints writes, for each write of each savepoint, its key    *)
(* and the value the entry has now; load_savepoints puts them again.       *)
WCReload(wc) ==
    LET IsFirst(i, j) == \A p \in OpsOn(wc, 1..i, wc.ops[i].vec[j].key) :
                            p[1] = i => p[2] >= j
        Pv(i, j) == LET k == wc.ops[i].vec[j].key IN
                    IF OpsOn(wc, 1..(i - 1), k) = {} /\ IsFirst(i, j)
                    THEN Empty ELSE wc.data[k].value
    IN [data |-> [k \in AssetKeys |->
                    LET users == Cardinality(OpsOn(wc, DOMAIN wc.ops, k))
                    IN IF users = 0 THEN NoEntry
                       ELSE [used |-> users, value |-> wc.data[k].value]],
        ops  |-> [i \in DOMAIN wc.ops |->
                    [seq |-> wc.ops[i].seq,
                     vec |-> [j \in DOMAIN wc.ops[i].vec |->
                                [key |-> wc.ops[i].vec[j].key, pv |-> Pv(i, j)]]]]]
=============================================================================
