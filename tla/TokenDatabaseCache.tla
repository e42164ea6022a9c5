------------------------- MODULE TokenDatabaseCache -------------------------
(***************************************************************************)
(* The object cache that the contracts use in front of the token database  *)
(* (token_database_cache.hpp).  A contract reads an object through it,     *)
(* changes the object in place, and hands the same object to put_token,    *)
(* which writes it to the database.  Rollbacks tell the cache, by the      *)
(* signals rollback_token_value and remove_token_value, to forget the keys *)
(* they restore.  Only tokens are cached, never balances.                  *)
(***************************************************************************)
EXTENDS TokenDatabase

CONSTANT LateChecks      \* may an action throw after it changed a cached object?

ASSUME LateChecksAssumption == LateChecks \in BOOLEAN

VARIABLE cache           \* the object cached for each key, NoVal for none

cacheVars == <<vars, cache>>

NothingCached == [k \in TokenKeys |-> NoVal]

CacheInit == Init /\ cache = NothingCached

-----------------------------------------------------------------------------
(* Mutant: add is thought to leave nothing in the cache to forget.         *)
ForgetUpdated(sp) ==
    IF sp.kind = "rt"
    THEN [k \in TokenKeys |->
            IF \E i \in DOMAIN sp.acts : Touches(sp, i, k) /\ sp.acts[i].op # "add"
            THEN NoVal ELSE cache[k]]
    ELSE cache

(* Mutant: a key that the snapshot does not have raises no signal.         *)
ForgetRestored(sp) ==
    IF sp.kind = "rt"
    THEN [k \in TokenKeys |-> IF Touched(sp, k) /\ sp.snap[k] # NoVal THEN NoVal ELSE cache[k]]
    ELSE cache

(* The signals of rolling back a savepoint: rollback_rt_group raises one   *)
(* for every key it restores or removes, rollback_pd_group raises none.    *)
ForgetRolledBack(sp) ==
    IF sp.kind = "rt" THEN [k \in TokenKeys |-> IF Touched(sp, k) THEN NoVal ELSE cache[k]]
    ELSE cache

(* read_token: what is not cached is loaded from the database.             *)
ReadToken(k) == /\ cache[k] = NoVal /\ tokens[k] # NoVal
                /\ cache' = [cache EXCEPT ![k] = tokens[k]]
                /\ UNCHANGED vars

(* The LRU cache makes room.                                               *)
Evict(k) == /\ cache[k] # NoVal
            /\ cache' = [cache EXCEPT ![k] = NoVal]
            /\ UNCHANGED vars

(* put_token of an object.  A contract adds an object of its own after it  *)
(* saw that the database has no such key, and put_token throws if one is   *)
(* cached; it updates the object that read_token gave it; a vote (put) is  *)
(* either.  What was not cached gets cached.                               *)
CachedPut(op, k, v) ==
    /\ op = "add" => tokens[k] = NoVal /\ cache[k] = NoVal
    /\ op = "update" => cache[k] # NoVal
    /\ op = "put" => (cache[k] = NoVal => tokens[k] = NoVal)
    /\ WriteTokens(op, {k}, v)
    /\ cache' = [cache EXCEPT ![k] = v]

(* issuetoken writes to the database directly.                             *)
IssueUncached == IssueTokens /\ UNCHANGED cache

(* An action changes a cached object in place and throws before put_token  *)
(* (updatedomain, updfungible, tryunlock...): its transaction is undone.   *)
ThrowAfterChange(k, v) ==
    /\ LateChecks
    /\ cache[k] # NoVal
    /\ UndoTrx
    /\ LET sp == Last(savepoints)
       IN cache' = [ForgetRolledBack(sp) EXCEPT ![k] = IF Touched(sp, k) THEN NoVal ELSE v]

RollBack == /\ UndoTrx \/ AbortBlock \/ PopBlock
            /\ cache' = ForgetRolledBack(Last(savepoints))

GoOn == /\ StartBlock \/ StartTrx \/ SquashTrx \/ CommitBlock \/ Irreversible
        /\ UNCHANGED cache

(* A new process starts with an empty cache.                               *)
RestartNode == Restart /\ cache' = NothingCached

CacheNext == \/ \E k \in TokenKeys : ReadToken(k) \/ Evict(k)
             \/ \E op \in Ops, k \in TokenKeys, v \in Values : CachedPut(op, k, v)
             \/ \E k \in TokenKeys, v \in Values : ThrowAfterChange(k, v)
             \/ IssueUncached \/ RollBack \/ GoOn \/ RestartNode

CacheSpec == CacheInit /\ [][CacheNext]_cacheVars
-----------------------------------------------------------------------------
(* A cached object is the one the database holds: what a contract reads    *)
(* never depends on what happens to be cached, whatever was rolled back or *)
(* evicted before (watch_db, rollback_rt_group).  Otherwise nodes with     *)
(* different caches would compute different blocks.                        *)
CacheCoherent == \A k \in TokenKeys : cache[k] # NoVal => cache[k] = tokens[k]

(* The cache stops agreeing with the database only in two ways: a block    *)
(* from before the restart is popped (rollback_pd_group raises no signal), *)
(* or a transaction fails after it changed an object and before put_token. *)
CoherenceLostKnowingly ==
    [][CacheCoherent /\ ~CacheCoherent' =>
          /\ savepoints # <<>> /\ savepoints' = Front(savepoints)
          /\ \/ Last(savepoints).kind = "pd"
             \/ open >= 2 /\ \E k \in TokenKeys :
                                /\ ~Touched(Last(savepoints), k)
                                /\ cache[k] # NoVal /\ cache'[k] \notin {NoVal, cache[k]}
      ]_cacheVars

(* What a contract reads through the cache.                                *)
CachedView == [k \in TokenKeys |-> IF cache[k] # NoVal THEN cache[k] ELSE tokens[k]]

(* Read through the cache, the database is still a store with savepoints:  *)
(* a rollback restores what contracts read, squash and irreversibility     *)
(* change nothing.                                                         *)
CacheStore == INSTANCE SavepointStore WITH
                 States <- TokenMaps, cur <- CachedView, saved <- tokenHist
CacheStoreSpec == CacheStore!Spec
=============================================================================
