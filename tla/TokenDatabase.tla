--------------------------- MODULE TokenDatabase ---------------------------
(***************************************************************************)
(* The token database (libraries/chain/token_database.cpp): two RocksDB    *)
(* column families and a stack of savepoints that lets the controller undo *)
(* a transaction or a block.  Tokens are written straight to RocksDB and   *)
(* each savepoint keeps a RocksDB snapshot and a list of the keys written  *)
(* since; assets stay in a write cache until their block is irreversible.  *)
(* On a clean shutdown the savepoints are written to a file and read back  *)
(* by the next start, the snapshots turned into the values they held.      *)
(*                                                                         *)
(* The actions are the calls the controller makes, in the order its        *)
(* sessions allow: a block session (open = 1), transaction sessions nested *)
(* in it (open = 2, and 3 for a suspended transaction executed by another  *)
(* one), and undo of committed blocks when the chain switches forks.       *)
(***************************************************************************)
EXTENDS Integers, FiniteSets, SequencesExt, WriteCacheLayer

CONSTANTS TokenKeys,     \* keys of the default column family
          Values,        \* packed objects, never the empty string
          RepeatWrites,  \* may a block write a token key more than once?
          MaxHead,       \* bound: highest block number
          MaxWrites,     \* bound: writes recorded under all savepoints
          MaxOpen,       \* bound: nesting of sessions, block session included
          MaxLib,        \* bound: last block signalled irreversible
          MaxRestarts    \* bound: clean restarts

ASSUME TokenDatabaseAssumption ==
    /\ NoVal # Empty /\ NoVal \notin Values /\ Empty \notin Values
    /\ RepeatWrites \in BOOLEAN
    /\ MaxHead \in Nat /\ MaxWrites \in Nat /\ MaxOpen \in Nat
    /\ MaxLib \in Nat /\ MaxRestarts \in Nat

VARIABLES
    tokens,              \* default column family
    assets,              \* assets column family
    wcache,              \* assets_write_cache_
    savepoints,          \* savepoints_, oldest first
    open,                \* sessions that are neither accepted nor undone
    head,                \* number of the last committed block
    lib,                 \* number of the last block signalled irreversible
    restarts,            \* clean restarts so far
    tokenHist,           \* history: the tokens when each savepoint was taken
    assetHist,           \* history: the assets as read at that moment
    lost                 \* history: assets whose replaced values are gone

dbVars   == <<tokens, assets, wcache, savepoints>>
ctlVars  == <<open, head, lib, restarts>>
histVars == <<tokenHist, assetHist, lost>>
vars     == <<dbVars, ctlVars, histVars>>

-----------------------------------------------------------------------------
(* Stored values: a rollback of a persisted savepoint can store the empty  *)
(* string, nothing else can.                                               *)
TokenMaps == [TokenKeys -> Values \cup {NoVal, Empty}]
NoTokens  == [k \in TokenKeys |-> NoVal]
NoOld     == [k \in TokenKeys |-> Empty]

Ops == {"add", "update", "put"}

(* rt_action and pd_action: the keys written, and for a persisted one the  *)
(* value each key had (the empty string in a runtime action, which finds   *)
(* old values in the snapshot instead).                                    *)
Actions == [op : Ops, keys : SUBSET TokenKeys, old : [TokenKeys -> Values \cup {Empty}]]

(* savepoint with its rt_group or pd_group.                                *)
Savepoints == [seq : Nat, kind : {"rt", "pd"}, snap : TokenMaps, acts : Seq(Actions)]

(* read_asset: the write cache first, then the column family.              *)
AssetView == [k \in AssetKeys |-> IF Cached(wcache, k) THEN wcache.data[k].value
                                  ELSE assets[k]]

(* The block of the oldest write of k is irreversible and no longer        *)
(* recorded, while a later write of k still is: its value is neither in the*)
(* column family nor kept as a replaced one for the last write rolled back.*)
Undercut(k) ==
    /\ Cached(wcache, k)
    /\ \A p \in OpsOn(wcache, DOMAIN wcache.ops, k) : wcache.ops[p[1]].vec[p[2]].pv # Empty

(* History only: a rollback drops the last write of such a balance, which  *)
(* then reads as before the irreversible block; and a restart reloads the  *)
(* writes of a balance without the values they replaced, which matters when*)
(* there are several or the oldest one is gone.                            *)
LostByRollback(k) == Undercut(k) /\ ~Cached(WCRollback(wcache), k)
LostByRestart(k)  == Undercut(k) \/ wcache.data[k].used > 1

Touches(sp, i, k) == k \in sp.acts[i].keys
Touched(sp, k)    == \E i \in DOMAIN sp.acts : Touches(sp, i, k)

-----------------------------------------------------------------------------
(* Mutant: a put of a key that existed is not rolled back.                 *)
RollbackRtGroupSkipsPut(t, sp) ==
    [k \in TokenKeys |->
        IF \E i \in DOMAIN sp.acts : Touches(sp, i, k) /\ sp.acts[i].op = "add" THEN NoVal
        ELSE IF \E i \in DOMAIN sp.acts : Touches(sp, i, k) /\ sp.acts[i].op = "update"
        THEN sp.snap[k]
        ELSE t[k]]

(* rollback_rt_group: the batch deletes every key that was added and puts  *)
(* back the snapshot's value of every other key written.                   *)
RollbackRtGroup(t, sp) ==
    [k \in TokenKeys |->
        IF \E i \in DOMAIN sp.acts : Touches(sp, i, k) /\ sp.acts[i].op = "add" THEN NoVal
        ELSE IF Touched(sp, k) THEN sp.snap[k]
        ELSE t[k]]

(* ... and it throws when the first write of a key is an update and the    *)
(* snapshot has no such key.                                               *)
RtGroupThrows(sp) ==
    \E k \in TokenKeys, i \in DOMAIN sp.acts :
        /\ Touches(sp, i, k) /\ sp.acts[i].op = "update" /\ sp.snap[k] = NoVal
        /\ \A j \in 1..(i - 1) : ~Touches(sp, j, k)

(* Mutant: a persisted put with no old value is stored, not deleted.       *)
RollbackPdGroupStoresEmpty(t, sp) ==
    [k \in TokenKeys |->
        IF ~Touched(sp, k) THEN t[k]
        ELSE LET i == CHOOSE i \in DOMAIN sp.acts :
                          /\ Touches(sp, i, k)
                          /\ \A j \in DOMAIN sp.acts : Touches(sp, j, k) => j <= i
             IN IF sp.acts[i].op = "add" THEN NoVal ELSE sp.acts[i].old[k]]

(* rollback_pd_group: the batch has one entry per action, the last one on  *)
(* a key wins.                                                             *)
RollbackPdGroup(t, sp) ==
    [k \in TokenKeys |->
        IF ~Touched(sp, k) THEN t[k]
        ELSE LET i == CHOOSE i \in DOMAIN sp.acts :
                          /\ Touches(sp, i, k)
                          /\ \A j \in DOMAIN sp.acts : Touches(sp, j, k) => j <= i
                 a == sp.acts[i]
             IN IF a.op = "add" \/ (a.op = "put" /\ a.old[k] = Empty)
                THEN NoVal ELSE a.old[k]]

RollbackGroup(t, sp) == IF sp.kind = "rt" THEN RollbackRtGroup(t, sp)
                        ELSE RollbackPdGroup(t, sp)

(* persist_savepoints of one savepoint: an action gets the snapshot's      *)
(* value of its keys unless an earlier action of the group has the key.    *)
PersistGroup(sp) ==
    IF sp.kind = "pd" THEN sp
    ELSE [seq  |-> sp.seq, kind |-> "pd", snap |-> NoTokens,
          acts |-> [i \in DOMAIN sp.acts |->
                      [op   |-> sp.acts[i].op,
                       keys |-> sp.acts[i].keys,
                       old  |-> [k \in TokenKeys |->
                                   IF /\ Touches(sp, i, k)
                                      /\ sp.acts[i].op # "add"
                                      /\ \A j \in 1..(i - 1) : ~Touches(sp, j, k)
                                      /\ sp.snap[k] # NoVal
                                   THEN sp.snap[k] ELSE Empty]]]]

-----------------------------------------------------------------------------
(* The database as the genesis block leaves it: written without savepoints.*)
Init == /\ tokens \in [TokenKeys -> Values \cup {NoVal}]
        /\ assets \in [AssetKeys -> Values \cup {NoVal}]
        /\ wcache = EmptyCache
        /\ savepoints = <<>>
        /\ open = 0 /\ head = 1 /\ lib = 0 /\ restarts = 0
        /\ tokenHist = <<>> /\ assetHist = <<>> /\ lost = {}

(* add_savepoint: the number must be larger than the latest one's.         *)
AddSavepoint(seq) ==
    /\ savepoints # <<>> => Last(savepoints).seq < seq
    /\ savepoints' = Append(savepoints, [seq |-> seq, kind |-> "rt", snap |-> tokens, acts |-> <<>>])
    /\ wcache' = WCAddSavepoint(wcache, seq)
    /\ tokenHist' = Append(tokenHist, [seq |-> seq, val |-> tokens])
    /\ assetHist' = Append(assetHist, [seq |-> seq, val |-> AssetView])
    /\ UNCHANGED <<tokens, assets, lost>>

(* rollback_to_latest_savepoint.                                           *)
RollbackToLatestSavepoint ==
    /\ savepoints # <<>>
    /\ Last(savepoints).kind = "rt" => ~RtGroupThrows(Last(savepoints))
    /\ tokens' = RollbackGroup(tokens, Last(savepoints))
    /\ savepoints' = Front(savepoints)
    /\ wcache' = WCRollback(wcache)
    /\ tokenHist' = Front(tokenHist)
    /\ assetHist' = Front(assetHist)
    /\ lost' = lost \cup {k \in AssetKeys : LostByRollback(k)}
    /\ UNCHANGED assets

-----------------------------------------------------------------------------
(* Writes recorded under the savepoints (for the bound MaxWrites).         *)
Written == Cardinality(UNION {{i} \X DOMAIN savepoints[i].acts : i \in DOMAIN savepoints})
           + Cardinality(UNION {{i} \X DOMAIN wcache.ops[i].vec : i \in DOMAIN wcache.ops})

(* The token keys written by the sessions that are open.                   *)
WrittenInBlock == {k \in TokenKeys : \E i \in (Len(savepoints) - open + 1)..Len(savepoints) :
                                        Touched(savepoints[i], k)}

(* put_token and put_tokens: the keys are stored and the action recorded.  *)
WriteTokens(op, K, v) ==
    /\ open >= 2 /\ Written < MaxWrites
    /\ RepeatWrites \/ K \cap WrittenInBlock = {}
    /\ tokens' = [k \in TokenKeys |-> IF k \in K THEN v ELSE tokens[k]]
    /\ savepoints' = [savepoints EXCEPT ![Len(savepoints)].acts =
                        Append(@, [op |-> op, keys |-> K, old |-> NoOld])]
    /\ UNCHANGED <<assets, wcache, ctlVars, histVars>>

(* ... as the contracts call them: add for keys that do not exist, update  *)
(* for one that does, put for either.                                      *)
PutTokens(op, K, v) ==
    /\ K # {}
    /\ op = "add" => \A k \in K : tokens[k] = NoVal
    /\ op = "update" => \A k \in K : tokens[k] # NoVal
    /\ WriteTokens(op, K, v)

(* put_asset with a savepoint: only the write cache changes.               *)
PutAsset(k, v) ==
    /\ open >= 2 /\ Written < MaxWrites
    /\ wcache' = WCPut(wcache, k, v)
    /\ UNCHANGED <<tokens, assets, savepoints, ctlVars, histVars>>

(* start_block opens the block's session, numbered as the block.           *)
StartBlock == /\ open = 0 /\ head < MaxHead
              /\ AddSavepoint(head + 1)
              /\ open' = 1
              /\ UNCHANGED <<head, lib, restarts>>

(* A transaction context opens a session numbered after the latest.        *)
StartTrx == /\ open >= 1 /\ open < MaxOpen
            /\ AddSavepoint(Last(savepoints).seq + 1)
            /\ open' = open + 1
            /\ UNCHANGED <<head, lib, restarts>>

(* Mutant: squash forgets the actions of the latest savepoint.             *)
SquashTrxForgets ==
    /\ open >= 2
    /\ savepoints' = Front(savepoints)
    /\ wcache' = WCSquash(wcache)
    /\ open' = open - 1
    /\ tokenHist' = Front(tokenHist) /\ assetHist' = Front(assetHist)
    /\ UNCHANGED <<tokens, assets, lost, head, lib, restarts>>

(* squash: the actions of the latest savepoint go to the one below.        *)
SquashTrx ==
    LET n == Len(savepoints) IN
    /\ open >= 2
    /\ savepoints[n].kind = "rt" /\ savepoints[n - 1].kind = "rt"
    /\ savepoints' = [Front(savepoints) EXCEPT ![n - 1].acts = @ \o savepoints[n].acts]
    /\ wcache' = WCSquash(wcache)
    /\ open' = open - 1
    /\ tokenHist' = Front(tokenHist) /\ assetHist' = Front(assetHist)
    /\ UNCHANGED <<tokens, assets, lost, head, lib, restarts>>

(* A transaction fails: its session is undone, or destroyed unaccepted.    *)
UndoTrx == /\ open >= 2
           /\ RollbackToLatestSavepoint
           /\ open' = open - 1
           /\ UNCHANGED <<head, lib, restarts>>

(* abort_block, or a block that fails to apply.                            *)
AbortBlock == /\ open = 1
              /\ RollbackToLatestSavepoint
              /\ open' = 0
              /\ UNCHANGED <<head, lib, restarts>>

(* commit_block accepts the session: its savepoint stays.                  *)
CommitBlock == /\ open = 1
               /\ open' = 0 /\ head' = head + 1
               /\ UNCHANGED <<dbVars, histVars, lib, restarts>>

(* The block below the head is still in the fork database: it is not       *)
(* irreversible, or it was only reported so by the shutdown, after the fork*)
(* database had been saved.                                                *)
PrevKept == head - 1 > lib \/ (restarts > 0 /\ head - 1 = lib)

(* pop_block, when the chain switches forks.                               *)
PopBlock == /\ open = 0 /\ PrevKept
            /\ RollbackToLatestSavepoint
            /\ head' = head - 1
            /\ UNCHANGED <<open, lib, restarts>>

(* Mutant: what leaves the write cache is not stored.                      *)
PopSavepointsUnstored(until) ==
    \E n \in 0..Len(savepoints) :
        /\ \A i \in 1..n : savepoints[i].seq < until
        /\ n < Len(savepoints) => savepoints[n + 1].seq >= until
        /\ savepoints' = SubSeq(savepoints, n + 1, Len(savepoints))
        /\ wcache' = WCPopFront(wcache, n)
        /\ tokenHist' = SubSeq(tokenHist, n + 1, Len(tokenHist))
        /\ assetHist' = SubSeq(assetHist, n + 1, Len(assetHist))
        /\ UNCHANGED <<tokens, assets, lost>>

(* on_irreversible calls pop_savepoints: the savepoints below the block's  *)
(* own are dropped and the assets that leave the write cache are stored.   *)
PopSavepoints(until) ==
    \E n \in 0..Len(savepoints) :
        /\ \A i \in 1..n : savepoints[i].seq < until
        /\ n < Len(savepoints) => savepoints[n + 1].seq >= until
        /\ savepoints' = SubSeq(savepoints, n + 1, Len(savepoints))
        /\ wcache' = WCPopFront(wcache, n)
        /\ assets' = [k \in AssetKeys |-> IF WCPersisted(wcache, n, k)
                                          THEN wcache.data[k].value ELSE assets[k]]
        /\ tokenHist' = SubSeq(tokenHist, n + 1, Len(tokenHist))
        /\ assetHist' = SubSeq(assetHist, n + 1, Len(assetHist))
        /\ UNCHANGED <<tokens, lost>>

(* The fork database signals while a block is added: before the block is   *)
(* applied, or in commit_block of the node's own block.                    *)
Irreversible == /\ open <= 1 /\ lib + 1 < head /\ lib < MaxLib
                /\ PopSavepoints(lib + 1)
                /\ lib' = lib + 1
                /\ UNCHANGED <<open, head, restarts>>

(* close persists the savepoints, open loads them.                         *)
Restart == /\ open = 0 /\ restarts < MaxRestarts
           /\ \A i \in DOMAIN savepoints :
                 savepoints[i].kind = "rt" => ~RtGroupThrows(savepoints[i])
           /\ savepoints' = [i \in DOMAIN savepoints |-> PersistGroup(savepoints[i])]
           /\ wcache' = WCReload(wcache)
           /\ restarts' = restarts + 1
           /\ lost' = lost \cup {k \in AssetKeys : LostByRestart(k)}
           /\ UNCHANGED <<tokens, assets, open, head, lib, tokenHist, assetHist>>

PutToken    == \E op \in Ops, k \in TokenKeys, v \in Values : PutTokens(op, {k}, v)
IssueTokens == \E K \in SUBSET TokenKeys, v \in Values :
                  Cardinality(K) > 1 /\ PutTokens("add", K, v)
WriteAsset  == \E k \in AssetKeys, v \in Values : PutAsset(k, v)

Next == \/ PutToken \/ IssueTokens \/ WriteAsset
        \/ StartBlock \/ StartTrx \/ SquashTrx \/ UndoTrx
        \/ AbortBlock \/ CommitBlock \/ PopBlock
        \/ Irreversible \/ Restart

Spec == Init /\ [][Next]_vars
-----------------------------------------------------------------------------
TokenTypeOK ==
    /\ tokens \in TokenMaps
    /\ savepoints \in Seq(Savepoints)
    /\ open \in Nat /\ head \in Nat /\ lib \in Nat /\ restarts \in Nat
    /\ tokenHist \in Seq([seq : Nat, val : TokenMaps])

AssetTypeOK ==
    /\ assets \in [AssetKeys -> Values \cup {NoVal}]
    /\ wcache.data \in [AssetKeys -> [used : Nat, value : Values \cup {NoVal}]]
    /\ \A i \in DOMAIN wcache.ops : \A j \in DOMAIN wcache.ops[i].vec :
          wcache.ops[i].vec[j] \in [key : AssetKeys, pv : Values \cup {Empty}]
    /\ assetHist \in Seq([seq : Nat, val : [AssetKeys -> Values \cup {NoVal}]])
    /\ lost \subseteq AssetKeys

(* Every variable keeps its type; in particular a used_count is never      *)
(* negative and no balance read is the empty string.                       *)
TypeOK == TokenTypeOK /\ AssetTypeOK

(* Rolling back to the latest savepoint restores every token to what it    *)
(* was when that savepoint was taken, and does not throw: undo, abort_block*)
(* and pop_block all rest on it (rollback_rt_group, rollback_pd_group).    *)
TokenRollbackExact ==
    savepoints # <<>> =>
        /\ Last(savepoints).kind = "rt" => ~RtGroupThrows(Last(savepoints))
        /\ RollbackGroup(tokens, Last(savepoints)) = Last(tokenHist).val

(* The same for the balances, across sessions, fork switches, irreversible *)
(* blocks and restarts: what read_asset returns after a rollback is what it*)
(* returned when the savepoint was taken.  There are exactly two           *)
(* exceptions.  pop_front may drop the oldest recorded write of a balance  *)
(* that later blocks have written too; the rollback that undoes the last   *)
(* of these erases the entry, and the balance reads as before the          *)
(* irreversible block.  And load_savepoints rebuilds the writes without    *)
(* the values they replaced.                                               *)
AssetRollbackExact ==
    savepoints # <<>> =>
        \A k \in AssetKeys \ lost :
            \/ LostByRollback(k)
            \/ LET wc == WCRollback(wcache)
               IN Last(assetHist).val[k] = IF Cached(wc, k) THEN wc.data[k].value ELSE assets[k]

(* used_count of a cached balance is the number of recorded writes of it:  *)
(* a larger count keeps an entry from ever being persisted, a smaller one  *)
(* frees an entry that data_op pointers still refer to.                    *)
UsersCounted ==
    \A k \in AssetKeys :
        wcache.data[k].used = Cardinality(OpsOn(wcache, DOMAIN wcache.ops, k))

(* The savepoint stack and the write cache's stay in step: pop_savepoints  *)
(* and rollback_to_latest_savepoint assert equal numbers at both ends.     *)
(* There is one savepoint for every block that is not irreversible (and    *)
(* for the last irreversible one), numbered as the block: otherwise        *)
(* pop_block would undo another block than the head.                       *)
LockStep ==
    /\ Len(savepoints) = Len(wcache.ops)
    /\ \A i \in DOMAIN savepoints : savepoints[i].seq = wcache.ops[i].seq
    /\ {savepoints[i].seq : i \in DOMAIN savepoints} = {b \in 2..(head + open) : b >= lib}
    /\ \A i, j \in DOMAIN savepoints : i < j => savepoints[i].seq < savepoints[j].seq

(* Making a block irreversible and restarting cleanly change nothing that  *)
(* a reader of tokens or balances can see.                                 *)
MaintenanceInvisible ==
    [][(lib' # lib \/ restarts' # restarts) => UNCHANGED <<tokens, AssetView>>]_vars

(* The token side implements the abstract store with savepoints.           *)
TokenStore == INSTANCE SavepointStore WITH States <- TokenMaps, cur <- tokens, saved <- tokenHist
TokenStoreSpec == TokenStore!Spec
=============================================================================
