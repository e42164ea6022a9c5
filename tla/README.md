# A TLA+ model of the jmzkChain node

jmzkChain is a blockchain node written in C++.  Producers take turns in making blocks (delegated
proof of stake); every node applies the blocks of the best fork to its state, can take blocks back
when another fork wins, and declares a growing part of its chain irreversible.  Tokens, domains,
balances and proposals are the objects that transactions change; they live in a database of the
project's own, the *token database*.

This directory holds TLA+ modules for the parts that keep that state consistent, TLC
configurations that check them on small instances, and TLAPS proofs.  File paths below are relative
to `src/libraries/chain/` unless they say otherwise.  (The files are still named `evt_*`; the
identifiers in them say `jmzk`.)

## 1. Inventory

| component | state | operations | what is hard | what makes it correct |
|---|---|---|---|---|
| token database (`token_database.cpp`) | two RocksDB column families, a stack of savepoints | `put_token(s)`, `put_asset`, `add_savepoint`, `squash`, `rollback_to_latest_savepoint`, `pop_savepoints`, persist and load | nested undo; two representations of a savepoint (snapshot, list of old values); restart in between | a rollback restores exactly what the savepoint saw |
| asset write cache (`write_cache_layer`) | cached balances with a use count, recorded writes per savepoint | `put`, `rollback`, `squash`, `pop_front`, persist and load | one entry shared by many savepoints, which leave at both ends | the same, and the counts are right |
| token object cache (`token_database_cache.hpp`) | LRU cache of unpacked objects | `read_token`, `put_token`, erase on a rollback signal | objects are changed in place; rollbacks must reach the cache | a cached object is the stored one |
| sessions (`controller.cpp`, `transaction_context.cpp`) | stack of open sessions | block session, transaction session, session of a suspended transaction | exceptions at every step, destructors that roll back | savepoints match blocks |
| fork database (`fork_database.cpp`) | index of block states, head, marks | `add`, `prune`, `remove`, `set_validity`, `fetch_branch_from`, `close` | signals raised inside `add`; unchecked pointers; order of equal blocks | never loses the node's own chain |
| controller (`controller.cpp`) | head, state revision, reversible blocks, block log | `push_block`, `commit_block`, `maybe_switch_forks`, `pop_block`, `on_irreversible`, start and stop | a fork switch that fails half way; irreversibility reported before a block is applied | state = effects of the head's chain; what is final stays |
| block header state (`block_header_state.cpp`) | schedules, confirmations, irreversible number | `generate_next`, `set_confirmed`, `maybe_promote_pending`, `set_new_producers`, `next` | counting across schedule changes | two thirds confirm; numbers grow; schedules fit |
| producer plugin (`src/plugins/producer_plugin`) | watermarks | `on_block`, `start_block`, `produce_block` | forks between two turns, restarts | a producer confirms a number once |
| block log (`block_log.cpp`) | file of final blocks | append, read, repair | crash while writing | a prefix of every later chain |
| contracts (`include/evt/chain/contracts/`) | objects in the token database | about 40 actions: domains, tokens, fungibles, locks, suspended transactions, bonus | life cycles over many transactions; a transaction inside another one | supply conserved; nothing moves without its keys; outcomes are final |
| staking (`evt_contract_staking.hpp`, `src/plugins/staking_plugin`) | shares of stakers, units and net value of validators, the period | stake, propose, cancel, settle, receive bonus; the plugin's request once a period | rounding in parts; copies written back late; a request that must hit a window of blocks | units add up; nothing is made; the request is in time |
| authority checker, charge manager | none | pure functions | recursion over groups; arithmetic | agree with a definition |
| net plugin (`src/plugins/net_plugin`) | connections with their write queues, sync state | handshake, notice, requests, blocks, timeouts, redialling | message order, timeouts that overtake answers, broken connections, callbacks of writes | a node behind catches up; no wait is left to a closed connection |
| other plugins, tools, bindings, vendored code | | | | not part of the core |

How they interact: one thread runs the controller.  A producer's or a peer's block goes into the
fork database, whose `add` may *signal* that its oldest block is irreversible; the controller's
handler commits the chain state, pops savepoints of the token database and appends to the block log
before the new block is even looked at.  Then the controller applies the block, or switches forks.
Applying opens a block session, and for each transaction a nested session, in both the chainbase
state and the token database.  Contracts read and write through the object cache.  Rolling back a
savepoint signals the object cache.  `accepted_block` reaches the producer plugin, which updates the
watermarks that decide what its next block confirms.

Accepted blocks are broadcast by the net plugin, which also fetches what the node lacks.  Transactions
run one action after the other under the authority checker; `execsuspend` runs a stored transaction
inside the current one.  The controller counts staking periods when it starts a block, and the
staking plugin of a validator's node looks at every accepted block.

The hazards that the properties are for are in `PROJECT.json`, each at its line.

## 2. Modules

| module | models | state and actions |
|---|---|---|
| `SavepointStore` | what a store with savepoints promises | `cur`, `saved`; Write, Save, Rollback, Squash, Commit |
| `WriteCacheLayer` | class `write_cache_layer` | operators on a record `[data, ops]`, one per method |
| `TokenDatabase` | token database under the calls of the controller | one action per call: `PutToken`, `IssueTokens`, `WriteAsset`, `StartBlock`, `StartTrx`, `SquashTrx`, `UndoTrx`, `AbortBlock`, `CommitBlock`, `PopBlock`, `Irreversible`, `Restart` |
| `TokenDatabaseCache` | the object cache on top (extends `TokenDatabase`) | `ReadToken`, `Evict`, `CachedPut`, `IssueUncached`, `ThrowAfterChange`, and the calls above with what they do to the cache |
| `ForkDatabase` | indices and searches of the fork database | operators on the table of blocks |
| `ChainController` | controller over the fork database | `PushBlock`, `CommitBlock`, `Restart`; each is a whole call with every throw in it |
| `FinalizedChain` | what observers of the chain are promised | `chain`, `final` |
| `BlockHeaderState` | `block_header_state.cpp` | operators on a header state, one per member function |
| `HeaderChain` | one chain of headers with schedule changes | `NewBlock`, `SetProposedProducers` |
| `BlockProduction` | producers on several nodes (extends `ForkDatabase` and `BlockHeaderState`) | `ProduceBlock`, `ReceiveBlocks`, `RestartNode` |
| `NetConnection` | classes `connection` and `queued_buffer` of `net_plugin.cpp` | operators on one end of a connection, one per method |
| `NetSync` | `sync_manager`, the message handlers and `connection_monitor` (extends `NetConnection`) | `Receive` (every message, the whole handler), `ReceiveFuture`, `WriteDone`, `ExpireLate`, `ExpireEarly`, `SyncTimeout`, `Connect`, `EraseClosed`, `Drop`, `Produce` |
| `Contracts` | tokens, fungibles, locks, suspended transactions and the execution of transactions | one action `Push...` per action of a contract, `Tick`; inside suspended transactions `RunAction`, `RunExecsuspend`, `Executed`, `Failed`, `WriteThrows` |
| `Staking` | staking contracts, periods, staking plugin | one action per contract action, `NewBlock` (controller and plugins), `RestartNode` |
| `TokenDatabaseProofs`, `ChainControllerProofs`, `HeaderChainProofs`, `BlockProductionProofs`, `NetSyncProofs`, `ContractsProofs`, `StakingProofs` | theorems about the module of that name (`TokenDatabaseProofs`: tokens, then balances, then `TokenDatabaseCache`) | |
| `FoldProofs` | lemmas on sums, folds and recursive functions, for the others | |
| `MC...` | instances for TLC (values of constants, symmetry sets, views; `MCWatermarks`: two scripted behaviours of `BlockProduction`) | |

An operator whose comment starts with "Mutant:" is a wrong version of the definition that follows.
It is used by no specification; `PROJECT.json` says which property it must violate when it takes the
definition's place.

### Token database

`tokens` and `assets` are the column families.  A savepoint is `[seq, kind, snap, acts]`: `rt` ones
keep a snapshot and the keys written since, `pd` ones (read from the file after a restart) keep an
old value with each action.  `tokenHist` and `assetHist` are history variables: what a reader saw
when each savepoint was taken; `lost` has the balances for which an irreversible block and a
rollback, or a restart, destroyed what a later rollback would need.  `open` counts the sessions
neither accepted nor undone, `head` and `lib` are block numbers.  Values are model values; `NoVal`
is "no such key" and `Empty` the empty string, which `rollback_pd_group` and the write cache use for
"no old value".  The guards of the writes are those of the contracts: `add` when the key does not
exist, `update` when it does, `put` always.  `RepeatWrites` chooses whether a block may write a
token key twice (real blocks may; the flag separates the cases in which the persisted format is
right).  `PrevKept` is `pop_block`'s condition that the previous block is still in the fork
database.

A restart is a clean one: `close` persists, `open` loads.  A crash needs a replay of the block log
and is not modelled yet.

### Controller and fork database

Blocks are numbered in order of arrival; `chain` lists the ids from the genesis block, because an id
is a hash over the previous id.  `good` says whether the block can be applied.  The fork database's
index is a function from the blocks it holds to their places in the order of insertion, which is the
order of equal keys in a Boost multi index; a restart reads it back in any order, because it is
written in the order of a hash table (`ReadBack`: orders that differ only in blocks of different
numbers cannot be told apart).
`applied` stands for both state databases: the blocks whose effects they hold, of which the first
`committed` can no longer be undone.  `broken` records that the code followed a null pointer or took
the first entry of an empty index.

Which number each block declares irreversible comes from its header.  In this module it is chosen
freely under two assumptions about the producers:

* `Agrees`: the irreversible parts of any two chains are prefixes of each other.
* `ForkSettled` (only when `LateForks` is FALSE): producers build on what they know to be
  irreversible, and the block that makes another fork win does not itself make a block above the
  fork irreversible.  Section 3 says what happens without it.

It also assumes that a block never declares a lower number than its parent.  `HeaderSchedules` checks
this for growing and shifting schedules, and `HeaderShrink` shows a schedule change that breaks it.

### Headers and producers

A header state is a record with the fields of the struct.  Slots are left out: after empty slots any
active producer may be the next one.  In `HeaderChain` every acceptable header can be made, so a
producer may confirm fewer blocks than it could (`Lazy`).  `past` is a history variable: who
confirmed each block.  In `BlockProduction` the confirmations are what the watermarks allow.  Nodes
receive blocks of better forks in any order and at any time, or never.  The genesis producer hands
over to `First` in the first four blocks, which are fixed.

### Network

One record per node holds its head, the members of `sync_manager` and its ends of the connections.
An end has the two write queues, whether `_out_queue` is empty, whether an `async_write` runs, what the
peer asked for, and `wire`: what was sent and the peer has not read.  TCP delivers in order; when a
connection breaks what was on its way is lost and both ends read an end of file.  Both ends run the
same code; only the one that dials keeps its object for the next connection.  A timer that runs out
*posts* `sync_timeout`, so it may run after the answer was read (`armed`, `fired`).  `ExpireLate` is a
timeout when nothing is on its way, `ExpireEarly` one that overtakes the answer.  `ReceiveFuture` is a
block that `on_incoming_block` refuses because the clock is behind; a block that does not link is
dropped without telling the net plugin, as in the code (`producer_plugin.cpp:291`).

There is one chain without forks: a block's id is its number, and a block is irreversible when `Lag`
blocks are above it.  Transactions, time and go-away messages are left out.  Timeouts that were posted
are handled before the connection is dialled again (the period of the monitor is much longer than the
queue of the event loop).

### Contracts

A contract's action is an operator from a state to the set of states after it: empty when the code
throws.  A transaction is one action, whose keys are checked, and one step.  Only `execsuspend` runs
other transactions: `frames` is the stack of those under way, each with the actions that are left, the
state it goes back to when it fails, and the proposals it wrote.  A step does the next action of the
innermost one, without a check of keys (`execsuspend` checked all its actions at once before), or ends
it.  `newsuspend` means to refuse actions of its own domain, but compares with another name
(`evt_contract_suspend.hpp:29`), so a suspended transaction may propose, approve, execute and cancel
others and itself.  `execsuspend` writes the proposal from the object it read at the start, whatever
happened to it since.  When a rollback inside took that object out of the object cache and a new one is
in its place, `put_token` refuses (`WriteThrows`, `token_database_cache.hpp:116`); the new one may have
been evicted, so that this is a choice of the model.

Keys are users; `keys` records those behind the latest transaction and what took effect in it.
Properties about transactions compare `Committed`, the state that the latest whole transaction left.
One fungible with a passive bonus (`Charge`), tokens whose domain names the owner or a keeper as the
one who may transfer, locks with several assets.  `Receivers` are the keys and, for the generated
addresses that `check_address_reserved` lets pass, the pool.  History: `paid` is what was paid out of
each lock, `ran` how often a suspended transaction took effect, `freed` which tokens `tryunlock`
assigned in the latest transaction.  Left out: charges, tapos, checks of names, negative amounts,
`destroytoken` and groups.  The code has no limit on how deep suspended transactions run inside each
other; the model has `MaxDepth`, and what becomes of a process that runs out of stack is not in it.

### Staking

Balances are counted in the smallest amount and net values in `Fine` parts of it, so that the rounding
of the code (up when staked, down elsewhere) is there.  `Take` stands for the three loops that take
units from shares.  The yields, which the code computes with exponentials, are constants: any growth
in `Gains` may be what `recvstkbonus` finds.  A day is a block long.  The plugin's two numbers are
uninitialised members (`staking_plugin.cpp:43`), so they start with any of `Words`, in the proofs any
numbers.

## 3. Runs

States are distinct states found by TLC.  All bounds are constants named `Max...`.

| run | states | checks | bounds, and why they are enough |
|---|---|---|---|
| `TokenCache` | 1.16M | `CacheCoherent`, `TokenRollbackExact`, `CacheStoreSpec` | 2 keys, 2 values, 3 recorded writes, 3 nested sessions, 4 blocks: a key can be added, updated and put under one savepoint or three, read and evicted in between; no restart, no late throw |
| `TokenCacheFaults` | 374k | `CoherenceLostKnowingly` | a restart and late throws |
| `DatabaseRestart` | 1.34M | `UsersCounted`, `LockStep`, `AssetRollbackExact`, `MaintenanceInvisible`, `TokenStoreSpec` | two tokens or one balance, 3 recorded writes, 2 nested sessions, 5 blocks of which 3 become irreversible, a restart anywhere, `RepeatWrites` FALSE: a balance can be written in three blocks of which the oldest becomes irreversible while the later ones are popped, before and after the restart |
| `ForkSwitch` | 282k | `HeadIsBest`, `StateMatchesHead`, `MarksFollowHead`, `ReversibleIsTail`, `NeverBroken`, `BlogIsPrefix`, `FinalizedChainSpec` | 6 blocks: two forks of two blocks above a common one, of which any is bad, a fork switch back, and one restart anywhere |
| `HeaderSchedules` | 398k | `Window`, `ProposedConfirmed`, `ProposalFits`, `BlockBecomesHead` | 9 blocks, two schedule changes, window of 4 counts so that it overflows |
| `Produce` | 1.17M | `ConfirmsOnce`, `HeadersAccepted` | 2 nodes with a producer each, of whom the second schedule keeps one, 11 blocks (it becomes active on one fork while the other goes on under the first schedule), one restart.  No producer becomes active that was not: see `TwoForks` |
| `NetCatchUp` | 29k | `IrreversibleSpreads`, `HeadSpreads` | 2 nodes, one with 1 and one with 5 blocks of which 3 are irreversible, ranges of 2 blocks, so that a range is followed by a range of one block; a sixth block may be made; one fault (broken connection, early timeout, refused block); the node behind dials |
| `NetFaults` | 1.39M | `CountedBlocksHeld`, `SourceOpen`, `MuteEndDialled`, `TimerKept` | the same with three faults and the node ahead dialling, without fairness; with fewer than two faults no wait is left without an answer and no timer runs out late |
| `LocksAndSuspends` | 554k | `SupplyConserved`, `LocksCovered`, `HeldWhileOpen`, `EffectsShown`, `OutcomeFinal`, `SpentSigned`, `MovesSigned` | 2 users, 2 tokens, 3 units of a fungible, 2 locks out of three kinds (with fungibles of either user, with both tokens), times 1 to 4 with unlock time and deadline in between; `Offers`: one suspended transaction that takes effect two or three times because it executes itself, one that executes itself and then fails, one that proposes, approves and executes that one, one that cancels itself; `MaxDepth` 4, at which no transaction of the instance is stopped: before, there is nothing left to pay with |
| `Stake` | 1.15M | `UnitsCounted`, `FrozenCovers`, `NothingMade`, `PeriodCurrent`, `SentInTime` | 1 staker with 2 shares of 2 validators, net values 2 and 3 halves (so that every rounding has a remainder), a period of 2 cycles of 3 blocks and the first block of the next one; the plugin starts with numbers below, at and above the start of a period |

`MCContracts` and `MCStaking` give TLC a view.  The first drops `keys` and `freed` once a transaction is
over: only action properties read them, in their primed form.  The second drops times that no guard can
read any more, the pool's total, which is read only by the formula that `Gains` stands for, and keeps of
the plugin's numbers how they compare with the starts of this period and the next.  No property reads
what is dropped.  The constraint `MCSetUp` lets blocks pass only after the pool and the validators are
there.  The constraint `OneFamily` of `DatabaseRestart` lets a behaviour write tokens or balances and not
both: the column families share only the numbers of the savepoints, which both kinds of behaviour have.
The invariants of `ForkSwitch` that hold after a restart were also checked with 7 blocks and one
restart, one part of the trees after another (4.7M states).
The invariants of `NetFaults` were also checked with the node behind dialling, three faults and 7
blocks (3.4M states), and one fault and 9 blocks (2.2M states).

Two disagreements between the code and what the repository says of it have a run in which TLC finds the
counterexample; `PROJECT.json` quotes the lines that they contradict.

* `HeaderShrink`: the irreversible number falls when the schedule shrinks from four producers to two, and
  the block in which it falls is not taken as the head.
* `TwoForks`: a producer becomes active on a fork, makes blocks up to number 12 there, and becomes
  active on a second fork after number 11.  `on_block` overwrites its watermark with the lower number
  (`producer_plugin.cpp:239`), and the producer confirms number 12 again, without any restart.  A
  comment (`producer_plugin.cpp:1085`) says that a higher watermark of a different fork is respected.

`TwoForks` came from the proof of `ConfirmsOnce`, which failed for producers that become active, and so
did a second behaviour, `MissedSlot`.  They need 18 and 19 blocks and six producers, too many for a
search.  `MCWatermarks` gives them step by step, every step one of `BlockProduction`'s and every slot with
the producer of the block before it or the next one in the schedule.  `tlc -config MissedSlot.cfg
MCWatermarks` shows the second:

* `MissedSlot`: `on_block` predicts the schedule of the next block from the slot right after the block
  (`producer_plugin.cpp:221`).  When that slot is missed and the block after it brings in the new
  schedule, a new producer keeps the watermark that another fork left, below the number that
  `maybe_promote_pending` writes for it, and the other nodes refuse its first block (`NoneRefused`).  The
  forks of this behaviour come from a restart of another producer's node.

Both properties are therefore checked and proved for schedules that bring in nobody new, and no run or
theorem claims more.

More were met while modelling.  No run of their own is kept for them.  The properties name the cases, or
the passing runs exclude them by their conditions; each can be seen again by relaxing the condition.

* Irreversible balances (`token_database.cpp:366`): a balance written in an irreversible block and again
  later is lost when the later block is popped.  `pop_front` persists an entry only with its last user
  ("pop write cache and persist into underlying db", `token_database.cpp:945`), and the rollback of that
  last write erases the entry, so the balance reads as before the irreversible block.
  `AssetRollbackExact` names the case (`LostByRollback`) and fails without it.
* Persisted savepoints (`token_database.cpp:1173`): one with two writes of a key restores the wrong one.
  `TokenRollbackExact` fails with `RepeatWrites = TRUE`, `MaxRestarts = 1`, one key and 3 writes.
* Late throws (`evt_contract_nft.hpp:200`): a failed transaction leaves its change in the cached object.
  `CacheCoherent` fails with `LateChecks = TRUE`.
* Stuck fork (`controller.cpp:583`): the fork point is pruned before the switch to the fork; the switch
  throws, the state is no longer on par with the head, and `start_block` fails for every later block
  ("db revision is not on par with head block", `controller.cpp:812`).  `StateMatchesHead` fails with
  `LateForks = TRUE` and 5 blocks.
* A restart loses old balances, because the write cache's file holds the newest values
  (`token_database.cpp:403`): `AssetRollbackExact` names the case (`LostByRestart`) and fails without it.
* Popping a block from before the restart leaves cached objects behind (`token_database.cpp:1175`):
  `CacheCoherent` fails with one restart; `CoherenceLostKnowingly` says exactly when.
* Two restarts around the removal of a bad block put the head on an equally good block whose effects
  the state does not hold, because `init` compares only numbers (`controller.cpp:393`):
  `StateMatchesHead` fails with `MaxRestarts = 2`.
* One restart is enough with 7 blocks, which the proof of `HeadIsBest` showed (section 4): blocks 2 and
  3 on 1, 4 on 2 and 5 on 3 are equally good, and the bad block 6 on 4 makes the fork database prune
  block 1 before it is dropped.  The restart puts 5 before 4; the next block asks for a switch to 5,
  whose fork point is gone, `pop_block` throws (`controller.cpp:167`), and the head stays on 2
  without its mark.  `HeadIsBest` and `MarksFollowHead` are therefore about a node that was not restarted.
* A producer that is restarted and switched to another fork may sign a number twice
  (`producer_plugin.cpp:1085`): `ConfirmsOnce` is therefore about one run of a node, and
  `HeadersAccepted` about the time before the first restart.
* Network.  A connection that closes while a write is in progress keeps its `_out_queue`, because the
  callback closes before it clears (`net_plugin.cpp:979`); the end that dialled uses the object again
  and never writes, contrary to the comment at `net_plugin.cpp:422`.  `MuteEndDialled` says that
  nothing else leads there, and the liveness properties exclude it (`torn`).
* Network.  A `last_irr_catch_up` notice that comes late makes a node that has caught up start to
  synchronise (`sync_required` compares the last number requested with the known one and not with the
  head, `net_plugin.cpp:1300`).  Such a node requests nothing, and the peer it sent its handshake to
  takes it for one that is catching up and broadcasts nothing to it any more, so blocks made since may
  never reach it: `IrreversibleSpreads` therefore promises the blocks that were irreversible at the
  start and no later ones (with `Lag = 1`, `Span = 3`, heads 1 and 3 and `MaxBlock = 8` more is false).
  While it is in that state it drops peers whose blocks are not the expected ones.
* Network.  A wait may begin without a timer when `sync_last_requested_num` is left over from the
  catch-up of reversible blocks, with three nodes `start_sync` may change the source without asking it
  for anything, so that the old source's timeout is ignored, and the wait for the last range may lose
  its timer.  An invariant that every wait has a timer held with two nodes and failed in the proof for
  more; what is true is that the source stays open (`SourceOpen`) and that no step loses the timer of
  a wait for blocks not all requested (`TimerKept`).
* Network.  A range abandoned in the catch-up of reversible blocks, an early timeout, or a broken
  connection together with new blocks can leave the last blocks to the next handshake or broadcast:
  `HeadSpreads` assumes neither an early timeout nor new blocks.
  `recv_block` clears the announced head of the connection that delivered the block instead of the one
  that announced it (`net_plugin.cpp:1592`), and `close` does not clear it at all.
* Locks.  All locks keep their fungibles at one address: `N128(nlact.name)` makes a name of the text
  (`evt_contract_lock.hpp:99`, `:217`).  `tryunlock` does not look at the status, so a lock can be paid
  again with what another one locked; `LocksCovered` is therefore conditional.  `check_token_locked`
  compares with a prefix that no lock uses (`evt_contract_nft.hpp:117`), so a keeper can transfer a
  locked token: `HeldWhileOpen` names the case.
* Suspended transactions.  The check against nested suspend actions ("Actions in 'suspend' domain are not
  allowd deferred-signning") compares with `suspend` and not with `.suspend`
  (`evt_contract_suspend.hpp:29`).  A suspended transaction may execute itself: its status is checked
  before (`:128`) and written after (`:155`) it has run, so it takes effect once for every time it runs
  itself until an action fails.  `EffectsShown` says that only such transactions take effect more than
  once; without the exception it fails.  One may also cancel itself, and ends as executed: `OutcomeFinal`
  is about what a whole transaction left.  A `newlock` in one always fails, because the transaction
  carries no keys.
* Staking.  `settle` pays the staker's bonus and then writes the account as it was read before
  (`evt_contract_staking.hpp:449`): the bonus leaves the pool and is lost.
  `unittests/contracts/staking_tests.cpp:353` checks the resulting balance, which is the frozen amount
  alone, with the comment "net value doubled".  `toactivetkns` credits the gain of all the staker's
  shares to the validator of the call, and what it credits is later paid out of a frozen balance that
  becomes negative.  `recvstkbonus` may be called any number of times in the last cycle.  The plugin
  sends its request once and does not look at the result; its request is in time when a cycle has at
  least 3 blocks (the default is 36).

The modules of the controller, the headers, the producers, the contracts and staking stop at their
bounds, and the network stops when nothing is left to do, so their configurations switch deadlock
checking off; the token database never deadlocks and is checked for it.

**Fairness.** `NetSync` has one condition, `WF_vars(Work)`: as long as the event loops, sockets and
timers of the nodes have something to do, something of it is done.  That is what the code has: one
thread per node that runs every posted callback, TCP that delivers while a connection lasts, timers
that run out, and `connection_monitor`, which is itself a timer that sets itself again and dials.  No
fairness between the nodes, the connections or the kinds of step is assumed, and none of faults or of
new blocks.  Bounded faults and blocks are what makes this weak condition enough.  The other modules
have no liveness property and no fairness.

## 4. Proofs

The proofs hold for all constants that satisfy the `ASSUME`s: any sets of keys, values, producers,
users and validators, any bounds, chains and transactions of any length.  Each theorem that states a
property of a run has the run's name for it.

| module | theorem | states |
|---|---|---|
| `TokenDatabaseProofs` | `TokenTypeCorrect` | `[]TokenTypeOK` |
| | `TokenRollbackCorrect` | `[]TokenRollbackExact`, if `Recoverable` |
| | `TokenStoreRefinement` | `TokenStoreSpec`, if `Recoverable` |
| | `LockStepKept`, `TypesKept`, `CountsKept` | `[]LockStep`, `[]TypeOK`, `[]UsersCounted` |
| | `MaintenanceUnseen` | `MaintenanceInvisible` |
| | `AssetRollbackCorrect` | `[]AssetRollbackExact` |
| | `CacheCorrect` | `[]CacheCoherent`, if `NoFaults` |
| | `CacheImplementsDatabase` | `CacheSpec => Spec`, if `NoFaults` |
| | `CacheStoreRefinement` | `CacheStoreSpec`, if `NoFaults` |
| | `CoherenceLosses` | `CoherenceLostKnowingly` |
| `ChainControllerProofs` | `BestFollowed`, `MarksFollow` | `[]HeadIsBest`, `[]MarksFollowHead`, if `~LateForks` |
| | `StateFollows`, `ReversibleKept`, `NeverBreaks`, `BlogKept` | `[](restarts = 0 => ...)` of `StateMatchesHead`, `ReversibleIsTail`, `NeverBroken`, `BlogIsPrefix`, if `~LateForks` |
| | `ChainFinal` | `FinalizedChainSpec`, if `~LateForks` and `MaxRestarts = 0` |
| `HeaderChainProofs` | `HeadersSound` | `[]HeaderInv` |
| | `IrreversibleConfirmed`, `ProposalsFit` | `[]ProposedConfirmed`, `[]ProposalFits` |
| | `WindowKept` | `[]Window`, if `Fits8` |
| | `ProposalsAccepted` | `set_new_producers` in `start_block` never throws |
| | `BlocksBecomeHead` | `[]BlockBecomesHead`, if `[]NeverShrinks` |
| `BlockProductionProofs` | `ProductionInvariant` | `[]ProductionInv`, if `Second \subseteq First` |
| | `ConfirmedOnce` | `[]ConfirmsOnce`, if `Second \subseteq First` |
| | `AcceptedHeaders` | `[]HeadersAccepted`, if `Second \subseteq First` |
| `NetSyncProofs` | `NetInvariant`, `WaitInvariant` | `[]NetInv`, `[]WaitInv` |
| | `CountedHeld`, `MuteOnlyTorn`, `SourceStaysOpen` | `[]CountedBlocksHeld`, `[]MuteEndDialled`, `[]SourceOpen` |
| | `TimerStays` | `TimerKept` |
| `ContractsProofs` | `ContractsSound` | `[]ContractsInv` |
| | `SupplyKept`, `LocksBacked`, `TokensHeld` | `[]SupplyConserved`, `[]LocksCovered`, `[]HeldWhileOpen` |
| | `EffectsTold` | `[]EffectsShown` |
| | `OutcomesKept`, `SpendingSigned`, `MovingSigned` | `OutcomeFinal`, `SpentSigned`, `MovesSigned` |
| `StakingProofs` | `BlockInPeriod` | `[]PeriodCurrent` |
| | `BonusRequested` | `SentInTime`, if `CycleLen >= 3` |
| | `UnitsAccounted`, `SharesBacked`, `BalancesConserved` | `[]UnitsCounted`, `[]FrozenCovers`, `[]NothingMade` |

**Conditions.**  They are what the code needs; without them the property is false, and section 3 says
how.

* `Recoverable`: there are no restarts, or no block writes a token key twice.
* `NoFaults`: no restarts and no late throws.
* `Fits8`: two thirds of every schedule and one fit eight bits, the type of `confirm_count`.  The code
  asserts it at compile time for `config::max_producers` (`block_header_state.cpp:80`).
* `~LateForks` and `restarts = 0`: the producers keep `ForkSettled`, and the node has not been
  restarted yet.
* `NeverShrinks`: no pending schedule skips fewer producers than the active one, where a schedule of
  `n` skips `(n - 1) \div 3`.  It holds when schedules have at most three producers or never get
  smaller; `HeaderShrink` has 4 and 2.
* `Second \subseteq First`: the schedule change drops producers and brings in nobody new.  With new
  producers on two forks both properties are false (`TwoForks`, `MissedSlot`).
* `CycleLen >= 3`: section 3.  The default is 36.

**Tokens.**  `TokenRollbackExact` speaks of the latest savepoint only; a squash or a rollback brings
an older one to the top, so it is not inductive.  The inductive invariant `IInv` says for *every*
savepoint (`GroupsOK`) that undoing its actions leads from what the next savepoint saw to what it
saw: keys not recorded did not change, an `add` was the first write of a key that did not exist, an
`update` found the key, and a persisted action has the old value.  `SameSeqs` ties the history to the
stack, `OpenAreRt` says that open sessions are runtime savepoints (so that squash concatenates groups
of one kind), `Clean` that no empty string is stored, and `WrittenOnce` carries `~RepeatWrites` to
each group.  Lemmas `GroupPut`, `GroupSquash`, `GroupPersist` and `GroupRollback` say what each
operation does to a group; the step theorem has one step per action.  The object cache adds
`CacheCoherent` and "all savepoints are runtime savepoints" (`CInv`).  With faults a stale object may
lead a contract to update a key that does not exist, so the steps are no longer those of
`TokenDatabase`; `CoherenceLosses` needs only the types, which such a write keeps (`BaseWrite`).

**Balances.**  `AssetInv` adds two things.  `Stacked`: the savepoints of tokens and the levels of the
write cache are numbered alike, from the oldest block that can be undone to the head and the open
sessions.  `Healthy`: the use count of an entry is the number of recorded writes of its key
(`Counted`), a cached entry holds a value (`Valued`), and a write above another one of its key
replaced a value (`Replaced`; else an undo would take an entry for absent while it is in use).  There
is one lemma for what each method of `write_cache_layer` does to a healthy cache.  For rollbacks
`Traced` says for every level and every balance that is not `lost` where the value before the level is:
in the next level when the level has no write of the key; in the first write of the level when that
write found an entry, either of a lower level or because the lowest write left with an irreversible
block (`Held`); and else in the column family.  The lemmas follow a balance through each operation:
`TracedTop` for an undo, which either restores it or is the loss that `LostByRollback` names,
`TracedPop` for `pop_front`, after which a key is either gone from the cache and stored, or cut off
below (`Cut`), and `TracedRestart` for a key with one write at most, which the file does describe.

**Controller.**  `ChainInv` is the inductive invariant of `push_block` and `commit_block`.  `Tree` says
what the table of blocks is: chains start at the genesis block, share what is below a common block,
and declare numbers that do not fall.  `OnPar` collects what a run checks of the node (applied blocks,
marks, reversible blocks and block log are those of the head's chain).  The rest is about the fork
database.  `Rooted`: it holds whole branches, all above the last committed block.  `Ranked` and `Top`:
it is in order of arrival, and the head is the first of the order, which is more than `HeadIsBest`: of
equally good blocks it is the first one, so a fork switch that failed leads back to the same head.
`Settled`: the block above the last committed one is below an irreversible number too; this is the
one block by which `add` prunes late, and with `ForkSettled` it keeps every fork point in the fork
database, so that `pop_block` and `fetch_branch_from` find what they look for.  The lemmas follow the
code: `InsertStep` and `PruneStep` for `add`, `PopAllOnPar` and the like for the loops of a fork switch
of any length, `SwitchGood` and `SwitchBad` for its outcomes, `PushStep` and `CommitStep` for the calls.
After a restart `Top` no longer holds, because equally good blocks change places; the example of
section 3 came from this.

**Headers.**  `HeaderInv` relates a header state to the history of who confirmed which block.
`Tracked`: a count and the confirmations received add up to what the block requires.  `Latest`: a
producer confirmed nothing above what `lastProduced` has for it, or, when it is not in the schedule,
above the number at which the pending schedule was announced; this is what makes the confirmations
that are counted come from *different* producers when a producer leaves the schedule and comes back.
`Backed` and `Implied`: what is proposed has its confirmations and what is implied was proposed.
`Fitting`: a proposal follows the latest schedule.  That the irreversible number grows is false
(`HeaderShrink`).  `BlocksBecomeHead` proves it under `NeverShrinks`: the number is an order statistic,
and with it at most `(n - 1) \div 3` producers implied less (`Behind`).  A new block raises one
producer's number; a promotion replaces the map, gives those who are new the irreversible number
itself, and so adds nobody who is behind.

**Production.**  `ProductionInv` says of the blocks (`WellMade`) that every chain begins with the same
three blocks, because nobody of the nodes is active before the fourth, and that every later header is
`Steady`: the pending schedule is part of the active one, of which `lastProduced` knows everybody.
So a fork that a node switches to shares the first three blocks with its head, and `on_block` finds no
new producer in what it applies (`NoNewcomers`).  Then watermarks only grow while a node runs, and
`Remembered` holds: a watermark is not below any block that its producer made since the start.  What
`start_block` lets a block confirm is above the watermark, also where the difference is cut to 16 bits
(`ToConfirm`).  `HeadersAccepted` needs `NotBehind` too: no fork remembers more of a producer than its
node does.  The first five blocks are computed once (`First1` to `First5`, `FirstNodeFacts`).

**Network.**  `NetInv` has the types, `Counted` (the next number expected is at most one above the
head), and two facts about writes: a write that goes on after its socket was closed is one that
`faults.torn` records, and a mute end is one of those and, if open, at the node that dialled.  Each
method of `connection` and `sync_manager` has a lemma that it is `Sane`: it keeps that, opens no
closed connection, and makes no end mute.  `WaitInv` adds that the source of a node that waits is open
and that the next number expected is at least 1; `Fine` is the relation that every handler keeps of a
wait and its timer, `Aside` the one of those that do not touch it.  There is any number of nodes, and
connections between any of them.

**Contracts.**  `Good` is the invariant of a database state and `Reach` what a transaction may have done
since it started; `Here` says that a state inside a transaction is good and within reach of the first
one.  There is one lemma per contract action: from `Here` it leads to `Here`.  Suspended transactions run
inside each other, so the inductive invariant is about the whole stack (`Stack`): every frame has reached
the state in which the next one began, and the innermost one the present state (`Within`).  When a frame
ends, what was done before it and what it did compose to a part of the frame around it (`HereCompose`,
`WithinEnd`); when it fails, the state that it began in is one that the frame around it had reached.
Three facts are needed for transactions within transactions.  Their keys were checked before they ran, so
a token that one moves may by then have another owner than the one who signed, which is why `MovesSigned`
is about the owner when the transaction began.  One can add no lock (`newlock` fails in it).  And what
took effect since a frame began was executed by it, directly or through others (`RanBelow`), from which
`EffectsShown` follows.  For `LocksCovered` the invariant is stronger and unconditional: the balance of
the lock address and all that was paid out add up to all that was locked.

**Staking.**  `Clock` holds the periods and what the plugin has sent at which block (`Requests`).
`Books` is `UnitsCounted /\ FrozenCovers /\ NothingMade` with the types, in which the net value of a
share is never above its validator's.  A first version of `FrozenCovers` compared the rounded amount
of each share with what `toactivetkns` had added in whole units; the proof failed, because rounding
down two parts can lose one more than rounding down their sum, and the property now compares what
shares are exactly worth.

**Induction.**  Sums over accounts and loops over lists need induction, and the library's theorems take
the property as an operator, which the provers cannot instantiate.  `FoldProofs` states induction with
the property as a *set* (`NatSetInduction`, `SubsetInduction`), shows that functions defined by
recursion exist and are unique (`RecursionExists`), and derives from it what `SumFunction` of the
community modules does under a change of one summand, a split, and a concatenation.  The models use
recursive functions and folds in the modules that are proved about.

**Only model-checked.**  The controller after a restart, and `BlockBecomesHead` where a schedule shrinks
without effect.
Liveness under fairness (`IrreversibleSpreads`, `HeadSpreads`) is out of the prover's reach.

## 5. What is not modelled, and the plan

Not modelled: crashes (as opposed to clean restarts), replay and snapshots, the read mode
IRREVERSIBLE (blocks applied when they become irreversible), unapplied transactions, charges and
payments, groups, BFT confirmations (the code never adds one), transactions on the network, forks in
the synchronisation, and everything that `PROJECT.json` lists as not modelled.  Of the repository's
lines most are vendored libraries, tables, tools and interfaces, in which there is no state to check.

Order of the work:

1. (done) Token database, write cache, object cache; fork database and controller; headers and
   production; proofs for tokens and cache.
2. (done) Network synchronisation with faults and liveness; locks, suspended transactions and
   fungibles; staking with its periods and plugin.
3. (done) Proofs for staking, contracts, headers, balances in the write cache, and the controller
   with its refinement of the finalized chain.
4. (done) Proofs for the network, for production while nobody becomes active, and for the
   irreversible number under `NeverShrinks`.  Left: what of the controller survives a restart
   (`NeverBroken`, `BlogIsPrefix`).
5. Block log and replay after a crash, composed with `ChainController`.  A proposed schedule becomes
   active, with fair producers in `HeaderChain`.  The authority checker with groups as an operator
   against a reference definition.  Agreement: the irreversible parts of two forks in
   `BlockProduction` agree, which would discharge `Agrees` of `ChainController`; with two or three
   producers the rule asks for all of them, so four are needed for an interesting instance, and the
   state space asks for a smaller model of forks.
