----------------------------- MODULE Contracts -----------------------------
(***************************************************************************)
(* What transactions do to tokens, balances of one fungible, locks and     *)
(* suspended transactions (evt_contract_nft, _ft, _lock, _suspend,         *)
(* _common.hpp), with the checks of authorization around them              *)
(* (transaction_context::exec, authority_checker) and the transactions     *)
(* that execsuspend runs inside another one (push_suspend_transaction).    *)
(*                                                                         *)
(* An action of a contract takes a state s and yields the set of states    *)
(* after it: one state, or none when the code throws.  A transaction of    *)
(* one action is one step.  Only execsuspend runs others, to any depth:    *)
(* frames is the stack of the suspended transactions that are under way,   *)
(* and a step does the next action of the innermost one, or ends it.       *)
(***************************************************************************)
EXTENDS Integers, FiniteSets, Functions, SequencesExt

CONSTANTS Users,      \* addresses that are public keys
          Pool, Bonus, LockAddr, Destroyed,  \* the other addresses, see Addresses
          Tokens,     \* the tokens of some domains
          Keeper,     \* who may transfer a token by its domain: a user, or Owner
          Owner,
          Issued,     \* balances of the users at the start
          Charge,     \* passive_bonus_slim, see PassiveBonus
          Locks, LockDefs,     \* names and contents of locks
          Proposals, Trxs,     \* names and contents of suspended transactions
          Offers,     \* bound: which of them users propose, <<name, content>>
          Amounts,    \* bound: amounts that are transferred
          MaxTime,    \* bound: block time
          MaxDepth    \* bound: suspended transactions inside each other

(* The pool of the fungible that issuefungible draws on, the address that  *)
(* collects passive bonus, the one address that all locks share (N128 of   *)
(* evt_contract_lock.hpp makes a name of the text nlact.name), and the     *)
(* reserved address that destroyft uses.                                   *)
Addresses == Users \cup {Pool, Bonus, LockAddr, Destroyed}

(* What check_address_reserved lets pass: keys and the addresses that are  *)
(* generated for a fungible (the pool), a domain or a group.               *)
Receivers == Users \cup {Pool}

(* The actions that a suspended transaction may hold.  newsuspend refuses  *)
(* those of the domain "suspend", but theirs is called ".suspend": it      *)
(* refuses none of them.                                                   *)
Actions ==
    [name : {"transfer"}, token : Tokens, to : (SUBSET Receivers) \ {{}}]
    \cup [name : {"issuefungible"}, to : Users, amount : Nat]
    \cup [name : {"transferft"}, from : Users, to : Receivers, amount : Nat]
    \cup [name : {"recycleft", "destroyft"}, from : Users, amount : Nat]
    \cup [name : {"newlock"}, from : Users, lock : Locks, def : LockDefs]
    \cup [name : {"aprvlock", "tryunlock"}, from : Users, lock : Locks]
    \cup [name : {"newsuspend"}, proposal : Proposals, proposer : Users, trx : Trxs]
    \cup [name : {"aprvsuspend"}, proposal : Proposals, signed : (SUBSET Users) \ {{}}]
    \cup [name : {"cancelsuspend"}, proposal : Proposals]
    \cup [name : {"execsuspend"}, proposal : Proposals, executor : Users]

ASSUME ContractsAssumption ==
    /\ IsFiniteSet(Users) /\ Users # {} /\ IsFiniteSet(Locks)
    /\ MaxTime \in Nat /\ MaxDepth \in Nat /\ Amounts \subseteq Nat \ {0}
    /\ Issued \in [Users -> Nat]
    /\ Keeper \in [Tokens -> Users \cup {Owner}] /\ Owner \notin Users
    /\ Users \cap {Pool, Bonus, LockAddr, Destroyed} = {}
    /\ Pool \notin {Bonus, LockAddr, Destroyed}
    /\ Bonus \notin {LockAddr, Destroyed} /\ LockAddr # Destroyed

ASSUME ContentsAssumption ==
    /\ Charge \in [base : Nat, num : Nat, den : Nat \ {0}, min : Nat, max : Nat, outside : BOOLEAN]
    /\ \A d \in LockDefs : \E U \in SUBSET Users :
         d \in [tokens : SUBSET Tokens, funds : [U -> Nat],
               unlock : Nat, deadline : Nat, conds : SUBSET Users, threshold : Nat,
               succeed : SUBSET Addresses, failed : SUBSET Addresses]
    /\ Trxs \subseteq [acts : Seq(Actions), payer : Users, expiration : Nat]
    /\ Offers \subseteq Proposals \X Trxs

(* In db are the balances, the owners of the tokens, locks and suspended   *)
(* transactions, and for the properties                                    *)
(*   paid  : what was paid out of each lock                                *)
(*   ran   : how often each suspended transaction took effect              *)
(*   freed : the tokens that tryunlock assigned in the latest transaction  *)
VARIABLES db,
          now,    \* pending_block_time
          keys,   \* the keys behind the latest transaction and what ran in it
          frames  \* the suspended transactions under way, innermost last

vars == <<db, now, keys, frames>>

Total(amounts) == SumFunction(amounts)

(* f[k] := v, for a k that f may not know yet.                             *)
With(f, k, v) == [x \in DOMAIN f \cup {k} |-> IF x = k THEN v ELSE f[x]]

Init == /\ db = [balance |-> [a \in Addresses |-> IF a \in Users THEN Issued[a] ELSE 0],
                 owner |-> [t \in Tokens |-> {CHOOSE u \in Users : TRUE}],
                 locks |-> <<>>, suspends |-> <<>>, paid |-> [l \in Locks |-> 0],
                 ran |-> [p \in Proposals |-> 0], freed |-> {}]
        /\ now = 1 /\ keys = {} /\ frames = <<>>

-----------------------------------------------------------------------------
(* Fungibles.                                                              *)

(* calculate_passive_bonus: what an action that charges for an amount      *)
(* takes from the payer and what of it goes to the bonus address.          *)
PassiveBonus(amount, outside) ==
    LET rated == Charge.base + (Charge.num * amount) \div Charge.den
        low   == IF rated < Charge.min THEN Charge.min ELSE rated
        bonus == IF low > Charge.max THEN Charge.max ELSE low
    IN IF outside THEN [takes |-> amount + bonus, bonus |-> bonus]
       ELSE [takes |-> amount, bonus |-> IF bonus > amount THEN amount ELSE bonus]

NoBonus(amount) == [takes |-> amount, bonus |-> 0]

(* Mutant: what the receiver pays as bonus is not collected.               *)
TransferFungibleUncollected(s, from, to, p) ==
    IF s.balance[from] < p.takes THEN {}
    ELSE {[s EXCEPT !.balance =
             [[s.balance EXCEPT ![to] = @ + p.takes - p.bonus]
              EXCEPT ![from] = s.balance[from] - p.takes]]}

(* transfer_fungible_internal.  Both balances are read before either is    *)
(* written, the receiver's first.                                          *)
TransferFungible(s, from, to, p) ==
    IF s.balance[from] < p.takes THEN {}
    ELSE {[s EXCEPT !.balance =
             [[[s.balance EXCEPT ![to] = @ + p.takes - p.bonus]
               EXCEPT ![from] = s.balance[from] - p.takes]
              EXCEPT ![Bonus] = @ + p.bonus]]}

Issuefungible(s, a) == TransferFungible(s, Pool, a.to, NoBonus(a.amount))

Transferft(s, a) ==
    IF a.from = a.to THEN {}
    ELSE TransferFungible(s, a.from, a.to, PassiveBonus(a.amount, Charge.outside))

Recycleft(s, a) == TransferFungible(s, a.from, Pool, NoBonus(a.amount))

Destroyft(s, a) == TransferFungible(s, a.from, Destroyed, NoBonus(a.amount))

(* transfer of a token.  check_token_locked compares the owner with an     *)
(* address that no lock uses, so it stops nothing.                         *)
Transfer(s, a) == {[s EXCEPT !.owner[a.token] = a.to]}

-----------------------------------------------------------------------------
(* Whose keys an action of a contract needs (check_authority).  An address *)
(* that is no key is never among the keys of a transaction.  The fungible  *)
(* has the default transfer permission, its owner; the issuer is none of   *)
(* the users and signs what it has to.                                     *)
Needed(s, a) ==
    CASE a.name = "transfer" -> IF Keeper[a.token] = Owner THEN s.owner[a.token]
                                ELSE {Keeper[a.token]}
      [] a.name = "newsuspend" -> {a.proposer}
      [] a.name = "execsuspend" -> {a.executor}
      [] a.name = "cancelsuspend" -> {s.suspends[a.proposal].proposer}
      [] a.name \in {"issuefungible", "aprvsuspend"} -> {}
      [] OTHER -> {a.from}

Known(s, a) == a.name = "cancelsuspend" => a.proposal \in DOMAIN s.suspends

Satisfied(s, signed, a) == Known(s, a) /\ Needed(s, a) \subseteq signed

-----------------------------------------------------------------------------
(* Locks.  A lock holds tokens and, for some users, an amount of each.     *)

(* The checks of newlock on the content of the lock.                       *)
ValidLock(d) ==
    /\ d.unlock > now /\ d.deadline > now /\ d.deadline > d.unlock
    /\ d.threshold > 0 /\ Cardinality(d.conds) >= d.threshold
    /\ d.tokens # {} \/ DOMAIN d.funds # {}
    /\ d.succeed \cup d.failed \subseteq Receivers /\ d.succeed # {} /\ d.failed # {}
    /\ DOMAIN d.funds # {} => Cardinality(d.succeed) = 1 /\ Cardinality(d.failed) = 1

(* Mutant: the keys of the proposer are enough.                            *)
NewlockUnchecked(s, signed, a) ==
    LET d == a.def
    IN IF a.lock \in DOMAIN s.locks \/ ~ValidLock(d)
          \/ \E u \in DOMAIN d.funds : s.balance[u] < d.funds[u]
       THEN {}
       ELSE {[s EXCEPT
                !.owner = [t \in Tokens |-> IF t \in d.tokens THEN {LockAddr} ELSE @[t]],
                !.balance = [u \in Addresses |->
                    IF u \in DOMAIN d.funds THEN @[u] - d.funds[u]
                    ELSE IF u = LockAddr THEN @[u] + Total(d.funds) ELSE @[u]],
                !.locks = With(@, a.lock, [def |-> d, signed |-> {}, status |-> "proposed"])]}

(* newlock: what is locked must be the signers' to transfer.               *)
Newlock(s, signed, a) ==
    LET d == a.def
    IN IF \/ a.lock \in DOMAIN s.locks \/ ~ValidLock(d)
          \/ \E t \in d.tokens : ~Satisfied(s, signed, [name |-> "transfer", token |-> t])
          \/ ~(DOMAIN d.funds \subseteq signed)
          \/ \E u \in DOMAIN d.funds : s.balance[u] < d.funds[u]
       THEN {}
       ELSE {[s EXCEPT
                !.owner = [t \in Tokens |-> IF t \in d.tokens THEN {LockAddr} ELSE @[t]],
                !.balance = [u \in Addresses |->
                    IF u \in DOMAIN d.funds THEN @[u] - d.funds[u]
                    ELSE IF u = LockAddr THEN @[u] + Total(d.funds) ELSE @[u]],
                !.locks = With(@, a.lock, [def |-> d, signed |-> {}, status |-> "proposed"])]}

(* Mutant: approvals are taken as long as the lock is there.               *)
AprvlockLate(s, a) ==
    IF \/ a.lock \notin DOMAIN s.locks
       \/ a.from \notin s.locks[a.lock].def.conds \ s.locks[a.lock].signed
    THEN {} ELSE {[s EXCEPT !.locks[a.lock].signed = @ \cup {a.from}]}

Aprvlock(s, a) ==
    IF \/ a.lock \notin DOMAIN s.locks
       \/ s.locks[a.lock].def.unlock <= now
       \/ a.from \notin s.locks[a.lock].def.conds \ s.locks[a.lock].signed
    THEN {} ELSE {[s EXCEPT !.locks[a.lock].signed = @ \cup {a.from}]}

(* Every fungible of a lock is paid out by itself, less its bonus.         *)
PaidBonus(d) == Total([u \in DOMAIN d.funds |-> PassiveBonus(d.funds[u], FALSE).bonus])

(* Mutant: the amounts are not taken from the lock address.                *)
PayOutAgain(s, d, to) ==
    IF DOMAIN d.funds = {} THEN {s}
    ELSE IF s.balance[LockAddr] < Total(d.funds) THEN {}
    ELSE {[s EXCEPT !.balance[CHOOSE u \in to : TRUE] = @ + Total(d.funds)]}

PayOut(s, d, to) ==
    IF DOMAIN d.funds = {} THEN {s}
    ELSE TransferFungible(s, LockAddr, CHOOSE u \in to : TRUE,
                          [takes |-> Total(d.funds), bonus |-> PaidBonus(d)])

(* tryunlock: the status of the lock is not looked at, nor who holds the   *)
(* tokens now.                                                             *)
Tryunlock(s, a) ==
    LET l == s.locks[a.lock]
        enough == Cardinality(l.signed) >= l.def.threshold
        to == IF enough THEN l.def.succeed ELSE l.def.failed
    IN IF \/ a.lock \notin DOMAIN s.locks
          \/ l.def.unlock >= now \/ (~enough /\ l.def.deadline >= now)
       THEN {}
       ELSE {[t EXCEPT
                !.owner = [x \in Tokens |-> IF x \in l.def.tokens THEN to ELSE @[x]],
                !.locks[a.lock].status = IF enough THEN "succeed" ELSE "failed",
                !.paid[a.lock] = @ + Total(l.def.funds),
                !.freed = @ \cup l.def.tokens] : t \in PayOut(s, l.def, to)}

-----------------------------------------------------------------------------
(* Suspended transactions.                                                 *)

Newsuspend(s, a) ==
    IF a.proposal \in DOMAIN s.suspends \/ a.trx.expiration <= now THEN {}
    ELSE {[s EXCEPT !.suspends = With(@, a.proposal, [proposer |-> a.proposer, trx |-> a.trx,
                                                      signed |-> {}, status |-> "proposed"])]}

(* get_suspend_required_keys: of those keys, the ones that some action or  *)
(* the payment needs.                                                      *)
RequiredKeys(s, trx, signed) ==
    (UNION {Needed(s, a) : a \in {x \in Range(trx.acts) : Satisfied(s, signed, x)}})
        \cup ({trx.payer} \cap signed)

Aprvsuspend(s, a) ==
    LET p == s.suspends[a.proposal]
    IN IF \/ a.proposal \notin DOMAIN s.suspends \/ p.status # "proposed"
          \/ \E x \in Range(p.trx.acts) : ~Known(s, x)
          \/ a.signed # RequiredKeys(s, p.trx, a.signed)
          \/ a.signed \cap p.signed # {}
       THEN {} ELSE {[s EXCEPT !.suspends[a.proposal].signed = @ \cup a.signed]}

Cancelsuspend(s, a) ==
    IF s.suspends[a.proposal].status # "proposed" THEN {}
    ELSE {[s EXCEPT !.suspends[a.proposal].status = "cancelled"]}

(* The actions that run nothing else, with the keys that newlock finds on  *)
(* the transaction.                                                        *)
Apply(s, signed, a) ==
    CASE a.name = "transfer"      -> Transfer(s, a)
      [] a.name = "issuefungible" -> Issuefungible(s, a)
      [] a.name = "transferft"    -> Transferft(s, a)
      [] a.name = "recycleft"     -> Recycleft(s, a)
      [] a.name = "destroyft"     -> Destroyft(s, a)
      [] a.name = "newlock"       -> Newlock(s, signed, a)
      [] a.name = "aprvlock"      -> Aprvlock(s, a)
      [] a.name = "tryunlock"     -> Tryunlock(s, a)
      [] a.name = "newsuspend"    -> Newsuspend(s, a)
      [] a.name = "aprvsuspend"   -> Aprvsuspend(s, a)
      [] a.name = "cancelsuspend" -> Cancelsuspend(s, a)

(* Mutant: only the executor's key is looked for.                          *)
ExecutableUnchecked(s, name, executor) ==
    LET p == s.suspends[name]
    IN /\ name \in DOMAIN s.suspends /\ executor \in p.signed
       /\ p.status = "proposed" /\ p.trx.expiration > now

(* Mutant: the status is not looked at.                                    *)
ExecutableAgain(s, name, executor) ==
    LET p == s.suspends[name]
    IN /\ name \in DOMAIN s.suspends /\ executor \in p.signed
       /\ p.trx.expiration > now
       /\ \A a \in Range(p.trx.acts) : Satisfied(s, p.signed, a)
       /\ p.trx.payer \in p.signed

(* What execsuspend checks before it runs the transaction.                 *)
Executable(s, name, executor) ==
    LET p == s.suspends[name]
    IN /\ name \in DOMAIN s.suspends /\ executor \in p.signed
       /\ p.status = "proposed" /\ p.trx.expiration > now
       /\ \A a \in Range(p.trx.acts) : Satisfied(s, p.signed, a)
       /\ p.trx.payer \in p.signed

-----------------------------------------------------------------------------
(* The execution of transactions.                                          *)

Becomes(states, signed) ==
    frames = <<>> /\ db' \in states /\ keys' = signed /\ UNCHANGED <<now, frames>>

Begun == [db EXCEPT !.freed = {}]

(* A transaction of one action; more keys than it needs change nothing.    *)
Push(a) == /\ Known(Begun, a) /\ Needed(Begun, a) \subseteq Users
           /\ Becomes(Apply(Begun, Needed(Begun, a), a), Needed(Begun, a))

PushTransfer == \E t \in Tokens, u \in Users :
    Push([name |-> "transfer", token |-> t, to |-> {u}])

PushTransferft == \E u, v \in Users, n \in Amounts :
    Push([name |-> "transferft", from |-> u, to |-> v, amount |-> n])

PushIssuefungible == \E u \in Users, n \in Amounts :
    Push([name |-> "issuefungible", to |-> u, amount |-> n])

PushRecycleft == \E u \in Users, n \in Amounts :
    Push([name |-> "recycleft", from |-> u, amount |-> n])

PushDestroyft == \E u \in Users, n \in Amounts :
    Push([name |-> "destroyft", from |-> u, amount |-> n])

PushNewlock == \E l \in Locks, d \in LockDefs, signed \in SUBSET Users : \E u \in signed :
    Becomes(Apply(Begun, signed, [name |-> "newlock", from |-> u, lock |-> l, def |-> d]), signed)

PushAprvlock == \E l \in Locks, u \in Users :
    Push([name |-> "aprvlock", lock |-> l, from |-> u])

PushTryunlock == \E l \in Locks, u \in Users :
    Push([name |-> "tryunlock", lock |-> l, from |-> u])

PushCancelsuspend == \E p \in Proposals : Push([name |-> "cancelsuspend", proposal |-> p])

PushNewsuspend == \E offer \in Offers, u \in Users :
    Push([name |-> "newsuspend", proposal |-> offer[1], proposer |-> u, trx |-> offer[2]])

PushAprvsuspend == \E p \in Proposals, signed \in (SUBSET Users) \ {{}} :
    Becomes(Apply(Begun, signed, [name |-> "aprvsuspend", proposal |-> p, signed |-> signed]),
            signed)

(* push_suspend_transaction begins: a savepoint on top of those of the     *)
(* transactions around it, and no check that the same transaction is not   *)
(* among them.  One without actions throws at once.                        *)
Frame(s, ks, name) ==
    LET trx == s.suspends[name].trx
    IN [name |-> name, acts |-> trx.acts, before |-> [db |-> s, keys |-> ks],
        written |-> {}, lost |-> FALSE, thrown |-> trx.acts = <<>>]

PushExecsuspend == \E p \in DOMAIN db.suspends, u \in Users :
    /\ frames = <<>> /\ 0 < MaxDepth /\ Executable(Begun, p, u)
    /\ db' = Begun /\ keys' = {u} \cup db.suspends[p].signed
    /\ frames' = <<Frame(Begun, {u}, p)>> /\ UNCHANGED now

(* The innermost transaction and its next action.                          *)
Top == frames[Len(frames)]
Running == frames # <<>> /\ ~Top.thrown /\ Top.acts # <<>>
Act == Head(Top.acts)
Proceed == [frames EXCEPT ![Len(frames)].acts = Tail(@)]

(* The proposal whose cached object an action writes.                      *)
Writes(a) ==
    IF a.name \in {"newsuspend", "aprvsuspend", "cancelsuspend"} THEN {a.proposal} ELSE {}

(* transaction_context::exec of a suspended transaction: it carries no     *)
(* signatures and no action is checked for authorization again.            *)
RunAction ==
    /\ Running /\ Act.name # "execsuspend" /\ db' \in Apply(db, {}, Act)
    /\ frames' = [Proceed EXCEPT ![Len(frames)].written = @ \cup Writes(Act)]
    /\ UNCHANGED <<now, keys>>

RunExecsuspend ==
    /\ Running /\ Act.name = "execsuspend" /\ Executable(db, Act.proposal, Act.executor)
    /\ Len(frames) < MaxDepth
    /\ frames' = Append(Proceed, Frame(db, keys, Act.proposal))
    /\ keys' = keys \cup db.suspends[Act.proposal].signed
    /\ UNCHANGED <<db, now>>

Finished == frames # <<>> /\ ~Top.thrown /\ Top.acts = <<>>

Throws == frames # <<>> /\ (Top.thrown \/ (Running /\
    IF Act.name = "execsuspend" THEN ~Executable(db, Act.proposal, Act.executor)
    ELSE Apply(db, {}, Act) = {}))

(* The frames around the innermost one when it is over.  A rollback takes  *)
(* the proposals that it wrote (undone) out of the object cache; whoever   *)
(* runs one of them still holds the object that was there.  The frame that *)
(* ran it has now written other ones.                                      *)
Around(undone, wrote) ==
    [i \in 1..Len(frames) - 1 |->
       [frames[i] EXCEPT !.lost = @ \/ frames[i].name \in undone,
                         !.written = IF i = Len(frames) - 1 THEN @ \cup wrote ELSE @]]

(* The end of execsuspend.  The proposal is written last, from the object  *)
(* read at the beginning, whatever happened to it since.                   *)
Executed ==
    /\ Finished
    /\ db' = [db EXCEPT !.suspends[Top.name].status = "executed", !.ran[Top.name] = @ + 1]
    /\ frames' = Around({}, Top.written \cup {Top.name}) /\ UNCHANGED <<now, keys>>

(* Only the transaction itself is undone when it throws.                   *)
Failed ==
    /\ Throws
    /\ db' = [Top.before.db EXCEPT !.suspends[Top.name].status = "failed"]
    /\ keys' = Top.before.keys /\ frames' = Around(Top.written, {Top.name}) /\ UNCHANGED now

(* put_token refuses an object when the cache has another one for its key  *)
(* by now, read or written since the rollback: the transaction around it   *)
(* throws, or the one that was sent in.                                    *)
WriteThrows ==
    /\ Finished \/ Throws
    /\ Top.lost
    /\ IF Len(frames) = 1
       THEN db' = Top.before.db /\ keys' = Top.before.keys /\ frames' = <<>>
       ELSE /\ frames' = [(IF Throws THEN Around(Top.written, {}) ELSE Around({}, Top.written))
                            EXCEPT ![Len(frames) - 1].thrown = TRUE]
            /\ UNCHANGED <<db, keys>>
    /\ UNCHANGED now

(* The next block.                                                         *)
Tick == frames = <<>> /\ now < MaxTime /\ now' = now + 1 /\ UNCHANGED <<db, keys, frames>>

Next == \/ Tick \/ PushTransfer \/ PushTransferft \/ PushIssuefungible
        \/ PushRecycleft \/ PushDestroyft
        \/ PushNewlock \/ PushAprvlock \/ PushTryunlock
        \/ PushNewsuspend \/ PushAprvsuspend \/ PushCancelsuspend \/ PushExecsuspend
        \/ RunAction \/ RunExecsuspend \/ Executed \/ Failed \/ WriteThrows

Spec == Init /\ [][Next]_vars
-----------------------------------------------------------------------------
(* Nothing is made or lost: what all addresses hold, the shared lock       *)
(* address and the collected bonus included, stays the supply, through     *)
(* nested transactions and ones that fail half way (transfer_fungible).    *)
SupplyConserved == Total(db.balance) = Total(Issued)

Undecided == {l \in DOMAIN db.locks : db.locks[l].status = "proposed"}

PaidTwice == {l \in DOMAIN db.locks : db.paid[l] > Total(db.locks[l].def.funds)}

(* All locks keep their fungibles at one address, and tryunlock does not   *)
(* look at the status.  As long as no lock is paid out twice the address   *)
(* holds exactly what the undecided locks locked, so each can be paid.     *)
LocksCovered ==
    PaidTwice = {} =>
        db.balance[LockAddr] =
            Total([l \in Undecided |-> Total(db.locks[l].def.funds)])

(* A token of an undecided lock stays with the lock, unless another lock   *)
(* that lists it is decided too, again and again (tryunlock assigns it     *)
(* wherever it is), or its domain lets somebody else than its owner        *)
(* transfer it (check_token_locked stops nobody).                          *)
HeldWhileOpen ==
    \A l \in Undecided : \A t \in db.locks[l].def.tokens :
        \/ db.owner[t] = {LockAddr}
        \/ Keeper[t] # Owner
        \/ \E k \in DOMAIN db.locks \ Undecided : t \in db.locks[k].def.tokens

(* The state that the latest transaction left: what a transaction does is  *)
(* seen when it is over.                                                   *)
Committed == IF frames = <<>> THEN db ELSE frames[1].before.db

(* Outcomes are final.  That of a lock does not change, however often      *)
(* tryunlock is called: approvals end before it can be called first.  A    *)
(* suspended transaction that was executed, failed or cancelled when some  *)
(* transaction ended stays so and takes no further effect.  (Inside the    *)
(* transaction that executes it its status may change and change back.)    *)
OutcomeFinal ==
    [][/\ \A l \in DOMAIN Committed.locks : Committed.locks[l].status # "proposed" =>
             Committed'.locks[l].status = Committed.locks[l].status
       /\ \A p \in DOMAIN Committed.suspends : Committed.suspends[p].status # "proposed" =>
             /\ Committed'.suspends[p].status = Committed.suspends[p].status
             /\ Committed'.ran[p] = Committed.ran[p]]_vars

(* The proposals that a suspended transaction executes, and whether it     *)
(* executes itself: every set with those that is closed under execution    *)
(* has the transaction in it.                                              *)
Executes(s, p) ==
    {a.proposal : a \in {x \in Range(s.suspends[p].trx.acts) : x.name = "execsuspend"}}

Closed(s, S) == \A q \in S \cap DOMAIN s.suspends : Executes(s, q) \subseteq S

ExecutesItself(s, p) ==
    \A S \in SUBSET Proposals : Closed(s, S) /\ Executes(s, p) \subseteq S => p \in S

(* The status tells what happened: a suspended transaction took effect if  *)
(* and only if it says "executed", though rollbacks undo some of what ran  *)
(* inside and it is written from an object that was read before.  Only one *)
(* that executes itself, directly or through others, took effect more than *)
(* once: the status is checked before and written after it has run.        *)
EffectsShown ==
    \A p \in DOMAIN Committed.suspends :
        /\ Committed.ran[p] > 0 <=> Committed.suspends[p].status = "executed"
        /\ Committed.ran[p] > 1 => ExecutesItself(Committed, p)

(* Nobody's balance falls without his key: on the transaction, or among    *)
(* the keys that approved a suspended transaction whose effects were kept  *)
(* (newlock, execsuspend, which check for actions that are executed later  *)
(* or inside others).                                                      *)
SpentSigned ==
    [][\A u \in Users : Committed'.balance[u] < Committed.balance[u] => u \in keys']_vars

(* Who gets what a decided lock holds.                                     *)
Target(k) == IF k.status = "succeed" THEN k.def.succeed ELSE k.def.failed

(* A token changes hands only by the keys of those who owned it when the   *)
(* transaction began or of its domain's keeper, or by tryunlock within     *)
(* this very transaction: then it is with those whom a decided lock gives  *)
(* it to, or they signed too.  (Inside a suspended transaction it may      *)
(* change hands twice, and the owner in between is not asked: RunAction.)  *)
MovesSigned ==
    [][\A t \in Tokens : Committed'.owner[t] # Committed.owner[t] =>
          \/ Committed.owner[t] \subseteq keys'
          \/ Keeper[t] \in keys'
          \/ /\ t \in Committed'.freed
             /\ \E l \in DOMAIN Committed'.locks :
                  LET k == Committed'.locks[l]
                  IN /\ t \in k.def.tokens /\ k.status # "proposed"
                     /\ Committed'.owner[t] = Target(k) \/ Target(k) \subseteq keys']_vars
=============================================================================
