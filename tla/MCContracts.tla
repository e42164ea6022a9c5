---------------------------- MODULE MCContracts ----------------------------
(* Two users, a token that only its owner may transfer and one that its    *)
(* domain's keeper may, two locks and two suspended transactions.          *)
EXTENDS Contracts
CONSTANTS alice, bob, card, ticket

MCKeeper == (card :> Owner) @@ (ticket :> bob)
MCIssued == (alice :> 2) @@ (bob :> 1)

(* One unit of every amount of two or more goes to the bonus address.      *)
MCCharge == [base |-> 0, num |-> 1, den |-> 2, min |-> 0, max |-> 1, outside |-> FALSE]

(* Once a transaction is over no property reads its keys or what it freed. *)
MCView == IF frames = <<>> THEN <<[db EXCEPT !.freed = {}], now>> ELSE <<db, now, keys, frames>>

MCLockDefs ==
    {[tokens |-> {card}, funds |-> alice :> 2, unlock |-> 2, deadline |-> 3,
      conds |-> {bob}, threshold |-> 1, succeed |-> {bob}, failed |-> {alice}],
     [tokens |-> {}, funds |-> bob :> 1, unlock |-> 2, deadline |-> 3,
      conds |-> {bob}, threshold |-> 1, succeed |-> {alice}, failed |-> {Pool}],
     [tokens |-> {card, ticket}, funds |-> <<>>, unlock |-> 3, deadline |-> 4,
      conds |-> {alice, bob}, threshold |-> 2, succeed |-> {alice, bob}, failed |-> {alice}]}

Trx(acts, payer, expiration) == [acts |-> acts, payer |-> payer, expiration |-> expiration]

Pay(n) == [name |-> "transferft", from |-> alice, to |-> bob, amount |-> n]
Give(token, to) == [name |-> "transfer", token |-> token, to |-> {to}]
Run(p, u) == [name |-> "execsuspend", proposal |-> p, executor |-> u]

(* Two that pay and run themselves until there is nothing to pay with: the *)
(* first takes effect more than once, the second undoes what it ran.       *)
Twice(p) == Trx(<<Pay(1), Give(card, bob), [name |-> "tryunlock", lock |-> "A", from |-> bob],
                  Run(p, bob)>>, bob, 5)
Again(p) == Trx(<<Pay(1), Run(p, alice), Pay(1)>>, alice, 3)

(* One that proposes, approves and runs another one.                       *)
Outer == Trx(<<Give(card, bob),
               [name |-> "newsuspend", proposal |-> "Q", proposer |-> alice, trx |-> Again("Q")],
               [name |-> "aprvsuspend", proposal |-> "Q", signed |-> {alice}],
               Run("Q", alice)>>, alice, 3)

MCOffers == {"P"} \X
    {Twice("P"), Again("P"), Outer,
     Trx(<<Give(card, bob), Give(card, alice), [name |-> "cancelsuspend", proposal |-> "P"]>>,
         alice, 3)}

MCTrxs == {offer[2] : offer \in MCOffers} \cup {Again("Q")}
=============================================================================
