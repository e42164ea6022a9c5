SPECIFICATION Spec
CONSTANTS
  alice = alice
  bob = bob
  card = card
  ticket = ticket
  Pool = Pool
  Bonus = Bonus
  LockAddr = LockAddr
  Destroyed = Destroyed
  Owner = Owner
  Users = {alice, bob}
  Tokens = {card, ticket}
  Keeper <- MCKeeper
  Issued <- MCIssued
  Charge <- MCCharge
  Locks = {"A", "B"}
  LockDefs <- MCLockDefs
  Proposals = {"P", "Q"}
  Trxs <- MCTrxs
  Offers <- MCOffers
  MaxDepth = 4
  Amounts = {2}
  MaxTime = 4
VIEW MCView
INVARIANTS SupplyConserved LocksCovered HeldWhileOpen EffectsShown
PROPERTIES OutcomeFinal SpentSigned MovesSigned
CHECK_DEADLOCK FALSE
