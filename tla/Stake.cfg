SPECIFICATION Spec
CONSTANTS
  alice = alice
  v = v
  w = w
  Stakers = {alice}
  Validators = {v, w}
  Hosts = {v}
  Funds <- MCFunds
  Supply = 2
  Fine = 2
  One = 2
  Gains = {1}
  FixedRoi <- MCHalf
  Commission <- MCHalf
  Thresholds = {1, 2}
  UnitThreshold = 1
  PendingDays = 2
  Cycles = 2
  CycleLen = 3
  Words = {0, 1, 7}
  Amounts = {1, 2}
  FixedDays = {0, 1}
  MaxShares = 2
  MaxNet = 3
  MaxBlock = 7
CONSTRAINT MCSetUp
VIEW MCView
INVARIANTS UnitsCounted FrozenCovers NothingMade PeriodCurrent
PROPERTY SentInTime
CHECK_DEADLOCK FALSE
