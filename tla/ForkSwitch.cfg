SPECIFICATION Spec
CONSTANTS
    MaxBlocks = 6
    MaxRestarts = 1
    LateForks = FALSE
INVARIANTS HeadIsBest StateMatchesHead MarksFollowHead ReversibleIsTail NeverBroken BlogIsPrefix
PROPERTY FinalizedChainSpec
CHECK_DEADLOCK FALSE
