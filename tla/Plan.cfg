CONSTANTS
  NoLimit = NoLimit
  NoProgress = NoProgress
  NoPeriod = NoPeriod
  Reward <- MCReward
  Key <- MCKey
  Period = {1, 2}
  Reported <- MCReported
  Offer <- MCOffer
  MaxOperations = 4
SPECIFICATION Spec
INVARIANTS
  CapIsShared
  ClawbackWithinShare
CHECK_DEADLOCK FALSE
