CONSTANTS
  NoLimit = NoLimit
  NoProgress = NoProgress
  NoPeriod = NoPeriod
  Reward <- MCReward
  Key <- MCKey
  Period = {1, 2}
  Reported <- LastMonth
  Offer <- NextMonth
  MaxOperations = 2
SPECIFICATION Spec
INVARIANTS
  CapHeldInEachPeriod
CHECK_DEADLOCK FALSE
