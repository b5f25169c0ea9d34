SPECIFICATION Spec
CONSTANTS
  None = None
  Requests <- Families
  MaxLegs = 2
INVARIANTS
  CountersHeld
  NothingIsCut
  LargestAccepted
CHECK_DEADLOCK FALSE
