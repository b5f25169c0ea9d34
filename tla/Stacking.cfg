CONSTANTS
  Rule <- MCRule
  Families <- MCFamilies
SPECIFICATION Spec
INVARIANTS
  SelectedIsCompatible
  RequirementsAreCounted
PROPERTY OrderDecidesNothing
CHECK_DEADLOCK FALSE
