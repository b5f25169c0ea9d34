CONSTANTS
  p1 = p1
  p2 = p2
  p3 = p3
  t1 = t1
  t2 = t2
  i1 = i1
  i2 = i2
  Run = {p1, p2, p3}
  Target = {t1, t2}
  Input = {i1, i2}
  Zone <- UtcAndTokyo
  Cadence = 1
  MaxClock = 1
  MaxEvents = 2
  Ends <- SomeEnds
  NoWork = NoWork
SPECIFICATION Spec
INVARIANTS
  TypeOK
  AckedIsRecorded
  EveryAttemptKnewTheLast
  RefusalNeedsTwoZones
  CompletedCoversScope
PROPERTY RetryFollowsView
SYMMETRY Symmetry
CONSTRAINT ThirdRunIsPlain
CHECK_DEADLOCK FALSE
