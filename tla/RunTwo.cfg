CONSTANTS
  h1 = h1
  h2 = h2
  r1 = r1
  r2 = r2
  s1 = s1
  s2 = s2
  Handler = {h1, h2}
  Run = {r1, r2}
  Scope = {s1, s2}
  Delivery <- TwoRuns
  Window = 1
  MaxClock = 2
  Monitored = TRUE
  NoTime = NoTime
  NoScope = NoScope
  NoDelivery = NoDelivery
SPECIFICATION Spec
INVARIANTS
  TypeOK
  LastEndIsLatest
  FreshIsHealthy
  EndEndsTheRun
  DegradationExplained
PROPERTIES
  EndIsFinal
CONSTRAINT OtherStartOrLaterEnd
SYMMETRY HandlerSymmetry
