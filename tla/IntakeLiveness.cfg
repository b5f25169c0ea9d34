CONSTANTS
  h1 = h1
  h2 = h2
  e1 = e1
  e2 = e2
  a = a
  b = b
  c = c
  q = q
  g = g
  u = u
  r = r
  f1 = f1
  f2 = f2
  Handler = {h1, h2}
  Event = {e1, e2}
  Payload <- MCPayload
  Fingerprint = {f1, f2}
  Delivery <- RetryDeliveries
  Verdict <- MCVerdict
  FingerprintOf <- MCFingerprintOf
  Evidenced = {a, q}
  NoEvent = NoEvent
  NoFingerprint = NoFingerprint
  NoDelivery = NoDelivery
SPECIFICATION FairSpec
PROPERTIES
  EveryRequestEnds
  EventuallyAcked
