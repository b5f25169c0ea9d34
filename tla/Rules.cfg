CONSTANTS
  c1 = c1
  c2 = c2
  c3 = c3
  c4 = c4
  b1 = b1
  b2 = b2
  x = x
  y = y
  z = z
  Candidate = {c1, c2, c3, c4}
  Primary = {c1, c2, c3}
  CandidateId <- MCCandidateId
  CheckedAt <- MCCheckedAt
  Batch = {b1, b2}
  Content <- MCContent
  Signal <- MCSignal
  Id = {x, y, z}
  MaxTime = 2
  NoId = NoId
  Absent = Absent
  NoContent = NoContent
  NoAnswer = NoAnswer
SPECIFICATION Spec
INVARIANTS
  TypeOK
  AnswerIsLive
  PublishedOnce
  CorrectionsDecide
PROPERTIES
  LeadStaysLead
  ImplementsContract
