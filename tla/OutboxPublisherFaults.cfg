CONSTANTS
  e1 = e1
  e2 = e2
  e3 = e3
  e4 = e4
  p1 = p1
  p2 = p2
  s1 = s1
  s2 = s2
  s3 = s3
  Events = {e2, e3, e4}
  Legacy = {e4}
  Poison = {}
  CreatedAt <- Ages
  Publishers = {p1, p2}
  Sessions = {s1, s2, s3}
  BatchLimit = 2
  WriterAttempts = 3
  MaxFaults = 3
  MaxAttempts = 1
  NoSession = NoSession
  NoEvent = NoEvent
SPECIFICATION Spec
SYMMETRY Symmetry
INVARIANTS
  SentImpliesDelivered
  DuplicatesNeedFaults
PROPERTIES
  ImplementsDelivery
