CONSTANTS
  sys = sys
  u1 = u1
  u2 = u2
  a1 = a1
  sum = sum
  r1 = r1
  r2 = r2
  r3 = r3
  Message <- MCMessage
  Blob = {}
  Ttl = 1
  MaxSessions = 2
  Request = {r1, r2, r3}
  History <- MCHistory
  Clock = {0, 1, 3}
  User <- MCUser
  Assistant <- MCAssistant
  MaxEpoch = 1
SPECIFICATION Spec
SYMMETRY Symmetry
CHECK_DEADLOCK FALSE
INVARIANTS
  TypeOK
  TurnsJoin
  AdvisedOnce
  
PROPERTIES
  EvictionSpares
