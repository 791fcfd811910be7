CONSTANTS
  u1 = u1
  u2 = u2
  f = f
  t = t
  p1 = p1
  p2 = p2
  Message <- MCMessage
  Blob = {f, t}
  Ttl = 0
  MaxSessions = 2
  Process = {p1, p2}
  Request = {1, 2, 3}
  Payload <- MCPayload
  Kind <- MCKind
  Captured <- MCCaptured
  MaxAge = 0
  MaxTime = 1
  MaxFaults = 1
  MaxServing = 1
SPECIFICATION Spec
CHECK_DEADLOCK FALSE
INVARIANTS
  ReferenceRecoverable
