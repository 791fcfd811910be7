CONSTANTS
  w1 = w1
  w2 = w2
  w3 = w3
  Kinds <- MCKinds
  Writers <- MCWriters
  ProcessOf <- MCProcessOf
  Times <- MCTimes
  MaxAge = 0
  Threshold = 3
  MaxFaults = 1
SPECIFICATION Spec
SYMMETRY Symmetry
CHECK_DEADLOCK FALSE
INVARIANTS
  TypeOK
  RotationBounds

  
  
