CONSTANTS
  w1 = w1
  w2 = w2
  w3 = w3
  Absent = Absent
  Writer = {w1, w2, w3}
  Key = {k1, k2}
  Original = {o1, o2}
  p1 = p1
  p2 = p2
  n1 = n1
  n2 = n2
  Process = {p1, p2}
  Name = {n1, n2}
  ProcessOf <- MCProcessOf
  NameOf <- MCNameOf
SPECIFICATION Spec
SYMMETRY Symmetry
CHECK_DEADLOCK FALSE
INVARIANTS
  TypeOK
  WholeOriginals
  Acknowledged
