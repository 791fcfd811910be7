SPECIFICATION Spec
CONSTANTS
  sys = sys  u1 = u1  u2 = u2  a1 = a1
  Protected = protected
  Request = {1, 2, 3}
  Text = {sys}
  Message = {sys, u1, u2, a1}
  User = {u1, u2}
  Assistant = {a1}
  Spoken = {u1, u2}
  Appendable = {u1}
  Asked <- MCAsked
  Variant = {"raw", "prose"}
  Slot = {"task", "target", "unknowns"}
  Unknowns = "unknowns"
  ReadinessOf <- MCReadinessOf
  Answers <- MCAnswers
  Setups <- MCSetups
  Old <- MCOld
  DrawsInject <- MCDrawsInject
  MaxSessions = 2
  MaxEpoch = 1
  MaxLost = 1
CHECK_DEADLOCK FALSE
INVARIANTS
  TypeOK
  ReportsTruthful
  ArmsTruthful
  PromptStable
PROPERTY
  BaselineStable
