CONSTANTS
  Process = {p1}
  Version = {"v1", "v2"}
  Place = {"H", "W"}
  Name = {"home", "work", "."}
  Cwd = {"home", "work"}
  At <- MCAt
  Probed <- MCProbed
  Given <- MCGiven
  MaxCalls = 3
  MaxEdits = 1
  MaxFaults = 1
SPECIFICATION Spec
CHECK_DEADLOCK FALSE
PROPERTIES
  UnownedRefused
