SPECIFICATION FairSpec
CONSTANTS
  c1 = c1
  c2 = c2
  c3 = c3
  Calls = {c1, c2, c3}
  Unbrowser = {c2, c3}
  ToolLimit = 2
  UnbrowserLimit = 1
  Faults = {"link", "worker", "death"}
CHECK_DEADLOCK FALSE
INVARIANTS
  QuietVerification
  ShutdownDrains
PROPERTIES
  EveryRequestSettles
