CONSTANTS
  MaxFaults = 3
  Interrupts = FALSE
SPECIFICATION Spec
INVARIANT
  VerifiedMeansNoServer
CHECK_DEADLOCK FALSE
