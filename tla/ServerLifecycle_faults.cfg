CONSTANTS
  MaxFaults = 3
  Interrupts = TRUE
SPECIFICATION FairSpec
INVARIANTS
  VerifiedMeansGone
  CleanAttemptVerifies
PROPERTY TrackedServerSettles
CHECK_DEADLOCK FALSE
