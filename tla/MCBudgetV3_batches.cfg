SPECIFICATION Spec
CONSTANTS
  c1 = c1 c2 = c2 c3 = c3 u = u
  NoCall = NoCall
  Calls <- MCMixed
  Unbudgeted <- MCOther
  TurnLimit = 3
  AdmissionLimit = 2
  MaxBatch = 3
  MaxReloads = 1
SYMMETRY Symmetry
CHECK_DEADLOCK FALSE
INVARIANTS
  SpendingCapped
  ReceiptSound
  SettledAttemptAccepted
PROPERTIES
  AbortIsFinal
