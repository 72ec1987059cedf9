SPECIFICATION Spec
CONSTANTS
  MaxSent = 3
  MaxRequests = 2
CHECK_DEADLOCK FALSE
INVARIANTS
  ServedHasReceipt
  AcceptedMeansClean
