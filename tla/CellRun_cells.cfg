SPECIFICATION Spec
CONSTANTS
  ExpectedCells = 3
CHECK_DEADLOCK FALSE
INVARIANTS
  LedgerIsPrefix
  AttemptTraced
  CleanSlot
  ProxiesOwned
  SubstrateSound
