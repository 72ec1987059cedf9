CONSTANTS
  l1 = l1
  l2 = l2
  d = d
  root = root
  out = out
  None = None
  Runs = {l1, l2, d}
  Detached = {l1, l2}
  Roots = {root}
  Outputs = {out}
  RootOf <- OneRoot
  OutputOf <- OneOutput
SPECIFICATION LaunchSpec
SYMMETRY Symmetry
INVARIANTS
  OneController
  ReceiptNamesClaimant
  NoUnrecordedController
  SingleUse
CHECK_DEADLOCK FALSE
