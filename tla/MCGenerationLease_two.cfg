CONSTANTS
  r1 = r1
  r2 = r2
  root1 = root1
  root2 = root2
  out1 = out1
  out2 = out2
  None = None
  Runs = {r1, r2}
  Roots = {root1, root2}
  Outputs = {out1, out2}
  RootOf <- TwoRoots
  OutputOf <- TwoOutputs
SPECIFICATION FairSpec
INVARIANTS
  EffectsUnderLease
  QuarantineAudited
PROPERTIES
  ImplementsQuarantine
  EveryRunEnds
CHECK_DEADLOCK FALSE
