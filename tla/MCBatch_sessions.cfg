SPECIFICATION BatchSpec
CONSTANTS
  a = a
  v1 = v1
  v2 = v2
  g1 = g1
  g2 = g2
  None = None
  Families <- MCFamilies
  Seeds <- MCSeeds
  Versions = {v1, v2}
  FirstVersion = v1
  Registries = {g1, g2}
  OldFiles <- MCOldFiles
  MaxInvocations = 3
CHECK_DEADLOCK FALSE
INVARIANTS
  SkipsOwnTreatment
  ExitZeroMeansRecorded
PROPERTIES
  CompletedOnce
