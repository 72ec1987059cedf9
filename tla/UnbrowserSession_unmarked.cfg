CONSTANTS
  Pages = {start, other}
  Refused = Refused
  Away = Away
  NoPage = NoPage
  Required = TRUE
  MaxStarts = 3
SPECIFICATION Spec
CHECK_DEADLOCK FALSE
INVARIANT InfrastructureMarked
