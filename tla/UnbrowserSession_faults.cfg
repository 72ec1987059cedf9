CONSTANTS
  Pages = {start, other}
  Refused = Refused
  Away = Away
  NoPage = NoPage
  Required = TRUE
  MaxStarts = 3
SPECIFICATION Spec
INVARIANTS AcceptedPage SemanticPageShown ObservedBeforeActing
PROPERTIES EveryCallAnswered
CHECK_DEADLOCK FALSE
