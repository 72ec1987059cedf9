CONSTANTS
  p1 = p1
  p2 = p2
  p3 = p3
  r1 = r1
  r2 = r2
  Panels <- MCPanels
  Blocks <- MCBlocks
  BlockOf <- MCBlockOf
  Arms = 2
  Revisions = {r1, r2}
  NoKey = NoKey
  NoPanel = NoPanel
  NoRevision = NoRevision
  NoReceipt = NoReceipt
  MaxFaults = 2
  MaxAdjudications = 1
SPECIFICATION MCSpec
INVARIANTS AttemptOnce UncertainMarked LedgerReadable OneRevision ExportVerified
PROPERTIES NothingAfterReceipt ImplementsOneReplacement SessionEnds
