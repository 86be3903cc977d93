SPECIFICATION HttpSpec
CONSTANTS
  l1 = l1
  l2 = l2
  i1 = i1
  i2 = i2
  MaxBuilds = 2
  MaxStops = 2
  MaxEdits = 1
  Broken <- NothingBroken
  Listeners <- TwoConns
  ListenersMax = 1
  Calls <- AnyCall
  Overlapping <- SafeOverlaps
  EditsAnytime = FALSE
  Conns <- TwoConns
  Issuers <- TwoIssuers
  Kinds <- AnyRequest
PROPERTY LosesOnlyTheseTwo
INVARIANT ServesOpenAggregator
PROPERTY StopLeavesNothing
INVARIANT CallsAccounted
PROPERTY AdmittedByItsSettings
SYMMETRY ConnSymmetry
CHECK_DEADLOCK FALSE
