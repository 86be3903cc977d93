SPECIFICATION Spec
CONSTANTS
  l1 = l1
  l2 = l2
  MaxBuilds = 1
  MaxStops = 2
  MaxEdits = 1
  Broken <- NothingBroken
  Listeners <- NoListener
  ListenersMax = 64
  Calls <- StartStop
  Overlapping <- NoOverlap
  EditsAnytime = FALSE
PROPERTY TornDownSwapIsNoOp
CHECK_DEADLOCK FALSE
