SPECIFICATION Spec
CONSTANTS
  l1 = l1
  l2 = l2
  MaxBuilds = 2
  MaxStops = 2
  MaxEdits = 0
  Broken <- NothingBroken
  Listeners <- TwoListeners
  ListenersMax = 64
  Calls <- StartReload
  Overlapping <- NoOverlap
  EditsAnytime = FALSE
PROPERTY OnlyLastUnsubscribes
CHECK_DEADLOCK FALSE
