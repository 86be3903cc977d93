SPECIFICATION HttpFairSpec
CONSTANTS
  l1 = l1
  l2 = l2
  i1 = i1
  i2 = i2
  MaxBuilds = 2
  MaxStops = 2
  MaxEdits = 3
  Broken <- SecondBroken
  Listeners <- TwoConns
  ListenersMax = 64
  Calls <- StartOnly
  Overlapping <- NoOverlap
  EditsAnytime = FALSE
  Conns <- TwoConns
  Issuers <- NoIssuer
  Kinds <- StreamsOnly
PROPERTY EditsReachHost
PROPERTY StreamsHear
CHECK_DEADLOCK FALSE
