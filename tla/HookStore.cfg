SPECIFICATION FairSpec
CONSTANTS
  h = h
  g = g
  t = t
  s = s
  ui = ui
  p = p
  Ids <- TwoHooks
  Tools <- TwoTools
  GateOf <- Gates
  CmdOf <- Commands
  UI = ui
  Scripts <- OneScript
  MaxMixed = 2
  MaxOps = 4
  MaxFaults = 1
PROPERTY AnswersStand
INVARIANT NoStrayKeys
PROPERTY GatewayFollows
CHECK_DEADLOCK FALSE
