SPECIFICATION FairSpec
CONSTANTS
  Targets <- TwoTargets
  MaxIds = 3
  MaxQueue = 1
  MaxRetargets = 1
  QuietRetarget = TRUE
INVARIANT AnswersInTurn
INVARIANT CancelNamesItsForward
INVARIANT RefsMatchSubs
PROPERTY EveryRequestAnswered
CHECK_DEADLOCK FALSE
