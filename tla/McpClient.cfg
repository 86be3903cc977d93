SPECIFICATION Spec
CONSTANTS
  Policies <- AllPolicies
  Cap = 2
  MaxIds = 2
  MaxSent = 3
  MaxPipe = 1
INVARIANT FramesSurvive
INVARIANT ReplyIsOwn
INVARIANT GoneIsSettled
INVARIANT EraIsObserved
CHECK_DEADLOCK FALSE
