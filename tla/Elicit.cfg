SPECIFICATION FairSpec
CONSTANTS
  a = a
  b = b
  x = x
  p = p
  q = q
  u = u
  v = v
  Calls <- TwoCalls
  Raws <- OneRaw
  Questions <- TwoQuestions
  Upstreams <- TwoUpstreams
  Win = 1
  Ttl = 1
  Grace = 1
PROPERTY BoundToAsker
INVARIANT AnsweredOnce
PROPERTY HoldOutlivesToken
PROPERTY EveryQuestionAnswered
PROPERTY EveryRequestAnswered
CHECK_DEADLOCK FALSE
