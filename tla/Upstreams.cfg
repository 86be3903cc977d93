SPECIFICATION FairSpec
CONSTANTS
  u1 = u1
  u2 = u2
  u3 = u3
  c1 = c1
  c2 = c2
  Upstreams <- ThreeUpstreams
  Enabled <- TwoUpstreams
  TopLevel <- OneUpstream
  Clients <- TwoClients
  MaxFastAttempts = 1
INVARIANT NoStaleView
INVARIANT NoOrphan
INVARIANT NoWedge
INVARIANT ClosedIsQuiet
PROPERTY BackoffEscalates
PROPERTY Recovers
PROPERTY ViewConverges
CHECK_DEADLOCK FALSE
