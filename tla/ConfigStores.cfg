SPECIFICATION Spec
CONSTANTS
  r = r
  x = x
  u = u
  dx = dx
  alt = alt
  ui = ui
  p = p
  None = None
  Locals <- LocalTools
  Remotes <- RemoteTools
  Ups <- Upstreams
  UpOf <- UpstreamOf
  Default <- DefaultName
  Names <- AllNames
  RegexNames <- RegexRow
  UI = ui
  Scripts <- OneScript
  MaxOps = 3
  MaxMixed = 2
  MaxFaults = 1
INVARIANT PolicyFollowsTool
INVARIANT TargetsExist
INVARIANT RefusalLeavesNoTrace
CHECK_DEADLOCK FALSE
