SPECIFICATION SurfaceSpec
CONSTANTS
  x = x
  y = y
  at = at
  bt = bt
  t = t
  run = run
  a = a
  b = b
  NoWrap = NoWrap
  Names <- MCNames
  Metas <- MCMetas
  RunTool = run
  Locals <- MCLocals
  Refs <- MCRefs
  Displays <- MCDisplays
  Ups <- MCUps
  Tools <- MCTools
  Offers <- MCOffers
  Default <- MCDefault
  Aliases <- MCAliases
  MaxEdits = 4
INVARIANT AdvertisedRuns
INVARIANT PolicyHolds
CHECK_DEADLOCK FALSE
