SPECIFICATION FairSpec
CONSTANTS
  br = br
  d1 = d1
  d2 = d2
  Devices <- ThreeDevices
  NoAddress = NoAddress
  Number <- Numbers
  BorderRouter = br
  StructureTTL = 2
  MaxAge = 2
  FirstRoles <- ARouterAndAChild
  Swept = {TRUE}
  MaxSlow = 1
  MaxMoves = 1
  MaxFailures = 1
INVARIANTS
  TypeOK
  TopologyJoined
  SteadyChildOnce
  PlacedOnce
PROPERTIES
  AgesFollow
  TopologyCatchesUp
