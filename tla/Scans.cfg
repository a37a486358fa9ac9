SPECIFICATION FairSpec
CONSTANTS
  n1 = n1
  n2 = n2
  NetworkRequests = {r1}
  EnergyRequests = {r2}
  Nobody = Nobody
  Networks <- TwoNetworks
  ChannelOf <- OneEach
  Channels = 2
  InUse = {1}
  Passes = 2
  Readings <- TwoReadings
  MaxSweeps = 3
  RestSweeps = 2
  MaxOutages = 1
  MaxFaults = 1
INVARIANTS
  TypeOK
  HeardOnce
  NoiseSound
PROPERTIES
  FaultsNotHidden
  MeasuredOneWay
  EveryScanAnswered
