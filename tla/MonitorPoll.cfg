SPECIFICATION FairSpec
CONSTANTS
  Run = Run
  Handlers = {h1}
  MaxChanges = 1
  NoData = NoData
  Failed = Failed
  Setups <- AllSetups
  Faults = {"outage", "cancel"}
INVARIANTS
  TypeOK
  OverviewHonest
  TopologyNamedFromInventory
PROPERTIES
  SweepKnowsTheRouter
  OverviewCatchesUp
  InventoryCatchesUp
