SPECIFICATION FairSpec
CONSTANTS
  Requests = {r1, r2}
  Nobody = Nobody
  Datasets = {d1}
  NoDataset = NoDataset
  Invalid = Invalid
  NoBackup = NoBackup
  Faults = {"read", "write"}
PROPERTIES
  EveryRequestAnswered
