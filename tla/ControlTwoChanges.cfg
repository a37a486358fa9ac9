SPECIFICATION Spec
CONSTANTS
  Requests = {r1, r2}
  Nobody = Nobody
  Datasets = {d1, d2}
  NoDataset = NoDataset
  Invalid = Invalid
  NoBackup = NoBackup
  Faults = {}
PROPERTY EveryChangeBackedUp
