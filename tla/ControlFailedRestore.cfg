SPECIFICATION Spec
CONSTANTS
  Requests = {r1}
  Nobody = Nobody
  Datasets = {d1, d2}
  NoDataset = NoDataset
  Invalid = Invalid
  NoBackup = NoBackup
  Faults = {"write"}
PROPERTY FailedRestoreCanBeRetried
