SPECIFICATION Spec
CONSTANTS
  Requests = {r1, r2}
  Nobody = Nobody
  Datasets = {d1, d2}
  NoDataset = NoDataset
  Invalid = Invalid
  NoBackup = NoBackup
  Faults = {"crash", "load", "read", "persist", "write"}
SYMMETRY Symmetry
INVARIANTS
  TypeOK
  WritesSerialized
PROPERTIES
  DatasetReplacedOnlyWhileDown
  ImplementsAtomicChange
  BackupNamedAfterItsDataset
  RestorePointDurable
  RestoreUndoable
  BackedUpBeforeChange
