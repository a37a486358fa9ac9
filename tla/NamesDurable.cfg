SPECIFICATION Spec
CONSTANTS
  Writers = {w1, w2}
  Nobody = Nobody
  Keys = {k1, k2, k3}
  Labels = {a, b}
  NoLabel = NoLabel
  Unknown = Unknown
  Faults = {"load", "persist", "crash"}
INVARIANTS
  TypeOK
  LabelSurvives
  DurableWhileDiskWorks
