SPECIFICATION Spec
CONSTANTS
  Devices = {d1, d2}
  Readings <- RSSI
  NoReading = NoReading
  Window = 3
  MaxTrails = 1
  MaxTime = 7
  Faults = {}
SYMMETRY Symmetry
INVARIANTS
  TypeOK
  TrailShape
PROPERTIES
  ImplementsWindow
