SPECIFICATION Spec
CONSTANTS
  br = br
  d1 = d1
  d2 = d2
  f1 = f1
  kitchen = kitchen
  lamp = lamp
  hall = hall
  c1 = c1
  c2 = c2
  Devices <- ThreeDevices
  NoAddress = NoAddress
  Number <- Numbers
  BorderRouter = br
  Names = {kitchen, lamp, hall}
  NoName = NoName
  ProviderName <- NoSourceNames
  Contains <- LampContainsKitchen
  Calls = {c1, c2}
  Fabrics = {f1}
  Readings <- OneReading
  FirstLabels <- DevicesLabelled
  MaxInventories = 1
  MaxChanges = 2
  MayBe <- Renames
  Changing = {}
  Asked = {kitchen}
  Given = {hall}
INVARIANT
  RenameRetried
