SPECIFICATION FairSpec
CONSTANTS
  br = br
  d1 = d1
  d2 = d2
  f1 = f1
  kitchen = kitchen
  lamp = lamp
  hall = hall
  c1 = c1
  c2 = c2
  Devices <- ThreeDevices
  NoAddress = NoAddress
  Number <- Numbers
  BorderRouter = br
  Names = {kitchen, lamp, hall}
  NoName = NoName
  ProviderName <- LampAlone
  Contains <- EachContainsTheLast
  Calls = {c1, c2}
  Fabrics = {f1}
  Readings <- APromotedChild
  FirstLabels <- NoneOrFabricLabelled
  MaxInventories = 2
  MaxChanges = 1
  MayBe <- AnyAndARoute
  Changing = {d1, f1}
  Asked = {kitchen}
  Given = {hall, NoName}
INVARIANTS
  TypeOK
  NamesOfTheRequest
  ShownNameResolves
PROPERTIES
  ServicesSettle
