SPECIFICATION FairSpec
CONSTANTS
  BpsScale = 10
  I64Max = 1000
  FuelArgs = {10}
  LevArgs = {100}
  FloorArgs <- const_FloorOne
  ExpArgs <- const_ExpOne
  Feeds <- const_FeedsBad
  MinLev = 10
  MaxLev = 100
  MaxStaleness = 1
  Decimals = 9
  U64Max = 5000
  MaxTtl = 2
  MaxTime = 2
  MaxTicks = 2
PROPERTIES
  RentComesBack
  ImplementsLifecycle
  AgreesWithAnchor
