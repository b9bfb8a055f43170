SPECIFICATION Spec
CONSTANTS
  BpsScale = 10
  I64Max = 1000
  FuelArgs <- const_Fuel
  LevArgs <- const_Lev
  FloorArgs <- const_Floor
  ExpArgs <- const_Exp
  Feeds <- const_Feeds
  MinLev = 10
  MaxLev = 100
  MaxStaleness = 1
  Decimals = 9
  U64Max = 5000
  MaxTtl = 2
  MaxTime = 2
  MaxTicks = 3
INVARIANTS
  TypeOK
  EntryIffOpen
  LifecycleConsistent
  NeedleWithinScale
PROPERTIES
  ResizeWithinCollateral
  BreachNeverGrows
  NeedleNeverLeads
  ReductionBooksOnce
  AdditionNeverFlatters
  MoneyMovesOnlyInLiveTick
  ForwardOnly
