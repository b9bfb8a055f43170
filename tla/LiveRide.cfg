SPECIFICATION FairSpec
CONSTANT MaxInbox = 2
INVARIANTS
  TypeOK
  NoOrphanTimers
  RentRemembered
PROPERTIES
  RememberedComesBack
  KnownPositionDrains
CHECK_DEADLOCK FALSE
