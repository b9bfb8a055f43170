SPECIFICATION Spec
CONSTANT MaxInbox = 2
INVARIANT SettledMeansFlat
CHECK_DEADLOCK FALSE
