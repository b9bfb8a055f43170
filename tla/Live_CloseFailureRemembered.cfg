SPECIFICATION Spec
CONSTANT MaxInbox = 2
PROPERTY CloseFailureRemembered
CHECK_DEADLOCK FALSE
