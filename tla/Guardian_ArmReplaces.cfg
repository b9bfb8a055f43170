SPECIFICATION Spec
CONSTANTS
  BpsScale = 4
  I64Max = 100000
  Accounts <- const_Accounts
  Prices <- const_Prices
  MaxArms = 2
  Tasks = {t1, t2}
INVARIANT ArmReplaces
