SPECIFICATION Spec
CONSTANTS
  Cap = 12
  Bps = 10000
  BandBps = 3400
  BandFloor = 2
  RemainingBps = 300
  DivergenceBps = 100
  MaxDeltaBps = 6667
  Debounce = 1
  SettleTimeout = 2
  Slots = {s1, s2}
  Observations <- const_Observations
  Virtuals <- const_Virtuals
  MaxSize = 16
  MaxPending = 1
INVARIANTS SizeWithinCap
