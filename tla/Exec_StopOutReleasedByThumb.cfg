SPECIFICATION Spec
CONSTANTS
  Cap = 12
  Bps = 10000
  BandBps = 3400
  BandFloor = 2
  RemainingBps = 300
  DivergenceBps = 100
  MaxDeltaBps = 6667
  Debounce = 1
  SettleTimeout = 2
  Slots = {s1}
  Observations <- const_Observations
  Virtuals = {7, 13}
  MaxSize = 16
  MaxPending = 1
PROPERTIES StopOutReleasedByThumb
