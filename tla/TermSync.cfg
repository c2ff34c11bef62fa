SPECIFICATION TermSpec
CONSTANTS
  MaxSize = 2
  MaxBytes = 3
  MaxEpoch = 1
  MaxLost = 0
  MaxSaves = 0
  MaxFails = 0
  MaxOpens = 0
INVARIANT NewOutputIsShown
CHECK_DEADLOCK FALSE
