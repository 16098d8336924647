SPECIFICATION Spec
CONSTANTS
  Pairs <- MCPairs
  T1 = 3
  T4 = 4
  T16 = 5
  T256 = 6
  MaxTick = 2
  TimerMod = 3
  ClockMod = 9
  Modes <- MCModes
  Thresholds <- MCThresholds
  ResetThreshold <- MCResetThreshold
INVARIANT NoDrift
