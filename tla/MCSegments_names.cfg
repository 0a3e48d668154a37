CONSTANTS
  EnvDefaultsApply = TRUE
  Files <- MCFiles
  Masks <- MCMasks
  Lengths = {2, 3}
  MaxRuns = 3
  MaxFlushes = 3
  MaxClock = 2
CHECK_DEADLOCK FALSE
SPECIFICATION Spec
INVARIANTS TypeOK FlushesKept ReplayIsChronological SegmentBound SettingsInForce
