SPECIFICATION MCSpec
CONSTANTS
  MaxRuns = 2
  MaxPending = 2
  MaxResets = 2
  MaxReports = 2
  MaxFaults = 1
INVARIANT KilledRunIsMute
CHECK_DEADLOCK FALSE
