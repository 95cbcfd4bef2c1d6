SPECIFICATION PartsSpec
CONSTANTS
  Messages = {m1, m2}
  MaxMirrorRuns = 2
  MaxMirrorReports = 2
  MaxMirrorFaults = 1
  MaxWakes = 2
  MaxTasks = 1
  MaxOperations = 2
  MaxWakeFrames = 1
  MaxWakeFaults = 2
  MaxOrders = 1
INVARIANTS
  ComputerTypeOK
  OfferIsReachable
  ShownIsNotPending
  HiddenWasShown
  WakesStayInTheirSession
  LostWorkIsOwed
PROPERTY ShownIsSettled
SYMMETRY MessageSymmetry
CHECK_DEADLOCK FALSE
