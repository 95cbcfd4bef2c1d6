SPECIFICATION ServerSpec
CONSTANTS
  Outputs = {"a"}
  Period = 1
  FailAfter = 2
  MaxClock = 2
  MaxFires = 2
  MaxReminderEdits = 1
  MaxReminderFaults = 1
  Agents = {"a", "b"}
  NoAgent = "nobody"
  Person = "person"
  MaxRequests = 4
  HoldWindow = 1
  AnywayAfter = 1
  MaxLog = 4
  MaxHoldRuns = 2
  MaxPosts = 2
  MaxDraftAges = 1
INVARIANT BypassesStayInTheirSession
CHECK_DEADLOCK FALSE
