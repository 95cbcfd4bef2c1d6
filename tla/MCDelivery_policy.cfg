SPECIFICATION PolicySpec
CONSTANTS
  MaxItems = 2
  MaxRuns = 3
  MaxGeneration = 3
  MaxPulledMessages = 1
  MaxDrainRows = 2
  MaxAgentChainTurns = 2
  SameFailurePauseThreshold = 2
  FailurePauseThreshold = 3
  Sources = {"human"}
  Configs <- EveryConfig
  Failures <- EveryFailure
  EffortResets = {"grok"}
INVARIANTS PauseFollowsFailures SessionsKeepTheirRuntime
PROPERTIES BeginRespectsHolds
