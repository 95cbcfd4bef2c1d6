SPECIFICATION ProgressSpec
CONSTANTS
  MaxGeneration = 1
  MaxPulledMessages = 1
  MaxDrainRows = 2
  SameFailurePauseThreshold = 2
  FailurePauseThreshold = 3
  Configs <- OneConfig
  Failures <- OneFailure
  EffortResets = {"grok"}
  MaxItems = 2
  MaxRuns = 3
  MaxAgentChainTurns = 1
  Sources = {"human", "agent", "reminder"}
PROPERTIES HumanMessageIsOffered ConcreteWorkIsRun
