SPECIFICATION Spec
CONSTANTS
  MaxSteps = 3
  ErrorLimit = 2
  MaxHandles = 2
  MaxBytes = 2
  Sizes = {1, 3}
  Refs = {1}
  PromoteAfter = 2
  InitialInterval = 2
  MinInterval = 1
  MaxInterval = 5
  MaxRuns <- MCMaxRuns
  MaxAlerts = 2
  MaxWindows = 1
  MaxFaults = 1
INVARIANTS NudgesToldOnce 
CHECK_DEADLOCK FALSE
