SPECIFICATION FairSpec
CONSTANTS
  MaxRuns = 1
  MaxTurns = 3
  MaxCalls = 2
  MaxSteers = 1
  MaxTracked = 1
  WithNotes = TRUE
  DeafCalls = {2}
PROPERTIES
  AbortEndsRun
  InterruptDeliversSteering
CHECK_DEADLOCK FALSE
