SPECIFICATION Spec
CONSTANTS
  MaxRuns = 1
  MaxTurns = 2
  MaxCalls = 1
  MaxSteers = 1
  MaxTracked = 1
  WithNotes = FALSE
  DeafCalls = {}
INVARIANTS
  SteeringReachesModel
CHECK_DEADLOCK FALSE
