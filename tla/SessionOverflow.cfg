SPECIFICATION SessionSpec
CONSTANTS
  MaxRuns = 2
  MaxTurns = 1
  MaxCalls = 0
  MaxSteers = 0
  MaxTracked = 0
  WithNotes = FALSE
  DeafCalls = {}
  MaxSettings = 0
  MaxFaults = 0
  CompactionKinds = {1}
INVARIANTS
  MemorySurvivesResume
CHECK_DEADLOCK FALSE
