SPECIFICATION SessionSpec
CONSTANTS
  MaxRuns = 2
  MaxTurns = 2
  MaxCalls = 2
  MaxSteers = 0
  MaxTracked = 0
  WithNotes = FALSE
  DeafCalls = {}
  MaxSettings = 0
  MaxFaults = 1
  CompactionKinds = {1}
INVARIANTS
  ParentsPrecede
PROPERTIES
  ResumedContextPaired
CHECK_DEADLOCK FALSE
