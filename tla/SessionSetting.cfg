SPECIFICATION SessionSpec
CONSTANTS
  MaxRuns = 1
  MaxTurns = 1
  MaxCalls = 0
  MaxSteers = 0
  MaxTracked = 0
  WithNotes = FALSE
  DeafCalls = {}
  MaxSettings = 1
  MaxFaults = 0
  CompactionKinds = {1}
INVARIANTS
  SettingsSurviveResume
CHECK_DEADLOCK FALSE
