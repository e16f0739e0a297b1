SPECIFICATION SessionSpec
CONSTANTS
  MaxRuns = 2
  MaxTurns = 2
  MaxCalls = 1
  MaxSteers = 1
  MaxTracked = 1
  WithNotes = FALSE
  DeafCalls = {}
  MaxSettings = 1
  MaxFaults = 0
  CompactionKinds = {1}
CONSTRAINT OneDisturbance
INVARIANTS
  ContextIsKept
  ModeSurvivesUnlessMidRun
PROPERTIES
  TranscriptKeepsMessages
CHECK_DEADLOCK FALSE
