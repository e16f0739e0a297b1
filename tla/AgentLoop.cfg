SPECIFICATION Spec
CONSTANTS
  MaxRuns = 2
  MaxTurns = 2
  MaxCalls = 2
  MaxSteers = 2
  MaxTracked = 1
  WithNotes = FALSE
  DeafCalls = {}
INVARIANTS
  TypeOK
  ToolUsePaired
  InterruptStaysInItsTurn
  FreshContextSurvives
  OnlyLateSteeringIsLost
  NoWorkOutlivesTheRun
PROPERTIES
  InboxSpec
CHECK_DEADLOCK FALSE
