SPECIFICATION Spec
CONSTANTS
  Users = {u1, u2}
  Internals = {g1}
  Children = {c1}
  Stop = stop
  NoTurn = NoTurn
SYMMETRY SymmetricUsers
INVARIANTS
  TypeOK
  SessionExclusive
  OnlyStoppedTurnsStayBusy
  ActiveRunIsLive
  NoLostWake
  VainRunsAreStopped
PROPERTIES
  OldWorkIsInert
  CreationIsQuiet
