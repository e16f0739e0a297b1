SPECIFICATION Spec
CONSTANTS
  Users = {u1}
  Internals = {g1}
  Children = {c1}
  Stop = stop
  NoTurn = NoTurn
PROPERTIES
  MessagesKeepTheGoal
