SPECIFICATION Spec
CONSTANTS
 Goals = {g1, g2}
 Samples = {s1}
 Readers = {r1, r2}
 NoGoal = NoGoal
 Unreadable = Unreadable
 MaxRevision = 3
 MaxFaults = 2
 Callers = {x1, x2, d1}
 Exclusive = {x1}
 Nested = {x1, x2}
 Cells = {c1, c2}
 MaxLive = 1
 Clients = {k1, k2}
 Approvals = {a1}
 Prompts = {i1, i2}
 MaxFailedSends = 1
 Children = {t1, t2}
 Executions = {e1, e2, e3}
 MaxAgents = 2
 Unknown = Unknown
 Restored = Restored
 MaxAttempts = 3
 MaxQueued = 3
 Reads = {q1, q2}
 MaxEntries = 3
 Refreshes = {f1, f2}
 MaxSignIns = 2
 MaxRotations = 2
 NoTokens = NoTokens
 ModelCalls = {b1, b2}
 MaxItems = 4
 MaxSockets = 2
 MaxExchanges = 4
 NoModelCall = NoModelCall
 NoChain = NoChain
 Operations = {o1, o2}
 Configs = {m1, m2}
 MaxConnections = 3
 MaxChanges = 2
 Absent = Absent
INVARIANTS
 ServicesTypeOK
 GoalIsAsSaved
 AcknowledgedSurvives
 GateIsCorrect
 QuietAfterTheRun
 RecordsReachTheModel
 PendingHasResponder
 ClientsAreTold
 OnePromptAtATime
 ChildrenAreAccounted
 RepliesAreWhole
 SignInIsKept
 ModelIsAsked
 ConnectionsAreKept
PROPERTIES
 ReadsReconcile
CHECK_DEADLOCK FALSE
