---- MODULE GoalThreadProofs ----
(***************************************************************************)
(* What is proved of GoalThread for any number of turns and children.      *)
(***************************************************************************)
EXTENDS GoalThread, TLAPS

-----------------------------------------------------------------------------
(* Types *)

LEMMA LabelsTyped ==
  /\ {"idle", "admitting", "interrupting", "retired", "queued", "joining"} \subseteq Labels
  /\ {"joined", "hooks", "beginning", "announcing", "running"} \subseteq Labels
  /\ {"ended", "settling", "settled", "creating"} \subseteq Labels
  /\ {"dropping", "closing", "finishing", "blocked"} \subseteq Labels
BY DEF Labels

LEMMA GotoTyped ==
  ASSUME TurnTyped, NEW t \in Turns, NEW l \in Labels, Goto(t, l)
  PROVE  pc' \in [Turns -> Labels]
BY DEF TurnTyped, Goto

LEMMA PastTyped ==
  ASSUME NEW e \in Eras, NEW p \in {"stale", "old"}
  PROVE  Past(e, p) \in Eras
BY DEF Past, Eras

LEMMA InvalidateTyped ==
  ASSUME EpochTyped, NEW p \in {"stale", "old"}, InvalidateAs(p)
  PROVE  EpochTyped'
<1>1. activeRun' \in Turns \cup {NoTurn} /\ aborted' \subseteq Turns /\ cancelled' \subseteq Turns
  BY DEF EpochTyped, InvalidateAs, AbortScopes, Linked
<1>2. era' \in [Turns -> Eras] /\ child' \in [Children -> Eras]
  BY PastTyped DEF EpochTyped, InvalidateAs
<1>. QED
  BY <1>1, <1>2 DEF EpochTyped

LEMMA ThreadKept ==
  ASSUME ThreadTyped, UNCHANGED thread \/ ResetTurn
  PROVE  ThreadTyped'
BY DEF ThreadTyped, thread, ResetTurn

LEMMA BeginRunTyped ==
  ASSUME TypeOK, NEW t \in Turns, BeginRun(t)
  PROVE  ThreadTyped' /\ EpochTyped' /\ StatusTyped' /\ pc' \in [Turns -> Labels]
         /\ outcome' \in [Turns -> {"completed", "failed", "interrupted"}]
<1>1. "beginning" \in Labels /\ "dropping" \in Labels
  BY LabelsTyped
<1>2. pc' \in [Turns -> Labels]
  BY <1>1, GotoTyped DEF BeginRun, TypeOK
<1>3. outcome' \in [Turns -> {"completed", "failed", "interrupted"}]
  BY DEF BeginRun, TypeOK, TurnTyped
<1>4. ThreadTyped'
  <2>1. UNCHANGED thread \/ ResetTurn
    BY DEF BeginRun
  <2>. QED
    BY <2>1 DEF TypeOK, ThreadTyped, thread, ResetTurn
<1>5. EpochTyped'
  <2>1. EpochTyped
    BY DEF TypeOK
  <2>2. Limit => EpochTyped'
    BY <2>1, InvalidateTyped DEF Limit, Invalidate
  <2>3. UNCHANGED epoch => EpochTyped'
    BY <2>1 DEF EpochTyped, epoch
  <2>. QED
    BY <2>1, <2>2, <2>3 DEF BeginRun, EpochTyped, Eras
<1>6. StatusTyped'
  BY DEF BeginRun, TypeOK, StatusTyped, status, Limit
<1>. QED
  BY <1>2, <1>3, <1>4, <1>5, <1>6

LEMMA CreatorTyped ==
  ASSUME TypeOK, NEW t \in Turns
  PROVE  Creator(t) \in Users \cup {NoTurn}
BY DEF Creator, TypeOK, CapabilityTyped

LEMMA StartUserTyped ==
  ASSUME TypeOK, NEW u \in Users, StartUser(u)
  PROVE  TypeOK'
<1>1. CapabilityTyped'
  BY DEF StartUser, TypeOK, CapabilityTyped, capability, Turns
<1>2. TurnTyped'
  BY LabelsTyped DEF StartUser, TypeOK, TurnTyped, Goto, turn, Turns
<1>3. ThreadTyped' /\ TimerTyped' /\ EpochTyped' /\ StatusTyped' /\ HostTyped'
  BY DEF StartUser, TypeOK, ThreadTyped, TimerTyped, EpochTyped, StatusTyped,
     HostTyped, thread, timer, epoch, status, host
<1>. QED
  BY <1>1, <1>2, <1>3 DEF TypeOK

LEMMA AdmitUserTyped ==
  ASSUME TypeOK, NEW u \in Users, AdmitUser(u)
  PROVE  TypeOK'
<1>1. ThreadTyped'
  BY DEF AdmitUser, TypeOK, ThreadTyped, ReserveOrReject, Reserve, thread,
     Turns
<1>2. CapabilityTyped'
  BY DEF AdmitUser, TypeOK, CapabilityTyped, capability, Turns
<1>3. TurnTyped'
  BY LabelsTyped DEF AdmitUser, TypeOK, TurnTyped, ReserveOrReject, Reserve,
     Goto, ThreadTyped, turn, Turns
<1>4. EpochTyped'
  BY InvalidateTyped DEF AdmitUser, TypeOK, EpochTyped, ReserveOrReject,
     Reserve, KeepEpoch, Invalidate, epoch, Turns
<1>5. TimerTyped' /\ StatusTyped' /\ HostTyped'
  BY DEF AdmitUser, TypeOK, TimerTyped, StatusTyped, HostTyped, timer,
     status, host
<1>. QED
  BY <1>1, <1>2, <1>3, <1>4, <1>5 DEF TypeOK

LEMMA TakeOverTyped ==
  ASSUME TypeOK, NEW u \in Users, TakeOver(u)
  PROVE  TypeOK'
<1>1. ThreadTyped'
  <2>1. UNCHANGED thread \/ ResetTurn \/ Reserve(u)
    BY DEF TakeOver, ReserveOrReject, Retire, ResetTurn, thread
  <2>. QED
    BY <2>1, ThreadKept DEF TypeOK, Reserve, ThreadTyped, Turns
<1>2. TurnTyped'
  BY LabelsTyped DEF TakeOver, TypeOK, TurnTyped, ReserveOrReject, Reserve,
     Goto, ThreadTyped, turn, Turns
<1>3. EpochTyped'
  BY NamesAreDistinct DEF TakeOver, TypeOK, EpochTyped, ReserveOrReject,
     Reserve, Retire, Retired, TurnTyped, Overthrows, epoch, Turns
<1>4. CapabilityTyped' /\ TimerTyped' /\ StatusTyped' /\ HostTyped'
  BY DEF TakeOver, TypeOK, CapabilityTyped, TimerTyped, StatusTyped,
     HostTyped, capability, timer, status, host
<1>. QED
  BY <1>1, <1>2, <1>3, <1>4 DEF TypeOK

LEMMA AfterRetirementTyped ==
  ASSUME TypeOK, NEW u \in Users, AfterRetirement(u)
  PROVE  TypeOK'
<1>1. ThreadTyped'
  BY DEF AfterRetirement, TypeOK, ThreadTyped, ReserveOrReject, Reserve,
     thread, Turns
<1>2. TurnTyped'
  BY LabelsTyped DEF AfterRetirement, TypeOK, TurnTyped, ReserveOrReject,
     Reserve, Goto, ThreadTyped, turn, Turns
<1>3. EpochTyped'
  BY DEF AfterRetirement, TypeOK, EpochTyped, ReserveOrReject, Reserve,
     epoch, Turns
<1>4. CapabilityTyped' /\ TimerTyped' /\ StatusTyped' /\ HostTyped'
  BY DEF AfterRetirement, TypeOK, CapabilityTyped, TimerTyped, StatusTyped,
     HostTyped, capability, timer, status, host
<1>. QED
  BY <1>1, <1>2, <1>3, <1>4 DEF TypeOK

LEMMA HooksPassTyped ==
  ASSUME TypeOK, NEW u \in Users, HooksPass(u)
  PROVE  TypeOK'
<1>1. ThreadTyped'
  BY BeginRunTyped DEF HooksPass, TypeOK, ThreadTyped, Abandon, thread, Turns
<1>2. CapabilityTyped'
  BY DEF HooksPass, TypeOK, CapabilityTyped, capability, Turns
<1>3. TurnTyped'
  BY BeginRunTyped, LabelsTyped DEF HooksPass, TypeOK, TurnTyped, Abandon,
     Goto, turn, Turns
<1>4. EpochTyped'
  BY BeginRunTyped DEF HooksPass, TypeOK, EpochTyped, epoch, Turns
<1>5. StatusTyped'
  BY BeginRunTyped DEF HooksPass, TypeOK, StatusTyped, status, Turns
<1>6. TimerTyped' /\ HostTyped'
  BY DEF HooksPass, TypeOK, TimerTyped, HostTyped, timer, host
<1>. QED
  BY <1>1, <1>2, <1>3, <1>4, <1>5, <1>6 DEF TypeOK

LEMMA HooksBlockTyped ==
  ASSUME TypeOK, NEW u \in Users, HooksBlock(u)
  PROVE  TypeOK'
<1>1. ThreadTyped'
  BY DEF HooksBlock, TypeOK, ThreadTyped, thread, Turns
<1>2. TurnTyped'
  BY LabelsTyped DEF HooksBlock, TypeOK, TurnTyped, Goto, turn, Turns
<1>3. CapabilityTyped' /\ TimerTyped' /\ EpochTyped' /\ StatusTyped' /\ HostTyped'
  BY DEF HooksBlock, TypeOK, CapabilityTyped, TimerTyped, EpochTyped,
     StatusTyped, HostTyped, capability, timer, epoch, status, host
<1>. QED
  BY <1>1, <1>2, <1>3 DEF TypeOK

LEMMA AnnouncedTyped ==
  ASSUME TypeOK, NEW u \in Users, Announced(u)
  PROVE  TypeOK'
<1>1. TurnTyped'
  BY LabelsTyped DEF Announced, TypeOK, TurnTyped, Goto, turn, Turns
<1>2. ThreadTyped' /\ CapabilityTyped' /\ TimerTyped' /\ EpochTyped' /\ StatusTyped' /\ HostTyped'
  BY DEF Announced, TypeOK, ThreadTyped, CapabilityTyped, TimerTyped,
     EpochTyped, StatusTyped, HostTyped, thread, capability, timer, epoch,
     status, host
<1>. QED
  BY <1>1, <1>2 DEF TypeOK

LEMMA ProposeTyped ==
  ASSUME TypeOK, NEW u \in Users, Propose(u)
  PROVE  TypeOK'
<1>1. CapabilityTyped'
  BY DEF Propose, TypeOK, CapabilityTyped, capability, Turns
<1>2. ThreadTyped' /\ TimerTyped' /\ TurnTyped' /\ EpochTyped' /\ StatusTyped' /\ HostTyped'
  BY DEF Propose, TypeOK, ThreadTyped, TimerTyped, TurnTyped, EpochTyped,
     StatusTyped, HostTyped, thread, timer, turn, epoch, status, host
<1>. QED
  BY <1>1, <1>2 DEF TypeOK

LEMMA CreateGoalTyped ==
  ASSUME TypeOK, NEW u \in Users, CreateGoal(u)
  PROVE  TypeOK'
<1>1. TurnTyped'
  BY LabelsTyped DEF CreateGoal, TypeOK, TurnTyped, Goto, turn, Turns
<1>2. EpochTyped'
  BY InvalidateTyped DEF CreateGoal, TypeOK, EpochTyped, NewGoal, epoch, Turns
<1>3. StatusTyped'
  BY DEF CreateGoal, TypeOK, StatusTyped, NewGoal, status, Turns
<1>4. ThreadTyped' /\ CapabilityTyped' /\ TimerTyped' /\ HostTyped'
  BY DEF CreateGoal, TypeOK, ThreadTyped, CapabilityTyped, TimerTyped,
     HostTyped, thread, capability, timer, host
<1>. QED
  BY <1>1, <1>2, <1>3, <1>4 DEF TypeOK

LEMMA CreatedTyped ==
  ASSUME TypeOK, NEW u \in Users, Created(u)
  PROVE  TypeOK'
<1>1. TimerTyped'
  BY DEF Created, TypeOK, TimerTyped, Wake, Schedule, timer, Turns
<1>2. TurnTyped'
  BY LabelsTyped DEF Created, TypeOK, TurnTyped, Goto, turn, Turns
<1>3. ThreadTyped' /\ CapabilityTyped' /\ EpochTyped' /\ StatusTyped' /\ HostTyped'
  BY DEF Created, TypeOK, ThreadTyped, CapabilityTyped, EpochTyped,
     StatusTyped, HostTyped, thread, capability, epoch, status, host
<1>. QED
  BY <1>1, <1>2, <1>3 DEF TypeOK

LEMMA UnblockTyped ==
  ASSUME TypeOK, NEW u \in Users, Unblock(u)
  PROVE  TypeOK'
<1>1. TimerTyped'
  BY DEF Unblock, TypeOK, TimerTyped, Resolve, Schedule, timer, Turns
<1>2. TurnTyped'
  BY LabelsTyped DEF Unblock, TypeOK, TurnTyped, Resolve, turn, Turns
<1>3. EpochTyped'
  BY DEF Unblock, TypeOK, EpochTyped, Resolve, epoch, Turns
<1>4. ThreadTyped' /\ CapabilityTyped' /\ StatusTyped' /\ HostTyped'
  BY DEF Unblock, Resolve, TypeOK, ThreadTyped, thread, CapabilityTyped,
     StatusTyped, HostTyped, capability, status, host
<1>. QED
  BY <1>1, <1>2, <1>3, <1>4 DEF TypeOK

LEMMA LeaveQueueTyped ==
  ASSUME TypeOK, NEW t \in Turns, LeaveQueue(t)
  PROVE  TypeOK'
<1>1. ThreadTyped'
  BY BeginRunTyped DEF LeaveQueue, TypeOK, ThreadTyped, Abandon, GoesOn,
     thread
<1>2. TurnTyped'
  BY BeginRunTyped, LabelsTyped DEF LeaveQueue, TypeOK, TurnTyped, Abandon,
     GoesOn, Goto, turn
<1>3. EpochTyped'
  BY BeginRunTyped DEF LeaveQueue, TypeOK, EpochTyped, GoesOn, epoch
<1>4. StatusTyped'
  BY BeginRunTyped DEF LeaveQueue, TypeOK, StatusTyped, GoesOn, status
<1>5. CapabilityTyped' /\ TimerTyped' /\ HostTyped'
  BY DEF LeaveQueue, TypeOK, CapabilityTyped, TimerTyped, HostTyped,
     capability, timer, host
<1>. QED
  BY <1>1, <1>2, <1>3, <1>4, <1>5 DEF TypeOK

LEMMA JoinRejectedTyped ==
  ASSUME TypeOK, NEW t \in Turns, JoinRejected(t)
  PROVE  TypeOK'
<1>1. ThreadTyped'
  BY ThreadKept DEF JoinRejected, TypeOK
<1>2. TurnTyped'
  BY LabelsTyped DEF JoinRejected, TypeOK, TurnTyped, Goto, turn
<1>3. EpochTyped'
  BY DEF JoinRejected, TypeOK, EpochTyped, epoch
<1>4. CapabilityTyped' /\ TimerTyped' /\ StatusTyped' /\ HostTyped'
  BY DEF JoinRejected, TypeOK, CapabilityTyped, TimerTyped, StatusTyped,
     HostTyped, capability, timer, status, host
<1>. QED
  BY <1>1, <1>2, <1>3, <1>4 DEF TypeOK

LEMMA JoinedTyped ==
  ASSUME TypeOK, NEW t \in Turns, Joined(t)
  PROVE  TypeOK'
<1>1. ThreadTyped'
  BY BeginRunTyped DEF Joined, TypeOK, ThreadTyped, Abandon, GoesOn, thread
<1>2. TurnTyped'
  BY BeginRunTyped, LabelsTyped DEF Joined, TypeOK, TurnTyped, Abandon,
     GoesOn, Goto, turn
<1>3. EpochTyped'
  BY BeginRunTyped DEF Joined, TypeOK, EpochTyped, GoesOn, epoch
<1>4. StatusTyped'
  BY BeginRunTyped DEF Joined, TypeOK, StatusTyped, GoesOn, status
<1>5. CapabilityTyped' /\ TimerTyped' /\ HostTyped'
  BY DEF Joined, TypeOK, CapabilityTyped, TimerTyped, HostTyped, capability,
     timer, host
<1>. QED
  BY <1>1, <1>2, <1>3, <1>4, <1>5 DEF TypeOK

LEMMA BegunTyped ==
  ASSUME TypeOK, NEW t \in Turns, Begun(t)
  PROVE  TypeOK'
<1>1. CapabilityTyped'
  BY CreatorTyped DEF Begun, TypeOK, CapabilityTyped, capability
<1>2. TurnTyped'
  BY LabelsTyped DEF Begun, TypeOK, TurnTyped, Goto, turn
<1>3. EpochTyped'
  BY DEF Begun, TypeOK, EpochTyped, Eras, epoch
<1>4. ThreadTyped' /\ TimerTyped' /\ StatusTyped' /\ HostTyped'
  BY DEF Begun, TypeOK, ThreadTyped, TimerTyped, StatusTyped, HostTyped,
     thread, timer, status, host
<1>. QED
  BY <1>1, <1>2, <1>3, <1>4 DEF TypeOK

LEMMA ReportTyped ==
  ASSUME TypeOK, NEW t \in Turns, Report(t)
  PROVE  TypeOK'
<1>1. EpochTyped'
  BY InvalidateTyped DEF Report, TypeOK, EpochTyped, KeepEpoch, Invalidate,
     epoch
<1>2. StatusTyped'
  BY DEF Report, TypeOK, StatusTyped, status
<1>3. ThreadTyped' /\ CapabilityTyped' /\ TimerTyped' /\ TurnTyped' /\ HostTyped'
  BY DEF Report, TypeOK, ThreadTyped, CapabilityTyped, TimerTyped, TurnTyped,
     HostTyped, thread, capability, timer, turn, host
<1>. QED
  BY <1>1, <1>2, <1>3 DEF TypeOK

LEMMA SpawnTyped ==
  ASSUME TypeOK, NEW t \in Turns, Spawn(t)
  PROVE  TypeOK'
<1>1. EpochTyped'
  BY DEF Spawn, TypeOK, EpochTyped, epoch
<1>2. ThreadTyped' /\ CapabilityTyped' /\ TimerTyped' /\ TurnTyped' /\ StatusTyped' /\ HostTyped'
  BY DEF Spawn, TypeOK, ThreadTyped, CapabilityTyped, TimerTyped, TurnTyped,
     StatusTyped, HostTyped, thread, capability, timer, turn, status, host
<1>. QED
  BY <1>1, <1>2 DEF TypeOK

LEMMA EndRunTyped ==
  ASSUME TypeOK, NEW t \in Turns, EndRun(t)
  PROVE  TypeOK'
<1>1. ThreadTyped'
  BY ThreadKept DEF EndRun, TypeOK
<1>2. TurnTyped'
  BY LabelsTyped DEF EndRun, TypeOK, TurnTyped, Goto, turn
<1>3. CapabilityTyped' /\ TimerTyped' /\ EpochTyped' /\ StatusTyped' /\ HostTyped'
  BY DEF EndRun, TypeOK, CapabilityTyped, TimerTyped, EpochTyped,
     StatusTyped, HostTyped, capability, timer, epoch, status, host
<1>. QED
  BY <1>1, <1>2, <1>3 DEF TypeOK

LEMMA SettleBeginsTyped ==
  ASSUME TypeOK, NEW t \in Turns, SettleBegins(t)
  PROVE  TypeOK'
<1>1. TurnTyped'
  BY LabelsTyped DEF SettleBegins, TypeOK, TurnTyped, Goto, turn
<1>2. StatusTyped'
  BY DEF SettleBegins, TypeOK, StatusTyped, status
<1>3. ThreadTyped' /\ CapabilityTyped' /\ TimerTyped' /\ EpochTyped' /\ HostTyped'
  BY DEF SettleBegins, TypeOK, ThreadTyped, CapabilityTyped, TimerTyped,
     EpochTyped, HostTyped, thread, capability, timer, epoch, host
<1>. QED
  BY <1>1, <1>2, <1>3 DEF TypeOK

LEMMA SettleEndsTyped ==
  ASSUME TypeOK, NEW t \in Turns, SettleEnds(t)
  PROVE  TypeOK'
<1>1. TurnTyped'
  BY LabelsTyped DEF SettleEnds, TypeOK, TurnTyped, Goto, turn
<1>2. EpochTyped'
  BY InvalidateTyped DEF SettleEnds, TypeOK, EpochTyped, ForgetRun,
     Invalidate, epoch
<1>3. StatusTyped'
  BY DEF SettleEnds, TypeOK, StatusTyped, status
<1>4. ThreadTyped' /\ CapabilityTyped' /\ TimerTyped' /\ HostTyped'
  BY DEF SettleEnds, TypeOK, ThreadTyped, CapabilityTyped, TimerTyped,
     HostTyped, thread, capability, timer, host
<1>. QED
  BY <1>1, <1>2, <1>3, <1>4 DEF TypeOK

LEMMA SettledTyped ==
  ASSUME TypeOK, NEW t \in Turns, Settled(t)
  PROVE  TypeOK'
<1>1. TimerTyped'
  BY DEF Settled, TypeOK, TimerTyped, Wake, Schedule, timer
<1>2. TurnTyped'
  BY LabelsTyped DEF Settled, TypeOK, TurnTyped, Goto, turn
<1>3. EpochTyped'
  BY InvalidateTyped DEF Settled, TypeOK, EpochTyped, Limit, Invalidate, epoch
<1>4. StatusTyped'
  BY DEF Settled, TypeOK, StatusTyped, Limit, status
<1>5. ThreadTyped' /\ CapabilityTyped' /\ HostTyped'
  BY DEF Settled, TypeOK, ThreadTyped, CapabilityTyped, HostTyped, thread,
     capability, host
<1>. QED
  BY <1>1, <1>2, <1>3, <1>4, <1>5 DEF TypeOK

LEMMA CloseTyped ==
  ASSUME TypeOK, NEW t \in Turns, Close(t)
  PROVE  TypeOK'
<1>1. ThreadTyped'
  BY ThreadKept DEF Close, TypeOK
<1>2. CapabilityTyped'
  BY DEF Close, TypeOK, CapabilityTyped, capability
<1>3. TurnTyped'
  BY LabelsTyped DEF Close, TypeOK, TurnTyped, Goto, turn
<1>4. EpochTyped'
  BY DEF Close, TypeOK, EpochTyped, Eras, epoch
<1>5. TimerTyped' /\ StatusTyped' /\ HostTyped'
  BY DEF Close, TypeOK, TimerTyped, StatusTyped, HostTyped, timer, status,
     host
<1>. QED
  BY <1>1, <1>2, <1>3, <1>4, <1>5 DEF TypeOK

LEMMA FinishTyped ==
  ASSUME TypeOK, NEW t \in Turns, Finish(t)
  PROVE  TypeOK'
<1>1. ThreadTyped'
  BY DEF Finish, TypeOK, ThreadTyped, thread
<1>2. TimerTyped'
  BY DEF Finish, TypeOK, TimerTyped, Resolve, Schedule, timer
<1>3. TurnTyped'
  BY LabelsTyped DEF Finish, TypeOK, TurnTyped, Resolve, turn
<1>4. EpochTyped'
  BY DEF Finish, TypeOK, EpochTyped, Resolve, epoch
<1>5. CapabilityTyped' /\ StatusTyped' /\ HostTyped'
  BY DEF Finish, Resolve, TypeOK, CapabilityTyped,
     StatusTyped, HostTyped, capability, status, host
<1>. QED
  BY <1>1, <1>2, <1>3, <1>4, <1>5 DEF TypeOK

LEMMA TimerFiresTyped ==
  ASSUME TypeOK, TimerFires
  PROVE  TypeOK'
<1>1. TimerTyped'
  BY DEF TimerFires, TypeOK, TimerTyped, ThreadTyped, timer
<1>2. ThreadTyped' /\ CapabilityTyped' /\ TurnTyped' /\ EpochTyped' /\ StatusTyped' /\ HostTyped'
  BY DEF TimerFires, TypeOK, ThreadTyped, CapabilityTyped, TurnTyped,
     EpochTyped, StatusTyped, HostTyped, thread, capability, turn, epoch,
     status, host
<1>. QED
  BY <1>1, <1>2 DEF TypeOK

LEMMA RefuseInternalTyped ==
  ASSUME TypeOK, RefuseInternal
  PROVE  TypeOK'
<1>1. TimerTyped'
  BY DEF RefuseInternal, TypeOK, TimerTyped, timer
<1>2. ThreadTyped' /\ CapabilityTyped' /\ TurnTyped' /\ EpochTyped' /\ StatusTyped' /\ HostTyped'
  BY DEF RefuseInternal, TypeOK, ThreadTyped, CapabilityTyped, TurnTyped,
     EpochTyped, StatusTyped, HostTyped, thread, capability, turn, epoch,
     status, host
<1>. QED
  BY <1>1, <1>2 DEF TypeOK

LEMMA TimerClearedTyped ==
  ASSUME TypeOK, TimerCleared
  PROVE  TypeOK'
<1>1. TimerTyped'
  BY DEF TimerCleared, TypeOK, TimerTyped, timer
<1>2. ThreadTyped' /\ CapabilityTyped' /\ TurnTyped' /\ EpochTyped' /\ StatusTyped' /\ HostTyped'
  BY DEF TimerCleared, TypeOK, ThreadTyped, CapabilityTyped, TurnTyped,
     EpochTyped, StatusTyped, HostTyped, thread, capability, turn, epoch,
     status, host
<1>. QED
  BY <1>1, <1>2 DEF TypeOK

LEMMA AdmitInternalTyped ==
  ASSUME TypeOK, NEW g \in Internals, AdmitInternal(g)
  PROVE  TypeOK'
<1>1. ThreadTyped'
  BY DEF AdmitInternal, TypeOK, ThreadTyped, Reserve, thread, Turns
<1>2. TimerTyped'
  BY DEF AdmitInternal, TypeOK, TimerTyped, timer, Turns
<1>3. TurnTyped'
  BY LabelsTyped DEF AdmitInternal, TypeOK, TurnTyped, Reserve, Goto,
     ThreadTyped, turn, Turns
<1>4. EpochTyped'
  BY DEF AdmitInternal, TypeOK, EpochTyped, Reserve, epoch, Turns
<1>5. CapabilityTyped' /\ StatusTyped' /\ HostTyped'
  BY DEF AdmitInternal, TypeOK, CapabilityTyped, StatusTyped, HostTyped,
     capability, status, host
<1>. QED
  BY <1>1, <1>2, <1>3, <1>4, <1>5 DEF TypeOK

LEMMA InterruptTyped ==
  ASSUME TypeOK, Interrupt
  PROVE  TypeOK'
<1>1. CapabilityTyped'
  BY DEF Interrupt, TypeOK, CapabilityTyped, capability
<1>2. TurnTyped'
  BY DEF Interrupt, TypeOK, TurnTyped, ThreadTyped, turn
<1>3. EpochTyped'
  BY InvalidateTyped DEF Interrupt, TypeOK, EpochTyped, Pause, Invalidate,
     epoch
<1>4. StatusTyped'
  BY DEF Interrupt, TypeOK, StatusTyped, Pause, status
<1>5. ThreadTyped' /\ TimerTyped' /\ HostTyped'
  BY DEF Interrupt, TypeOK, ThreadTyped, TimerTyped, HostTyped, thread,
     timer, host
<1>. QED
  BY <1>1, <1>2, <1>3, <1>4, <1>5 DEF TypeOK

LEMMA InterruptedTyped ==
  ASSUME TypeOK, Interrupted
  PROVE  TypeOK'
<1>1. ThreadTyped'
  BY DEF Interrupted, TypeOK, ThreadTyped, Retire, thread
<1>2. TurnTyped'
  BY NamesAreDistinct DEF Interrupted, TypeOK, TurnTyped, turn
<1>3. EpochTyped'
  BY DEF Interrupted, TypeOK, EpochTyped, Retire, Retired, TurnTyped,
     Overthrows, epoch
<1>4. CapabilityTyped' /\ TimerTyped' /\ StatusTyped' /\ HostTyped'
  BY DEF Interrupted, TypeOK, CapabilityTyped, TimerTyped, StatusTyped,
     HostTyped, capability, timer, status, host
<1>. QED
  BY <1>1, <1>2, <1>3, <1>4 DEF TypeOK

LEMMA ChangedTyped ==
  ASSUME TypeOK, Changed
  PROVE  TypeOK'
<1>1. TimerTyped'
  BY DEF Changed, TypeOK, TimerTyped, Wake, Schedule, timer
<1>2. HostTyped'
  BY DEF Changed, TypeOK, HostTyped, host
<1>3. ThreadTyped' /\ CapabilityTyped' /\ TurnTyped' /\ EpochTyped' /\ StatusTyped'
  BY DEF Changed, TypeOK, ThreadTyped, CapabilityTyped, TurnTyped,
     EpochTyped, StatusTyped, thread, capability, turn, epoch, status
<1>. QED
  BY <1>1, <1>2, <1>3 DEF TypeOK

LEMMA StartCompactionTyped ==
  ASSUME TypeOK, StartCompaction
  PROVE  TypeOK'
<1>1. ThreadTyped'
  BY DEF StartCompaction, TypeOK, ThreadTyped, thread
<1>2. HostTyped'
  BY DEF StartCompaction, TypeOK, HostTyped, host
<1>3. CapabilityTyped' /\ TimerTyped' /\ TurnTyped' /\ EpochTyped' /\ StatusTyped'
  BY DEF StartCompaction, TypeOK, CapabilityTyped, TimerTyped, TurnTyped,
     EpochTyped, StatusTyped, capability, timer, turn, epoch, status
<1>. QED
  BY <1>1, <1>2, <1>3 DEF TypeOK

LEMMA EndCompactionTyped ==
  ASSUME TypeOK, EndCompaction
  PROVE  TypeOK'
<1>1. ThreadTyped'
  BY DEF EndCompaction, TypeOK, ThreadTyped, thread
<1>2. TimerTyped'
  BY DEF EndCompaction, TypeOK, TimerTyped, Wake, Schedule, timer
<1>3. HostTyped'
  BY DEF EndCompaction, TypeOK, HostTyped, host
<1>4. CapabilityTyped' /\ TurnTyped' /\ EpochTyped' /\ StatusTyped'
  BY DEF EndCompaction, TypeOK, CapabilityTyped, TurnTyped, EpochTyped,
     StatusTyped, capability, turn, epoch, status
<1>. QED
  BY <1>1, <1>2, <1>3, <1>4 DEF TypeOK

LEMMA DisconnectTyped ==
  ASSUME TypeOK, Disconnect
  PROVE  TypeOK'
<1>1. CapabilityTyped'
  BY DEF Disconnect, TypeOK, CapabilityTyped, capability
<1>2. HostTyped'
  BY DEF Disconnect, TypeOK, HostTyped, host
<1>3. ThreadTyped' /\ TimerTyped' /\ TurnTyped' /\ EpochTyped' /\ StatusTyped'
  BY DEF Disconnect, TypeOK, ThreadTyped, TimerTyped, TurnTyped, EpochTyped,
     StatusTyped, thread, timer, turn, epoch, status
<1>. QED
  BY <1>1, <1>2, <1>3 DEF TypeOK

LEMMA ConnectTyped ==
  ASSUME TypeOK, Connect
  PROVE  TypeOK'
<1>1. TimerTyped'
  BY DEF Connect, TypeOK, TimerTyped, Wake, Schedule, timer
<1>2. HostTyped'
  BY DEF Connect, TypeOK, HostTyped, host
<1>3. ThreadTyped' /\ CapabilityTyped' /\ TurnTyped' /\ EpochTyped' /\ StatusTyped'
  BY DEF Connect, TypeOK, ThreadTyped, CapabilityTyped, TurnTyped,
     EpochTyped, StatusTyped, thread, capability, turn, epoch, status
<1>. QED
  BY <1>1, <1>2, <1>3 DEF TypeOK

LEMMA ChildFinishedTyped ==
  ASSUME TypeOK, NEW c \in Children, ChildFinished(c)
  PROVE  TypeOK'
<1>1. TimerTyped'
  BY DEF ChildFinished, TypeOK, TimerTyped, Wake, Schedule, timer
<1>2. TurnTyped'
  BY LabelsTyped DEF ChildFinished, TypeOK, TurnTyped, turn
<1>3. EpochTyped'
  BY DEF ChildFinished, TypeOK, EpochTyped, Eras, epoch
<1>4. ThreadTyped' /\ CapabilityTyped' /\ StatusTyped' /\ HostTyped'
  BY DEF ChildFinished, TypeOK, ThreadTyped, CapabilityTyped, StatusTyped,
     HostTyped, thread, capability, status, host
<1>. QED
  BY <1>1, <1>2, <1>3, <1>4 DEF TypeOK

LEMMA UsageTyped ==
  ASSUME TypeOK, Usage
  PROVE  TypeOK'
<1>1. PICK e \in Eras : Overspend(e)
  BY DEF Usage, TypeOK, EpochTyped
<1>2. EpochTyped'
  <2>1. StillCompleting(e) /\ AbortScopes /\ UNCHANGED <<activeRun, era, child>> => EpochTyped'
    BY DEF TypeOK, EpochTyped, AbortScopes, Linked
  <2>2. UNCHANGED epoch => EpochTyped'
    BY DEF TypeOK, EpochTyped, epoch
  <2>3. Invalidate => EpochTyped'
    BY InvalidateTyped DEF TypeOK, Invalidate
  <2>. QED
    BY <1>1, <2>1, <2>2, <2>3 DEF Overspend
<1>3. StatusTyped'
  BY <1>1 DEF Overspend, TypeOK, StatusTyped
<1>4. ThreadTyped' /\ CapabilityTyped' /\ TimerTyped' /\ TurnTyped' /\ HostTyped'
  BY <1>1 DEF Overspend, TypeOK, ThreadTyped, CapabilityTyped, TimerTyped,
     TurnTyped, HostTyped, thread, capability, timer, turn, host
<1>. QED
  BY <1>2, <1>3, <1>4 DEF TypeOK

LEMMA ChangeGoalTyped ==
  ASSUME TypeOK, ChangeGoal
  PROVE  TypeOK'
<1>1. EpochTyped'
  <2>1. UNCHANGED epoch => EpochTyped'
    BY DEF TypeOK, EpochTyped, epoch
  <2>2. ASSUME NEW p \in {"stale", "old"}, InvalidateAs(p) PROVE EpochTyped'
    BY <2>2, InvalidateTyped DEF TypeOK
  <2>. QED
    BY <2>1, <2>2 DEF ChangeGoal, SetGoal, EditGoal, ResumeGoal, PauseGoal,
       ClearGoal, NewGoal, Pause, Invalidate, KeepEpoch
<1>2. StatusTyped'
  BY DEF ChangeGoal, SetGoal, EditGoal, ResumeGoal, PauseGoal, ClearGoal, NewGoal,
     Pause, TypeOK, StatusTyped, status
<1>3. HostTyped'
  BY DEF ChangeGoal, SetGoal, EditGoal, ResumeGoal, PauseGoal, ClearGoal, TypeOK,
     HostTyped
<1>4. CapabilityTyped'
  BY DEF ChangeGoal, TypeOK, CapabilityTyped
<1>5. ThreadTyped' /\ TimerTyped' /\ TurnTyped'
  BY DEF ChangeGoal, TypeOK, ThreadTyped, TimerTyped, TurnTyped, thread, timer, turn
<1>. QED
  BY <1>1, <1>2, <1>3, <1>4, <1>5 DEF TypeOK

LEMMA InitTyped == Init => TypeOK
<1>. SUFFICES ASSUME Init PROVE TypeOK
  OBVIOUS
<1>1. "idle" \in Labels /\ "none" \in Eras
  BY DEF Labels, Eras
<1>2. ThreadTyped /\ CapabilityTyped /\ TimerTyped /\ StatusTyped /\ HostTyped
  BY DEF Init, ThreadTyped, CapabilityTyped, TimerTyped, StatusTyped, HostTyped
<1>3. TurnTyped
  BY <1>1 DEF Init, TurnTyped
<1>4. EpochTyped
  BY <1>1 DEF Init, EpochTyped
<1>. QED
  BY <1>2, <1>3, <1>4 DEF TypeOK

LEMMA StepTyped ==
  ASSUME TypeOK, [Next]_vars
  PROVE  TypeOK'
<1>1. ASSUME NEW u \in Users, UserStep(u) PROVE TypeOK'
  BY <1>1, StartUserTyped, AdmitUserTyped, TakeOverTyped, AfterRetirementTyped,
     HooksPassTyped, HooksBlockTyped, AnnouncedTyped, ProposeTyped,
     CreateGoalTyped, CreatedTyped, UnblockTyped, Zenon DEF UserStep
<1>2. ASSUME NEW t \in Turns, TurnStep(t) PROVE TypeOK'
  BY <1>2, LeaveQueueTyped, JoinRejectedTyped, JoinedTyped, BegunTyped,
     ReportTyped, SpawnTyped, EndRunTyped, SettleBeginsTyped, SettleEndsTyped,
     SettledTyped, CloseTyped, FinishTyped, Zenon DEF TurnStep
<1>3. ASSUME TimerStep PROVE TypeOK'
  BY <1>3, TimerFiresTyped, RefuseInternalTyped, TimerClearedTyped,
     AdmitInternalTyped, Zenon DEF TimerStep
<1>4. ASSUME Request PROVE TypeOK'
  BY <1>4, InterruptTyped, InterruptedTyped, ChangeGoalTyped, ChangedTyped,
     StartCompactionTyped, EndCompactionTyped, DisconnectTyped, ConnectTyped,
     Zenon DEF Request
<1>5. ASSUME UNCHANGED vars PROVE TypeOK'
  BY <1>5 DEF vars, TypeOK, ThreadTyped, CapabilityTyped, TimerTyped, TurnTyped,
     EpochTyped, StatusTyped, HostTyped, thread, capability, timer, turn, epoch,
     status, host
<1>. QED
  BY <1>1, <1>2, <1>3, <1>4, <1>5, ChildFinishedTyped, UsageTyped, Zenon DEF Next

\* Every variable keeps its type, whatever turns, runs and children there are.
THEOREM TypeCorrect == Spec => []TypeOK
<1>1. TypeOK /\ [Next]_vars => TypeOK'
  BY StepTyped
<1>. QED
  BY <1>1, InitTyped, PTL DEF Spec

-----------------------------------------------------------------------------
(* The turns in work form a queue: each waits for the one before it, the     *)
(* first executes and turnWork is the last.                                  *)

\* Turns that were the first of the queue when they went on, and still are.
HeadLabels == AtWork \cup {"ended"}
Heads == {t \in Turns : pc[t] \in HeadLabels}

Queue ==
  /\ \A t \in Turns : awaits[t] \in InWork \cup {NoTurn}
  /\ \A t \in Turns \ InWork : awaits[t] = NoTurn
  /\ \A t, u \in InWork : awaits[t] = awaits[u] => t = u
  /\ \A S \in SUBSET InWork : S # {} => \E t \in S : awaits[t] \notin S
  /\ turnWork = NoTurn => InWork = {}
  /\ turnWork # NoTurn => turnWork \in InWork /\ \A t \in Turns : awaits[t] # turnWork
  /\ \A t \in Heads : awaits[t] = NoTurn
  /\ \A t \in InWork : currentTurn = t => turnWork = t

Host ==
  /\ ~isRunning => currentTurn = NoTurn
  /\ compacting => isRunning /\ currentTurn = NoTurn /\ turnWork = NoTurn

Inv == TypeOK /\ Queue /\ Host

\* A step that moves no turn in or out of work.
Quiet ==
  /\ awaits' = awaits /\ turnWork' = turnWork
  /\ currentTurn' \in {currentTurn, NoTurn}
  /\ InWork' = InWork
  /\ \A t \in Heads' : t \in Heads \/ awaits[t] = NoTurn

LEMMA QuietKeepsQueue ==
  ASSUME Queue, Quiet
  PROVE  Queue'
<1>1. InWork \subseteq Turns /\ NoTurn \notin Turns /\ Heads' \subseteq Turns
  BY NamesAreDistinct DEF InWork, Heads
<1>2. awaits' = awaits /\ turnWork' = turnWork /\ InWork' = InWork
  BY DEF Quiet
<1>3. \A t \in Heads' : awaits[t] = NoTurn
  BY DEF Quiet, Queue
<1>4. \A t \in InWork : currentTurn' = t => turnWork = t
  BY <1>1 DEF Quiet, Queue
<1>. QED
  BY <1>1, <1>2, <1>3, <1>4 DEF Queue

\* Who moves on in its work, or outside of it.
LEMMA Moves ==
  ASSUME TypeOK, NEW t \in Turns, NEW l \in Labels, Goto(t, l)
  PROVE  /\ (l \in OutOfWork <=> pc[t] \in OutOfWork) => InWork' = InWork
         /\ \A u \in Heads' : u \in Heads \/ (u = t /\ l \in HeadLabels)
         /\ l \in OutOfWork => InWork' = InWork \ {t}
         /\ l \notin OutOfWork => InWork' = InWork \cup {t}
BY DEF TypeOK, TurnTyped, Goto, InWork, Heads

LEMMA Rests ==
  ASSUME UNCHANGED pc
  PROVE  InWork' = InWork /\ Heads' = Heads
BY DEF InWork, Heads

\* The turn that is last and waits for nobody is alone.
LEMMA LastAndFirst ==
  ASSUME TypeOK, Queue, NEW t \in InWork, awaits[t] = NoTurn, turnWork = t
  PROVE  InWork = {t}
<1>. SUFFICES ASSUME InWork # {t} PROVE FALSE
  OBVIOUS
<1>. DEFINE S == InWork \ {t}
<1>1. S # {} /\ S \in SUBSET InWork
  OBVIOUS
<1>2. PICK u \in S : awaits[u] \notin S
  BY <1>1 DEF Queue
<1>3. u \in Turns /\ t \in Turns /\ u \in InWork /\ u # t
  BY <1>2 DEF InWork
<1>4. awaits[u] \in {NoTurn, t}
  BY <1>2, <1>3 DEF Queue
<1>5. awaits[u] # t
  BY <1>3, NamesAreDistinct DEF Queue
<1>6. awaits[u] # NoTurn
  BY <1>3 DEF Queue
<1>. QED
  BY <1>4, <1>5, <1>6

\* A turn that is reserved queues up behind the last one.
LEMMA ReserveKeepsQueue ==
  ASSUME TypeOK, Queue, NEW t \in Turns, pc[t] \in OutOfWork, Reserve(t)
  PROVE  Queue'
<1>1. t \notin InWork /\ t # NoTurn
  BY NamesAreDistinct DEF InWork
<1>2. /\ InWork' = InWork \cup {t}
      /\ \A u \in Heads' : u \in Heads
  <2>1. "queued" \in Labels /\ "queued" \notin OutOfWork /\ "queued" \notin HeadLabels
    BY DEF Labels, OutOfWork, HeadLabels, AtWork
  <2>. QED
    BY <2>1, Moves DEF Reserve
<1>3. /\ awaits' = [awaits EXCEPT ![t] = turnWork]
      /\ turnWork' = t /\ currentTurn' = t
      /\ awaits \in [Turns -> Turns \cup {NoTurn}]
  BY DEF Reserve, TypeOK, TurnTyped
<1>4. /\ awaits'[t] = turnWork
      /\ \A u \in Turns \ {t} : awaits'[u] = awaits[u]
  BY <1>3
<1>5. InWork \subseteq Turns /\ Heads \subseteq InWork /\ turnWork # t
  BY <1>1 DEF InWork, Heads, Queue, OutOfWork, HeadLabels, AtWork
<1>6. \A u \in Turns : awaits'[u] \in InWork' \cup {NoTurn}
  BY <1>1, <1>2, <1>4 DEF Queue
<1>7. \A u \in Turns \ InWork' : awaits'[u] = NoTurn
  BY <1>1, <1>2, <1>4 DEF Queue
<1>8. \A u, v \in InWork' : awaits'[u] = awaits'[v] => u = v
  <2>1. \A u \in InWork : awaits[u] # turnWork
    BY <1>5 DEF Queue
  <2>. QED
    BY <1>1, <1>2, <1>4, <1>5, <2>1 DEF Queue
<1>9. ASSUME NEW S \in SUBSET InWork', S # {}
      PROVE  \E u \in S : awaits'[u] \notin S
  <2>1. CASE S = {t}
    BY <1>4, <1>5, <2>1
  <2>2. CASE S # {t}
    <3>1. S \ {t} \in SUBSET InWork /\ S \ {t} # {}
      BY <1>2, <1>9, <2>2
    <3>2. PICK u \in S \ {t} : awaits[u] \notin S \ {t}
      BY <3>1 DEF Queue
    <3>3. awaits[u] # t /\ awaits'[u] = awaits[u]
      BY <1>1, <1>2, <1>4, <1>5, <3>1, <3>2 DEF Queue
    <3>. QED
      BY <3>2, <3>3
  <2>. QED
    BY <2>1, <2>2
<1>10. turnWork' \in InWork' /\ \A u \in Turns : awaits'[u] # turnWork'
  BY <1>1, <1>2, <1>3, <1>4, <1>5 DEF Queue
<1>11. \A u \in Heads' : awaits'[u] = NoTurn
  BY <1>1, <1>2, <1>4, <1>5 DEF Queue
<1>. QED
  BY <1>1, <1>3, <1>6, <1>7, <1>8, <1>9, <1>10, <1>11 DEF Queue

\* The first of the queue leaves it; the one that waits for it is the next.
LEMMA FinishKeepsQueue ==
  ASSUME TypeOK, Queue, NEW t \in Turns, Finish(t)
  PROVE  Queue'
<1>1. /\ pc[t] = "finishing" /\ awaits[t] = NoTurn
      /\ pc' = [pc EXCEPT ![t] = "idle"]
      /\ awaits' = [x \in Turns |-> IF awaits[x] = t THEN NoTurn ELSE awaits[x]]
  BY DEF Finish, MayFinish, Resolve
<1>2. t \in InWork /\ t # NoTurn
  BY <1>1, NamesAreDistinct DEF InWork, OutOfWork
<1>3. InWork' = InWork \ {t} /\ \A u \in Heads' : u \in Heads
  <2>1. "idle" \in Labels /\ "idle" \in OutOfWork /\ "idle" \notin HeadLabels
    BY DEF Labels, OutOfWork, HeadLabels, AtWork
  <2>. QED
    BY <1>1, <2>1, Moves DEF Goto
<1>4. InWork \subseteq Turns /\ Heads \subseteq Turns /\ NoTurn \notin Turns
  BY NamesAreDistinct DEF InWork, Heads
<1>5. currentTurn' = currentTurn
  BY DEF Finish, thread
<1>6. CASE turnWork = t
  <2>1. InWork = {t}
    BY <1>1, <1>2, <1>6, LastAndFirst
  <2>2. InWork' = {} /\ turnWork' = NoTurn
    BY <1>3, <1>6, <2>1 DEF Finish
  <2>3. \A u \in Turns : awaits'[u] = NoTurn
    BY <1>1, <2>1 DEF Queue
  <2>. QED
    BY <1>3, <1>4, <2>2, <2>3 DEF Queue
<1>7. CASE turnWork # t
  <2>1. turnWork' = turnWork
    BY <1>7 DEF Finish, thread
  <2>2. turnWork \in InWork /\ turnWork # NoTurn
    BY <1>2 DEF Queue
  <2>3. \A u \in Turns : /\ awaits'[u] \in {awaits[u], NoTurn}
                         /\ awaits'[u] # t
                         /\ awaits'[u] = awaits[u] \/ awaits[u] = t
    BY <1>1, <1>2
  <2>4. \A u \in Turns : awaits'[u] \in InWork' \cup {NoTurn}
    BY <1>3, <2>3 DEF Queue
  <2>5. \A u \in Turns \ InWork' : awaits'[u] = NoTurn
    BY <1>1, <1>3, <2>3 DEF Queue
  <2>6. \A u, v \in InWork' : awaits'[u] = awaits'[v] => u = v
    <3>1. \A u \in InWork' : awaits[u] # NoTurn
      BY <1>1, <1>2, <1>3 DEF Queue
    <3>. QED
      BY <1>3, <1>4, <2>3, <3>1 DEF Queue
  <2>7. ASSUME NEW S \in SUBSET InWork', S # {}
        PROVE  \E u \in S : awaits'[u] \notin S
    <3>1. S \in SUBSET InWork
      BY <1>3
    <3>2. PICK u \in S : awaits[u] \notin S
      BY <2>7, <3>1 DEF Queue
    <3>. QED
      BY <1>4, <2>3, <3>1, <3>2
  <2>8. \A u \in Turns : awaits'[u] # turnWork
    BY <2>2, <2>3 DEF Queue
  <2>9. \A u \in Heads' : awaits'[u] = NoTurn
    BY <1>3, <1>4, <2>3 DEF Queue
  <2>10. \A u \in InWork' : currentTurn' = u => turnWork' = u
    BY <1>3, <1>5, <2>1 DEF Queue
  <2>. QED
    BY <1>3, <1>7, <2>1, <2>2, <2>4, <2>5, <2>6, <2>7, <2>8, <2>9, <2>10 DEF Queue
<1>. QED
  BY <1>6, <1>7

\* A prompt is blocked only while its turn is the only one in work.
LEMMA HooksBlockKeepsQueue ==
  ASSUME TypeOK, Queue, NEW u \in Users, HooksBlock(u)
  PROVE  Queue'
<1>1. /\ u \in Turns /\ pc[u] = "hooks" /\ currentTurn = u
      /\ currentTurn' = NoTurn /\ turnWork' = NoTurn
      /\ awaits' = awaits /\ Goto(u, "blocked")
  BY DEF HooksBlock, Turns
<1>2. u \in InWork /\ u \in Heads
  BY <1>1 DEF InWork, Heads, OutOfWork, HeadLabels, AtWork
<1>3. turnWork = u /\ awaits[u] = NoTurn
  BY <1>1, <1>2 DEF Queue
<1>4. InWork = {u}
  BY <1>2, <1>3, LastAndFirst
<1>5. InWork' = {} /\ \A t \in Heads' : t \in Heads
  <2>1. "blocked" \in Labels /\ "blocked" \in OutOfWork /\ "blocked" \notin HeadLabels
    BY DEF Labels, OutOfWork, HeadLabels, AtWork
  <2>. QED
    BY <1>1, <1>4, <2>1, Moves
<1>6. \A t \in Turns : awaits[t] = NoTurn
  BY <1>1, <1>3, <1>4, NamesAreDistinct DEF Queue
<1>7. Heads \subseteq Turns
  BY DEF Heads
<1>. QED
  BY <1>1, <1>5, <1>6, <1>7 DEF Queue

-----------------------------------------------------------------------------
(* Every step keeps the queue, and who is busy with what *)

\* The thread stays as it is, or the turn it is busy with gives it up.
Frees ==
  /\ compacting' = compacting
  /\ UNCHANGED thread \/ (currentTurn \in Turns /\ ResetTurn)

LEMMA FreesKeepsHost ==
  ASSUME Inv, Frees
  PROVE  Host' /\ turnWork' = turnWork /\ currentTurn' \in {currentTurn, NoTurn}
<1>1. CASE UNCHANGED thread
  BY <1>1 DEF Inv, Host, Frees, thread
<1>2. CASE currentTurn \in Turns /\ ResetTurn
  BY <1>2, NamesAreDistinct DEF Inv, Host, Frees, ResetTurn
<1>. QED
  BY <1>1, <1>2 DEF Frees

LEMMA WorkStep ==
  ASSUME Inv, NEW t \in Turns, NEW l \in Labels \ OutOfWork, Goto(t, l),
         pc[t] \notin OutOfWork, l \in HeadLabels => awaits[t] = NoTurn,
         awaits' = awaits, Frees
  PROVE  Queue' /\ Host'
<1>1. Quiet
  BY Moves, FreesKeepsHost DEF Quiet, Inv
<1>. QED
  BY <1>1, QuietKeepsQueue, FreesKeepsHost DEF Inv

LEMMA OutsideStep ==
  ASSUME Inv, NEW t \in Turns, NEW l \in OutOfWork, Goto(t, l),
         pc[t] \in OutOfWork, awaits' = awaits, Frees
  PROVE  Queue' /\ Host'
<1>1. l \in Labels /\ l \notin HeadLabels
  BY DEF Labels, OutOfWork, HeadLabels, AtWork
<1>2. Quiet
  BY <1>1, Moves, FreesKeepsHost DEF Quiet, Inv
<1>. QED
  BY <1>2, QuietKeepsQueue, FreesKeepsHost DEF Inv

LEMMA RestStep ==
  ASSUME Inv, UNCHANGED pc, awaits' = awaits, Frees
  PROVE  Queue' /\ Host'
<1>1. Quiet
  BY Rests, FreesKeepsHost DEF Quiet
<1>. QED
  BY <1>1, QuietKeepsQueue, FreesKeepsHost DEF Inv

LEMMA ReserveStep ==
  ASSUME Inv, NEW t \in Turns, pc[t] \in OutOfWork, ~isRunning, Reserve(t),
         compacting' = compacting
  PROVE  Queue' /\ Host'
<1>1. Queue'
  BY ReserveKeepsQueue DEF Inv
<1>2. Host'
  BY DEF Inv, Host, Reserve
<1>. QED
  BY <1>1, <1>2

LEMMA ReserveOrRejectStep ==
  ASSUME Inv, NEW t \in Turns, pc[t] \in OutOfWork, ReserveOrReject(t),
         compacting' = compacting
  PROVE  Queue' /\ Host'
<1>1. CASE isRunning
  <2>1. "idle" \in OutOfWork
    BY DEF OutOfWork
  <2>2. Goto(t, "idle") /\ awaits' = awaits /\ Frees
    BY <1>1 DEF ReserveOrReject, Frees
  <2>. QED
    BY <2>1, <2>2, OutsideStep
<1>2. CASE ~isRunning
  BY <1>2, ReserveStep DEF ReserveOrReject
<1>. QED
  BY <1>1, <1>2

LEMMA StartUserExclusive ==
  ASSUME Inv, NEW u \in Users, StartUser(u)
  PROVE  Queue' /\ Host'
<1>1. u \in Turns /\ pc[u] \in OutOfWork
  BY DEF StartUser, Turns, OutOfWork, Fresh
<1>2. "admitting" \in OutOfWork
  BY DEF OutOfWork
<1>3. Goto(u, "admitting") /\ awaits' = awaits /\ Frees
  BY DEF StartUser, Frees, host
<1>. QED
  BY <1>1, <1>2, <1>3, OutsideStep

LEMMA AdmitUserExclusive ==
  ASSUME Inv, NEW u \in Users, AdmitUser(u)
  PROVE  Queue' /\ Host'
<1>1. u \in Turns /\ pc[u] \in OutOfWork
  BY DEF AdmitUser, Turns, OutOfWork
<1>2. compacting' = compacting
  BY DEF AdmitUser, host
<1>3. CASE goalScope # NoTurn \/ goal = "active"
  <2>1. "interrupting" \in OutOfWork
    BY DEF OutOfWork
  <2>2. Goto(u, "interrupting") /\ awaits' = awaits /\ Frees
    BY <1>2, <1>3 DEF AdmitUser, Frees
  <2>. QED
    BY <1>1, <2>1, <2>2, OutsideStep
<1>4. CASE ~(goalScope # NoTurn \/ goal = "active")
  BY <1>1, <1>2, <1>4, ReserveOrRejectStep DEF AdmitUser
<1>. QED
  BY <1>3, <1>4

LEMMA TakeOverExclusive ==
  ASSUME Inv, NEW u \in Users, TakeOver(u)
  PROVE  Queue' /\ Host'
<1>1. u \in Turns /\ pc[u] \in OutOfWork
  BY DEF TakeOver, Turns, OutOfWork
<1>2. compacting' = compacting
  BY DEF TakeOver, host
<1>3. CASE Overthrows(u)
  <2>1. "retired" \in OutOfWork
    BY DEF OutOfWork
  <2>2. currentTurn \in Turns
    BY <1>3 DEF Inv, TypeOK, ThreadTyped, Overthrows
  <2>3. Goto(u, "retired") /\ awaits' = awaits /\ Frees
    BY <1>2, <1>3, <2>2 DEF TakeOver, Frees, Retire, ResetTurn
  <2>. QED
    BY <1>1, <2>1, <2>3, OutsideStep
<1>4. CASE ~Overthrows(u)
  BY <1>1, <1>2, <1>4, ReserveOrRejectStep DEF TakeOver
<1>. QED
  BY <1>3, <1>4

LEMMA AfterRetirementExclusive ==
  ASSUME Inv, NEW u \in Users, AfterRetirement(u)
  PROVE  Queue' /\ Host'
<1>1. u \in Turns /\ pc[u] \in OutOfWork
  BY DEF AfterRetirement, Turns, OutOfWork
<1>2. ReserveOrReject(u) /\ compacting' = compacting
  BY DEF AfterRetirement, host
<1>. QED
  BY <1>1, <1>2, ReserveOrRejectStep

LEMMA HooksPassExclusive ==
  ASSUME Inv, NEW u \in Users, HooksPass(u)
  PROVE  Queue' /\ Host'
<1>1. u \in Turns /\ pc[u] = "hooks"
  BY DEF HooksPass, Turns
<1>2. PICK l \in {"dropping", "beginning", "announcing"} : Goto(u, l)
  BY DEF HooksPass, Abandon, BeginRun
<1>3. l \in Labels \ OutOfWork /\ pc[u] \notin OutOfWork
  BY <1>1 DEF Labels, OutOfWork
<1>4. l \in HeadLabels => awaits[u] = NoTurn
  BY <1>1 DEF Inv, Queue, Heads, HeadLabels, AtWork
<1>5. awaits' = awaits /\ Frees
  BY <1>1 DEF HooksPass, Abandon, Current, BeginRun, Frees, host
<1>. QED
  BY <1>1, <1>2, <1>3, <1>4, <1>5, WorkStep

LEMMA HooksBlockExclusive ==
  ASSUME Inv, NEW u \in Users, HooksBlock(u)
  PROVE  Queue' /\ Host'
<1>1. Queue'
  BY HooksBlockKeepsQueue DEF Inv
<1>2. currentTurn # NoTurn /\ compacting' = compacting
  BY NamesAreDistinct DEF HooksBlock, host, Turns
<1>3. Host'
  BY <1>2 DEF HooksBlock, Inv, Host
<1>. QED
  BY <1>1, <1>3

LEMMA AnnouncedExclusive ==
  ASSUME Inv, NEW u \in Users, Announced(u)
  PROVE  Queue' /\ Host'
<1>1. u \in Turns /\ pc[u] = "announcing"
  BY DEF Announced, Turns
<1>2. PICK l \in {"running", "dropping"} : Goto(u, l)
  BY DEF Announced
<1>3. l \in Labels \ OutOfWork /\ pc[u] \notin OutOfWork
  BY <1>1 DEF Labels, OutOfWork
<1>4. l \in HeadLabels => awaits[u] = NoTurn
  BY <1>1 DEF Inv, Queue, Heads, HeadLabels, AtWork
<1>5. awaits' = awaits /\ Frees
  BY DEF Announced, Frees, host
<1>. QED
  BY <1>1, <1>2, <1>3, <1>4, <1>5, WorkStep

LEMMA ProposeExclusive ==
  ASSUME Inv, NEW u \in Users, Propose(u)
  PROVE  Queue' /\ Host'
<1>1. UNCHANGED pc /\ awaits' = awaits /\ Frees
  BY DEF Propose, Frees, turn, host
<1>. QED
  BY <1>1, RestStep

LEMMA CreateGoalExclusive ==
  ASSUME Inv, NEW u \in Users, CreateGoal(u)
  PROVE  Queue' /\ Host'
<1>1. u \in Turns /\ pc[u] = "ended"
  BY DEF CreateGoal, Turns, MayCreate
<1>2. Goto(u, "creating")
  BY DEF CreateGoal, MayCreate
<1>3. "creating" \in Labels \ OutOfWork /\ pc[u] \notin OutOfWork
  BY <1>1 DEF Labels, OutOfWork
<1>4. "creating" \in HeadLabels => awaits[u] = NoTurn
  BY DEF HeadLabels, AtWork
<1>5. awaits' = awaits /\ Frees
  BY DEF CreateGoal, Frees, host
<1>. QED
  BY <1>1, <1>2, <1>3, <1>4, <1>5, WorkStep

LEMMA CreatedExclusive ==
  ASSUME Inv, NEW u \in Users, Created(u)
  PROVE  Queue' /\ Host'
<1>1. u \in Turns /\ pc[u] = "creating"
  BY DEF Created, Turns
<1>2. Goto(u, "closing")
  BY DEF Created
<1>3. "closing" \in Labels \ OutOfWork /\ pc[u] \notin OutOfWork
  BY <1>1 DEF Labels, OutOfWork
<1>4. "closing" \in HeadLabels => awaits[u] = NoTurn
  BY DEF HeadLabels, AtWork
<1>5. awaits' = awaits /\ Frees
  BY DEF Created, Frees, host
<1>. QED
  BY <1>1, <1>2, <1>3, <1>4, <1>5, WorkStep

LEMMA UnblockExclusive ==
  ASSUME Inv, NEW u \in Users, Unblock(u)
  PROVE  Queue' /\ Host'
<1>1. u \in Turns /\ pc[u] \in OutOfWork
  BY DEF Unblock, Turns, OutOfWork
<1>2. u \notin InWork /\ u # NoTurn
  BY <1>1, NamesAreDistinct DEF InWork
<1>3. awaits' = awaits
  BY <1>2 DEF Unblock, Resolve, Inv, TypeOK, TurnTyped, Queue
<1>4. "idle" \in OutOfWork
  BY DEF OutOfWork
<1>5. Goto(u, "idle") /\ Frees
  BY DEF Unblock, Resolve, Goto, Frees, host
<1>. QED
  BY <1>1, <1>3, <1>4, <1>5, OutsideStep

LEMMA LeaveQueueExclusive ==
  ASSUME Inv, NEW t \in Turns, LeaveQueue(t)
  PROVE  Queue' /\ Host'
<1>1. pc[t] = "queued" /\ awaits' = awaits
  BY DEF LeaveQueue
<1>2. CASE ~Current(t)
  <2>1. Goto(t, "dropping") /\ Frees
    BY <1>2 DEF LeaveQueue, Abandon, Frees, host
  <2>2. /\ "dropping" \in Labels \ OutOfWork /\ "dropping" \notin HeadLabels
        /\ pc[t] \notin OutOfWork
    BY <1>1 DEF Labels, OutOfWork, HeadLabels, AtWork
  <2>. QED
    BY <1>1, <2>1, <2>2, WorkStep
<1>3. CASE Current(t)
  <2>1. PICK l \in {"joining", "hooks", "beginning", "dropping"} : Goto(t, l)
    BY <1>3 DEF LeaveQueue, GoesOn, BeginRun
  <2>2. l \in Labels \ OutOfWork /\ pc[t] \notin OutOfWork
    BY <1>1 DEF Labels, OutOfWork
  <2>3. awaits[t] = NoTurn
    BY <1>3 DEF LeaveQueue
  <2>4. Frees
    BY <1>3 DEF LeaveQueue, GoesOn, BeginRun, Current, Frees, host
  <2>. QED
    BY <1>1, <2>1, <2>2, <2>3, <2>4, WorkStep
<1>. QED
  BY <1>2, <1>3

LEMMA JoinRejectedExclusive ==
  ASSUME Inv, NEW t \in Turns, JoinRejected(t)
  PROVE  Queue' /\ Host'
<1>1. t \in Turns /\ pc[t] = "joining"
  BY DEF JoinRejected
<1>2. Goto(t, "dropping")
  BY DEF JoinRejected
<1>3. "dropping" \in Labels \ OutOfWork /\ pc[t] \notin OutOfWork
  BY <1>1 DEF Labels, OutOfWork
<1>4. "dropping" \in HeadLabels => awaits[t] = NoTurn
  BY DEF HeadLabels, AtWork
<1>5. awaits' = awaits /\ Frees
  BY <1>1 DEF JoinRejected, Current, Frees, host
<1>. QED
  BY <1>1, <1>2, <1>3, <1>4, <1>5, WorkStep

LEMMA JoinedExclusive ==
  ASSUME Inv, NEW t \in Turns, Joined(t)
  PROVE  Queue' /\ Host'
<1>1. t \in Turns /\ pc[t] = "joined"
  BY DEF Joined
<1>2. PICK l \in {"dropping", "hooks", "beginning"} : Goto(t, l)
  BY DEF Joined, Abandon, GoesOn, BeginRun
<1>3. l \in Labels \ OutOfWork /\ pc[t] \notin OutOfWork
  BY <1>1 DEF Labels, OutOfWork
<1>4. l \in HeadLabels => awaits[t] = NoTurn
  BY <1>1 DEF Inv, Queue, Heads, HeadLabels, AtWork
<1>5. awaits' = awaits /\ Frees
  BY <1>1 DEF Joined, Abandon, GoesOn, BeginRun, Current, Frees, host
<1>. QED
  BY <1>1, <1>2, <1>3, <1>4, <1>5, WorkStep

LEMMA BegunExclusive ==
  ASSUME Inv, NEW t \in Turns, Begun(t)
  PROVE  Queue' /\ Host'
<1>1. t \in Turns /\ pc[t] = "beginning"
  BY DEF Begun
<1>2. PICK l \in {"dropping", "announcing", "running"} : Goto(t, l)
  BY DEF Begun
<1>3. l \in Labels \ OutOfWork /\ pc[t] \notin OutOfWork
  BY <1>1 DEF Labels, OutOfWork
<1>4. l \in HeadLabels => awaits[t] = NoTurn
  BY <1>1 DEF Inv, Queue, Heads, HeadLabels, AtWork
<1>5. awaits' = awaits /\ Frees
  BY DEF Begun, Frees, host
<1>. QED
  BY <1>1, <1>2, <1>3, <1>4, <1>5, WorkStep

LEMMA ReportExclusive ==
  ASSUME Inv, NEW t \in Turns, Report(t)
  PROVE  Queue' /\ Host'
<1>1. UNCHANGED pc /\ awaits' = awaits /\ Frees
  BY DEF Report, Frees, turn, host
<1>. QED
  BY <1>1, RestStep

LEMMA SpawnExclusive ==
  ASSUME Inv, NEW t \in Turns, Spawn(t)
  PROVE  Queue' /\ Host'
<1>1. UNCHANGED pc /\ awaits' = awaits /\ Frees
  BY DEF Spawn, Frees, turn, host
<1>. QED
  BY <1>1, RestStep

LEMMA EndRunExclusive ==
  ASSUME Inv, NEW t \in Turns, EndRun(t)
  PROVE  Queue' /\ Host'
<1>1. t \in Turns /\ pc[t] = "running"
  BY DEF EndRun
<1>2. Goto(t, "ended")
  BY DEF EndRun
<1>3. "ended" \in Labels \ OutOfWork /\ pc[t] \notin OutOfWork
  BY <1>1 DEF Labels, OutOfWork
<1>4. "ended" \in HeadLabels => awaits[t] = NoTurn
  BY <1>1 DEF Inv, Queue, Heads, HeadLabels, AtWork
<1>5. awaits' = awaits /\ Frees
  BY <1>1 DEF EndRun, Goto, Frees, host
<1>. QED
  BY <1>1, <1>2, <1>3, <1>4, <1>5, WorkStep

LEMMA SettleBeginsExclusive ==
  ASSUME Inv, NEW t \in Turns, SettleBegins(t)
  PROVE  Queue' /\ Host'
<1>1. t \in Turns /\ pc[t] \in {"ended", "dropping"}
  BY DEF SettleBegins
<1>2. PICK l \in {"settling", "closing"} : Goto(t, l)
  BY DEF SettleBegins
<1>3. l \in Labels \ OutOfWork /\ pc[t] \notin OutOfWork
  BY <1>1 DEF Labels, OutOfWork
<1>4. l \in HeadLabels => awaits[t] = NoTurn
  BY DEF HeadLabels, AtWork
<1>5. awaits' = awaits /\ Frees
  BY DEF SettleBegins, Frees, host
<1>. QED
  BY <1>1, <1>2, <1>3, <1>4, <1>5, WorkStep

LEMMA SettleEndsExclusive ==
  ASSUME Inv, NEW t \in Turns, SettleEnds(t)
  PROVE  Queue' /\ Host'
<1>1. t \in Turns /\ pc[t] = "settling"
  BY DEF SettleEnds
<1>2. PICK l \in {"closing", "settled"} : Goto(t, l)
  BY DEF SettleEnds
<1>3. l \in Labels \ OutOfWork /\ pc[t] \notin OutOfWork
  BY <1>1 DEF Labels, OutOfWork
<1>4. l \in HeadLabels => awaits[t] = NoTurn
  BY DEF HeadLabels, AtWork
<1>5. awaits' = awaits /\ Frees
  BY DEF SettleEnds, Frees, host
<1>. QED
  BY <1>1, <1>2, <1>3, <1>4, <1>5, WorkStep

LEMMA SettledExclusive ==
  ASSUME Inv, NEW t \in Turns, Settled(t)
  PROVE  Queue' /\ Host'
<1>1. t \in Turns /\ pc[t] = "settled"
  BY DEF Settled
<1>2. Goto(t, "closing")
  BY DEF Settled
<1>3. "closing" \in Labels \ OutOfWork /\ pc[t] \notin OutOfWork
  BY <1>1 DEF Labels, OutOfWork
<1>4. "closing" \in HeadLabels => awaits[t] = NoTurn
  BY DEF HeadLabels, AtWork
<1>5. awaits' = awaits /\ Frees
  BY DEF Settled, Frees, host
<1>. QED
  BY <1>1, <1>2, <1>3, <1>4, <1>5, WorkStep

LEMMA CloseExclusive ==
  ASSUME Inv, NEW t \in Turns, Close(t)
  PROVE  Queue' /\ Host'
<1>1. t \in Turns /\ pc[t] \in {"closing", "ended", "dropping"}
  BY DEF Close
<1>2. Goto(t, "finishing")
  BY DEF Close
<1>3. "finishing" \in Labels \ OutOfWork /\ pc[t] \notin OutOfWork
  BY <1>1 DEF Labels, OutOfWork
<1>4. "finishing" \in HeadLabels => awaits[t] = NoTurn
  BY DEF HeadLabels, AtWork
<1>5. awaits' = awaits /\ Frees
  BY <1>1 DEF Close, Uncollected, Frees, host
<1>. QED
  BY <1>1, <1>2, <1>3, <1>4, <1>5, WorkStep

LEMMA FinishExclusive ==
  ASSUME Inv, NEW t \in Turns, Finish(t)
  PROVE  Queue' /\ Host'
<1>1. Queue'
  BY FinishKeepsQueue DEF Inv
<1>2. compacting' = compacting /\ t # NoTurn
  BY NamesAreDistinct DEF Finish, Resolve, host
<1>3. Host'
  BY <1>2 DEF Finish, Inv, Host, thread
<1>. QED
  BY <1>1, <1>3

LEMMA ChildFinishedExclusive ==
  ASSUME Inv, NEW c \in Children, ChildFinished(c)
  PROVE  Queue' /\ Host'
<1>1. awaits' = awaits /\ Frees
  BY DEF ChildFinished, Frees, host
<1>2. \A t \in Turns :
        pc'[t] = pc[t] \/ (pc[t] = "joining" /\ pc'[t] = "joined")
  BY DEF ChildFinished
<1>3. InWork' = InWork
  BY <1>2 DEF InWork, OutOfWork
<1>4. Heads' = Heads
  BY <1>2 DEF Heads, HeadLabels, AtWork
<1>5. Quiet
  BY <1>1, <1>3, <1>4, FreesKeepsHost DEF Quiet
<1>. QED
  BY <1>1, <1>5, QuietKeepsQueue, FreesKeepsHost DEF Inv

LEMMA UsageExclusive ==
  ASSUME Inv, Usage
  PROVE  Queue' /\ Host'
<1>1. UNCHANGED <<thread, turn, host>>
  BY DEF Usage, Overspend
<1>2. UNCHANGED pc /\ awaits' = awaits /\ Frees
  BY <1>1 DEF Frees, turn, host
<1>. QED
  BY <1>2, RestStep

LEMMA TimerFiresExclusive ==
  ASSUME Inv, TimerFires
  PROVE  Queue' /\ Host'
<1>1. UNCHANGED pc /\ awaits' = awaits /\ Frees
  BY DEF TimerFires, Frees, turn, host
<1>. QED
  BY <1>1, RestStep

LEMMA RefuseInternalExclusive ==
  ASSUME Inv, RefuseInternal
  PROVE  Queue' /\ Host'
<1>1. UNCHANGED pc /\ awaits' = awaits /\ Frees
  BY DEF RefuseInternal, Frees, turn, host
<1>. QED
  BY <1>1, RestStep

LEMMA TimerClearedExclusive ==
  ASSUME Inv, TimerCleared
  PROVE  Queue' /\ Host'
<1>1. UNCHANGED pc /\ awaits' = awaits /\ Frees
  BY DEF TimerCleared, Frees, turn, host
<1>. QED
  BY <1>1, RestStep

LEMMA AdmitInternalExclusive ==
  ASSUME Inv, NEW g \in Internals, AdmitInternal(g)
  PROVE  Queue' /\ Host'
<1>1. g \in Turns /\ pc[g] \in OutOfWork
  BY DEF AdmitInternal, Fresh, Turns, OutOfWork
<1>2. ~isRunning /\ Reserve(g) /\ compacting' = compacting
  BY DEF AdmitInternal, Admissible, host
<1>. QED
  BY <1>1, <1>2, ReserveStep

LEMMA InterruptExclusive ==
  ASSUME Inv, Interrupt
  PROVE  Queue' /\ Host'
<1>1. UNCHANGED pc /\ awaits' = awaits /\ Frees
  BY DEF Interrupt, Frees, turn, host
<1>. QED
  BY <1>1, RestStep

LEMMA InterruptedExclusive ==
  ASSUME Inv, Interrupted
  PROVE  Queue' /\ Host'
<1>1. UNCHANGED pc /\ awaits' = awaits /\ compacting' = compacting
  BY DEF Interrupted, host
<1>2. CASE Overthrows(Stop)
  <2>1. currentTurn \in Turns
    BY <1>2 DEF Inv, TypeOK, ThreadTyped, Overthrows
  <2>2. Frees
    BY <1>1, <1>2, <2>1 DEF Interrupted, Retire, ResetTurn, Frees
  <2>. QED
    BY <1>1, <2>2, RestStep
<1>3. CASE ~Overthrows(Stop)
  <2>1. Frees
    BY <1>1, <1>3 DEF Interrupted, Frees
  <2>. QED
    BY <1>1, <2>1, RestStep
<1>. QED
  BY <1>2, <1>3

LEMMA ChangeGoalExclusive ==
  ASSUME Inv, ChangeGoal
  PROVE  Queue' /\ Host'
<1>1. UNCHANGED pc /\ awaits' = awaits /\ Frees
  BY DEF ChangeGoal, Frees, turn, host
<1>. QED
  BY <1>1, RestStep

LEMMA ChangedExclusive ==
  ASSUME Inv, Changed
  PROVE  Queue' /\ Host'
<1>1. UNCHANGED pc /\ awaits' = awaits /\ Frees
  BY DEF Changed, Frees, turn, host
<1>. QED
  BY <1>1, RestStep

LEMMA StartCompactionExclusive ==
  ASSUME Inv, StartCompaction
  PROVE  Queue' /\ Host'
<1>1. Quiet
  BY Rests DEF StartCompaction, Quiet, turn
<1>2. Host'
  BY DEF StartCompaction, Inv, Host
<1>. QED
  BY <1>1, <1>2, QuietKeepsQueue DEF Inv

LEMMA EndCompactionExclusive ==
  ASSUME Inv, EndCompaction
  PROVE  Queue' /\ Host'
<1>1. Quiet
  BY Rests DEF EndCompaction, Quiet, turn
<1>2. Host'
  BY DEF EndCompaction, Inv, Host
<1>. QED
  BY <1>1, <1>2, QuietKeepsQueue DEF Inv

LEMMA DisconnectExclusive ==
  ASSUME Inv, Disconnect
  PROVE  Queue' /\ Host'
<1>1. UNCHANGED pc /\ awaits' = awaits /\ Frees
  BY DEF Disconnect, Frees, turn, host
<1>. QED
  BY <1>1, RestStep

LEMMA ConnectExclusive ==
  ASSUME Inv, Connect
  PROVE  Queue' /\ Host'
<1>1. UNCHANGED pc /\ awaits' = awaits /\ Frees
  BY DEF Connect, Frees, turn, host
<1>. QED
  BY <1>1, RestStep

LEMMA StepExclusive ==
  ASSUME Inv, [Next]_vars
  PROVE  Queue' /\ Host'
<1>1. ASSUME NEW u \in Users, UserStep(u) PROVE Queue' /\ Host'
  BY <1>1, StartUserExclusive, AdmitUserExclusive, TakeOverExclusive,
     AfterRetirementExclusive, HooksPassExclusive, HooksBlockExclusive,
     AnnouncedExclusive, ProposeExclusive, CreateGoalExclusive,
     CreatedExclusive, UnblockExclusive, Zenon DEF UserStep
<1>2. ASSUME NEW t \in Turns, TurnStep(t) PROVE Queue' /\ Host'
  BY <1>2, LeaveQueueExclusive, JoinRejectedExclusive, JoinedExclusive,
     BegunExclusive, ReportExclusive, SpawnExclusive, EndRunExclusive,
     SettleBeginsExclusive, SettleEndsExclusive, SettledExclusive,
     CloseExclusive, FinishExclusive, Zenon DEF TurnStep
<1>3. ASSUME TimerStep PROVE Queue' /\ Host'
  BY <1>3, TimerFiresExclusive, RefuseInternalExclusive,
     TimerClearedExclusive, AdmitInternalExclusive, Zenon DEF TimerStep
<1>4. ASSUME Request PROVE Queue' /\ Host'
  BY <1>4, InterruptExclusive, InterruptedExclusive, ChangeGoalExclusive,
     ChangedExclusive, StartCompactionExclusive, EndCompactionExclusive,
     DisconnectExclusive, ConnectExclusive, Zenon DEF Request
<1>5. ASSUME UNCHANGED vars PROVE Queue' /\ Host'
  <2>1. UNCHANGED pc /\ awaits' = awaits /\ Frees
    BY <1>5 DEF vars, turn, host, Frees
  <2>. QED
    BY <2>1, RestStep
<1>. QED
  BY <1>1, <1>2, <1>3, <1>4, <1>5, ChildFinishedExclusive, UsageExclusive, Zenon
     DEF Next

LEMMA InitExclusive == Init => Queue /\ Host
<1>. SUFFICES ASSUME Init PROVE Queue /\ Host
  OBVIOUS
<1>1. InWork = {} /\ Heads = {}
  BY DEF Init, InWork, Heads, OutOfWork, HeadLabels, AtWork
<1>2. Queue
  BY <1>1 DEF Init, Queue
<1>3. Host
  BY DEF Init, Host
<1>. QED
  BY <1>2, <1>3

LEMMA AlwaysInv == Spec => []Inv
<1>1. Init => Inv
  BY InitTyped, InitExclusive DEF Inv
<1>2. Inv /\ [Next]_vars => Inv'
  BY StepTyped, StepExclusive DEF Inv
<1>. QED
  BY <1>1, <1>2, PTL DEF Spec

\* However turns are started, stopped, replaced, queued and blocked, at most one
\* turn or compaction works on the session.
THEOREM SessionIsExclusive == Spec => []SessionExclusive
<1>1. Inv => SessionExclusive
  <2>. SUFFICES ASSUME Inv PROVE SessionExclusive
    OBVIOUS
  <2>1. Executing \subseteq Heads /\ Executing \subseteq InWork
    BY DEF Executing, Heads, InWork, OutOfWork, HeadLabels, AtWork
  <2>. QED
    BY <2>1 DEF Inv, Queue, Host, SessionExclusive
<1>. QED
  BY <1>1, AlwaysInv, PTL

\* A turn creates a goal only when nothing else works on the thread.
THEOREM CreationFindsQuiet == Spec => CreationIsQuiet
<1>1. ASSUME Inv, NEW u \in Users, CreateGoal(u)
      PROVE  InWork = {u} /\ ~compacting
  <2>1. pc[u] = "ended" /\ turnWork = u /\ u \in Turns
    BY <1>1 DEF CreateGoal, MayCreate, Turns
  <2>2. u \in InWork /\ u \in Heads
    BY <2>1 DEF InWork, Heads, OutOfWork, HeadLabels
  <2>3. awaits[u] = NoTurn /\ u # NoTurn
    BY <1>1, <2>1, <2>2, NamesAreDistinct DEF Inv, Queue
  <2>4. InWork = {u}
    BY <1>1, <2>1, <2>2, <2>3, LastAndFirst DEF Inv
  <2>5. ~compacting
    BY <1>1, <2>1, <2>3 DEF Inv, Host
  <2>. QED
    BY <2>4, <2>5
<1>2. Inv => [\A u \in Users : CreateGoal(u) => InWork = {u} /\ ~compacting]_vars
  BY <1>1
<1>. QED
  BY <1>2, AlwaysInv, PTL DEF CreationIsQuiet

-----------------------------------------------------------------------------
(* The epochs of the goal: whose run counts, and who is told to stop         *)

\* Where a turn can be whose run has, or had, a scope.
ScopeLabels == {"beginning", "announcing", "running", "ended", "settling", "settled",
                "closing", "dropping"}
LiveLabels == ScopeLabels \ {"settled", "closing"}
DoneLabels == {"ended", "settling", "settled", "creating", "closing"}
LinkedLabels == {"announcing", "running"}

\* The run that counts is live, and began while the goal was active.
RunIsLive ==
  activeRun # NoTurn =>
    /\ pc[activeRun] \in LiveLabels
    /\ awaits[activeRun] = NoTurn /\ era[activeRun] = "current"
    /\ \/ goal = "active" \/ pc[activeRun] = "settling"
       \/ goal = "complete" /\ pc[activeRun] \in {"running", "ended"}

\* A run has the present epoch only as long as it counts, until it is settled; it stops
\* when its epoch is over or its tokens are used up.
ErasFit ==
  \A t \in Turns :
    /\ era[t] # "none" => pc[t] \in ScopeLabels
    /\ era[t] = "current" /\ pc[t] \in LiveLabels => activeRun = t
    /\ pc[t] \in LinkedLabels /\ era[t] \notin {"none", "current"} => t \in aborted
    /\ exhausted = "tokens" /\ era[t] = "current" =>
         pc[t] # "beginning" /\ (pc[t] \in LinkedLabels => t \in aborted)

\* A goal is complete only without children, and those that come are of the run that is
\* still about to answer.
ChildrenFit ==
  goal = "complete" /\ activeRun # NoTurn => \A c \in Children : child[c] # "stale"

OutcomesFit ==
  \A t \in Turns :
    /\ outcome[t] # "interrupted" => pc[t] \in DoneLabels /\ t \in consuming
    /\ pc[t] = "running" => t \in consuming

Epochs == RunIsLive /\ ErasFit /\ ChildrenFit /\ OutcomesFit

LEMMA TheActiveIsFirst ==
  ASSUME Inv, Epochs, NEW t \in InWork, awaits[t] = NoTurn, activeRun # NoTurn
  PROVE  activeRun = t
BY DEF Inv, Queue, TypeOK, EpochTyped, Epochs, RunIsLive, LiveLabels, ScopeLabels, InWork,
   OutOfWork

LEMMA InvalidationFits ==
  ASSUME Inv, Epochs, NEW p \in {"stale", "old"}, InvalidateAs(p)
  PROVE  /\ activeRun' = NoTurn /\ aborted \subseteq aborted'
         /\ \A t \in Turns : era'[t] # "current" /\ (era'[t] = "none" <=> era[t] = "none")
         /\ \A t \in Turns : pc[t] \in LinkedLabels /\ era[t] # "none" => t \in aborted'
BY DEF Inv, TypeOK, EpochTyped, Eras, Epochs, ErasFit, InvalidateAs, Past, AbortScopes, Linked,
   LinkedLabels

\* Invalidation leaves no run that counts, whatever a turn does in the same step.
LEMMA InvalidatedStep ==
  ASSUME Inv, Epochs, NEW p \in {"stale", "old"}, InvalidateAs(p),
         UNCHANGED <<consuming, outcome>>,
         \A x \in Turns : \/ pc'[x] = pc[x]
                          \/ /\ pc'[x] \notin LinkedLabels
                             /\ era[x] = "none" \/ pc'[x] \in ScopeLabels
                             /\ outcome[x] = "interrupted" \/ pc'[x] \in DoneLabels
  PROVE  Epochs'
<1>1. RunIsLive' /\ ChildrenFit'
  BY InvalidationFits DEF RunIsLive, ChildrenFit
<1>2. ErasFit'
  BY InvalidationFits DEF Epochs, ErasFit
<1>3. OutcomesFit'
  BY DEF Epochs, OutcomesFit, LinkedLabels
<1>. QED
  BY <1>1, <1>2, <1>3 DEF Epochs

LEMMA UnscopedIsBare ==
  ASSUME Epochs, NEW t \in Turns, pc[t] \notin ScopeLabels \cup DoneLabels
  PROVE  era[t] = "none" /\ outcome[t] = "interrupted" /\ t # activeRun
BY NamesAreDistinct DEF Epochs, RunIsLive, ErasFit, OutcomesFit, LiveLabels

LEMMA Moved ==
  ASSUME Inv, NEW t \in Turns, NEW l, Goto(t, l)
  PROVE  pc'[t] = l /\ \A x \in Turns \ {t} : pc'[x] = pc[x]
BY DEF Goto, Inv, TypeOK, TurnTyped

\* A turn without a scope that goes on without one changes no epoch.
LEMMA UnscopedStep ==
  ASSUME Inv, Epochs, NEW t \in Turns, pc[t] \notin ScopeLabels \cup DoneLabels,
         NEW l \in Labels \ {"running"}, Goto(t, l),
         \A x \in Turns \ {t} : /\ awaits'[x] \in {awaits[x], NoTurn}
                                /\ x \in consuming' <=> x \in consuming
                                /\ x \in aborted => x \in aborted',
         UNCHANGED <<outcome, activeRun, era, child, status>>
  PROVE  Epochs'
<1>1. era[t] = "none" /\ outcome[t] = "interrupted" /\ t # activeRun
  BY UnscopedIsBare
<1>2. pc'[t] = l /\ \A x \in Turns : x # t => pc'[x] = pc[x]
  BY Moved
<1>3. activeRun \in Turns \cup {NoTurn}
  BY DEF Inv, TypeOK, EpochTyped
<1>4. RunIsLive' /\ ChildrenFit'
  BY <1>1, <1>2, <1>3, NamesAreDistinct DEF status, Epochs, RunIsLive, ChildrenFit
<1>5. ErasFit'
  BY <1>1, <1>2 DEF status, Epochs, ErasFit
<1>6. OutcomesFit'
  BY <1>1, <1>2 DEF Epochs, OutcomesFit
<1>. QED
  BY <1>4, <1>5, <1>6 DEF Epochs

LEMMA RestEpochs ==
  ASSUME Epochs, UNCHANGED <<pc, awaits, consuming, outcome, epoch, status>>
  PROVE  Epochs'
BY DEF epoch, status, Epochs, RunIsLive, ErasFit, ChildrenFit, OutcomesFit

\* A turn that is admitted: nobody knows it yet.
LEMMA ReserveEpochs ==
  ASSUME Inv, Epochs, NEW t \in Turns, pc[t] \in {"idle", "admitting", "interrupting",
        "retired"},
         \/ Reserve(t)
         \/ Goto(t, "idle") /\ awaits' = awaits /\ aborted \subseteq aborted'
         \/ Goto(t, "retired") /\ awaits' = awaits /\ aborted \subseteq aborted',
         UNCHANGED <<consuming, outcome, activeRun, era, child, status>>
  PROVE  Epochs'
<1>1. pc[t] \notin ScopeLabels \cup DoneLabels
  BY DEF ScopeLabels, DoneLabels
<1>2. PICK l \in {"queued", "idle", "retired"} : Goto(t, l)
  BY DEF Reserve
<1>3. l \in Labels \ {"running"}
  BY DEF Labels
<1>4. \A x \in Turns \ {t} : awaits'[x] = awaits[x] /\ (x \in aborted => x \in aborted')
  BY DEF Reserve, Inv, TypeOK, TurnTyped
<1>. QED
  BY <1>1, <1>2, <1>3, <1>4, UnscopedStep

LEMMA ProposeEpochs ==
  ASSUME Inv, Epochs, NEW u \in Users, Propose(u)
  PROVE  Epochs'
BY RestEpochs DEF Propose, turn

LEMMA TimerFiresEpochs ==
  ASSUME Inv, Epochs, TimerFires
  PROVE  Epochs'
BY RestEpochs DEF TimerFires, turn

LEMMA RefuseInternalEpochs ==
  ASSUME Inv, Epochs, RefuseInternal
  PROVE  Epochs'
BY RestEpochs DEF RefuseInternal, turn

LEMMA TimerClearedEpochs ==
  ASSUME Inv, Epochs, TimerCleared
  PROVE  Epochs'
BY RestEpochs DEF TimerCleared, turn

LEMMA ChangedEpochs ==
  ASSUME Inv, Epochs, Changed
  PROVE  Epochs'
BY RestEpochs DEF Changed, turn

LEMMA StartCompactionEpochs ==
  ASSUME Inv, Epochs, StartCompaction
  PROVE  Epochs'
BY RestEpochs DEF StartCompaction, turn

LEMMA EndCompactionEpochs ==
  ASSUME Inv, Epochs, EndCompaction
  PROVE  Epochs'
BY RestEpochs DEF EndCompaction, turn

LEMMA DisconnectEpochs ==
  ASSUME Inv, Epochs, Disconnect
  PROVE  Epochs'
BY RestEpochs DEF Disconnect, turn

LEMMA ConnectEpochs ==
  ASSUME Inv, Epochs, Connect
  PROVE  Epochs'
BY RestEpochs DEF Connect, turn

LEMMA StartUserEpochs ==
  ASSUME Inv, Epochs, NEW u \in Users, StartUser(u)
  PROVE  Epochs'
<1>1. u \in Turns /\ pc[u] \notin ScopeLabels \cup DoneLabels /\ Goto(u, "admitting")
  BY DEF StartUser, Fresh, Turns, ScopeLabels, DoneLabels
<1>2. "admitting" \in Labels \ {"running"}
  BY DEF Labels
<1>. QED
  BY <1>1, <1>2, UnscopedStep DEF StartUser, epoch

LEMMA TakeOverEpochs ==
  ASSUME Inv, Epochs, NEW u \in Users, TakeOver(u)
  PROVE  Epochs'
<1>1. u \in Turns /\ pc[u] = "interrupting"
  BY DEF TakeOver, Turns
<1>. QED
  BY <1>1, ReserveEpochs DEF TakeOver, ReserveOrReject, Retire, Retired

LEMMA AfterRetirementEpochs ==
  ASSUME Inv, Epochs, NEW u \in Users, AfterRetirement(u)
  PROVE  Epochs'
<1>1. u \in Turns /\ pc[u] = "retired"
  BY DEF AfterRetirement, Turns
<1>. QED
  BY <1>1, ReserveEpochs DEF AfterRetirement, ReserveOrReject

LEMMA AdmitUserEpochs ==
  ASSUME Inv, Epochs, NEW u \in Users, AdmitUser(u)
  PROVE  Epochs'
<1>1. u \in Turns /\ pc[u] = "admitting" /\ UNCHANGED <<consuming, outcome, status>>
  BY DEF AdmitUser, Turns
<1>2. CASE Goto(u, "interrupting")
  <2>1. UNCHANGED <<awaits>> /\ (Invalidate \/ KeepEpoch)
    BY <1>1, <1>2 DEF AdmitUser, ReserveOrReject, Reserve, Goto, Inv, TypeOK, TurnTyped
  <2>2. "interrupting" \in Labels \ {"running"} /\ pc[u] \notin ScopeLabels \cup DoneLabels
    BY <1>1 DEF Labels, ScopeLabels, DoneLabels
  <2>3. CASE KeepEpoch
    BY <1>1, <1>2, <2>1, <2>2, <2>3, UnscopedStep DEF KeepEpoch, epoch
  <2>4. CASE Invalidate
    BY <1>1, <1>2, <2>2, <2>4, InvalidatedStep, Moved, UnscopedIsBare
       DEF Invalidate, LinkedLabels
  <2>. QED
    BY <2>1, <2>3, <2>4
<1>3. CASE ~Goto(u, "interrupting")
  BY <1>1, <1>3, ReserveEpochs DEF AdmitUser, ReserveOrReject
<1>. QED
  BY <1>2, <1>3

LEMMA HooksBlockEpochs ==
  ASSUME Inv, Epochs, NEW u \in Users, HooksBlock(u)
  PROVE  Epochs'
<1>1. u \in Turns /\ pc[u] \notin ScopeLabels \cup DoneLabels /\ Goto(u, "blocked")
  BY DEF HooksBlock, Turns, ScopeLabels, DoneLabels
<1>2. "blocked" \in Labels \ {"running"}
  BY DEF Labels
<1>. QED
  BY <1>1, <1>2, UnscopedStep DEF HooksBlock, epoch

LEMMA JoinRejectedEpochs ==
  ASSUME Inv, Epochs, NEW t \in Turns, JoinRejected(t)
  PROVE  Epochs'
<1>1. pc[t] \notin ScopeLabels \cup DoneLabels /\ Goto(t, "dropping")
  BY DEF JoinRejected, ScopeLabels, DoneLabels
<1>2. "dropping" \in Labels \ {"running"}
  BY DEF Labels
<1>. QED
  BY <1>1, <1>2, UnscopedStep DEF JoinRejected

LEMMA AdmitInternalEpochs ==
  ASSUME Inv, Epochs, NEW g \in Internals, AdmitInternal(g)
  PROVE  Epochs'
<1>1. g \in Turns /\ pc[g] = "idle"
  BY DEF AdmitInternal, Fresh, Turns
<1>. QED
  BY <1>1, ReserveEpochs DEF AdmitInternal

LEMMA ResolveEpochs ==
  ASSUME Inv, Epochs, NEW t \in Turns, pc[t] \in {"blocked", "finishing"}, Resolve(t)
  PROVE  Epochs'
<1>1. pc[t] \notin ScopeLabels \cup DoneLabels /\ Goto(t, "idle")
  BY DEF Resolve, Goto, ScopeLabels, DoneLabels
<1>2. "idle" \in Labels \ {"running"}
  BY DEF Labels
<1>. QED
  BY <1>1, <1>2, UnscopedStep DEF Resolve

LEMMA UnblockEpochs ==
  ASSUME Inv, Epochs, NEW u \in Users, Unblock(u)
  PROVE  Epochs'
BY ResolveEpochs DEF Unblock, Turns

LEMMA FinishEpochs ==
  ASSUME Inv, Epochs, NEW t \in Turns, Finish(t)
  PROVE  Epochs'
BY ResolveEpochs DEF Finish, MayFinish

LEMMA BeginRunEpochs ==
  ASSUME Inv, Epochs, NEW t \in Turns, BeginRun(t), awaits[t] = NoTurn,
         pc[t] \in {"queued", "joined", "hooks"}, UNCHANGED <<awaits, consuming>>
  PROVE  Epochs'
<1>1. t \in InWork /\ era[t] = "none"
  BY DEF InWork, OutOfWork, Epochs, ErasFit, ScopeLabels
<1>2. activeRun = NoTurn
  BY <1>1, TheActiveIsFirst DEF Epochs, RunIsLive, LiveLabels, ScopeLabels
<1>3. PICK l \in {"beginning", "dropping"} : Goto(t, l)
  BY DEF BeginRun
<1>4. \A x \in Turns : x # t => pc'[x] = pc[x] /\ outcome'[x] = outcome[x]
  BY <1>3 DEF BeginRun, Goto, Inv, TypeOK, TurnTyped
<1>5. pc'[t] = l /\ outcome'[t] = outcome[t]
  BY <1>2, <1>3 DEF BeginRun, Goto, Inv, TypeOK, TurnTyped
<1>6. OutcomesFit'
  BY <1>4, <1>5 DEF Epochs, OutcomesFit, DoneLabels
<1>7. CASE UNCHANGED <<epoch, status>>
  BY <1>1, <1>2, <1>3, <1>4, <1>5, <1>6, <1>7 DEF epoch, status, Epochs, RunIsLive, ErasFit,
     ChildrenFit, ScopeLabels, LiveLabels, LinkedLabels
<1>8. CASE Limit
  <2>1. outcome' = outcome
    BY <1>2, <1>8 DEF BeginRun, Limit, Invalidate, InvalidateAs, status
  <2>2. pc'[t] \notin LinkedLabels /\ pc'[t] \in ScopeLabels
    BY <1>5 DEF LinkedLabels, ScopeLabels
  <2>3. outcome[t] = "interrupted"
    BY UnscopedIsBare DEF ScopeLabels, DoneLabels
  <2>. QED
    BY <1>1, <1>4, <1>5, <1>8, <2>1, <2>2, <2>3, InvalidatedStep DEF Limit, Invalidate
<1>9. CASE /\ activeRun' = t /\ era' = [era EXCEPT ![t] = "current"] /\ goal = "active"
           /\ exhausted' \in {"no", "turns"} /\ UNCHANGED <<child, aborted, goal>>
           /\ Goto(t, "beginning")
  <2>1. pc'[t] = "beginning"
    BY <1>9 DEF Goto, Inv, TypeOK, TurnTyped
  <2>2. era'[t] = "current" /\ \A x \in Turns : x # t => era'[x] = era[x]
    BY <1>9 DEF Inv, TypeOK, EpochTyped
  <2>3. RunIsLive' /\ ChildrenFit'
    BY <1>9, <2>1, <2>2, NamesAreDistinct DEF RunIsLive, ChildrenFit, LiveLabels, ScopeLabels
  <2>4. ErasFit'
    BY <1>2, <1>4, <1>9, <2>1, <2>2, NamesAreDistinct DEF Epochs, ErasFit, LiveLabels,
       ScopeLabels, LinkedLabels
  <2>. QED
    BY <1>6, <2>3, <2>4 DEF Epochs
<1>. QED
  BY <1>2, <1>7, <1>8, <1>9 DEF BeginRun

LEMMA HooksPassEpochs ==
  ASSUME Inv, Epochs, NEW u \in Users, HooksPass(u)
  PROVE  Epochs'
<1>1. u \in Turns /\ pc[u] = "hooks" /\ UNCHANGED <<awaits, consuming>>
  BY DEF HooksPass, Turns
<1>2. CASE BeginRun(u)
  <2>1. awaits[u] = NoTurn
    BY <1>1 DEF Inv, Queue, Heads, HeadLabels, AtWork
  <2>. QED
    BY <1>1, <1>2, <2>1, BeginRunEpochs
<1>3. CASE ~BeginRun(u)
  <2>1. PICK l \in {"dropping", "announcing"} : Goto(u, l)
    BY <1>1, <1>3 DEF HooksPass, Abandon
  <2>2. UNCHANGED <<outcome, epoch, status>>
    BY <1>1, <1>3 DEF HooksPass
  <2>. QED
    BY <1>1, <2>1, <2>2, UnscopedStep, LabelsTyped DEF ScopeLabels, DoneLabels, epoch
<1>. QED
  BY <1>2, <1>3

LEMMA LeaveQueueEpochs ==
  ASSUME Inv, Epochs, NEW t \in Turns, LeaveQueue(t)
  PROVE  Epochs'
<1>1. pc[t] = "queued" /\ UNCHANGED <<awaits, consuming>>
  BY DEF LeaveQueue
<1>2. CASE Current(t) /\ GoesOn(t) /\ t \in Internals
  <2>1. awaits[t] = NoTurn /\ BeginRun(t)
    BY <1>2 DEF LeaveQueue, GoesOn
  <2>. QED
    BY <1>1, <2>1, BeginRunEpochs
<1>3. CASE ~(Current(t) /\ GoesOn(t) /\ t \in Internals)
  <2>1. PICK l \in {"dropping", "joining", "hooks"} : Goto(t, l)
    BY <1>1, <1>3 DEF LeaveQueue, GoesOn, Abandon
  <2>2. UNCHANGED <<outcome, epoch, status>>
    BY <1>1, <1>3 DEF LeaveQueue, GoesOn
  <2>. QED
    BY <1>1, <2>1, <2>2, UnscopedStep, LabelsTyped DEF ScopeLabels, DoneLabels, epoch
<1>. QED
  BY <1>2, <1>3

LEMMA JoinedEpochs ==
  ASSUME Inv, Epochs, NEW t \in Turns, Joined(t)
  PROVE  Epochs'
<1>1. pc[t] = "joined" /\ UNCHANGED <<awaits, consuming>>
  BY DEF Joined
<1>2. CASE Current(t) /\ t \in Internals
  <2>1. awaits[t] = NoTurn
    BY <1>1 DEF Inv, Queue, Heads, HeadLabels, AtWork
  <2>2. BeginRun(t)
    BY <1>2 DEF Joined, GoesOn
  <2>. QED
    BY <1>1, <2>1, <2>2, BeginRunEpochs
<1>3. CASE ~(Current(t) /\ t \in Internals)
  <2>1. PICK l \in {"dropping", "hooks"} : Goto(t, l)
    BY <1>1, <1>3 DEF Joined, GoesOn, Abandon
  <2>2. UNCHANGED <<outcome, epoch, status>>
    BY <1>1, <1>3 DEF Joined, GoesOn
  <2>. QED
    BY <1>1, <2>1, <2>2, UnscopedStep, LabelsTyped DEF ScopeLabels, DoneLabels, epoch
<1>. QED
  BY <1>2, <1>3

LEMMA UsageEpochs ==
  ASSUME Inv, Epochs, Usage
  PROVE  Epochs'
<1>1. PICK e \in {"current", "stale"} :
        /\ Overspend(e)
        /\ (\E t \in Turns : Working(t) /\ era[t] = e) \/ (\E c \in Children : child[c] = e)
  BY DEF Usage, Overspend, OfTheGoal
<1>2. UNCHANGED <<pc, awaits, consuming, outcome>> /\ exhausted' = "tokens"
  BY <1>1 DEF Overspend, turn
<1>3. OutcomesFit'
  BY <1>2 DEF Epochs, OutcomesFit
<1>4. CASE goal = "active"
  <2>1. Invalidate /\ goal' = "limited"
    BY <1>1, <1>4 DEF Overspend, StillCompleting
  <2>. QED
    BY <1>2, <1>3, <2>1, InvalidationFits DEF Invalidate, Epochs, RunIsLive, ErasFit,
       ChildrenFit,
       ScopeLabels, LiveLabels, LinkedLabels
<1>5. CASE StillCompleting(e)
  <2>1. AbortScopes /\ UNCHANGED <<activeRun, era, child, goal>>
    BY <1>1, <1>5 DEF Overspend, StillCompleting
  <2>2. RunIsLive' /\ ChildrenFit'
    BY <1>2, <2>1 DEF Epochs, RunIsLive, ChildrenFit
  <2>3. pc[activeRun] # "beginning"
    BY <1>5 DEF StillCompleting, Epochs, RunIsLive
  <2>4. \A t \in Turns : era[t] = "current" => pc[t] # "beginning"
    BY <2>3 DEF Epochs, ErasFit, LiveLabels, ScopeLabels
  <2>5. aborted' = aborted \cup Linked
    BY <2>1 DEF AbortScopes
  <2>6. ErasFit'
    BY <1>2, <2>1, <2>4, <2>5 DEF Epochs, ErasFit, Linked, LinkedLabels, LiveLabels, ScopeLabels
  <2>. QED
    BY <1>3, <2>2, <2>6 DEF Epochs
<1>6. CASE goal # "active" /\ ~StillCompleting(e)
  <2>1. UNCHANGED <<epoch, goal>>
    BY <1>1, <1>6 DEF Overspend
  <2>2. RunIsLive' /\ ChildrenFit'
    BY <1>2, <2>1 DEF epoch, Epochs, RunIsLive, ChildrenFit
  <2>3. \A t \in Turns : era[t] = "current" /\ pc[t] \in LinkedLabels \cup {"beginning"} => FALSE
    <3>. SUFFICES ASSUME NEW t \in Turns, era[t] = "current",
          pc[t] \in LinkedLabels \cup {"beginning"}
                  PROVE  FALSE
      OBVIOUS
    <3>1. activeRun = t /\ t # NoTurn
      BY NamesAreDistinct DEF Epochs, ErasFit, LinkedLabels, LiveLabels, ScopeLabels
    <3>2. goal = "complete" /\ pc[t] = "running"
      BY <1>6, <3>1 DEF Epochs, RunIsLive, LinkedLabels
    <3>3. e = "stale"
      BY <1>6, <3>1, <3>2 DEF StillCompleting
    <3>4. PICK x \in Turns : Working(x) /\ era[x] = "stale"
      BY <1>1, <3>1, <3>2, <3>3 DEF Epochs, ChildrenFit
    <3>5. x \in InWork /\ awaits[x] = NoTurn
      BY <3>4 DEF Working, InWork, OutOfWork, Inv, Queue, Heads, HeadLabels, AtWork
    <3>. QED
      BY <3>1, <3>4, <3>5, TheActiveIsFirst
  <2>4. ErasFit'
    BY <1>2, <2>1, <2>3 DEF epoch, Epochs, ErasFit, LinkedLabels, LiveLabels, ScopeLabels
  <2>. QED
    BY <1>3, <2>2, <2>4 DEF Epochs
<1>. QED
  BY <1>4, <1>5, <1>6

LEMMA CreateGoalEpochs ==
  ASSUME Inv, Epochs, NEW u \in Users, CreateGoal(u)
  PROVE  Epochs'
<1>1. u \in Turns /\ era[u] = "none" /\ Goto(u, "creating") /\ InvalidateAs("old")
  BY DEF CreateGoal, MayCreate, NewGoal, Turns
<1>2. "creating" \notin LinkedLabels /\ "creating" \in DoneLabels
  BY DEF LinkedLabels, DoneLabels
<1>. QED
  BY <1>1, <1>2, InvalidatedStep, Moved DEF CreateGoal

LEMMA CreatedEpochs ==
  ASSUME Inv, Epochs, NEW u \in Users, Created(u)
  PROVE  Epochs'
<1>1. u \in Turns /\ pc[u] = "creating" /\ Goto(u, "closing")
  BY DEF Created, Turns
<1>2. pc'[u] = "closing" /\ \A x \in Turns \ {u} : pc'[x] = pc[x]
  BY <1>1, Moved
<1>3. era[u] = "none" /\ activeRun # u
  BY <1>1, NamesAreDistinct DEF Epochs, RunIsLive, ErasFit, ScopeLabels, LiveLabels
<1>. QED
  BY <1>1, <1>2, <1>3 DEF Created, Inv, TypeOK, EpochTyped, epoch, status, Epochs, RunIsLive,
     ErasFit, ChildrenFit, OutcomesFit, ScopeLabels, LiveLabels, LinkedLabels, DoneLabels

LEMMA AnnouncedEpochs ==
  ASSUME Inv, Epochs, NEW u \in Users, Announced(u)
  PROVE  Epochs'
<1>1. u \in Turns /\ pc[u] = "announcing" /\ outcome[u] = "interrupted"
  BY DEF Announced, Turns, Epochs, OutcomesFit, DoneLabels
<1>2. \/ Goto(u, "running") /\ consuming' = consuming \cup {u}
      \/ Goto(u, "dropping") /\ consuming' = consuming
  BY DEF Announced, Goto
<1>3. pc'[u] \in {"running", "dropping"} /\ \A x \in Turns \ {u} : pc'[x] = pc[x]
  BY <1>1, <1>2, Moved
<1>4. RunIsLive'
  BY <1>1, <1>3 DEF Announced, epoch, status, Epochs, RunIsLive, LiveLabels, ScopeLabels, Inv,
     TypeOK, EpochTyped
<1>5. ErasFit'
  BY <1>1, <1>3 DEF Announced, epoch, status, Epochs, ErasFit, LiveLabels, ScopeLabels,
     LinkedLabels
<1>6. OutcomesFit'
  BY <1>1, <1>2, <1>3, Moved DEF Announced, Epochs, OutcomesFit
<1>. QED
  BY <1>4, <1>5, <1>6 DEF Announced, epoch, status, Epochs, ChildrenFit

LEMMA BegunEpochs ==
  ASSUME Inv, Epochs, NEW t \in Turns, Begun(t)
  PROVE  Epochs'
<1>1. pc[t] = "beginning" /\ UNCHANGED <<awaits, outcome, activeRun, child, aborted, status>>
  BY DEF Begun
<1>2. PICK l \in {"dropping", "announcing", "running"} : Goto(t, l)
  BY DEF Begun
<1>3. pc'[t] = l /\ \A x \in Turns \ {t} : pc'[x] = pc[x]
  BY <1>2, Moved
<1>4. /\ era'[t] = IF IsCurrentRun(t) THEN era[t] ELSE "none"
      /\ \A x \in Turns \ {t} : era'[x] = era[x]
  BY DEF Begun, Inv, TypeOK, EpochTyped
<1>5. activeRun = t => goal = "active" /\ era[t] = "current"
  BY <1>1, NamesAreDistinct DEF Epochs, RunIsLive
<1>6. RunIsLive'
  BY <1>1, <1>3, <1>4, <1>5 DEF status, Epochs, RunIsLive, IsCurrentRun, LiveLabels,
     ScopeLabels,
     Inv, TypeOK, EpochTyped
<1>7. ErasFit'
  BY <1>1, <1>3, <1>4, <1>5 DEF status, Epochs, ErasFit, IsCurrentRun, LiveLabels, ScopeLabels,
     LinkedLabels
<1>8. ChildrenFit'
  BY <1>1 DEF status, Epochs, ChildrenFit
<1>9. \/ consuming' = consuming \cup ({t} \cap Internals)
      \/ l = "dropping" /\ consuming' = consuming
  BY <1>3 DEF Begun, Goto, Inv, TypeOK, TurnTyped
<1>10. l = "running" => t \in Internals
  BY <1>3 DEF Begun, Goto, Inv, TypeOK, TurnTyped, Turns
<1>11. OutcomesFit'
  BY <1>1, <1>3, <1>9, <1>10 DEF Epochs, OutcomesFit, DoneLabels
<1>. QED
  BY <1>6, <1>7, <1>8, <1>11 DEF Epochs

LEMMA ReportEpochs ==
  ASSUME Inv, Epochs, NEW t \in Turns, Report(t)
  PROVE  Epochs'
<1>1. UNCHANGED <<pc, awaits, consuming, outcome>>
  BY DEF Report, turn
<1>2. CASE Invalidate
  BY <1>1, <1>2, InvalidatedStep DEF Invalidate
<1>3. CASE goal' = "complete" /\ ~HasChildren /\ KeepEpoch
  <2>1. UNCHANGED epoch /\ exhausted' = exhausted /\ activeRun = t /\ pc[t] = "running"
    BY <1>3 DEF KeepEpoch, Report, IsCurrentRun, Working
  <2>2. RunIsLive'
    BY <1>1, <1>3, <2>1 DEF epoch, Epochs, RunIsLive
  <2>3. ErasFit' /\ OutcomesFit'
    BY <1>1, <2>1 DEF epoch, Epochs, ErasFit, OutcomesFit
  <2>4. ChildrenFit'
    BY <1>3, <2>1 DEF epoch, HasChildren, ChildrenFit
  <2>. QED
    BY <2>2, <2>3, <2>4 DEF Epochs
<1>. QED
  BY <1>2, <1>3 DEF Report

LEMMA SpawnEpochs ==
  ASSUME Inv, Epochs, NEW t \in Turns, Spawn(t)
  PROVE  Epochs'
<1>1. UNCHANGED <<turn, activeRun, era, aborted, status>>
  BY DEF Spawn
<1>2. RunIsLive' /\ ErasFit' /\ OutcomesFit'
  BY <1>1 DEF turn, status, Epochs, RunIsLive, ErasFit, OutcomesFit
<1>3. ASSUME activeRun # NoTurn PROVE era[t] # "stale"
  <2>1. pc[t] = "running" /\ era[t] # "none" /\ t \notin aborted
    BY DEF Spawn, Working
  <2>2. t \in InWork /\ awaits[t] = NoTurn
    BY <2>1 DEF InWork, OutOfWork, Inv, Queue, Heads, HeadLabels, AtWork
  <2>3. activeRun = t
    BY <1>3, <2>2, TheActiveIsFirst
  <2>. QED
    BY <1>3, <2>3 DEF Epochs, RunIsLive
<1>4. ChildrenFit'
  BY <1>1, <1>3 DEF Spawn, status, Epochs, ChildrenFit, Inv, TypeOK, EpochTyped
<1>. QED
  BY <1>2, <1>4 DEF Epochs

LEMMA EndRunEpochs ==
  ASSUME Inv, Epochs, NEW t \in Turns, EndRun(t)
  PROVE  Epochs'
<1>1. pc[t] = "running" /\ Goto(t, "ended") /\ UNCHANGED <<awaits, consuming, epoch, status>>
  BY DEF EndRun
<1>2. pc'[t] = "ended" /\ \A x \in Turns \ {t} : pc'[x] = pc[x] /\ outcome'[x] = outcome[x]
  BY <1>1, Moved DEF EndRun, Inv, TypeOK, TurnTyped
<1>3. RunIsLive' /\ ErasFit' /\ ChildrenFit'
  BY <1>1, <1>2 DEF epoch, status, Epochs, RunIsLive, ErasFit, ChildrenFit, ScopeLabels,
     LiveLabels,
     LinkedLabels, Inv, TypeOK, EpochTyped
<1>4. OutcomesFit'
  BY <1>1, <1>2 DEF Epochs, OutcomesFit, DoneLabels
<1>. QED
  BY <1>3, <1>4 DEF Epochs

LEMMA SettleBeginsEpochs ==
  ASSUME Inv, Epochs, NEW t \in Turns, SettleBegins(t)
  PROVE  Epochs'
<1>1. /\ pc[t] \in {"ended", "dropping"} /\ era[t] # "none"
      /\ UNCHANGED <<awaits, consuming, outcome, epoch, exhausted>>
  BY DEF SettleBegins
<1>2. CASE era[t] = "current" /\ activeRun = t
  <2>1. pc'[t] = "settling" /\ \A x \in Turns \ {t} : pc'[x] = pc[x]
    BY <1>2, Moved DEF SettleBegins
  <2>2. goal' \in {goal, "blocked"}
    BY <1>2 DEF SettleBegins
  <2>3. RunIsLive' /\ ChildrenFit'
    BY <1>1, <1>2, <2>1, <2>2 DEF epoch, Epochs, RunIsLive, ChildrenFit, ScopeLabels, LiveLabels
  <2>4. ErasFit' /\ OutcomesFit'
    BY <1>1, <1>2, <2>1 DEF epoch, Epochs, ErasFit, OutcomesFit, ScopeLabels, LiveLabels,
       LinkedLabels, DoneLabels
  <2>. QED
    BY <2>3, <2>4 DEF Epochs
<1>3. CASE ~(era[t] = "current" /\ activeRun = t)
  <2>1. pc'[t] = "closing" /\ (\A x \in Turns \ {t} : pc'[x] = pc[x]) /\ goal' = goal
    BY <1>3, Moved DEF SettleBegins
  <2>2. activeRun # t
    BY <1>3, NamesAreDistinct DEF Epochs, RunIsLive
  <2>3. RunIsLive' /\ ChildrenFit'
    BY <1>1, <2>1, <2>2 DEF epoch, Epochs, RunIsLive, ChildrenFit, Inv, TypeOK, EpochTyped
  <2>4. ErasFit' /\ OutcomesFit'
    BY <1>1, <2>1 DEF epoch, Epochs, ErasFit, OutcomesFit, ScopeLabels, LiveLabels,
       LinkedLabels, DoneLabels
  <2>. QED
    BY <2>3, <2>4 DEF Epochs
<1>. QED
  BY <1>2, <1>3

LEMMA SettleEndsEpochs ==
  ASSUME Inv, Epochs, NEW t \in Turns, SettleEnds(t)
  PROVE  Epochs'
<1>1. pc[t] = "settling" /\ UNCHANGED <<awaits, consuming, outcome, exhausted>>
  BY DEF SettleEnds
<1>2. PICK l \in {"closing", "settled"} : Goto(t, l)
  BY DEF SettleEnds
<1>3. pc'[t] = l /\ \A x \in Turns \ {t} : pc'[x] = pc[x]
  BY <1>2, Moved
<1>4. l \in ScopeLabels \cap DoneLabels /\ l \notin LinkedLabels
  BY DEF ScopeLabels, DoneLabels, LinkedLabels
<1>5. CASE Invalidate
  BY <1>1, <1>3, <1>4, <1>5, InvalidatedStep DEF Invalidate
<1>6. CASE ~Invalidate
  <2>1. ForgetRun(t) /\ UNCHANGED <<era, child, aborted, goal>>
    BY <1>6 DEF SettleEnds, IsCurrentRun
  <2>2. activeRun' # NoTurn => activeRun' = activeRun /\ activeRun # t
    BY <2>1 DEF ForgetRun
  <2>3. RunIsLive' /\ ChildrenFit'
    BY <1>1, <1>3, <2>1, <2>2 DEF Epochs, RunIsLive, ChildrenFit, Inv, TypeOK, EpochTyped
  <2>4. ErasFit' /\ OutcomesFit'
    BY <1>1, <1>3, <1>4, <2>1 DEF Epochs, ErasFit, OutcomesFit, ForgetRun, ScopeLabels,
       LiveLabels,
       LinkedLabels
  <2>. QED
    BY <2>3, <2>4 DEF Epochs
<1>. QED
  BY <1>5, <1>6

LEMMA SettledEpochs ==
  ASSUME Inv, Epochs, NEW t \in Turns, Settled(t)
  PROVE  Epochs'
<1>1. /\ pc[t] = "settled" /\ Goto(t, "closing")
      /\ UNCHANGED <<awaits, consuming, outcome>>
  BY DEF Settled
<1>2. pc'[t] = "closing" /\ \A x \in Turns \ {t} : pc'[x] = pc[x]
  BY <1>1, Moved
<1>3. "closing" \in ScopeLabels \cap DoneLabels /\ "closing" \notin LinkedLabels
  BY DEF ScopeLabels, DoneLabels, LinkedLabels
<1>4. CASE Limit
  BY <1>1, <1>2, <1>3, <1>4, InvalidatedStep DEF Limit, Invalidate
<1>5. CASE UNCHANGED <<epoch, status>>
  <2>1. activeRun # t
    BY <1>1, NamesAreDistinct DEF Epochs, RunIsLive, LiveLabels, ScopeLabels
  <2>2. RunIsLive' /\ ChildrenFit'
    BY <1>1, <1>2, <1>5, <2>1 DEF epoch, status, Epochs, RunIsLive, ChildrenFit, Inv, TypeOK,
       EpochTyped
  <2>3. ErasFit' /\ OutcomesFit'
    BY <1>1, <1>2, <1>3, <1>5 DEF epoch, status, Epochs, ErasFit, OutcomesFit, ScopeLabels,
       LiveLabels, LinkedLabels
  <2>. QED
    BY <2>2, <2>3 DEF Epochs
<1>. QED
  BY <1>4, <1>5 DEF Settled

LEMMA CloseEpochs ==
  ASSUME Inv, Epochs, NEW t \in Turns, Close(t)
  PROVE  Epochs'
<1>1. /\ pc[t] = "closing" \/ (pc[t] \in {"ended", "dropping"} /\ era[t] = "none")
      /\ Goto(t, "finishing")
      /\ UNCHANGED <<awaits, consuming, activeRun, child, aborted, status>>
  BY DEF Close
<1>2. pc'[t] = "finishing" /\ \A x \in Turns \ {t} : pc'[x] = pc[x]
  BY <1>1, Moved
<1>3. /\ era'[t] = "none" /\ outcome'[t] = "interrupted"
      /\ \A x \in Turns \ {t} : era'[x] = era[x] /\ outcome'[x] = outcome[x]
  BY DEF Close, Inv, TypeOK, TurnTyped, EpochTyped
<1>4. activeRun # t
  BY <1>1, NamesAreDistinct DEF Epochs, RunIsLive, LiveLabels, ScopeLabels
<1>5. RunIsLive' /\ ChildrenFit'
  BY <1>1, <1>2, <1>3, <1>4 DEF status, Epochs, RunIsLive, ChildrenFit, Inv, TypeOK, EpochTyped
<1>6. ErasFit' /\ OutcomesFit'
  BY <1>1, <1>2, <1>3 DEF status, Epochs, ErasFit, OutcomesFit
<1>. QED
  BY <1>5, <1>6 DEF Epochs

LEMMA ChildFinishedEpochs ==
  ASSUME Inv, Epochs, NEW c \in Children, ChildFinished(c)
  PROVE  Epochs'
<1>1. UNCHANGED <<awaits, consuming, outcome, activeRun, era, aborted, status>>
  BY DEF ChildFinished
<1>2. \A x \in Turns : pc'[x] = pc[x] \/ (pc[x] = "joining" /\ pc'[x] = "joined")
  BY DEF ChildFinished
<1>3. activeRun \in Turns \cup {NoTurn}
  BY DEF Inv, TypeOK, EpochTyped
<1>4. RunIsLive' /\ ErasFit' /\ OutcomesFit'
  BY <1>1, <1>2, <1>3 DEF status, Epochs, RunIsLive, ErasFit, OutcomesFit, LiveLabels,
     ScopeLabels,
     LinkedLabels, DoneLabels
<1>5. \A d \in Children : child'[d] \in {child[d], "none"}
  BY DEF ChildFinished, Inv, TypeOK, EpochTyped
<1>6. ChildrenFit'
  BY <1>1, <1>5 DEF status, Epochs, ChildrenFit
<1>. QED
  BY <1>4, <1>6 DEF Epochs

LEMMA InterruptEpochs ==
  ASSUME Inv, Epochs, Interrupt
  PROVE  Epochs'
<1>1. UNCHANGED <<pc, awaits, consuming, outcome>> /\ Pause
  BY DEF Interrupt
<1>. QED
  BY <1>1, InvalidatedStep, RestEpochs DEF Pause, Invalidate

LEMMA InterruptedEpochs ==
  ASSUME Inv, Epochs, Interrupted
  PROVE  Epochs'
<1>1. /\ UNCHANGED <<pc, awaits, consuming, outcome, activeRun, era, child, status>>
      /\ aborted \subseteq aborted'
  BY DEF Interrupted, Retire, Retired
<1>. QED
  BY <1>1 DEF status, Epochs, RunIsLive, ErasFit, ChildrenFit, OutcomesFit

LEMMA ChangeGoalEpochs ==
  ASSUME Inv, Epochs, ChangeGoal
  PROVE  Epochs'
<1>1. UNCHANGED <<pc, awaits, consuming, outcome>>
  BY DEF ChangeGoal, turn
<1>2. CASE EditGoal
  <2>1. UNCHANGED <<epoch, goal>> /\ goal \notin {"none", "complete", "active"}
    BY <1>2 DEF EditGoal, KeepEpoch
  <2>2. \A t \in Turns : era[t] = "current" => pc[t] \in {"settling", "settled", "closing"}
    BY <2>1, NamesAreDistinct DEF Epochs, RunIsLive, ErasFit, LiveLabels, ScopeLabels
  <2>3. RunIsLive' /\ ChildrenFit' /\ OutcomesFit'
    BY <1>1, <2>1 DEF epoch, Epochs, RunIsLive, ChildrenFit, OutcomesFit
  <2>4. ErasFit'
    BY <1>1, <2>1, <2>2 DEF epoch, Epochs, ErasFit, LinkedLabels
  <2>. QED
    BY <2>3, <2>4 DEF Epochs
<1>3. CASE ~EditGoal
  <2>1. \E p \in {"stale", "old"} : InvalidateAs(p)
    BY <1>3 DEF ChangeGoal, SetGoal, ResumeGoal, PauseGoal, ClearGoal, NewGoal, Pause,
       Invalidate
  <2>. QED
    BY <1>1, <2>1, InvalidatedStep
<1>. QED
  BY <1>2, <1>3

LEMMA StepEpochs ==
  ASSUME Inv, Epochs, [Next]_vars
  PROVE  Epochs'
<1>1. ASSUME NEW u \in Users, UserStep(u) PROVE Epochs'
  BY <1>1, StartUserEpochs, AdmitUserEpochs, TakeOverEpochs, AfterRetirementEpochs,
     HooksPassEpochs, HooksBlockEpochs, AnnouncedEpochs, ProposeEpochs, CreateGoalEpochs,
     CreatedEpochs, UnblockEpochs, Zenon DEF UserStep
<1>2. ASSUME NEW t \in Turns, TurnStep(t) PROVE Epochs'
  BY <1>2, LeaveQueueEpochs, JoinRejectedEpochs, JoinedEpochs, BegunEpochs, ReportEpochs,
     SpawnEpochs, EndRunEpochs, SettleBeginsEpochs, SettleEndsEpochs, SettledEpochs,
     CloseEpochs, FinishEpochs, Zenon DEF TurnStep
<1>3. ASSUME TimerStep PROVE Epochs'
  BY <1>3, TimerFiresEpochs, RefuseInternalEpochs, TimerClearedEpochs, AdmitInternalEpochs,
     Zenon DEF TimerStep
<1>4. ASSUME Request PROVE Epochs'
  BY <1>4, InterruptEpochs, InterruptedEpochs, ChangeGoalEpochs, ChangedEpochs,
     StartCompactionEpochs, EndCompactionEpochs, DisconnectEpochs, ConnectEpochs,
     Zenon DEF Request
<1>5. ASSUME UNCHANGED vars PROVE Epochs'
  BY <1>5, RestEpochs DEF vars, turn
<1>. QED
  BY <1>1, <1>2, <1>3, <1>4, <1>5, ChildFinishedEpochs, UsageEpochs, Zenon DEF Next

LEMMA InitEpochs == Init => Epochs
BY DEF Init, Epochs, RunIsLive, ErasFit, ChildrenFit, OutcomesFit, ScopeLabels

LEMMA AlwaysEpochs == Spec => []Epochs
<1>1. Inv /\ Epochs /\ [Next]_vars => Epochs'
  BY StepEpochs
<1>. QED
  BY <1>1, InitEpochs, AlwaysInv, PTL DEF Spec

\* The run the goal counts is always one of the turn that has the thread and is not settled,
\* however the goal is paused, edited, cleared, replaced and limited meanwhile.
THEOREM RunsThatCountAreLive == Spec => []ActiveRunIsLive
<1>1. Epochs => ActiveRunIsLive
  BY DEF Epochs, RunIsLive, OutcomesFit, ActiveRunIsLive, LiveLabels, ScopeLabels
<1>. QED
  BY <1>1, AlwaysEpochs, PTL

\* Whoever works for a goal that has given its run up, or has no tokens left, is told to stop.
THEOREM VainRunsStop == Spec => []VainRunsAreStopped
<1>1. Inv /\ Epochs => VainRunsAreStopped
  <2>. SUFFICES ASSUME Inv, Epochs PROVE VainRunsAreStopped
    OBVIOUS
  <2>1. \A t \in Turns : Working(t) => pc[t] \in LinkedLabels /\ era[t] # "none"
    BY DEF Working, LinkedLabels
  <2>2. StaleRunsAreStopped
    BY <2>1 DEF Epochs, ErasFit, StaleRunsAreStopped
  <2>3. TokensStopRuns
    BY <2>1 DEF Epochs, ErasFit, TokensStopRuns
  <2>. QED
    BY <2>2, <2>3 DEF VainRunsAreStopped
<1>. QED
  BY <1>1, AlwaysInv, AlwaysEpochs, PTL

-----------------------------------------------------------------------------
(* Whom an active goal waits for                                             *)

Early == {"queued", "joining", "joined", "hooks", "beginning"}
StartLabels == {"admitting", "interrupting", "retired"}
BegunLabels == {"beginning", "announcing", "running"}

\* A user's message is about to retire the turn.
Doomed(t) == \E u \in Users : victim[u] = t

\* The turn the thread is busy with has not ended, unless its user stopped it.
Serves(c) ==
  /\ pc[c] \notin OutOfWork \ {"idle"} /\ pc[c] # "ended"
  /\ c \in consuming => pc[c] = "running"
  /\ pc[c] \in Early => c \notin aborted
  /\ c \in Internals => pc[c] \notin {"finishing", "idle", "creating"}

\* While the goal is active, it works for it, unless another turn takes over.
ServesGoal(c) ==
  /\ victim[Stop] # c
  /\ pc[c] \in {"joining", "joined", "hooks"} => c \in withGoal
  /\ ~Doomed(c) =>
       /\ pc[c] = "announcing" => c \notin aborted
       /\ c \in Users => pc[c] \in AtWork \cup {"queued"}
       /\ pc[c] \in BegunLabels => activeRun = c

CurrentFits ==
  currentTurn # NoTurn =>
    Serves(currentTurn) /\ (goal = "active" => ServesGoal(currentTurn))

HoldersFit ==
  /\ isRunning => currentTurn # NoTurn \/ compacting
  /\ \A u \in Users : victim[u] # NoTurn => pc[u] = "interrupting"
  /\ \A t \in withGoal : pc[t] \in {"joined", "hooks"} => ~HasChildren
  /\ \A t \in consuming : pc[t] # "idle" /\ pc[t] \notin StartLabels
  /\ \A p \in DOMAIN victim : victim[p] # NoTurn => pc[victim[p]] \notin StartLabels

\* What will wake an active goal that has no timer.
Owes(t) ==
  \/ pc[t] \in StartLabels \cup {"settled", "creating"}
  \/ pc[t] # "idle" /\ t \notin consuming
  \/ activeRun = t

Owed ==
  goal = "active" /\ connected /\ wake = "none" =>
    compacting \/ saving \/ HasChildren \/ \E t \in Turns : Owes(t)

Busy == CurrentFits /\ HoldersFit /\ Owed

\* A step that leaves the turn the thread is busy with where it is.
LEMMA CurrentKept ==
  ASSUME Inv, CurrentFits,
         currentTurn' \in {currentTurn, NoTurn},
         currentTurn # NoTurn =>
           /\ pc'[currentTurn] = pc[currentTurn]
           /\ currentTurn \in consuming' => currentTurn \in consuming
           /\ currentTurn \in withGoal => currentTurn \in withGoal'
           /\ pc[currentTurn] \in Early /\ currentTurn \in aborted' => currentTurn \in aborted
           /\ goal' = "active" =>
                /\ goal = "active"
                /\ victim'[Stop] # currentTurn \/ victim'[Stop] = victim[Stop]
                /\ Doomed(currentTurn) => Doomed(currentTurn)'
                /\ \/ Doomed(currentTurn)'
                   \/ /\ pc[currentTurn] = "announcing" /\ currentTurn \in aborted'
                           => currentTurn \in aborted
                      /\ pc[currentTurn] \in BegunLabels => activeRun' = activeRun
  PROVE  CurrentFits'
BY DEF CurrentFits, Serves, ServesGoal

LEMMA OwedKept ==
  ASSUME Owed, UNCHANGED <<wake, host>>, goal' = "active" => goal = "active",
         HasChildren => HasChildren', \A t \in Turns : Owes(t) => Owes(t)'
  PROVE  Owed'
BY DEF Owed, host

LEMMA HoldersKept ==
  ASSUME Inv, HoldersFit, isRunning' => isRunning, currentTurn' = currentTurn \/ ~isRunning',
         UNCHANGED <<pc, compacting, victim, consuming>>, withGoal' \subseteq withGoal,
         HasChildren' => HasChildren
  PROVE  HoldersFit'
BY DEF HoldersFit

LEMMA RestBusy ==
  ASSUME Inv, Busy,
         UNCHANGED <<isRunning, currentTurn, pc, victim, withGoal, consuming, aborted,
                     activeRun>>,
         goal' = "active" => goal = "active", HasChildren' => HasChildren
  PROVE  CurrentFits' /\ (compacting' = compacting => HoldersFit')
BY CurrentKept, HoldersKept DEF Busy, Doomed

LEMMA ProposeBusy ==
  ASSUME Inv, Busy, NEW u \in Users, Propose(u)
  PROVE  Busy'
BY RestBusy DEF Propose, turn, thread, epoch, status, timer, host, Busy, Owed, Owes, HasChildren

LEMMA TimerFiresBusy ==
  ASSUME Inv, Busy, TimerFires
  PROVE  Busy'
BY RestBusy DEF TimerFires, turn, thread, epoch, status, host, Busy, Owed, Owes, HasChildren

\* A thread that is busy with a turn has a turn that will wake the goal.
LEMMA BusyThreadOwes ==
  ASSUME Inv, Busy, isRunning, goal = "active", NEW u, u # currentTurn,
         u \in Users => victim[u] = NoTurn \/ victim[u] # currentTurn
  PROVE  compacting \/ \E t \in Turns \ {u} : Owes(t)
<1>. SUFFICES ASSUME ~compacting PROVE \E t \in Turns \ {u} : Owes(t)
  OBVIOUS
<1>1. currentTurn \in Turns /\ currentTurn # NoTurn
  BY DEF Busy, HoldersFit, Inv, TypeOK, ThreadTyped
<1>2. CASE Doomed(currentTurn)
  <2>1. PICK v \in Users : victim[v] = currentTurn
    BY <1>2 DEF Doomed
  <2>2. v \in Turns \ {u} /\ pc[v] = "interrupting"
    BY <1>1, <2>1 DEF Turns, Busy, HoldersFit
  <2>. QED
    BY <2>2 DEF Owes, StartLabels
<1>3. CASE ~Doomed(currentTurn)
  <2>1. pc[currentTurn] # "idle"
    BY <1>1, <1>3 DEF Turns, Busy, CurrentFits, Serves, ServesGoal, AtWork
  <2>2. currentTurn \in consuming => activeRun = currentTurn
    BY <1>1, <1>3 DEF Busy, CurrentFits, Serves, ServesGoal, BegunLabels
  <2>. QED
    BY <1>1, <2>1, <2>2 DEF Owes
<1>. QED
  BY <1>2, <1>3

LEMMA RefuseInternalBusy ==
  ASSUME Inv, Busy, RefuseInternal
  PROVE  Busy'
<1>1. CurrentFits' /\ HoldersFit'
  BY RestBusy DEF RefuseInternal, turn, thread, epoch, status, host, HasChildren
<1>2. UserStarting => \E t \in Turns : Owes(t)
  BY DEF UserStarting, Owes, Turns, StartLabels
<1>3. isRunning /\ goal = "active" => compacting \/ \E t \in Turns : Owes(t)
  <2>1. Stop \notin Users /\ (isRunning => Stop # currentTurn \/ compacting)
    BY NamesAreDistinct DEF Busy, HoldersFit, Inv, TypeOK, ThreadTyped, Turns
  <2>. QED
    BY <2>1, BusyThreadOwes
<1>4. Owed'
  BY <1>2, <1>3 DEF RefuseInternal, Admissible, turn, epoch, status, host, Owed,
     Owes, HasChildren
<1>. QED
  BY <1>1, <1>4 DEF Busy

LEMMA TimerClearedBusy ==
  ASSUME Inv, Busy, TimerCleared
  PROVE  Busy'
<1>1. CurrentFits' /\ HoldersFit'
  BY RestBusy DEF TimerCleared, turn, thread, epoch, status, host, HasChildren
<1>2. Owed'
  BY DEF TimerCleared, turn, epoch, status, host, Owed, Owes, HasChildren
<1>. QED
  BY <1>1, <1>2 DEF Busy

LEMMA ChangedBusy ==
  ASSUME Inv, Busy, Changed
  PROVE  Busy'
<1>1. CurrentFits' /\ HoldersFit'
  BY RestBusy DEF Changed, turn, thread, epoch, status, HasChildren
<1>2. Owed'
  BY DEF Changed, Wake, Schedule, status, Owed
<1>. QED
  BY <1>1, <1>2 DEF Busy

LEMMA StartCompactionBusy ==
  ASSUME Inv, Busy, StartCompaction
  PROVE  Busy'
<1>1. currentTurn = NoTurn /\ currentTurn' = NoTurn
  BY DEF StartCompaction, Inv, Host
<1>2. CurrentFits' /\ Owed'
  BY <1>1 DEF StartCompaction, CurrentFits, Owed
<1>3. HoldersFit'
  BY DEF StartCompaction, Busy, HoldersFit, turn, epoch, HasChildren
<1>. QED
  BY <1>2, <1>3 DEF Busy

LEMMA EndCompactionBusy ==
  ASSUME Inv, Busy, EndCompaction
  PROVE  Busy'
<1>1. currentTurn = NoTurn /\ currentTurn' = NoTurn
  BY DEF EndCompaction, Inv, Host
<1>2. CurrentFits' /\ Owed'
  BY <1>1 DEF EndCompaction, CurrentFits, Owed, Wake, Schedule, status
<1>3. HoldersFit'
  BY DEF EndCompaction, Busy, HoldersFit, turn, epoch, HasChildren
<1>. QED
  BY <1>2, <1>3 DEF Busy

LEMMA DisconnectBusy ==
  ASSUME Inv, Busy, Disconnect
  PROVE  Busy'
BY RestBusy DEF Disconnect, turn, thread, epoch, status, Busy, Owed, HasChildren

LEMMA ConnectBusy ==
  ASSUME Inv, Busy, Connect
  PROVE  Busy'
BY RestBusy DEF Connect, turn, thread, epoch, status, Busy, Owed, HasChildren, Wake, Schedule

LEMMA StartUserBusy ==
  ASSUME Inv, Busy, NEW u \in Users, StartUser(u)
  PROVE  Busy'
<1>1. u \in Turns /\ u # currentTurn /\ pc[u] = "idle"
  BY DEF StartUser, Fresh, Turns
<1>2. pc'[u] = "admitting" /\ \A x \in Turns \ {u} : pc'[x] = pc[x]
  BY <1>1, Moved DEF StartUser
<1>3. currentTurn \in Turns \cup {NoTurn} /\ withGoal \cup consuming \subseteq Turns
  BY DEF Inv, TypeOK, ThreadTyped, TurnTyped
<1>4. CurrentFits'
  BY <1>1, <1>2, <1>3, CurrentKept DEF StartUser, Busy, thread, epoch, status, Doomed
<1>5. \A p \in DOMAIN victim : victim[p] # u /\ victim[p] \in Turns \cup {NoTurn}
  BY DEF StartUser, Fresh, Inv, TypeOK, TurnTyped
<1>6. HoldersFit'
  BY <1>1, <1>2, <1>3, <1>5 DEF StartUser, Busy, HoldersFit, thread, epoch, host, HasChildren,
     Turns
<1>7. Owed'
  BY <1>1, <1>2 DEF Owed, Owes, StartLabels
<1>. QED
  BY <1>4, <1>6, <1>7 DEF Busy

\* A turn that nobody waits for starts, or is turned away.
LEMMA ReserveBusy ==
  ASSUME Inv, Busy, NEW t \in Turns, ~isRunning, pc[t] \in {"idle"} \cup StartLabels, Reserve(t),
         \A p \in DOMAIN victim : victim[p] # t,
         \/ victim' = victim /\ pc[t] # "interrupting"
         \/ victim' = [victim EXCEPT ![t] = NoTurn] /\ t \in Users,
         UNCHANGED <<withGoal, consuming, activeRun, child, goal, host>>
  PROVE  Busy'
<1>1. currentTurn = NoTurn /\ t \notin consuming /\ t # NoTurn
  BY NamesAreDistinct DEF Inv, Host, Busy, HoldersFit
<1>2. pc'[t] = "queued" /\ \A x \in Turns \ {t} : pc'[x] = pc[x]
  BY Moved DEF Reserve
<1>3. /\ isRunning' = TRUE /\ currentTurn' = t /\ t \notin aborted'
      /\ victim'[Stop] = victim[Stop] /\ Stop \in DOMAIN victim
  BY NamesAreDistinct DEF Reserve, Inv, TypeOK, TurnTyped, Turns
<1>4. CurrentFits'
  BY <1>1, <1>2, <1>3 DEF CurrentFits, Serves, ServesGoal, OutOfWork, BegunLabels
<1>5. \A p \in DOMAIN victim' : victim'[p] \in {victim[p], NoTurn} /\ p \in DOMAIN victim
  BY DEF Inv, TypeOK, TurnTyped
<1>6. \A u \in Users : victim'[u] # NoTurn => u # t /\ victim[u] # NoTurn
  BY <1>2 DEF Inv, TypeOK, TurnTyped, Busy, HoldersFit, StartLabels
<1>7. HoldersFit'
  BY <1>1, <1>2, <1>3, <1>5, <1>6 DEF Busy, HoldersFit, HasChildren, StartLabels, Inv, TypeOK,
     TurnTyped, Turns
<1>8. Owed'
  BY <1>1, <1>2 DEF Owed, Owes
<1>. QED
  BY <1>4, <1>7, <1>8 DEF Busy

\* A turn that is turned away leaves the goal to the one that is in its way.
LEMMA RejectBusy ==
  ASSUME Inv, Busy, NEW u \in Users, isRunning, pc[u] \in StartLabels, Goto(u, "idle"),
         victim[u] = NoTurn \/ victim[u] # currentTurn,
         \/ victim' = victim /\ pc[u] # "interrupting"
         \/ victim' = [victim EXCEPT ![u] = NoTurn],
         UNCHANGED <<thread, aborted, withGoal, consuming, activeRun, child, goal, host>>
  PROVE  Busy'
<1>1. u \in Turns /\ u # Stop /\ u # NoTurn
  BY NamesAreDistinct DEF Turns
<1>2. pc'[u] = "idle" /\ \A x \in Turns \ {u} : pc'[x] = pc[x]
  BY <1>1, Moved
<1>3. currentTurn \in Turns \cup {NoTurn} /\ currentTurn # u
  BY <1>1 DEF StartLabels, OutOfWork, Busy, CurrentFits, Serves, Inv, TypeOK, ThreadTyped
<1>4. \A p \in DOMAIN victim' : /\ p \in DOMAIN victim
                                /\ victim'[p] = IF p = u THEN NoTurn ELSE victim[p]
  BY DEF Inv, TypeOK, TurnTyped, Busy, HoldersFit, StartLabels
<1>5. Stop \in DOMAIN victim /\ victim'[Stop] = victim[Stop]
  BY <1>1, <1>4 DEF Inv, TypeOK, TurnTyped
<1>6. currentTurn' = currentTurn /\ (Doomed(currentTurn) => Doomed(currentTurn)')
  BY <1>1, <1>4 DEF Doomed, Inv, TypeOK, TurnTyped, thread
<1>7. CurrentFits'
  BY <1>2, <1>3, <1>5, <1>6 DEF Busy, CurrentFits, Serves, ServesGoal
<1>8. HoldersFit'
  <2>1. \A p \in DOMAIN victim : victim[p] \in Turns \cup {NoTurn}
    BY DEF Inv, TypeOK, TurnTyped
  <2>. QED
    BY <1>1, <1>2, <1>4, <2>1 DEF Busy, HoldersFit, thread, host, HasChildren, StartLabels, Inv,
       TypeOK, TurnTyped, Turns
<1>9. Owed'
  <2>1. goal = "active" => compacting \/ \E t \in Turns \ {u} : Owes(t)
    BY <1>3, BusyThreadOwes
  <2>2. \A t \in Turns \ {u} : Owes(t) => Owes(t)'
    BY <1>2 DEF Owes
  <2>. QED
    BY <2>1, <2>2 DEF Owed, host
<1>. QED
  BY <1>7, <1>8, <1>9 DEF Busy

LEMMA AfterRetirementBusy ==
  ASSUME Inv, Busy, NEW u \in Users, AfterRetirement(u)
  PROVE  Busy'
<1>1. u \in Turns /\ pc[u] = "retired" /\ pc[u] \in StartLabels
  BY DEF AfterRetirement, Turns, StartLabels
<1>2. \A p \in DOMAIN victim : victim[p] # u
  BY <1>1, NamesAreDistinct DEF Busy, HoldersFit
<1>3. victim[u] = NoTurn
  BY <1>1 DEF Busy, HoldersFit
<1>4. ReserveOrReject(u) /\ UNCHANGED <<victim, withGoal, consuming, activeRun, child, goal,
                                        host>>
  BY DEF AfterRetirement, status
<1>. QED
  BY <1>1, <1>2, <1>3, <1>4, ReserveBusy, RejectBusy DEF ReserveOrReject

\* The turn in the way is retired: the thread is free, and the one that did it goes on.
LEMMA RetireBusy ==
  ASSUME Inv, Busy, NEW p \in DOMAIN victim, Overthrows(p), Retire(p),
         victim' = [victim EXCEPT ![p] = NoTurn],
         \/ p \in Users /\ Goto(p, "retired")
         \/ p = Stop /\ UNCHANGED pc,
         UNCHANGED <<withGoal, consuming, activeRun, child, goal, wake, host>>
  PROVE  Busy'
<1>1. ~isRunning' /\ currentTurn' = NoTurn /\ currentTurn # NoTurn
  BY DEF Retire, Overthrows
<1>2. CurrentFits'
  BY <1>1 DEF CurrentFits
<1>3. /\ \A x \in Turns : pc'[x] = pc[x] \/ (x = p /\ p \in Users /\ pc'[x] = "retired")
      /\ \A q \in DOMAIN victim' : q \in DOMAIN victim
      /\ \A q \in DOMAIN victim : victim[q] \in Turns \cup {NoTurn}
      /\ \A q \in DOMAIN victim : victim'[q] = IF q = p THEN NoTurn ELSE victim[q]
  BY Moved DEF Inv, TypeOK, TurnTyped, Turns
<1>4. p \in Users => pc[p] = "interrupting" /\ p \in Turns
  BY DEF Overthrows, Busy, HoldersFit, Turns
<1>5. HoldersFit'
  BY <1>1, <1>3, <1>4 DEF Busy, HoldersFit, HasChildren, StartLabels, Inv, TypeOK, TurnTyped,
     Turns
<1>6. Owed'
  BY <1>3, <1>4 DEF Busy, Owed, Owes, StartLabels, host, HasChildren
<1>. QED
  BY <1>2, <1>5, <1>6 DEF Busy

LEMMA TakeOverBusy ==
  ASSUME Inv, Busy, NEW u \in Users, TakeOver(u)
  PROVE  Busy'
<1>1. u \in Turns /\ pc[u] = "interrupting" /\ pc[u] \in StartLabels /\ u \in DOMAIN victim
  BY DEF TakeOver, Turns, StartLabels, Inv, TypeOK, TurnTyped
<1>2. \A p \in DOMAIN victim : victim[p] # u
  BY <1>1, NamesAreDistinct DEF Busy, HoldersFit
<1>3. /\ victim' = [victim EXCEPT ![u] = NoTurn]
      /\ UNCHANGED <<withGoal, consuming, activeRun, child, goal, wake, host>>
  BY DEF TakeOver, status, timer
<1>4. CASE Overthrows(u)
  BY <1>1, <1>3, <1>4, RetireBusy DEF TakeOver
<1>5. CASE ~Overthrows(u)
  BY <1>1, <1>2, <1>3, <1>5, ReserveBusy, RejectBusy DEF TakeOver, ReserveOrReject, Overthrows
<1>. QED
  BY <1>4, <1>5

LEMMA InterruptedBusy ==
  ASSUME Inv, Busy, Interrupted
  PROVE  Busy'
<1>1. Stop \in DOMAIN victim /\ Stop \notin Users
  BY NamesAreDistinct DEF Inv, TypeOK, TurnTyped, Turns
<1>2. /\ victim' = [victim EXCEPT ![Stop] = NoTurn]
      /\ UNCHANGED <<pc, withGoal, consuming, activeRun, child, goal, wake, host>>
  BY DEF Interrupted, status, timer
<1>3. CASE Overthrows(Stop)
  BY <1>1, <1>2, <1>3, RetireBusy DEF Interrupted
<1>4. CASE ~Overthrows(Stop)
  <2>1. UNCHANGED <<thread, aborted>>
    BY <1>4 DEF Interrupted
  <2>2. /\ victim'[Stop] = NoTurn /\ \A u \in Users : victim'[u] = victim[u]
        /\ \A p \in DOMAIN victim' : p \in DOMAIN victim /\ victim'[p] \in {victim[p], NoTurn}
    BY <1>1, <1>2 DEF Inv, TypeOK, TurnTyped
  <2>3. CurrentFits'
    BY <1>2, <2>1, <2>2 DEF Busy, CurrentFits, Serves, ServesGoal, Doomed, thread
  <2>4. HoldersFit' /\ Owed'
    BY <1>2, <2>1, <2>2 DEF Busy, HoldersFit, Owed, Owes, thread, host, HasChildren
  <2>. QED
    BY <2>3, <2>4 DEF Busy
<1>. QED
  BY <1>3, <1>4

LEMMA AdmitInternalBusy ==
  ASSUME Inv, Busy, NEW g \in Internals, AdmitInternal(g)
  PROVE  Busy'
<1>1. g \in Turns /\ pc[g] = "idle" /\ (\A p \in DOMAIN victim : victim[p] # g) /\ Reserve(g)
  BY DEF AdmitInternal, Fresh, Turns
<1>2. ~isRunning /\ UNCHANGED <<victim, withGoal, consuming, activeRun, child, goal, host>>
  BY DEF AdmitInternal, Admissible, status
<1>. QED
  BY <1>1, <1>2, ReserveBusy

LEMMA AdmitUserBusy ==
  ASSUME Inv, Busy, NEW u \in Users, AdmitUser(u)
  PROVE  Busy'
<1>1. u \in Turns /\ pc[u] = "admitting" /\ pc[u] \in StartLabels /\ u # NoTurn
  BY NamesAreDistinct DEF AdmitUser, Turns, StartLabels
<1>2. (\A p \in DOMAIN victim : victim[p] # u) /\ victim[u] = NoTurn
  BY <1>1, NamesAreDistinct DEF Busy, HoldersFit
<1>3. UNCHANGED <<withGoal, consuming, goal, host>>
  BY DEF AdmitUser, status
<1>4. CASE goalScope # NoTurn \/ goal = "active"
  <2>1. /\ Goto(u, "interrupting") /\ UNCHANGED thread
        /\ victim' = [victim EXCEPT ![u] = IF isRunning THEN currentTurn ELSE NoTurn]
        /\ IF goal = "active" THEN Invalidate ELSE KeepEpoch
    BY <1>4 DEF AdmitUser
  <2>2. pc'[u] = "interrupting" /\ \A x \in Turns \ {u} : pc'[x] = pc[x]
    BY <1>1, <2>1, Moved
  <2>3. currentTurn # u /\ currentTurn \in Turns \cup {NoTurn}
    BY <1>1 DEF Busy, CurrentFits, Serves, OutOfWork, Inv, TypeOK, ThreadTyped
  <2>4. \A p \in DOMAIN victim' :
          /\ p \in DOMAIN victim
          /\ victim'[p] = IF p # u THEN victim[p] ELSE IF isRunning THEN currentTurn ELSE NoTurn
    BY <2>1 DEF Inv, TypeOK, TurnTyped
  <2>5. u \in DOMAIN victim' /\ Stop \in DOMAIN victim' /\ Stop # u
    BY <1>1, <2>1, NamesAreDistinct DEF Inv, TypeOK, TurnTyped
  <2>6. CurrentFits'
    <3>1. currentTurn' = currentTurn /\ (currentTurn # NoTurn => pc'[currentTurn] = pc[currentTurn])
      BY <2>1, <2>2, <2>3 DEF thread
    <3>2. pc[currentTurn] \in Early /\ currentTurn \in aborted' => currentTurn \in aborted
      BY <2>1 DEF KeepEpoch, epoch, Invalidate, InvalidateAs, AbortScopes, Linked, Early
    <3>3. goal = "active" /\ currentTurn # NoTurn => Doomed(currentTurn)'
      BY <2>4, <2>5, <3>1 DEF Doomed, Inv, Host
    <3>4. victim'[Stop] = victim[Stop]
      BY <2>4, <2>5
    <3>. QED
      BY <1>3, <3>1, <3>2, <3>3, <3>4 DEF Busy, CurrentFits, Serves, ServesGoal
  <2>7. HoldersFit'
    <3>1. currentTurn # NoTurn => pc[currentTurn] \notin StartLabels
      BY DEF Busy, CurrentFits, Serves, OutOfWork, StartLabels
    <3>2. HasChildren' => HasChildren
      BY <1>4, <2>1 DEF HasChildren, KeepEpoch, epoch, Invalidate, InvalidateAs, Past
    <3>3. \A p \in DOMAIN victim : victim[p] \in Turns \cup {NoTurn}
      BY DEF Inv, TypeOK, TurnTyped
    <3>4. isRunning' = isRunning /\ currentTurn' = currentTurn /\ compacting' = compacting
      BY <1>3, <2>1 DEF thread, host
    <3>5. consuming \cup withGoal \subseteq Turns
      BY DEF Inv, TypeOK, TurnTyped
    <3>6. \A p \in DOMAIN victim' : victim'[p] # NoTurn => pc'[victim'[p]] \notin StartLabels
      <4>. SUFFICES ASSUME NEW p \in DOMAIN victim', victim'[p] # NoTurn
                    PROVE  pc'[victim'[p]] \notin StartLabels
        OBVIOUS
      <4>1. p \in DOMAIN victim /\ (p # u => victim'[p] = victim[p])
        BY <2>4
      <4>2. victim'[p] \in Turns /\ victim'[p] # u
        BY <1>2, <2>3, <2>4, <3>3
      <4>3. pc[victim'[p]] \notin StartLabels
        BY <2>4, <3>1, <4>1 DEF Busy, HoldersFit
      <4>. QED
        BY <2>2, <4>2, <4>3
    <3>7. \A x \in Users : victim'[x] # NoTurn => pc'[x] = "interrupting"
      <4>1. \A x \in Users : x \in Turns /\ x \in DOMAIN victim'
        BY <2>1 DEF Turns, Inv, TypeOK, TurnTyped
      <4>. QED
        BY <2>2, <2>4, <4>1 DEF Busy, HoldersFit
    <3>8. \A x \in consuming' : pc'[x] # "idle" /\ pc'[x] \notin StartLabels
      BY <1>1, <1>3, <2>2, <3>5 DEF Busy, HoldersFit
    <3>9. \A x \in withGoal' : pc'[x] \in {"joined", "hooks"} => ~HasChildren'
      BY <1>1, <1>3, <2>2, <3>2, <3>5 DEF Busy, HoldersFit
    <3>. QED
      BY <3>4, <3>6, <3>7, <3>8, <3>9 DEF Busy, HoldersFit
  <2>8. Owed'
    BY <1>1, <2>2 DEF Owed, Owes, StartLabels
  <2>. QED
    BY <2>6, <2>7, <2>8 DEF Busy
<1>5. CASE ~(goalScope # NoTurn \/ goal = "active")
  <2>1. /\ ReserveOrReject(u) /\ goal # "active"
        /\ UNCHANGED <<victim, activeRun, child>>
    BY <1>5 DEF AdmitUser
  <2>. QED
    BY <1>1, <1>2, <1>3, <2>1, ReserveBusy, RejectBusy DEF ReserveOrReject
<1>. QED
  BY <1>4, <1>5

-----------------------------------------------------------------------------
(* A turn in work goes on                                                    *)

\* A turn goes on that the thread may be busy with, if it has not given it up.
LEMMA OnwardHolders ==
  ASSUME Inv, HoldersFit, NEW t \in Turns, NEW l \in Labels \ ({"idle"} \cup StartLabels),
         Goto(t, l), pc[t] # "interrupting",
         withGoal' \subseteq withGoal \cup {t},
         l \in {"joined", "hooks"} /\ t \in withGoal' => ~HasChildren,
         HasChildren' => HasChildren,
         isRunning' => isRunning, currentTurn' = currentTurn \/ ~isRunning',
         consuming' \subseteq consuming \cup {t}, UNCHANGED <<victim, compacting>>
  PROVE  HoldersFit'
<1>1. pc'[t] = l /\ \A x \in Turns \ {t} : pc'[x] = pc[x]
  BY Moved
<1>2. consuming \cup withGoal \subseteq Turns
  BY DEF Inv, TypeOK, TurnTyped
<1>3. \A p \in DOMAIN victim : victim[p] \in Turns \cup {NoTurn}
  BY DEF Inv, TypeOK, TurnTyped
<1>4. \A u \in Users : victim'[u] # NoTurn => pc'[u] = "interrupting"
  BY <1>1 DEF HoldersFit, Turns
<1>5. \A x \in withGoal' : pc'[x] \in {"joined", "hooks"} => ~HasChildren'
  BY <1>1, <1>2 DEF HoldersFit
<1>6. \A x \in consuming' : pc'[x] # "idle" /\ pc'[x] \notin StartLabels
  BY <1>1, <1>2 DEF HoldersFit
<1>7. \A p \in DOMAIN victim' : victim'[p] # NoTurn => pc'[victim'[p]] \notin StartLabels
  BY <1>1, <1>3 DEF HoldersFit
<1>. QED
  BY <1>4, <1>5, <1>6, <1>7 DEF HoldersFit

LEMMA HooksBlockBusy ==
  ASSUME Inv, Busy, NEW u \in Users, HooksBlock(u)
  PROVE  Busy'
<1>1. u \in Turns /\ pc[u] = "hooks" /\ Goto(u, "blocked") /\ currentTurn' = NoTurn /\ ~isRunning'
  BY DEF HooksBlock, Turns
<1>2. "blocked" \in Labels \ ({"idle"} \cup StartLabels) /\ "blocked" \notin {"joined", "hooks"}
  BY DEF Labels, StartLabels
<1>3. pc'[u] = "blocked" /\ \A x \in Turns \ {u} : pc'[x] = pc[x]
  BY <1>1, Moved
<1>4. HoldersFit'
  BY <1>1, <1>2, OnwardHolders DEF HooksBlock, Busy, epoch, host, HasChildren
<1>5. CurrentFits'
  BY <1>1 DEF CurrentFits
<1>6. u \notin consuming
  BY <1>1, NamesAreDistinct DEF HooksBlock, Busy, CurrentFits, Serves
<1>7. Owed'
  BY <1>1, <1>3, <1>6 DEF HooksBlock, Owed, Owes
<1>. QED
  BY <1>4, <1>5, <1>7 DEF Busy

LEMMA AnnouncedBusy ==
  ASSUME Inv, Busy, NEW u \in Users, Announced(u)
  PROVE  Busy'
<1>1. u \in Turns /\ pc[u] = "announcing" /\ u # NoTurn
  BY NamesAreDistinct DEF Announced, Turns
<1>2. PICK l \in {"running", "dropping"} : Goto(u, l)
  BY DEF Announced
<1>3. pc'[u] = l /\ \A x \in Turns \ {u} : pc'[x] = pc[x]
  BY <1>1, <1>2, Moved
<1>4. \/ l = "running" /\ Current(u) /\ consuming' = consuming \cup {u}
      \/ l = "dropping" /\ ~Current(u) /\ consuming' = consuming
  BY <1>1, <1>3, Moved DEF Announced, Labels
<1>5. UNCHANGED <<isRunning, currentTurn, victim, withGoal, aborted, activeRun, child, goal,
                  host, wake>>
  BY DEF Announced, thread, epoch, status, timer
<1>6. HoldersFit'
  BY <1>1, <1>2, <1>4, <1>5, OnwardHolders DEF Busy, Labels, StartLabels, HasChildren, host
<1>7. CurrentFits'
  BY <1>1, <1>3, <1>4, <1>5 DEF Busy, CurrentFits, Serves, ServesGoal, Doomed, Current, Inv,
     TypeOK,
     ThreadTyped, OutOfWork, AtWork, BegunLabels, Early
<1>8. Owed'
  <2>1. CASE l = "dropping"
    <3>1. \A x \in Turns : Owes(x) => Owes(x)'
      BY <1>1, <1>3, <1>4, <1>5, <2>1 DEF Owes, StartLabels
    <3>. QED
      BY <1>5, <3>1, OwedKept DEF Busy, HasChildren
  <2>2. CASE l = "running" /\ Doomed(u)
    <3>1. PICK v \in Users : victim[v] = u
      BY <2>2 DEF Doomed
    <3>2. v \in Turns \ {u} /\ pc[v] = "interrupting"
      BY <1>1, <3>1 DEF Busy, HoldersFit, Turns
    <3>. QED
      BY <1>3, <3>2 DEF Owed, Owes, StartLabels
  <2>3. CASE l = "running" /\ ~Doomed(u)
    BY <1>1, <1>3, <1>4, <1>5, <2>3 DEF Current, Busy, CurrentFits, ServesGoal, BegunLabels,
       Owed, Owes
  <2>. QED
    BY <2>1, <2>2, <2>3
<1>. QED
  BY <1>6, <1>7, <1>8 DEF Busy

LEMMA CreateGoalBusy ==
  ASSUME Inv, Busy, NEW u \in Users, CreateGoal(u)
  PROVE  Busy'
<1>1. u \in Turns /\ pc[u] = "ended" /\ Goto(u, "creating") /\ ~isRunning /\ currentTurn = NoTurn
  BY DEF CreateGoal, MayCreate, Turns, Inv, Host
<1>2. pc'[u] = "creating" /\ \A x \in Turns \ {u} : pc'[x] = pc[x]
  BY <1>1, Moved
<1>3. /\ UNCHANGED <<isRunning, currentTurn, victim, withGoal, consuming, host>>
      /\ HasChildren' => HasChildren
  BY DEF CreateGoal, thread, NewGoal, InvalidateAs, Past, HasChildren
<1>4. HoldersFit'
  BY <1>1, <1>3, OnwardHolders DEF Busy, Labels, StartLabels, host
<1>5. CurrentFits'
  BY <1>1, <1>3 DEF CurrentFits
<1>6. Owed'
  BY <1>1, <1>2 DEF Owed, Owes
<1>. QED
  BY <1>4, <1>5, <1>6 DEF Busy

LEMMA CreatedBusy ==
  ASSUME Inv, Busy, NEW u \in Users, Created(u)
  PROVE  Busy'
<1>1. u \in Turns /\ pc[u] = "creating" /\ Goto(u, "closing") /\ u # NoTurn
  BY NamesAreDistinct DEF Created, Turns
<1>2. pc'[u] = "closing" /\ \A x \in Turns \ {u} : pc'[x] = pc[x]
  BY <1>1, Moved
<1>3. UNCHANGED <<isRunning, currentTurn, victim, withGoal, consuming, aborted, activeRun, child,
                  goal, host>>
  BY DEF Created, thread, epoch, status
<1>4. HoldersFit'
  BY <1>1, <1>3, OnwardHolders DEF Busy, Labels, StartLabels, host, HasChildren
<1>5. CurrentFits'
  BY <1>1, <1>2, <1>3 DEF Busy, CurrentFits, Serves, ServesGoal, Doomed, Inv, TypeOK,
     ThreadTyped,
     OutOfWork, AtWork, BegunLabels, Early
<1>6. Owed'
  BY <1>3 DEF Created, Wake, Schedule, Owed, host
<1>. QED
  BY <1>4, <1>5, <1>6 DEF Busy

LEMMA ResolveBusy ==
  ASSUME Inv, Busy, NEW t \in Turns, pc[t] \in {"blocked", "finishing"}, Resolve(t),
         t \in Internals => currentTurn # t,
         isRunning' => isRunning, currentTurn' = currentTurn, connected' = connected,
         currentTurn # NoTurn => isRunning'
  PROVE  Busy'
<1>1. Goto(t, "idle") /\ t # NoTurn /\ "idle" \in Labels
  BY NamesAreDistinct DEF Resolve, Goto, Labels
<1>2. pc'[t] = "idle" /\ \A x \in Turns \ {t} : pc'[x] = pc[x]
  BY <1>1, Moved
<1>3. /\ UNCHANGED <<victim, withGoal, activeRun, child, goal, host>>
      /\ consuming' = consuming \ {t} /\ aborted' = aborted \ {t}
  BY DEF Resolve, status
<1>4. CurrentFits'
  BY <1>1, <1>2, <1>3 DEF Busy, CurrentFits, Serves, ServesGoal, Doomed, Inv, TypeOK,
     ThreadTyped,
     OutOfWork, AtWork, BegunLabels, Early
<1>5. HoldersFit'
  <2>1. consuming \cup withGoal \subseteq Turns
    BY DEF Inv, TypeOK, TurnTyped
  <2>2. \A p \in DOMAIN victim : victim[p] \in Turns \cup {NoTurn}
    BY DEF Inv, TypeOK, TurnTyped
  <2>3. \A u \in Users : victim'[u] # NoTurn => pc'[u] = "interrupting"
    BY <1>2, <1>3 DEF Busy, HoldersFit, Turns
  <2>4. \A x \in withGoal' : pc'[x] \in {"joined", "hooks"} => ~HasChildren'
    BY <1>2, <1>3, <2>1 DEF Busy, HoldersFit, HasChildren
  <2>5. \A x \in consuming' : pc'[x] # "idle" /\ pc'[x] \notin StartLabels
    BY <1>2, <1>3, <2>1 DEF Busy, HoldersFit
  <2>6. \A p \in DOMAIN victim' : victim'[p] # NoTurn => pc'[victim'[p]] \notin StartLabels
    BY <1>2, <1>3, <2>2 DEF Busy, HoldersFit, StartLabels
  <2>7. compacting' = compacting
    BY <1>3 DEF host
  <2>. QED
    BY <2>3, <2>4, <2>5, <2>6, <2>7 DEF Busy, HoldersFit
<1>6. Owed'
  <2>1. CASE t \notin consuming /\ goal = "active"
    BY <2>1 DEF Resolve, Schedule, Owed
  <2>2. CASE ~(t \notin consuming /\ goal = "active")
    <3>1. wake' = wake
      BY <2>2 DEF Resolve
    <3>. QED
      BY <1>2, <1>3, <2>2, <3>1 DEF Busy, Owed, Owes, StartLabels, host, HasChildren
  <2>. QED
    BY <2>1, <2>2
<1>. QED
  BY <1>4, <1>5, <1>6 DEF Busy

LEMMA UnblockBusy ==
  ASSUME Inv, Busy, NEW u \in Users, Unblock(u)
  PROVE  Busy'
<1>1. u \in Turns /\ u \notin Internals /\ pc[u] = "blocked" /\ UNCHANGED thread /\ Resolve(u)
  BY NamesAreDistinct DEF Unblock, Turns
<1>2. connected' = connected /\ (currentTurn # NoTurn => isRunning)
  BY <1>1 DEF Resolve, host, Inv, Host
<1>. QED
  BY <1>1, <1>2, ResolveBusy DEF thread

LEMMA FinishBusy ==
  ASSUME Inv, Busy, NEW t \in Turns, Finish(t)
  PROVE  Busy'
<1>1. pc[t] = "finishing" /\ Resolve(t) /\ t # NoTurn
  BY NamesAreDistinct DEF Finish, MayFinish
<1>2. currentTurn = t => t \notin Internals
  BY <1>1 DEF Busy, CurrentFits, Serves
<1>3. /\ connected' = connected /\ currentTurn' = currentTurn
      /\ isRunning' => isRunning
      /\ currentTurn # NoTurn => isRunning'
  BY <1>1 DEF Resolve, host, Inv, Host, Finish, thread
<1>. QED
  BY <1>1, <1>2, <1>3, ResolveBusy

\* A turn of an active goal that is still the thread's gets a run that counts.
LEMMA BeginRunBusy ==
  ASSUME Inv, Epochs, Busy, NEW t \in Turns, BeginRun(t), awaits[t] = NoTurn, Current(t),
         pc[t] \in {"queued", "joined", "hooks"}, goal = "active" => ~HasChildren,
         withGoal' \subseteq withGoal \cup {t},
         UNCHANGED <<consuming, victim, wake, host>>
  PROVE  Busy'
<1>1. t \in InWork /\ currentTurn = t /\ t \notin aborted /\ t # NoTurn
  BY NamesAreDistinct DEF InWork, OutOfWork, Current
<1>2. activeRun = NoTurn
  BY <1>1, TheActiveIsFirst DEF Epochs, RunIsLive, LiveLabels, ScopeLabels
<1>3. Goto(t, "beginning") /\ UNCHANGED thread
  BY <1>2 DEF BeginRun
<1>4. pc'[t] = "beginning" /\ \A x \in Turns \ {t} : pc'[x] = pc[x]
  BY <1>3, Moved
<1>5. t \notin consuming
  BY <1>1 DEF Busy, CurrentFits, Serves
<1>6. Limit => goal' = "limited" /\ t \notin aborted' /\ (HasChildren' => HasChildren)
  BY <1>1 DEF Limit, Invalidate, InvalidateAs, AbortScopes, Linked, Past, HasChildren
<1>7. t \notin aborted' /\ (goal' = "active" => goal = "active" /\ activeRun' = t)
      /\ (HasChildren' => HasChildren)
  BY <1>1, <1>2, <1>6 DEF BeginRun, epoch, status, HasChildren
<1>8. CurrentFits'
  BY <1>1, <1>3, <1>4, <1>5, <1>7 DEF Busy, CurrentFits, Serves, ServesGoal, thread, OutOfWork,
     AtWork, Turns
<1>9. HoldersFit'
  <2>1. "beginning" \in Labels \ ({"idle"} \cup StartLabels)
    BY DEF Labels, StartLabels
  <2>. QED
    BY <1>3, <1>7, <2>1, OnwardHolders DEF Busy, thread, host
<1>10. Owed'
  BY <1>4, <1>5 DEF Owed, Owes
<1>. QED
  BY <1>8, <1>9, <1>10 DEF Busy

\* A turn in work goes on to l, and neither starts nor ends the run that counts.
LEMMA OnwardBusy ==
  ASSUME Inv, Busy, NEW t \in Turns, NEW l \in Labels \ ({"idle"} \cup StartLabels),
         Goto(t, l), pc[t] \notin StartLabels \cup {"idle", "settled", "creating"},
         withGoal' \subseteq withGoal \cup {t},
         \A x \in withGoal : x # t => x \in withGoal',
         l \in {"joined", "hooks"} /\ t \in withGoal' => ~HasChildren,
         UNCHANGED <<child, victim, consuming, wake, host>>, goal' = "active" => goal = "active",
         currentTurn \in aborted' => currentTurn \in aborted,
         activeRun' # activeRun => activeRun = t /\ pc[t] \notin BegunLabels
                                   /\ (goal = "active" => l = "settled"),
         \/ currentTurn' = NoTurn /\ ~isRunning'
         \/ /\ UNCHANGED <<isRunning, currentTurn>>
            /\ currentTurn = t =>
                 /\ l \notin OutOfWork /\ l # "ended"
                 /\ t \in consuming => l = "running"
                 /\ l \in Early => t \notin aborted
                 /\ t \in Internals => l \notin {"finishing", "idle", "creating"}
                 /\ goal = "active" =>
                      /\ l \in {"joining", "joined", "hooks"} => t \in withGoal'
                      /\ \/ Doomed(t)
                         \/ /\ l = "announcing" => t \notin aborted
                            /\ t \in Users => l \in AtWork \cup {"queued"}
                            /\ l \in BegunLabels => activeRun = t
  PROVE  Busy'
<1>1. pc'[t] = l /\ \A x \in Turns \ {t} : pc'[x] = pc[x]
  BY Moved
<1>2. HoldersFit'
  BY OnwardHolders DEF Busy, HasChildren, host, StartLabels
<1>3. Owed'
  <2>1. CASE goal = "active"
    <3>1. \A x \in Turns : Owes(x) => Owes(x)'
      BY <1>1, <2>1 DEF Owes, StartLabels
    <3>. QED
      BY <3>1, OwedKept DEF Busy, HasChildren
  <2>2. CASE goal # "active"
    BY <2>2 DEF Owed
  <2>. QED
    BY <2>1, <2>2
<1>4. CurrentFits'
  <2>1. CASE currentTurn' = NoTurn
    BY <2>1 DEF CurrentFits
  <2>2. CASE currentTurn' = currentTurn /\ currentTurn # t
    BY <1>1, <2>2 DEF Busy, CurrentFits, Serves, ServesGoal, Doomed, BegunLabels, Early, Inv,
       TypeOK, ThreadTyped
  <2>3. CASE currentTurn' = currentTurn /\ currentTurn = t
    BY <1>1, <2>3 DEF Busy, CurrentFits, Serves, ServesGoal, Doomed, BegunLabels
  <2>. QED
    BY <2>1, <2>2, <2>3
<1>. QED
  BY <1>2, <1>3, <1>4 DEF Busy

LEMMA HooksPassBusy ==
  ASSUME Inv, Epochs, Busy, NEW u \in Users, HooksPass(u)
  PROVE  Busy'
<1>1. u \in Turns /\ u \notin Internals /\ pc[u] = "hooks" /\ awaits[u] = NoTurn
  BY NamesAreDistinct DEF HooksPass, Turns, Inv, Queue, Heads, HeadLabels, AtWork
<1>2. UNCHANGED <<consuming, victim, wake, withGoal, host>>
  BY DEF HooksPass, timer
<1>3. currentTurn = u => u \notin aborted
  BY <1>1, NamesAreDistinct DEF Busy, CurrentFits, Serves, Early
<1>4. CASE ~Current(u)
  <2>1. Goto(u, "dropping") /\ UNCHANGED <<thread, epoch, status>> /\ currentTurn # u
    BY <1>3, <1>4 DEF HooksPass, Abandon, Current
  <2>2. "dropping" \in Labels \ ({"idle"} \cup StartLabels)
    BY DEF Labels, StartLabels
  <2>. QED
    BY <1>1, <1>2, <2>1, <2>2, OnwardBusy DEF thread, epoch, status, StartLabels
<1>5. CASE Current(u) /\ u \in withGoal
  <2>1. BeginRun(u) /\ ~HasChildren
    BY <1>1, <1>5 DEF HooksPass, Busy, HoldersFit
  <2>. QED
    BY <1>1, <1>2, <1>5, <2>1, BeginRunBusy
<1>6. CASE Current(u) /\ u \notin withGoal
  <2>1. Goto(u, "announcing") /\ UNCHANGED <<thread, epoch, status>> /\ currentTurn = u
    BY <1>6 DEF HooksPass, Current
  <2>2. "announcing" \in Labels \ ({"idle"} \cup StartLabels)
    BY DEF Labels, StartLabels
  <2>3. goal # "active" /\ u \notin consuming
    BY <1>1, <1>6, <2>1, NamesAreDistinct DEF Busy, CurrentFits, Serves, ServesGoal
  <2>4. "announcing" \notin OutOfWork /\ "announcing" \notin Early
    BY DEF OutOfWork, Early
  <2>. QED
    BY <1>1, <1>2, <2>1, <2>2, <2>3, <2>4, OnwardBusy DEF thread, epoch, status, StartLabels
<1>. QED
  BY <1>4, <1>5, <1>6

\* A turn whose children are done, or never were, goes to its hooks or begins its run.
LEMMA GoesOnBusy ==
  ASSUME Inv, Epochs, Busy, NEW t \in Turns, pc[t] \in {"queued", "joined"}, Current(t),
    GoesOn(t),
         awaits[t] = NoTurn, withGoal' \subseteq withGoal \cup {t}, withGoal \subseteq withGoal',
         goal = "active" => t \in withGoal',
         t \in withGoal' => ~HasChildren,
         UNCHANGED <<consuming, victim, wake, host>>
  PROVE  Busy'
<1>1. CASE t \in Internals
  BY <1>1, BeginRunBusy DEF GoesOn
<1>2. CASE t \notin Internals
  <2>1. Goto(t, "hooks") /\ UNCHANGED <<thread, epoch, status>> /\ currentTurn = t /\ t # NoTurn
    BY <1>2, NamesAreDistinct DEF GoesOn, Current
  <2>2. /\ "hooks" \in Labels \ ({"idle"} \cup StartLabels)
        /\ "hooks" \in AtWork /\ "hooks" \notin BegunLabels
    BY DEF Labels, StartLabels, AtWork, BegunLabels
  <2>3. t \notin aborted /\ t \notin consuming
    BY <2>1 DEF Current, Busy, CurrentFits, Serves
  <2>4. "hooks" \notin OutOfWork /\ pc[t] \notin StartLabels \cup {"idle", "settled", "creating"}
    BY DEF OutOfWork, StartLabels
  <2>. QED
    BY <1>2, <2>1, <2>2, <2>3, <2>4, OnwardBusy DEF thread, epoch, status
<1>. QED
  BY <1>1, <1>2

LEMMA LeaveQueueBusy ==
  ASSUME Inv, Epochs, Busy, NEW t \in Turns, LeaveQueue(t)
  PROVE  Busy'
<1>1. pc[t] = "queued" /\ t # NoTurn /\ UNCHANGED <<consuming, victim, wake, host>>
  BY NamesAreDistinct DEF LeaveQueue, timer
<1>2. currentTurn = t => t \notin aborted /\ t \notin consuming
  BY <1>1 DEF Busy, CurrentFits, Serves, Early
<1>3. CASE ~Current(t)
  <2>1. Goto(t, "dropping") /\ UNCHANGED <<thread, epoch, status, withGoal>> /\ currentTurn # t
    BY <1>2, <1>3 DEF LeaveQueue, Abandon, Current
  <2>2. "dropping" \in Labels \ ({"idle"} \cup StartLabels)
    BY DEF Labels, StartLabels
  <2>. QED
    BY <1>1, <2>1, <2>2, OnwardBusy DEF thread, epoch, status, StartLabels
<1>4. CASE Current(t)
  <2>1. /\ awaits[t] = NoTurn
        /\ withGoal \subseteq withGoal' /\ withGoal' \subseteq withGoal \cup {t}
        /\ t \in Internals \/ goal = "active" => t \in withGoal'
        /\ IF t \in withGoal' /\ HasChildren
           THEN Goto(t, "joining") /\ UNCHANGED <<thread, outcome, epoch, status>>
           ELSE GoesOn(t)
    BY <1>4 DEF LeaveQueue
  <2>2. CASE t \in withGoal' /\ HasChildren
    <3>1. "joining" \in Labels \ ({"idle"} \cup StartLabels) /\ "joining" \in AtWork
          /\ "joining" \notin BegunLabels /\ "joining" \notin OutOfWork
      BY DEF Labels, StartLabels, AtWork, BegunLabels, OutOfWork
    <3>. QED
      BY <1>1, <1>2, <1>4, <2>1, <2>2, <3>1, OnwardBusy DEF Current, thread, epoch, status,
         StartLabels
  <2>3. CASE ~(t \in withGoal' /\ HasChildren)
    BY <1>1, <1>4, <2>1, <2>3, GoesOnBusy
  <2>. QED
    BY <2>2, <2>3
<1>. QED
  BY <1>3, <1>4

LEMMA JoinedBusy ==
  ASSUME Inv, Epochs, Busy, NEW t \in Turns, Joined(t)
  PROVE  Busy'
<1>1. pc[t] = "joined" /\ t # NoTurn /\ UNCHANGED <<consuming, victim, wake, host, withGoal>>
  BY NamesAreDistinct DEF Joined, timer
<1>2. currentTurn = t => t \notin aborted
  BY <1>1 DEF Busy, CurrentFits, Serves, Early
<1>3. CASE ~Current(t)
  <2>1. Goto(t, "dropping") /\ UNCHANGED <<thread, epoch, status>> /\ currentTurn # t
    BY <1>2, <1>3 DEF Joined, Abandon, Current
  <2>2. "dropping" \in Labels \ ({"idle"} \cup StartLabels)
    BY DEF Labels, StartLabels
  <2>. QED
    BY <1>1, <2>1, <2>2, OnwardBusy DEF thread, epoch, status, StartLabels
<1>4. CASE Current(t)
  <2>1. awaits[t] = NoTurn
    BY <1>1 DEF Inv, Queue, Heads, HeadLabels, AtWork
  <2>2. goal = "active" => t \in withGoal
    BY <1>1, <1>4 DEF Current, Busy, CurrentFits, ServesGoal
  <2>3. t \in withGoal => ~HasChildren
    BY <1>1 DEF Busy, HoldersFit
  <2>4. GoesOn(t)
    BY <1>4 DEF Joined
  <2>. QED
    BY <1>1, <1>4, <2>1, <2>2, <2>3, <2>4, GoesOnBusy
<1>. QED
  BY <1>3, <1>4

LEMMA JoinRejectedBusy ==
  ASSUME Inv, Busy, NEW t \in Turns, JoinRejected(t)
  PROVE  Busy'
<1>1. /\ pc[t] = "joining" /\ t # NoTurn /\ Goto(t, "dropping")
      /\ UNCHANGED <<consuming, victim, wake, host, withGoal, aborted, activeRun, child, goal>>
  BY NamesAreDistinct DEF JoinRejected, timer, status
<1>2. currentTurn = t => t \notin aborted
  BY <1>1 DEF Busy, CurrentFits, Serves, Early
<1>3. \/ currentTurn' = NoTurn /\ ~isRunning'
      \/ UNCHANGED <<isRunning, currentTurn>> /\ currentTurn # t
  BY <1>2 DEF JoinRejected, Current, ResetTurn, thread
<1>4. "dropping" \in Labels \ ({"idle"} \cup StartLabels)
  BY DEF Labels, StartLabels
<1>. QED
  BY <1>1, <1>3, <1>4, OnwardBusy DEF StartLabels

\* The goal is given up: nothing is owed any more.
LEMMA InactiveBusy ==
  ASSUME Inv, Busy, goal' # "active", HasChildren' => HasChildren,
         UNCHANGED <<isRunning, currentTurn, pc, victim, withGoal, consuming, compacting>>,
         \A x \in aborted' : x \in aborted \/ pc[x] \notin Early
  PROVE  Busy'
BY DEF Busy, CurrentFits, Serves, HoldersFit, Owed

LEMMA BegunBusy ==
  ASSUME Inv, Epochs, Busy, NEW t \in Turns, Begun(t)
  PROVE  Busy'
<1>1. /\ pc[t] = "beginning" /\ t # NoTurn
      /\ UNCHANGED <<isRunning, currentTurn, victim, wake, host, withGoal, aborted, activeRun,
                     child, goal>>
  BY NamesAreDistinct DEF Begun, timer, status, thread
<1>2. currentTurn = t => t \notin aborted /\ t \notin consuming
  BY <1>1 DEF Busy, CurrentFits, Serves, Early
<1>3. t \in Users <=> t \notin Internals
  BY NamesAreDistinct DEF Turns
<1>4. {"dropping", "announcing", "running"} \subseteq Labels \ ({"idle"} \cup StartLabels)
      /\ {"announcing", "running"} \cap (OutOfWork \cup Early) = {}
      /\ {"announcing",
        "running"} \subseteq AtWork /\ "dropping" \notin OutOfWork \cup Early \cup BegunLabels
  BY DEF Labels, StartLabels, AtWork, OutOfWork, Early, BegunLabels
<1>5. CASE ~Current(t) \/ (t \in Internals /\ ~IsCurrentRun(t))
  <2>1. Goto(t, "dropping") /\ consuming' = consuming
    BY <1>5 DEF Begun
  <2>2. currentTurn = t => t \notin Users
    BY <1>2, <1>3, <1>5 DEF Current
  <2>. QED
    BY <1>1, <1>2, <1>4, <2>1, <2>2, OnwardBusy DEF StartLabels
<1>6. CASE Current(t) /\ t \in Users
  <2>1. Goto(t, "announcing") /\ consuming' = consuming
    BY <1>3, <1>6 DEF Begun
  <2>2. goal = "active" => Doomed(t) \/ activeRun = t
    BY <1>1, <1>6 DEF Current, Busy, CurrentFits, ServesGoal, BegunLabels
  <2>. QED
    BY <1>1, <1>2, <1>3, <1>4, <2>1, <2>2, OnwardBusy DEF StartLabels
<1>7. CASE Current(t) /\ t \in Internals /\ IsCurrentRun(t)
  <2>1. Goto(t, "running") /\ consuming' = consuming \cup {t} /\ activeRun = t /\ currentTurn = t
    BY <1>3, <1>7 DEF Begun, IsCurrentRun, Current
  <2>2. pc'[t] = "running" /\ \A x \in Turns \ {t} : pc'[x] = pc[x]
    BY <2>1, Moved
  <2>3. CurrentFits'
    BY <1>1, <1>3, <1>4, <1>7, <2>1, <2>2 DEF Busy, CurrentFits, Serves, ServesGoal
  <2>4. HoldersFit'
    BY <1>1, <1>4, <2>1, OnwardHolders DEF Busy, StartLabels, HasChildren, host
  <2>5. Owed'
    BY <1>1, <2>1 DEF Owed, Owes
  <2>. QED
    BY <2>3, <2>4, <2>5 DEF Busy
<1>. QED
  BY <1>3, <1>5, <1>6, <1>7

LEMMA ReportBusy ==
  ASSUME Inv, Busy, NEW t \in Turns, Report(t)
  PROVE  Busy'
<1>1. /\ goal' # "active"
      /\ UNCHANGED <<isRunning, currentTurn, pc, victim, withGoal, consuming, compacting>>
      /\ HasChildren' => HasChildren
  BY DEF Report, turn, thread, host, KeepEpoch, epoch, Invalidate, InvalidateAs, Past, HasChildren
<1>2. \A x \in aborted' : x \in aborted \/ pc[x] \notin Early
  BY DEF Report, KeepEpoch, epoch, Invalidate, InvalidateAs, AbortScopes, Linked, Early
<1>. QED
  BY <1>1, <1>2, InactiveBusy

LEMMA SpawnBusy ==
  ASSUME Inv, Busy, NEW t \in Turns, Spawn(t)
  PROVE  Busy'
<1>1. /\ pc[t] = "running"
      /\ UNCHANGED <<isRunning, currentTurn, pc, victim, withGoal, consuming, aborted, activeRun,
                     goal, host>>
  BY DEF Spawn, Working, turn, thread, status
<1>2. CurrentFits'
  BY <1>1 DEF Busy, CurrentFits, Serves, ServesGoal, Doomed
<1>3. HasChildren'
  BY DEF Spawn, Working, HasChildren, Inv, TypeOK, EpochTyped
<1>4. \A x \in Turns : pc[x] \notin {"joined", "hooks"}
  <2>. SUFFICES ASSUME NEW x \in Turns, pc[x] \in {"joined", "hooks"} PROVE FALSE
    OBVIOUS
  <2>1. x \in InWork /\ t \in InWork /\ x \in Heads /\ t \in Heads
    BY <1>1 DEF InWork, Heads, OutOfWork, HeadLabels, AtWork
  <2>. QED
    BY <1>1, <2>1 DEF Inv, Queue
<1>5. HoldersFit'
  BY <1>1, <1>4 DEF Busy, HoldersFit, Inv, TypeOK, TurnTyped, host
<1>6. Owed'
  BY <1>3 DEF Owed
<1>. QED
  BY <1>2, <1>5, <1>6 DEF Busy

LEMMA EndRunBusy ==
  ASSUME Inv, Busy, NEW t \in Turns, EndRun(t)
  PROVE  Busy'
<1>1. /\ pc[t] = "running" /\ Goto(t, "ended") /\ t # NoTurn
      /\ UNCHANGED <<victim, wake, host, withGoal, consuming, aborted, activeRun, child, goal>>
  BY NamesAreDistinct DEF EndRun, timer, status, epoch
<1>2. \/ currentTurn' = NoTurn /\ ~isRunning'
      \/ UNCHANGED <<isRunning, currentTurn>> /\ currentTurn # t
  BY DEF EndRun, ResetTurn, thread
<1>3. "ended" \in Labels \ ({"idle"} \cup StartLabels)
  BY DEF Labels, StartLabels
<1>. QED
  BY <1>1, <1>2, <1>3, OnwardBusy DEF StartLabels

LEMMA SettleBeginsBusy ==
  ASSUME Inv, Epochs, Busy, NEW t \in Turns, SettleBegins(t)
  PROVE  Busy'
<1>1. /\ pc[t] \in {"ended", "dropping"} /\ t # NoTurn
      /\ UNCHANGED <<isRunning, currentTurn, victim, wake, host, withGoal, consuming, aborted,
                     activeRun, child>>
  BY NamesAreDistinct DEF SettleBegins, timer, thread, epoch
<1>2. PICK l \in {"settling", "closing"} : Goto(t, l)
  BY DEF SettleBegins
<1>3. l \in Labels \ ({"idle"} \cup StartLabels) /\ l \notin OutOfWork \cup Early \cup BegunLabels
  BY DEF Labels, StartLabels, OutOfWork, Early, BegunLabels
<1>4. goal' = "active" => goal = "active"
  BY DEF SettleBegins
<1>5. currentTurn = t => t \notin consuming /\ (goal = "active" /\ t \in Users => Doomed(t))
  BY <1>1 DEF Busy, CurrentFits, Serves, ServesGoal, AtWork
<1>6. l \notin {"ended", "running", "finishing", "idle", "creating", "joining", "joined", "hooks",
               "announcing"}
  OBVIOUS
<1>. QED
  BY <1>1, <1>2, <1>3, <1>4, <1>5, <1>6, OnwardBusy DEF StartLabels

LEMMA SettleEndsBusy ==
  ASSUME Inv, Epochs, Busy, NEW t \in Turns, SettleEnds(t)
  PROVE  Busy'
<1>1. /\ pc[t] = "settling" /\ t # NoTurn
      /\ UNCHANGED <<isRunning, currentTurn, victim, wake, host, withGoal, consuming>>
  BY NamesAreDistinct DEF SettleEnds, timer, thread
<1>2. PICK l \in {"settled", "closing"} : Goto(t,
  l) /\ (IsCurrentRun(t) /\ goal' = "active" => l = "settled")
  BY DEF SettleEnds
<1>3. l \in Labels \ ({"idle"} \cup StartLabels) /\ l \notin OutOfWork \cup Early \cup BegunLabels
  BY DEF Labels, StartLabels, OutOfWork, Early, BegunLabels
<1>4. currentTurn = t => t \notin consuming /\ (goal = "active" /\ t \in Users => Doomed(t))
  BY <1>1 DEF Busy, CurrentFits, Serves, ServesGoal, AtWork
<1>5. l \notin {"ended", "running", "finishing", "idle", "creating", "joining", "joined", "hooks",
               "announcing"}
  OBVIOUS
<1>6. CASE UNCHANGED <<child, aborted>> /\ ForgetRun(t) /\ goal' = goal
  <2>1. activeRun' # activeRun => activeRun = t /\ (goal = "active" => l = "settled")
    BY <1>2, <1>6 DEF ForgetRun, IsCurrentRun
  <2>. QED
    BY <1>1, <1>2, <1>3, <1>4, <1>5, <1>6, <2>1, OnwardBusy DEF StartLabels, BegunLabels
<1>7. CASE goal' # "active" /\ Invalidate
  <2>1. pc'[t] = l /\ \A x \in Turns \ {t} : pc'[x] = pc[x]
    BY <1>2, Moved
  <2>2. \A x \in aborted' : x \in aborted \/ pc[x] \notin Early
    BY <1>7 DEF Invalidate, InvalidateAs, AbortScopes, Linked, Early
  <2>3. CurrentFits'
    BY <1>1, <1>3, <1>4, <1>5, <1>7, <2>1, <2>2 DEF Busy, CurrentFits, Serves, Inv, TypeOK,
       ThreadTyped
  <2>4. HasChildren' => HasChildren
    BY <1>7 DEF HasChildren, Invalidate, InvalidateAs, Past
  <2>5. HoldersFit'
    BY <1>1, <1>2, <1>3, <1>5, <2>4, OnwardHolders DEF Busy, host
  <2>. QED
    BY <1>7, <2>3, <2>5 DEF Busy, Owed
<1>. QED
  BY <1>6, <1>7 DEF SettleEnds, IsCurrentRun

LEMMA SettledBusy ==
  ASSUME Inv, Busy, NEW t \in Turns, Settled(t)
  PROVE  Busy'
<1>1. /\ pc[t] = "settled" /\ t # NoTurn /\ Goto(t, "closing")
      /\ UNCHANGED <<isRunning, currentTurn, victim, host, withGoal, consuming>>
  BY NamesAreDistinct DEF Settled, thread
<1>2. /\ "closing" \in Labels \ ({"idle"} \cup StartLabels)
      /\ "closing" \notin OutOfWork \cup Early \cup BegunLabels
  BY DEF Labels, StartLabels, OutOfWork, Early, BegunLabels
<1>3. pc'[t] = "closing" /\ \A x \in Turns \ {t} : pc'[x] = pc[x]
  BY <1>1, Moved
<1>4. currentTurn = t => t \notin consuming /\ (goal = "active" /\ t \in Users => Doomed(t))
  BY <1>1 DEF Busy, CurrentFits, Serves, ServesGoal, AtWork
<1>5. HasChildren' => HasChildren
  BY DEF Settled, Limit, Invalidate, InvalidateAs, Past, epoch, HasChildren
<1>6. HoldersFit'
  BY <1>1, <1>2, <1>5, OnwardHolders DEF Busy, host
<1>7. CASE Limit
  <2>1. goal' # "active" /\ \A x \in aborted' : x \in aborted \/ pc[x] \notin Early
    BY <1>7 DEF Limit, Invalidate, InvalidateAs, AbortScopes, Linked, Early
  <2>2. CurrentFits'
    BY <1>1, <1>2, <1>3, <1>4, <2>1 DEF Busy, CurrentFits, Serves, Inv, TypeOK, ThreadTyped
  <2>. QED
    BY <1>6, <2>1, <2>2 DEF Busy, Owed
<1>8. CASE Wake /\ UNCHANGED <<epoch, status>>
  <2>1. CurrentFits'
    BY <1>1, <1>2, <1>3, <1>4, <1>8 DEF Busy, CurrentFits, Serves, ServesGoal, Doomed, epoch,
       status,
       Inv, TypeOK, ThreadTyped
  <2>2. Owed'
    BY <1>8 DEF Wake, Schedule, Owed, status
  <2>. QED
    BY <1>6, <2>1, <2>2 DEF Busy
<1>. QED
  BY <1>7, <1>8 DEF Settled

LEMMA CloseBusy ==
  ASSUME Inv, Epochs, Busy, NEW t \in Turns, Close(t)
  PROVE  Busy'
<1>1. /\ pc[t] \in {"closing", "ended", "dropping"} /\ t # NoTurn /\ Goto(t, "finishing")
      /\ withGoal' = withGoal \ {t}
      /\ UNCHANGED <<victim, wake, host, consuming, aborted, activeRun, child, goal>>
  BY NamesAreDistinct DEF Close, timer, status
<1>2. "finishing" \in Labels \ ({"idle"} \cup StartLabels)
      /\ "finishing" \notin OutOfWork \cup Early \cup BegunLabels \cup {"ended"}
  BY DEF Labels, StartLabels, OutOfWork, Early, BegunLabels
<1>3. currentTurn = t => t \notin consuming /\ (goal = "active" /\ t \in Users => Doomed(t))
  BY <1>1 DEF Busy, CurrentFits, Serves, ServesGoal, AtWork
<1>4. \/ currentTurn' = NoTurn /\ ~isRunning'
      \/ UNCHANGED <<isRunning, currentTurn>> /\ (currentTurn = t => t \notin Internals)
  BY <1>3 DEF Close, Uncollected, ResetTurn, thread
<1>. QED
  BY <1>1, <1>2, <1>3, <1>4, OnwardBusy DEF StartLabels, Turns

LEMMA ChildFinishedBusy ==
  ASSUME Inv, Busy, NEW c \in Children, ChildFinished(c)
  PROVE  Busy'
<1>1. UNCHANGED <<isRunning, currentTurn, victim, host, withGoal, consuming, activeRun, aborted,
                  goal>>
  BY DEF ChildFinished, thread, status
<1>. DEFINE last == \A d \in Children \ {c} : child[d] = "none"
<1>2. last => ~HasChildren'
  BY DEF ChildFinished, HasChildren, Inv, TypeOK, EpochTyped
<1>3. ~last => HasChildren' /\ UNCHANGED pc
  <2>. SUFFICES ASSUME ~last PROVE HasChildren' /\ UNCHANGED pc
    OBVIOUS
  <2>1. HasChildren'
    BY DEF ChildFinished, HasChildren, Inv, TypeOK, EpochTyped
  <2>2. pc' = [t \in Turns |-> pc[t]]
    BY DEF ChildFinished
  <2>. QED
    BY <2>1, <2>2 DEF Inv, TypeOK, TurnTyped
<1>4. \A x \in Turns : pc'[x] = pc[x] \/ (pc[x] = "joining" /\ pc'[x] = "joined")
  BY DEF ChildFinished
<1>5. CurrentFits'
  BY <1>1, <1>4 DEF Busy, CurrentFits, Serves, ServesGoal, Doomed, Inv, TypeOK, ThreadTyped,
     Early,
     AtWork, OutOfWork, BegunLabels
<1>6. HoldersFit'
  <2>1. consuming \cup withGoal \subseteq Turns
    BY DEF Inv, TypeOK, TurnTyped
  <2>2. \A p \in DOMAIN victim : victim[p] \in Turns \cup {NoTurn}
    BY DEF Inv, TypeOK, TurnTyped
  <2>3. \A u \in Users : victim'[u] # NoTurn => pc'[u] = "interrupting"
    BY <1>1, <1>4 DEF Busy, HoldersFit, Turns
  <2>4. \A x \in withGoal' : pc'[x] \in {"joined", "hooks"} => ~HasChildren'
    <3>1. CASE last
      BY <1>2, <3>1
    <3>2. CASE ~last
      BY <1>1, <1>3, <3>2 DEF Busy, HoldersFit, ChildFinished, HasChildren
    <3>. QED
      BY <3>1, <3>2
  <2>5. \A x \in consuming' : pc'[x] # "idle" /\ pc'[x] \notin StartLabels
    BY <1>1, <1>4, <2>1 DEF Busy, HoldersFit, StartLabels
  <2>6. \A p \in DOMAIN victim' : victim'[p] # NoTurn => pc'[victim'[p]] \notin StartLabels
    BY <1>1, <1>4, <2>2 DEF Busy, HoldersFit, StartLabels
  <2>. QED
    BY <1>1, <2>3, <2>4, <2>5, <2>6 DEF Busy, HoldersFit, host
<1>7. Owed'
  <2>1. CASE ~last
    BY <1>3, <2>1 DEF Owed
  <2>2. CASE last /\ activeRun = NoTurn
    BY <1>1, <2>2 DEF ChildFinished, Wake, Schedule, Owed
  <2>3. CASE last /\ activeRun # NoTurn
    BY <1>1, <2>3 DEF Owed, Owes, Inv, TypeOK, EpochTyped
  <2>. QED
    BY <2>1, <2>2, <2>3
<1>. QED
  BY <1>5, <1>6, <1>7 DEF Busy

LEMMA UsageBusy ==
  ASSUME Inv, Busy, Usage
  PROVE  Busy'
<1>1. PICK e : Overspend(e)
  BY DEF Usage
<1>2. /\ goal' # "active" /\ (HasChildren' => HasChildren)
      /\ UNCHANGED <<isRunning, currentTurn, pc, victim, withGoal, consuming, compacting>>
  BY <1>1 DEF Overspend, StillCompleting, turn, thread, host, epoch, Invalidate, InvalidateAs,
     Past,
     HasChildren
<1>3. \A x \in aborted' : x \in aborted \/ pc[x] \notin Early
  BY <1>1 DEF Overspend, epoch, Invalidate, InvalidateAs, AbortScopes, Linked, Early
<1>. QED
  BY <1>2, <1>3, InactiveBusy

LEMMA InterruptBusy ==
  ASSUME Inv, Busy, Interrupt
  PROVE  Busy'
<1>1. /\ goal' # "active" /\ (HasChildren' => HasChildren)
      /\ UNCHANGED <<isRunning, currentTurn, pc, withGoal, consuming, compacting>>
      /\ victim' = [victim EXCEPT ![Stop] = currentTurn]
  BY DEF Interrupt, Pause, thread, host, epoch, status, Invalidate, InvalidateAs, Past,
     HasChildren
<1>2. \A x \in aborted' : x \in aborted \/ pc[x] \notin Early
  BY DEF Interrupt, Pause, epoch, Invalidate, InvalidateAs, AbortScopes, Linked, Early
<1>3. CurrentFits' /\ Owed'
  BY <1>1, <1>2 DEF Busy, CurrentFits, Serves, Owed
<1>4. \A p \in DOMAIN victim' : /\ p \in DOMAIN victim
                                /\ victim'[p] = IF p = Stop THEN currentTurn ELSE victim[p]
  BY <1>1 DEF Inv, TypeOK, TurnTyped
<1>5. \A u \in Users : victim'[u] = victim[u]
  BY <1>1, NamesAreDistinct DEF Turns, Inv, TypeOK, TurnTyped
<1>6. currentTurn # NoTurn => pc[currentTurn] \notin StartLabels
  BY DEF Busy, CurrentFits, Serves, OutOfWork, StartLabels
<1>7. HoldersFit'
  BY <1>1, <1>4, <1>5, <1>6 DEF Busy, HoldersFit
<1>. QED
  BY <1>3, <1>7 DEF Busy

LEMMA ChangeGoalBusy ==
  ASSUME Inv, Busy, ChangeGoal
  PROVE  Busy'
<1>1. UNCHANGED <<isRunning, currentTurn, pc, victim, withGoal, consuming, compacting>>
  BY DEF ChangeGoal, thread, turn
<1>2. HasChildren' => HasChildren
  BY DEF ChangeGoal, SetGoal, EditGoal, ResumeGoal, PauseGoal, ClearGoal, NewGoal, Pause,
     KeepEpoch,
     epoch, Invalidate, InvalidateAs, Past, HasChildren
<1>3. \A x \in aborted' : x \in aborted \/ pc[x] \notin Early
  BY DEF ChangeGoal, SetGoal, EditGoal, ResumeGoal, PauseGoal, ClearGoal, NewGoal, Pause,
     KeepEpoch,
     epoch, Invalidate, InvalidateAs, AbortScopes, Linked, Early
<1>4. CASE SetGoal \/ ResumeGoal
  <2>1. currentTurn' = NoTurn /\ saving'
    BY <1>1, <1>4 DEF SetGoal, ResumeGoal, Idle, Inv, Host
  <2>2. HoldersFit'
    BY <1>1, <1>2 DEF Busy, HoldersFit
  <2>. QED
    BY <2>1, <2>2 DEF Busy, CurrentFits, Owed
<1>5. CASE EditGoal \/ PauseGoal \/ ClearGoal
  <2>1. goal' # "active"
    BY <1>5 DEF EditGoal, PauseGoal, Pause, ClearGoal
  <2>. QED
    BY <1>1, <1>2, <1>3, <2>1, InactiveBusy
<1>. QED
  BY <1>4, <1>5 DEF ChangeGoal

LEMMA StepBusy ==
  ASSUME Inv, Epochs, Busy, [Next]_vars
  PROVE  Busy'
<1>1. ASSUME NEW u \in Users, UserStep(u) PROVE Busy'
  BY <1>1, StartUserBusy, AdmitUserBusy, TakeOverBusy, AfterRetirementBusy, HooksPassBusy,
     HooksBlockBusy, AnnouncedBusy, ProposeBusy, CreateGoalBusy, CreatedBusy, UnblockBusy,
     Zenon DEF UserStep
<1>2. ASSUME NEW t \in Turns, TurnStep(t) PROVE Busy'
  BY <1>2, LeaveQueueBusy, JoinRejectedBusy, JoinedBusy, BegunBusy, ReportBusy, SpawnBusy,
     EndRunBusy, SettleBeginsBusy, SettleEndsBusy, SettledBusy, CloseBusy, FinishBusy,
     Zenon DEF TurnStep
<1>3. ASSUME TimerStep PROVE Busy'
  BY <1>3, TimerFiresBusy, RefuseInternalBusy, TimerClearedBusy, AdmitInternalBusy,
     Zenon DEF TimerStep
<1>4. ASSUME Request PROVE Busy'
  BY <1>4, InterruptBusy, InterruptedBusy, ChangeGoalBusy, ChangedBusy, StartCompactionBusy,
     EndCompactionBusy, DisconnectBusy, ConnectBusy, Zenon DEF Request
<1>5. ASSUME UNCHANGED vars PROVE Busy'
  <2>1. UNCHANGED <<thread, turn, timer, host, epoch, status>>
    BY <1>5 DEF vars
  <2>2. CurrentFits' /\ HoldersFit'
    BY <2>1, RestBusy DEF thread, turn, host, epoch, status, HasChildren
  <2>3. Owed'
    BY <2>1 DEF Busy, Owed, Owes, turn, timer, host, epoch, status, HasChildren
  <2>. QED
    BY <2>2, <2>3 DEF Busy
<1>. QED
  BY <1>1, <1>2, <1>3, <1>4, <1>5, ChildFinishedBusy, UsageBusy, Zenon DEF Next

LEMMA InitBusy == Init => Busy
BY NamesAreDistinct DEF Init, Busy, CurrentFits, HoldersFit, Owed, StartLabels

LEMMA AlwaysBusy == Spec => []Busy
<1>1. Inv /\ Epochs /\ Busy /\ [Next]_vars => Busy'
  BY StepBusy
<1>. QED
  BY <1>1, InitBusy, AlwaysInv, AlwaysEpochs, PTL DEF Spec

\* A turn that has ended leaves the thread free for the next one, whichever way it went, but for
\* a user's turn that was stopped with its goal while its message was announced.
THEOREM EndedTurnsLeave == Spec => []OnlyStoppedTurnsStayBusy
<1>1. Inv /\ Busy => OnlyStoppedTurnsStayBusy
  <2>. SUFFICES ASSUME Inv, Busy, LeftBusy
                PROVE  currentTurn \in Users /\ goal # "active"
    BY DEF OnlyStoppedTurnsStayBusy
  <2>1. currentTurn \in Turns /\ currentTurn # NoTurn /\ pc[currentTurn] = "idle"
    BY DEF LeftBusy, Inv, TypeOK, ThreadTyped
  <2>2. currentTurn \in Users
    BY <2>1 DEF Busy, CurrentFits, Serves, Turns
  <2>3. ~Doomed(currentTurn)
    BY DEF LeftBusy, Doomed, Inv, TypeOK, TurnTyped
  <2>. QED
    BY <2>1, <2>2, <2>3 DEF Busy, CurrentFits, ServesGoal, AtWork
<1>. QED
  BY <1>1, AlwaysInv, AlwaysBusy, PTL

\* An active goal never waits for a wake nobody owes it: with no turn, child, save or compaction
\* in progress its timer is set, however the work it waited for was stopped, replaced or refused.
THEOREM WakesAreKept == Spec => []NoLostWake
<1>1. Inv /\ Epochs /\ Busy => NoLostWake
  <2>. SUFFICES ASSUME Inv, Epochs, Busy, goal = "active", connected, ~compacting, ~HasChildren,
                       ~saving, \A t \in Turns : pc[t] = "idle", wake = "none"
                PROVE  FALSE
    BY DEF NoLostWake
  <2>1. PICK t \in Turns : Owes(t)
    BY DEF Busy, Owed
  <2>2. activeRun = t /\ t # NoTurn
    BY <2>1, NamesAreDistinct DEF Owes, StartLabels
  <2>. QED
    BY <2>2 DEF Epochs, RunIsLive, LiveLabels, ScopeLabels
<1>. QED
  BY <1>1, AlwaysInv, AlwaysEpochs, AlwaysBusy, PTL

-----------------------------------------------------------------------------
(* Work for a goal that is no more                                           *)

\* What works for a goal that was cleared or replaced finds no other: nothing sets or creates
\* a goal before it is over.
SomeOld == (\E t \in Turns : era[t] = "old") \/ (\E c \in Children : child[c] = "old")
Forsaken == SomeOld => goal = "none"

\* A step by which no work becomes old and no goal is made.
Ages ==
  /\ goal = "none" => goal' = "none"
  /\ \A t \in Turns : era'[t] = "old" => era[t] = "old"
  /\ \A c \in Children : child'[c] = "old" => SomeOld

LEMMA AgesKeepsForsaken ==
  ASSUME Forsaken, Ages
  PROVE  Forsaken'
BY DEF Forsaken, SomeOld, Ages

LEMMA RestAges ==
  ASSUME goal' = goal, era' = era, child' = child
  PROVE  Ages
BY DEF Ages, SomeOld

LEMMA StalingAges ==
  ASSUME TypeOK, Invalidate, goal = "none" => goal' = "none"
  PROVE  Ages
BY DEF Invalidate, InvalidateAs, Past, TypeOK, EpochTyped, Ages, SomeOld

\* No turn or child of a former goal is left where a goal is made.
LEMMA NewGoalForsakesNone ==
  ASSUME Inv, Epochs, NewGoal, ~HasChildren, \A t \in InWork : era[t] = "none"
  PROVE  Forsaken'
<1>1. \A t \in Turns : era[t] = "none"
  BY DEF Epochs, ErasFit, ScopeLabels, InWork, OutOfWork
<1>2. \A t \in Turns : era'[t] = "none"
  BY <1>1 DEF NewGoal, InvalidateAs, Past
<1>3. \A c \in Children : child'[c] = "none"
  BY DEF NewGoal, InvalidateAs, Past, HasChildren
<1>. QED
  BY <1>2, <1>3 DEF Forsaken, SomeOld

LEMMA ClearedForsakes ==
  ASSUME goal' = "none"
  PROVE  Forsaken'
BY DEF Forsaken

LEMMA BeginRunAges ==
  ASSUME Inv, NEW t \in Turns, BeginRun(t)
  PROVE  Ages
<1>1. CASE goal # "active"
  BY <1>1, RestAges DEF BeginRun, epoch, status
<1>2. CASE goal = "active"
  <2>1. CASE UNCHANGED <<epoch, status>>
    BY <2>1, RestAges DEF epoch, status
  <2>2. CASE Limit
    BY <2>2, <1>2, StalingAges DEF Limit, Inv
  <2>3. CASE era' = [era EXCEPT ![t] = "current"] /\ UNCHANGED <<child, goal>>
    BY <2>3 DEF Ages, SomeOld, Inv, TypeOK, EpochTyped
  <2>. QED
    BY <1>2, <2>1, <2>2, <2>3 DEF BeginRun
<1>. QED
  BY <1>1, <1>2

LEMMA UserStepForsakes ==
  ASSUME Inv, Epochs, Forsaken, NEW u \in Users, UserStep(u)
  PROVE  Forsaken'
<1>. u \in Turns
  BY DEF Turns
<1>1. CASE \/ StartUser(u) \/ TakeOver(u) \/ AfterRetirement(u) \/ HooksBlock(u)
           \/ Announced(u) \/ Propose(u) \/ Created(u) \/ Unblock(u)
  <2>1. goal' = goal /\ era' = era /\ child' = child
    BY <1>1 DEF StartUser, TakeOver, AfterRetirement, HooksBlock, Announced, Propose, Created,
       Unblock, Resolve, epoch, status
  <2>. QED
    BY <2>1, RestAges, AgesKeepsForsaken
<1>2. CASE AdmitUser(u)
  <2>1. CASE goal = "active" /\ Invalidate
    BY <1>2, <2>1, StalingAges, AgesKeepsForsaken DEF AdmitUser, status, Inv
  <2>2. CASE era' = era /\ child' = child
    BY <1>2, <2>2, RestAges, AgesKeepsForsaken DEF AdmitUser, status
  <2>. QED
    BY <1>2, <2>1, <2>2 DEF AdmitUser, KeepEpoch, epoch
<1>3. CASE HooksPass(u)
  <2>1. CASE BeginRun(u)
    BY <2>1, BeginRunAges, AgesKeepsForsaken
  <2>2. CASE UNCHANGED <<epoch, status>>
    BY <2>2, RestAges, AgesKeepsForsaken DEF epoch, status
  <2>. QED
    BY <1>3, <2>1, <2>2 DEF HooksPass
<1>4. CASE CreateGoal(u)
  <2>1. pc[u] = "ended" /\ turnWork = u /\ era[u] = "none" /\ ~HasChildren /\ NewGoal
    BY <1>4 DEF CreateGoal, MayCreate
  <2>2. u \in InWork /\ u \in Heads
    BY <2>1 DEF InWork, Heads, OutOfWork, HeadLabels
  <2>3. awaits[u] = NoTurn /\ u # NoTurn
    BY <2>1, <2>2, NamesAreDistinct DEF Inv, Queue
  <2>4. InWork = {u}
    BY <2>1, <2>2, <2>3, LastAndFirst DEF Inv
  <2>. QED
    BY <2>1, <2>4, NewGoalForsakesNone
<1>. QED
  BY <1>1, <1>2, <1>3, <1>4 DEF UserStep

LEMMA TurnStepAges ==
  ASSUME Inv, Forsaken, NEW t \in Turns, TurnStep(t)
  PROVE  Ages
<1>1. CASE LeaveQueue(t) \/ Joined(t)
  <2>1. CASE BeginRun(t)
    BY <2>1, BeginRunAges
  <2>2. CASE UNCHANGED <<epoch, status>>
    BY <2>2, RestAges DEF epoch, status
  <2>. QED
    BY <1>1, <2>1, <2>2 DEF LeaveQueue, Joined, GoesOn
<1>2. CASE JoinRejected(t) \/ EndRun(t) \/ Finish(t)
  BY <1>2, RestAges DEF JoinRejected, EndRun, Finish, Resolve, epoch, status
<1>3. CASE Begun(t)
  BY <1>3 DEF Begun, Ages, SomeOld, Inv, TypeOK, EpochTyped, status
<1>4. CASE Report(t)
  <2>1. goal # "none"
    BY <1>4 DEF Report, IsCurrentRun
  <2>2. CASE KeepEpoch
    BY <2>1, <2>2 DEF Ages, SomeOld, KeepEpoch, epoch
  <2>. QED
    BY <1>4, <2>1, <2>2, StalingAges DEF Report, Inv
<1>5. CASE Spawn(t)
  BY <1>5 DEF Spawn, Ages, SomeOld, Inv, TypeOK, EpochTyped, status
<1>6. CASE SettleBegins(t)
  BY <1>6 DEF SettleBegins, Ages, SomeOld, epoch
<1>7. CASE SettleEnds(t)
  <2>1. CASE IsCurrentRun(t) /\ Invalidate
    BY <2>1, StalingAges DEF IsCurrentRun, Inv
  <2>2. CASE era' = era /\ child' = child
    BY <1>7, <2>2 DEF SettleEnds, Ages, SomeOld, IsCurrentRun
  <2>. QED
    BY <1>7, <2>1, <2>2 DEF SettleEnds
<1>8. CASE Settled(t)
  <2>1. CASE goal = "active" /\ Limit
    BY <2>1, StalingAges DEF Limit, Inv
  <2>2. CASE UNCHANGED <<epoch, status>>
    BY <2>2, RestAges DEF epoch, status
  <2>. QED
    BY <1>8, <2>1, <2>2 DEF Settled
<1>9. CASE Close(t)
  BY <1>9 DEF Close, Ages, SomeOld, Inv, TypeOK, EpochTyped, status
<1>. QED
  BY <1>1, <1>2, <1>3, <1>4, <1>5, <1>6, <1>7, <1>8, <1>9 DEF TurnStep

LEMMA ChildFinishedAges ==
  ASSUME Inv, NEW c \in Children, ChildFinished(c)
  PROVE  Ages
BY DEF ChildFinished, Ages, SomeOld, Inv, TypeOK, EpochTyped, status

LEMMA UsageAges ==
  ASSUME Inv, Usage
  PROVE  Ages
<1>1. PICK e : Overspend(e)
  BY DEF Usage
<1>2. CASE goal = "active" /\ Invalidate
  BY <1>2, StalingAges DEF Inv
<1>3. CASE UNCHANGED <<era, child, goal>>
  BY <1>3, RestAges
<1>. QED
  BY <1>1, <1>2, <1>3 DEF Overspend, epoch

LEMMA TimerStepAges ==
  ASSUME TimerStep
  PROVE  Ages
<1>1. goal' = goal /\ era' = era /\ child' = child
  BY DEF TimerStep, TimerFires, RefuseInternal, TimerCleared, AdmitInternal, epoch, status
<1>. QED
  BY <1>1, RestAges

LEMMA IdleIsUnscoped ==
  ASSUME Inv, Idle
  PROVE  ~HasChildren /\ InWork = {}
BY DEF Idle, Inv, Queue

LEMMA RequestForsakes ==
  ASSUME Inv, Epochs, Forsaken, Request
  PROVE  Forsaken'
<1>1. CASE Interrupt \/ (ChangeGoal /\ PauseGoal)
  <2>1. CASE goal = "active" /\ Invalidate
    BY <2>1, StalingAges, AgesKeepsForsaken DEF Inv
  <2>2. CASE UNCHANGED <<epoch, status>>
    BY <2>2, RestAges, AgesKeepsForsaken DEF epoch, status
  <2>. QED
    BY <1>1, <2>1, <2>2 DEF Interrupt, PauseGoal, Pause
<1>2. CASE \/ Interrupted \/ Changed \/ StartCompaction \/ EndCompaction \/ Disconnect
           \/ Connect \/ EditGoal
  <2>1. goal' = goal /\ era' = era /\ child' = child
    BY <1>2 DEF Interrupted, Changed, StartCompaction, EndCompaction, Disconnect, Connect,
       EditGoal, KeepEpoch, epoch, status
  <2>. QED
    BY <2>1, RestAges, AgesKeepsForsaken
<1>3. CASE SetGoal
  <2>1. ~HasChildren /\ InWork = {} /\ NewGoal
    BY <1>3, IdleIsUnscoped DEF SetGoal
  <2>. QED
    BY <2>1, NewGoalForsakesNone
<1>4. CASE ResumeGoal
  BY <1>4, StalingAges, AgesKeepsForsaken DEF ResumeGoal, Inv
<1>5. CASE ClearGoal
  BY <1>5, ClearedForsakes DEF ClearGoal
<1>. QED
  BY <1>1, <1>2, <1>3, <1>4, <1>5 DEF Request, ChangeGoal

LEMMA StepForsakes ==
  ASSUME Inv, Epochs, Forsaken, [Next]_vars
  PROVE  Forsaken'
<1>1. CASE UNCHANGED vars
  BY <1>1, RestAges, AgesKeepsForsaken DEF vars, epoch, status
<1>2. ASSUME NEW u \in Users, UserStep(u) PROVE Forsaken'
  BY <1>2, UserStepForsakes
<1>3. ASSUME NEW t \in Turns, TurnStep(t) PROVE Forsaken'
  BY <1>3, TurnStepAges, AgesKeepsForsaken
<1>4. ASSUME NEW c \in Children, ChildFinished(c) PROVE Forsaken'
  BY <1>4, ChildFinishedAges, AgesKeepsForsaken
<1>5. ASSUME Usage \/ TimerStep PROVE Forsaken'
  BY <1>5, UsageAges, TimerStepAges, AgesKeepsForsaken
<1>. QED
  BY <1>1, <1>2, <1>3, <1>4, <1>5, RequestForsakes, Zenon DEF Next

LEMMA AlwaysForsaken == Spec => []Forsaken
<1>1. Init => Forsaken
  BY DEF Init, Forsaken, SomeOld
<1>2. Inv /\ Epochs /\ Forsaken /\ [Next]_vars => Forsaken'
  BY StepForsakes
<1>. QED
  BY <1>1, <1>2, AlwaysInv, AlwaysEpochs, PTL DEF Spec

\* A turn has no goal to change when there is none.
LEMMA GoallessTurnsAreInert ==
  ASSUME goal = "none", NEW t \in Turns, TurnStep(t)
  PROVE  UNCHANGED status
<1>1. CASE LeaveQueue(t) \/ Joined(t)
  <2>1. GoesOn(t) => UNCHANGED status
    BY DEF GoesOn, BeginRun, status
  <2>. QED
    BY <1>1, <2>1 DEF LeaveQueue, Joined
<1>2. CASE \/ JoinRejected(t) \/ Begun(t) \/ Report(t) \/ Spawn(t) \/ EndRun(t)
           \/ SettleBegins(t) \/ SettleEnds(t) \/ Settled(t) \/ Close(t)
  BY <1>2 DEF JoinRejected, Begun, Report, Spawn, EndRun, SettleBegins, SettleEnds, Settled,
     Close, IsCurrentRun, status
<1>3. CASE Finish(t)
  BY <1>3 DEF Finish, Resolve
<1>. QED
  BY <1>1, <1>2, <1>3 DEF TurnStep

\* Runs and children of a goal that was cleared or replaced never touch the next one: there is
\* none while one of them is left.
THEOREM OldWorkTouchesNothing == Spec => OldWorkIsInert
<1>. DEFINE Acts == \/ \E t \in Turns : era[t] = "old" /\ (TurnStep(t) \/ Overspend(era[t]))
                    \/ \E c \in Children : child[c] = "old" /\ ChildFinished(c)
<1>1. ASSUME Forsaken, Acts PROVE UNCHANGED status
  <2>1. goal = "none"
    BY <1>1 DEF Forsaken, SomeOld
  <2>2. ASSUME NEW t \in Turns, era[t] = "old", Overspend(era[t]) PROVE UNCHANGED status
    BY <2>2 DEF Overspend, OfTheGoal
  <2>3. ASSUME NEW c \in Children, ChildFinished(c) PROVE UNCHANGED status
    BY <2>3 DEF ChildFinished
  <2>. QED
    BY <1>1, <2>1, <2>2, <2>3, GoallessTurnsAreInert
<1>2. Forsaken => [Acts => UNCHANGED status]_vars
  BY <1>1
<1>. QED
  BY <1>2, AlwaysForsaken, PTL DEF OldWorkIsInert
====
