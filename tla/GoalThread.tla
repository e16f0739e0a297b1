---- MODULE GoalThread ----
(***************************************************************************)
(* One thread of the app server (packages/runtime/src/app-server: turn-,     *)
(* thread-handlers, server) and the goal it works for (goals/controller.ts). *)
(* Users start turns, stop them, compact the thread and change the goal; a   *)
(* timer admits internal turns while the goal is active.  A turn is reserved *)
(* at once and executes when the turns before it have cleaned up.            *)
(*                                                                         *)
(* An action is the code between two awaits; pc names the await.             *)
(*                                                                         *)
(* Abstractions: the number of an epoch is whether it is the current one,    *)
(* the id of a goal whether it is still the thread's; turnsUsed, tokensUsed  *)
(* and the limits are which limit is used up, so runs need no bound; the     *)
(* counts that let a failed or idle run be tried again are a choice; blocked *)
(* stands for usage_limited too; saving the goal takes time and never fails; *)
(* no model is changed, goals are enabled and the mode is never plan.        *)
(*                                                                         *)
(* Definitions named Mut... are the mutants of the definition that follows.  *)
(***************************************************************************)

CONSTANTS Users,      \* user turns that can be in progress at once
          Internals,  \* turns of the goal that can be in progress at once
          Children,   \* agents a goal's runs can have at once
          Stop,       \* the client's turn/interrupt
          NoTurn

Turns == Users \cup Internals

ASSUME NamesAreDistinct ==
  /\ Users \cap Internals = {}
  /\ NoTurn \notin Turns /\ Stop \notin Turns

VARIABLES
  \* ThreadRuntime; an abort controller exists whenever currentTurn does
  isRunning, currentTurn, turnWork,
  goalScope,      \* the turn whose scope runtime.goalScope is
  goalCreation,   \* the turn that may create a goal
  pendingGoal,    \* turns whose creation.pending is set
  wake,           \* the goal's timer: none, timer, firing
  wakeAwaits,     \* the turnWork a firing timer waits for
  connected,
  compacting,
  \* handleTurnStart
  pc, awaits,     \* its await, and the previousWork that is not yet resolved
  victim,         \* the turn handleTurnInterrupt is about to retire
  withGoal,       \* turns that work for a goal
  consuming,
  outcome,
  aborted,        \* turns whose controller is aborted
  cancelled,      \* turns whose wait for children was cancelled
  \* GoalController
  goal,           \* status of the goal
  exhausted,      \* the limit that is used up: no, turns, tokens
  activeRun,
  era,            \* scope of a turn's run: none, of the current epoch, of a
                  \* past one of this goal (stale), of another goal (old)
  child,          \* the same of the run a child works for
  saving          \* a set or resume waits for its save

thread == <<isRunning, currentTurn, turnWork>>
capability == <<goalScope, goalCreation, pendingGoal>>
timer == <<wake, wakeAwaits>>
turn == <<pc, awaits, victim, withGoal, consuming, outcome>>
epoch == <<activeRun, era, child, aborted, cancelled>>
status == <<goal, exhausted>>
host == <<connected, compacting, saving>>
vars == <<thread, capability, timer, turn, epoch, status, host>>

Init ==
  /\ isRunning = FALSE /\ currentTurn = NoTurn /\ turnWork = NoTurn
  /\ goalScope = NoTurn /\ goalCreation = NoTurn /\ pendingGoal = {}
  /\ wake = "none" /\ wakeAwaits = NoTurn
  /\ connected = TRUE /\ compacting = FALSE /\ saving = FALSE
  /\ pc = [t \in Turns |-> "idle"]
  /\ awaits = [t \in Turns |-> NoTurn]
  /\ victim = [u \in Users \cup {Stop} |-> NoTurn]
  /\ withGoal = {} /\ consuming = {}
  /\ outcome = [t \in Turns |-> "interrupted"]
  /\ aborted = {} /\ cancelled = {}
  /\ goal = "none" /\ exhausted = "no" /\ activeRun = NoTurn
  /\ era = [t \in Turns |-> "none"]
  /\ child = [c \in Children |-> "none"]

-----------------------------------------------------------------------------
(* GoalController: epochs *)

HasChildren == \E c \in Children : child[c] # "none"

\* isCurrent(identity) for the run of t; any invalidation forgets activeRun.
IsCurrentRun(t) == goal = "active" /\ activeRun = t

\* The turns whose controller a scope's signal aborts, and whoever waits for
\* children, when the goal's cancellation is aborted.
MutLinked == {t \in Turns : pc[t] = "running" /\ era[t] = "current"}
Linked == {t \in Turns : pc[t] \in {"announcing", "running"} /\ era[t] = "current"}

AbortScopes ==
  /\ aborted' = aborted \cup Linked
  /\ cancelled' = cancelled \cup {t \in Turns : pc[t] = "joining"}

Past(e, past) == IF e = "none" \/ e = "old" THEN e ELSE past

\* invalidate(): what runs does so for a past epoch of this goal or another.
InvalidateAs(past) ==
  /\ AbortScopes
  /\ activeRun' = NoTurn
  /\ era' = [t \in Turns |-> Past(era[t], past)]
  /\ child' = [c \in Children |-> Past(child[c], past)]

Invalidate == InvalidateAs("stale")

KeepEpoch == UNCHANGED epoch

\* pause(reason) and limit(), up to the save they wait for or not.
Pause ==
  IF goal = "active"
  THEN Invalidate /\ goal' = "paused" /\ UNCHANGED exhausted
  ELSE UNCHANGED <<epoch, status>>

Limit == Invalidate /\ goal' = "limited" /\ UNCHANGED exhausted

\* host.wake(): scheduleGoal voids the timer there was, even one that fired.
Schedule == wake' = "timer" /\ wakeAwaits' = NoTurn

MutWake == UNCHANGED timer
Wake == IF goal = "active" THEN Schedule ELSE UNCHANGED timer

-----------------------------------------------------------------------------
(* Admission *)

Goto(t, l) == pc' = [pc EXCEPT ![t] = l]

\* A name is free for a new turn when nothing refers to the last one.
Fresh(t) ==
  /\ pc[t] = "idle"
  /\ t \notin {currentTurn, goalScope, goalCreation, activeRun}
  /\ \A p \in DOMAIN victim : victim[p] # t

\* pendingUserStarts
UserStarting == \E u \in Users : pc[u] \in {"admitting", "interrupting", "retired"}

\* isCurrent() of handleTurnStart
Current(t) == currentTurn = t /\ t \notin aborted

ResetTurn == isRunning' = FALSE /\ currentTurn' = NoTurn /\ UNCHANGED turnWork

\* The end of initializeTurnRuntime and the first lines after it.
Reserve(t) ==
  /\ isRunning' = TRUE /\ currentTurn' = t /\ turnWork' = t
  /\ aborted' = aborted \ {t}
  /\ awaits' = [awaits EXCEPT ![t] = turnWork]
  /\ Goto(t, "queued")

ReserveOrReject(u) ==
  IF isRunning
  THEN Goto(u, "idle") /\ UNCHANGED <<thread, aborted, awaits>>
  ELSE Reserve(u)

StartUser(u) ==
  /\ Fresh(u)
  /\ Goto(u, "admitting")
  /\ goalCreation' = NoTurn
  /\ UNCHANGED <<thread, goalScope, pendingGoal, timer, awaits, victim, withGoal,
                 consuming, outcome, epoch, status, host>>

\* A turn of the goal gives way, and so does the goal's current epoch.
AdmitUser(u) ==
  /\ pc[u] = "admitting"
  /\ IF goalScope # NoTurn \/ goal = "active"
     THEN /\ Goto(u, "interrupting")
          /\ victim' = [victim EXCEPT ![u] = IF isRunning THEN currentTurn ELSE NoTurn]
          /\ goalCreation' = IF isRunning THEN NoTurn ELSE goalCreation
          /\ IF goal = "active" THEN Invalidate ELSE KeepEpoch
          /\ UNCHANGED <<thread, awaits>>
     ELSE /\ ReserveOrReject(u)
          /\ UNCHANGED <<victim, goalCreation, activeRun, era, child, cancelled>>
  /\ UNCHANGED <<goalScope, pendingGoal, timer, withGoal, consuming, outcome,
                 status, host>>

\* handleTurnInterrupt after its wait: retire the turn, if it is still the one.
MutRetired(p) == aborted
Retired(p) == aborted \cup {victim[p]}

Retire(p) ==
  /\ isRunning' = FALSE /\ currentTurn' = NoTurn /\ UNCHANGED turnWork
  /\ aborted' = Retired(p)

Overthrows(p) == victim[p] # NoTurn /\ victim[p] = currentTurn

TakeOver(u) ==
  /\ pc[u] = "interrupting"
  /\ IF Overthrows(u)
     THEN Retire(u) /\ Goto(u, "retired") /\ UNCHANGED awaits
     ELSE ReserveOrReject(u)
  /\ victim' = [victim EXCEPT ![u] = NoTurn]
  /\ UNCHANGED <<capability, timer, withGoal, consuming, outcome, activeRun, era,
                 child, cancelled, status, host>>

AfterRetirement(u) ==
  /\ pc[u] = "retired"
  /\ ReserveOrReject(u)
  /\ UNCHANGED <<capability, timer, victim, withGoal, consuming, outcome,
                 activeRun, era, child, cancelled, status, host>>

\* scheduleGoal: the timer fires and waits for the work there is.
TimerFires ==
  /\ wake = "timer"
  /\ wake' = "firing" /\ wakeAwaits' = turnWork
  /\ UNCHANGED <<thread, capability, turn, epoch, status, host>>

\* What it asks then, and handleTurnStart asks again: nothing in between takes
\* time.  A request of the thread that is still asked has a turn or child.
Admissible ==
  ~UserStarting /\ ~isRunning /\ ~HasChildren /\ goal = "active" /\ connected

AdmitInternal(g) ==
  /\ wake = "firing" /\ wakeAwaits = NoTurn
  /\ Admissible /\ Fresh(g)
  /\ Reserve(g)
  /\ wake' = "none"
  /\ UNCHANGED <<wakeAwaits, capability, victim, withGoal, consuming, outcome,
                 activeRun, era, child, cancelled, status, host>>

RefuseInternal ==
  /\ wake = "firing" /\ wakeAwaits = NoTurn
  /\ ~Admissible
  /\ wake' = "none"
  /\ UNCHANGED <<wakeAwaits, thread, capability, turn, epoch, status, host>>

\* changed(): a stored goal that is not active clears the timer.  The stored
\* status lags behind while a set or resume is being saved.
TimerCleared ==
  /\ wake = "timer"
  /\ goal # "active" \/ saving \/ \E t \in Turns : pc[t] = "creating"
  /\ wake' = "none"
  /\ UNCHANGED <<wakeAwaits, thread, capability, turn, epoch, status, host>>

-----------------------------------------------------------------------------
(* handleTurnStart, from the first notification to the run *)

Abandon(t) ==
  Goto(t, "dropping") /\ UNCHANGED thread

\* beginRun up to its save.  A run without a scope is "beginning" all the same.
BeginRun(t) ==
  IF goal # "active" \/ HasChildren
  THEN Goto(t, "beginning") /\ UNCHANGED <<thread, outcome, epoch, status>>
  ELSE IF activeRun # NoTurn
  THEN /\ outcome' = [outcome EXCEPT ![t] = "failed"]
       /\ ResetTurn /\ Goto(t, "dropping") /\ UNCHANGED <<epoch, status>>
  ELSE IF exhausted # "no"
  THEN Limit /\ Goto(t, "beginning") /\ UNCHANGED <<thread, outcome>>
  ELSE /\ activeRun' = t
       /\ era' = [era EXCEPT ![t] = "current"]
       /\ exhausted' \in {"no", "turns"}
       /\ Goto(t, "beginning")
       /\ UNCHANGED <<thread, outcome, child, aborted, cancelled, goal>>

\* After the wait for children, if there were any.
GoesOn(t) ==
  IF t \in Internals THEN BeginRun(t)
  ELSE Goto(t, "hooks") /\ UNCHANGED <<thread, outcome, epoch, status>>

\* The notifications are sent; a turn retired meanwhile need not wait its turn.
LeaveQueue(t) ==
  /\ pc[t] = "queued"
  /\ \/ /\ ~Current(t)
        /\ Abandon(t) /\ UNCHANGED <<withGoal, outcome, epoch, status>>
     \/ /\ Current(t) /\ awaits[t] = NoTurn
        /\ IF t \in Internals \/ goal = "active"
           THEN withGoal' = withGoal \cup {t} ELSE UNCHANGED withGoal
        /\ IF t \in withGoal' /\ HasChildren
           THEN Goto(t, "joining") /\ UNCHANGED <<thread, outcome, epoch, status>>
           ELSE GoesOn(t)
  /\ UNCHANGED <<capability, timer, awaits, victim, consuming, host>>

\* waitForChildren rejects; a turn that is still current reports it and ends.
JoinRejected(t) ==
  /\ pc[t] = "joining"
  /\ t \in cancelled \cup aborted
  /\ IF Current(t) THEN ResetTurn ELSE UNCHANGED thread
  /\ Goto(t, "dropping")
  /\ cancelled' = cancelled \ {t}
  /\ UNCHANGED <<capability, timer, awaits, victim, withGoal, consuming, outcome,
                 activeRun, era, child, aborted, status, host>>

Joined(t) ==
  /\ pc[t] = "joined"
  /\ IF Current(t) THEN GoesOn(t)
     ELSE Abandon(t) /\ UNCHANGED <<outcome, epoch, status>>
  /\ UNCHANGED <<capability, timer, awaits, victim, withGoal, consuming, host>>

\* The hooks let the prompt pass, or the turn is no longer the current one.
HooksPass(u) ==
  /\ pc[u] = "hooks"
  /\ IF ~Current(u)
     THEN Abandon(u) /\ UNCHANGED <<goalCreation, outcome, epoch, status>>
     ELSE IF u \in withGoal THEN BeginRun(u) /\ UNCHANGED goalCreation
     ELSE /\ Goto(u, "announcing") /\ goalCreation' = u
          /\ UNCHANGED <<thread, outcome, epoch, status>>
  /\ UNCHANGED <<goalScope, pendingGoal, timer, awaits, victim, withGoal,
                 consuming, host>>

HooksBlock(u) ==
  /\ pc[u] = "hooks" /\ currentTurn = u
  /\ isRunning' = FALSE /\ currentTurn' = NoTurn /\ turnWork' = NoTurn
  /\ Goto(u, "blocked")
  /\ withGoal' = withGoal \ {u}
  /\ UNCHANGED <<capability, timer, awaits, victim, consuming, outcome, epoch,
                 status, host>>

\* beginRun has saved; the scope, if there is one, is linked to the controller.
MutCreator(t) == t
Creator(t) == IF t \in Users THEN t ELSE goalCreation

Begun(t) ==
  /\ pc[t] = "beginning"
  /\ era' = [era EXCEPT ![t] = IF IsCurrentRun(t) THEN @ ELSE "none"]
  /\ IF ~Current(t) \/ (t \in Internals /\ ~IsCurrentRun(t))
     THEN Goto(t, "dropping") /\ UNCHANGED <<goalScope, goalCreation, consuming>>
     ELSE /\ goalScope' = IF IsCurrentRun(t) THEN t ELSE goalScope
          /\ goalCreation' = Creator(t)
          /\ Goto(t, IF t \in Users THEN "announcing" ELSE "running")
          /\ consuming' = consuming \cup ({t} \cap Internals)
  /\ UNCHANGED <<thread, pendingGoal, timer, awaits, victim, withGoal, outcome,
                 activeRun, child, aborted, cancelled, status, host>>

\* The user's message has been announced; without a reset, whatever happened.
Announced(u) ==
  /\ pc[u] = "announcing"
  /\ IF Current(u)
     THEN Goto(u, "running") /\ consuming' = consuming \cup {u}
     ELSE Goto(u, "dropping") /\ UNCHANGED consuming
  /\ UNCHANGED <<thread, capability, timer, awaits, victim, withGoal, outcome,
                 epoch, status, host>>

-----------------------------------------------------------------------------
(* The run, and the children it leaves *)

Working(t) == pc[t] = "running" /\ era[t] # "none"

\* A complete goal's last answer may still be on its way.
StillCompleting(e) == goal = "complete" /\ e = "current" /\ activeRun # NoTurn

MutOfTheGoal(e) == e # "none"
OfTheGoal(e) == e \in {"current", "stale"}

\* recordUsage of a sample that uses up the tokens, for a run of era e.
Overspend(e) ==
  /\ OfTheGoal(e)
  /\ exhausted # "tokens" /\ exhausted' = "tokens"
  /\ CASE goal = "active" -> Invalidate /\ goal' = "limited"
       [] StillCompleting(e) ->
            AbortScopes /\ UNCHANGED <<activeRun, era, child, goal>>
       [] OTHER -> UNCHANGED <<epoch, goal>>
  /\ UNCHANGED <<thread, capability, timer, turn, host>>

Usage == \/ \E t \in Turns : Working(t) /\ Overspend(era[t])
         \/ \E c \in Children : Overspend(child[c])

\* update_goal reports; a stale run is told so and changes nothing.
Report(t) ==
  /\ Working(t) /\ goalScope = t /\ IsCurrentRun(t)
  /\ \/ goal' = "complete" /\ ~HasChildren /\ KeepEpoch
     \/ goal' \in {"blocked", "paused"} /\ Invalidate
  /\ UNCHANGED <<thread, capability, timer, turn, exhausted, host>>

\* create_goal: the goal is set once the turn is over.
Propose(u) ==
  /\ pc[u] = "running" /\ goalCreation = u /\ Current(u)
  /\ goal = "none" /\ u \notin pendingGoal
  /\ pendingGoal' = pendingGoal \cup {u}
  /\ UNCHANGED <<thread, goalScope, goalCreation, timer, turn, epoch, status, host>>

Spawn(t) ==
  /\ Working(t) /\ t \notin aborted
  /\ \E c \in Children :
       child[c] = "none" /\ child' = [child EXCEPT ![c] = era[t]]
  /\ UNCHANGED <<thread, capability, timer, turn, activeRun, era, aborted,
                 cancelled, status, host>>

\* childFinished: the last one ends the waits that were not cancelled.
ChildFinished(c) ==
  /\ child[c] # "none"
  /\ child' = [child EXCEPT ![c] = "none"]
  /\ LET last == \A d \in Children \ {c} : child[d] = "none" IN
     /\ pc' = [t \in Turns |->
                 IF last /\ pc[t] = "joining" /\ t \notin cancelled \cup aborted
                 THEN "joined" ELSE pc[t]]
     /\ IF last /\ activeRun = NoTurn THEN Wake ELSE UNCHANGED timer
  /\ UNCHANGED <<thread, capability, awaits, victim, withGoal, consuming, outcome,
                 activeRun, era, aborted, cancelled, status, host>>

\* The run and its writes are over: consumeTurn frees the thread.
EndRun(t) ==
  /\ pc[t] = "running"
  /\ IF t \in aborted THEN UNCHANGED outcome
     ELSE \E o \in {"completed", "failed", "interrupted"} :
            outcome' = [outcome EXCEPT ![t] = o]
  /\ IF currentTurn = t THEN ResetTurn ELSE UNCHANGED thread
  /\ Goto(t, "ended")
  /\ UNCHANGED <<capability, timer, awaits, victim, withGoal, consuming, epoch,
                 status, host>>

-----------------------------------------------------------------------------
(* settle, or the goal the turn creates, and the end of the turn's work *)

SettleBegins(t) ==
  /\ pc[t] \in {"ended", "dropping"} /\ era[t] # "none"
  /\ IF era[t] = "current" /\ activeRun = t
     THEN /\ goal' = IF goal = "complete" /\ outcome[t] = "failed"
                     THEN "blocked" ELSE goal
          /\ Goto(t, "settling")
     ELSE Goto(t, "closing") /\ UNCHANGED goal
  /\ UNCHANGED <<thread, capability, timer, awaits, victim, withGoal, consuming,
                 outcome, epoch, exhausted, host>>

MutForgetRun(t) == UNCHANGED activeRun
ForgetRun(t) == activeRun' = IF activeRun = t THEN NoTurn ELSE activeRun

SettleEnds(t) ==
  /\ pc[t] = "settling"
  /\ IF IsCurrentRun(t)
     THEN /\ goal' \in CASE outcome[t] = "interrupted" -> {"paused"}
                         [] OTHER -> {"active", "blocked"}
          /\ IF goal' = "active"
             THEN ForgetRun(t) /\ UNCHANGED <<era, child, aborted, cancelled>>
             ELSE Invalidate
          /\ Goto(t, IF outcome[t] = "interrupted" THEN "closing" ELSE "settled")
     ELSE /\ ForgetRun(t)
          /\ Goto(t, "closing")
          /\ UNCHANGED <<goal, era, child, aborted, cancelled>>
  /\ UNCHANGED <<thread, capability, timer, awaits, victim, withGoal, consuming,
                 outcome, exhausted, host>>

Settled(t) ==
  /\ pc[t] = "settled"
  /\ IF goal = "active" /\ exhausted # "no"
     THEN Limit /\ UNCHANGED timer
     ELSE Wake /\ UNCHANGED <<epoch, status>>
  /\ Goto(t, "closing")
  /\ UNCHANGED <<thread, capability, awaits, victim, withGoal, consuming, outcome,
                 host>>

MutMayCreate(u) ==
  /\ pc[u] = "ended" /\ era[u] = "none" /\ u \in pendingGoal
  /\ outcome[u] = "completed" /\ u \notin aborted
  /\ goalCreation = u /\ goal = "none" /\ ~HasChildren
MayCreate(u) ==
  /\ pc[u] = "ended" /\ era[u] = "none" /\ u \in pendingGoal
  /\ outcome[u] = "completed" /\ u \notin aborted
  /\ goalCreation = u /\ turnWork = u /\ ~isRunning /\ ~UserStarting
  /\ goal = "none" /\ ~HasChildren

NewGoal ==
  /\ InvalidateAs("old")
  /\ goal' = "active" /\ exhausted' = "no"

CreateGoal(u) ==
  /\ MayCreate(u)
  /\ NewGoal /\ Goto(u, "creating")
  /\ UNCHANGED <<thread, capability, timer, awaits, victim, withGoal, consuming,
                 outcome, host>>

Created(u) ==
  /\ pc[u] = "creating"
  /\ Wake /\ Goto(u, "closing")
  /\ UNCHANGED <<thread, capability, awaits, victim, withGoal, consuming, outcome,
                 epoch, status, host>>

\* Only an internal turn that never ran is reset at its end.
MutUncollected(t) == FALSE
Uncollected(t) == t \in Internals \ consuming /\ currentTurn = t

\* The finally blocks.
Close(t) ==
  /\ \/ pc[t] = "closing"
     \/ pc[t] \in {"ended", "dropping"} /\ era[t] = "none" /\ ~MayCreate(t)
  /\ goalCreation' = IF goalCreation = t THEN NoTurn ELSE goalCreation
  /\ goalScope' = IF goalScope = t THEN NoTurn ELSE goalScope
  /\ IF Uncollected(t) THEN ResetTurn ELSE UNCHANGED thread
  /\ era' = [era EXCEPT ![t] = "none"]
  /\ outcome' = [outcome EXCEPT ![t] = "interrupted"]
  /\ pendingGoal' = pendingGoal \ {t}
  /\ withGoal' = withGoal \ {t}
  /\ Goto(t, "finishing")
  /\ UNCHANGED <<timer, awaits, victim, consuming, activeRun, child, aborted,
                 cancelled, status, host>>

\* finishWork: the work is resolved for whoever waits for it.
Resolve(t) ==
  /\ pc' = [pc EXCEPT ![t] = "idle"]
  /\ awaits' = [x \in Turns |-> IF awaits[x] = t THEN NoTurn ELSE awaits[x]]
  /\ IF t \notin consuming /\ goal = "active" THEN Schedule
     ELSE /\ wakeAwaits' = IF wakeAwaits = t THEN NoTurn ELSE wakeAwaits
          /\ UNCHANGED wake
  /\ consuming' = consuming \ {t}
  /\ aborted' = aborted \ {t} /\ cancelled' = cancelled \ {t}
  /\ UNCHANGED <<capability, victim, withGoal, outcome, activeRun, era, child,
                 status, host>>

MutMayFinish(t) == pc[t] = "finishing"
MayFinish(t) == pc[t] = "finishing" /\ awaits[t] = NoTurn

Finish(t) ==
  /\ MayFinish(t)
  /\ IF turnWork = t
     THEN /\ turnWork' = NoTurn /\ UNCHANGED currentTurn
          /\ isRunning' = IF currentTurn = NoTurn THEN FALSE ELSE isRunning
     ELSE UNCHANGED thread
  /\ Resolve(t)

\* The notifications of a blocked prompt are sent; turnWork was given up before.
Unblock(u) == pc[u] = "blocked" /\ UNCHANGED thread /\ Resolve(u)

-----------------------------------------------------------------------------
(* Requests of the client *)

\* turn/interrupt; the turn is retired when the goal's pause is saved.
Interrupt ==
  /\ victim[Stop] = NoTurn
  /\ currentTurn # NoTurn \/ goal = "active" \/ goalCreation # NoTurn
  /\ victim' = [victim EXCEPT ![Stop] = currentTurn]
  /\ goalCreation' = NoTurn
  /\ Pause
  /\ UNCHANGED <<thread, goalScope, pendingGoal, timer, pc, awaits, withGoal,
                 consuming, outcome, host>>

Interrupted ==
  /\ victim[Stop] # NoTurn
  /\ IF Overthrows(Stop) THEN Retire(Stop) ELSE UNCHANGED <<thread, aborted>>
  /\ victim' = [victim EXCEPT ![Stop] = NoTurn]
  /\ UNCHANGED <<capability, timer, pc, awaits, withGoal, consuming, outcome,
                 activeRun, era, child, cancelled, status, host>>

Idle == ~isRunning /\ turnWork = NoTurn /\ ~HasChildren

SetGoal ==
  /\ ~saving /\ Idle /\ goal \in {"none", "complete"}
  /\ NewGoal /\ saving' = TRUE

EditGoal ==
  /\ Idle /\ goal \notin {"none", "complete", "active"}
  /\ exhausted' \in {"no", "turns", "tokens"} /\ exhausted' # exhausted
  /\ UNCHANGED <<goal, saving>> /\ KeepEpoch

ResumeGoal ==
  /\ ~saving /\ Idle /\ goal \notin {"none", "complete", "active"}
  /\ exhausted = "no"
  /\ Invalidate /\ goal' = "active" /\ saving' = TRUE /\ UNCHANGED exhausted

PauseGoal == goal = "active" /\ Pause /\ UNCHANGED saving

ClearGoal ==
  /\ goal # "none"
  /\ InvalidateAs("old") /\ goal' = "none" /\ exhausted' = "no"
  /\ UNCHANGED saving

\* thread/goal/set
ChangeGoal ==
  /\ goalCreation' = NoTurn
  /\ SetGoal \/ EditGoal \/ ResumeGoal \/ PauseGoal \/ ClearGoal
  /\ UNCHANGED <<thread, goalScope, pendingGoal, timer, turn, connected, compacting>>

Changed ==
  /\ saving /\ saving' = FALSE
  /\ Wake
  /\ UNCHANGED <<thread, capability, turn, epoch, status, connected, compacting>>

\* thread/compact/start
StartCompaction ==
  /\ ~isRunning /\ turnWork = NoTurn
  /\ isRunning' = TRUE /\ compacting' = TRUE
  /\ UNCHANGED <<currentTurn, turnWork, capability, timer, turn, epoch, status,
                 connected, saving>>

EndCompaction ==
  /\ compacting /\ compacting' = FALSE /\ isRunning' = FALSE
  /\ Wake
  /\ UNCHANGED <<currentTurn, turnWork, capability, turn, epoch, status, connected,
                 saving>>

Disconnect ==
  /\ connected /\ connected' = FALSE
  /\ goalCreation' = NoTurn
  /\ UNCHANGED <<thread, goalScope, pendingGoal, timer, turn, epoch, status,
                 compacting, saving>>

Connect ==
  /\ ~connected /\ connected' = TRUE
  /\ Wake
  /\ UNCHANGED <<thread, capability, turn, epoch, status, compacting, saving>>

-----------------------------------------------------------------------------
UserStep(u) ==
  StartUser(u) \/ AdmitUser(u) \/ TakeOver(u) \/ AfterRetirement(u)
  \/ HooksPass(u) \/ HooksBlock(u) \/ Announced(u) \/ Propose(u)
  \/ CreateGoal(u) \/ Created(u) \/ Unblock(u)

TurnStep(t) ==
  LeaveQueue(t) \/ JoinRejected(t) \/ Joined(t) \/ Begun(t) \/ Report(t)
  \/ Spawn(t) \/ EndRun(t) \/ SettleBegins(t) \/ SettleEnds(t) \/ Settled(t)
  \/ Close(t) \/ Finish(t)

TimerStep ==
  TimerFires \/ RefuseInternal \/ TimerCleared
  \/ \E g \in Internals : AdmitInternal(g)

Request ==
  Interrupt \/ Interrupted \/ ChangeGoal \/ Changed \/ StartCompaction
  \/ EndCompaction \/ Disconnect \/ Connect

Next ==
  \/ \E u \in Users : UserStep(u)
  \/ \E t \in Turns : TurnStep(t)
  \/ \E c \in Children : ChildFinished(c)
  \/ Usage \/ TimerStep \/ Request

Spec == Init /\ [][Next]_vars

\* What takes time but ends: disk, clients, a compaction, timers.  Not a hook, as
\* a plugin's has no timeout, and not a run or a child, even one that is told to
\* stop: its tools may ignore the signal.
Progress(t) ==
  \/ t \in Users /\ (\/ AdmitUser(t) \/ TakeOver(t) \/ AfterRetirement(t)
                     \/ Announced(t) \/ CreateGoal(t) \/ Created(t) \/ Unblock(t))
  \/ LeaveQueue(t) \/ JoinRejected(t) \/ Joined(t) \/ Begun(t) \/ Close(t)
  \/ SettleBegins(t) \/ SettleEnds(t) \/ Settled(t) \/ Finish(t)

FairSpec ==
  /\ Spec
  /\ \A t \in Turns : WF_vars(Progress(t))
  /\ WF_vars(TimerFires) /\ WF_vars(RefuseInternal)
  /\ WF_vars(\E g \in Internals : AdmitInternal(g))
  /\ WF_vars(Interrupted) /\ WF_vars(Changed) /\ WF_vars(EndCompaction)

Labels ==
  {"idle", "admitting", "interrupting", "retired", "queued", "joining", "joined",
   "hooks", "beginning", "announcing", "running", "ended", "settling", "settled",
   "creating", "dropping", "closing", "finishing", "blocked"}

Eras == {"none", "current", "stale", "old"}

ThreadTyped ==
  isRunning \in BOOLEAN /\ {currentTurn, turnWork} \subseteq Turns \cup {NoTurn}

CapabilityTyped ==
  /\ goalScope \in Turns \cup {NoTurn} /\ goalCreation \in Users \cup {NoTurn}
  /\ pendingGoal \subseteq Users

TimerTyped ==
  wake \in {"none", "timer", "firing"} /\ wakeAwaits \in Turns \cup {NoTurn}

TurnTyped ==
  /\ pc \in [Turns -> Labels] /\ awaits \in [Turns -> Turns \cup {NoTurn}]
  /\ victim \in [Users \cup {Stop} -> Turns \cup {NoTurn}]
  /\ withGoal \subseteq Turns /\ consuming \subseteq Turns
  /\ outcome \in [Turns -> {"completed", "failed", "interrupted"}]

EpochTyped ==
  /\ activeRun \in Turns \cup {NoTurn}
  /\ era \in [Turns -> Eras] /\ child \in [Children -> Eras]
  /\ aborted \subseteq Turns /\ cancelled \subseteq Turns

StatusTyped ==
  /\ goal \in {"none", "active", "paused", "blocked", "limited", "complete"}
  /\ exhausted \in {"no", "turns", "tokens"}

HostTyped == {connected, compacting, saving} \subseteq BOOLEAN

TypeOK ==
  /\ ThreadTyped /\ CapabilityTyped /\ TimerTyped /\ TurnTyped
  /\ EpochTyped /\ StatusTyped /\ HostTyped

-----------------------------------------------------------------------------
(* What the thread promises *)

\* Turns whose work others wait for, and what executes the session.
OutOfWork == {"idle", "admitting", "interrupting", "retired", "blocked"}
AtWork == {"joining", "joined", "hooks", "beginning", "announcing", "running"}
InWork == {t \in Turns : pc[t] \notin OutOfWork}
Executing == {t \in Turns : pc[t] \in AtWork}

\* At most one turn or compaction works on the session at a time, however turns
\* are stopped, replaced, queued and blocked (turnWork, previousWork).
SessionExclusive ==
  /\ \A t, u \in Executing : t = u
  /\ compacting => InWork = {}

\* The turn a thread is busy with is over, and no request is about to retire it.
LeftBusy ==
  /\ currentTurn # NoTurn /\ pc[currentTurn] = "idle"
  /\ currentTurn \notin {victim[p] : p \in DOMAIN victim}

\* resetTurnRuntimeState: when a turn has ended, in whichever way, the thread is
\* free for the next one.
EndedTurnsFreeTheThread == ~LeftBusy

\* The one way it is not: a user's turn whose goal was stopped, which aborted
\* the turn, while its message was being announced.
OnlyStoppedTurnsStayBusy ==
  LeftBusy => currentTurn \in Users /\ goal # "active"

\* The run the goal counts is one of a turn that executes or settles and whose
\* turn it is, so beginRun never finds a run it did not expect.
ActiveRunIsLive ==
  /\ activeRun # NoTurn =>
       /\ pc[activeRun] \in {"beginning", "announcing", "running", "ended",
                             "settling", "dropping"}
       /\ awaits[activeRun] = NoTurn /\ era[activeRun] = "current"
  /\ \A t \in Turns : outcome[t] = "failed" => t \in consuming

\* A goal that could go on is never forgotten: if it is active and nothing is in
\* progress that will wake it, its timer is set.
NoLostWake ==
  /\ goal = "active" /\ connected /\ ~compacting /\ ~HasChildren /\ ~saving
  /\ \A t \in Turns : pc[t] = "idle"
  => wake # "none"

\* Tokens stop a run before it dispatches what it just sampled: no run of the
\* goal goes on with its tokens used up.
TokensStopRuns ==
  exhausted = "tokens" =>
    \A t \in Turns : Working(t) /\ era[t] # "old" => t \in aborted

\* Runs and children of a goal that was cleared or replaced never touch the next
\* one, whatever they report, use up or settle.
OldWorkIsInert ==
  [][(\E t \in Turns : era[t] = "old" /\ (TurnStep(t) \/ Overspend(era[t])))
     \/ (\E c \in Children : child[c] = "old" /\ ChildFinished(c))
       => UNCHANGED status]_vars

\* An execution that the goal gave up goes on working only with its signal
\* aborted, and only the current epoch settles the goal.
StaleRunsAreStopped ==
  \A t \in Turns : Working(t) /\ era[t] # "current" => t \in aborted

\* Between them: work that has no goal to be done for, or nothing to spend, is told to stop.
VainRunsAreStopped == TokensStopRuns /\ StaleRunsAreStopped

\* A message of a user never pauses the goal: the turn it replaces, whatever that
\* turn was about to do, leaves the goal as it is (controller.ts: interruptRun).
MessagesKeepTheGoal ==
  [][\A t \in Turns : SettleEnds(t) /\ t \in aborted => goal' = goal]_vars

\* A goal proposed in a turn is created only when that turn's work is the last
\* thing the thread did.
CreationIsQuiet ==
  [][\A u \in Users : CreateGoal(u) => InWork = {u} /\ ~compacting]_vars

\* What is told to stop and does not, or has no timeout, from some point on.
HookHangs(u) == [](pc[u] = "hooks")
RunHangs(t) == [](pc[t] = "running" /\ t \in aborted)
ChildHangs(c) == [](child[c] \in {"stale", "old"})

\* A turn the thread accepted gets the session, is blocked by a hook or was
\* retired; what it waits for was stopped when it was accepted.  Only a hook that
\* never answers, or a stopped run or child that never ends, keeps it from that.
AcceptedTurnsAreServed ==
  \A u \in Users :
    pc[u] = "queued" ~>
      \/ pc[u] \in {"running", "blocked", "finishing"}
      \/ pc[u] = "joining" /\ \E c \in Children : child[c] = "current"
      \/ \E v \in Users : HookHangs(v)
      \/ \E t \in Turns : RunHangs(t)
      \/ \E c \in Children : ChildHangs(c)

\* An active goal is worked for: unless its user or a compaction comes in between,
\* nobody is connected, its children are at work or one that was stopped never
\* ends, another run of it begins.
ActiveGoalGoesOn ==
  goal = "active" ~>
    \/ activeRun # NoTurn \/ goal # "active" \/ ~connected \/ compacting
    \/ \E u \in Users : pc[u] # "idle"
    \/ \E c \in Children : child[c] = "current"
    \/ \E c \in Children : ChildHangs(c)
====
