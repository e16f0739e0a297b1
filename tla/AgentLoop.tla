---- MODULE AgentLoop ----
(***************************************************************************)
(* One Agent (packages/core/src/agent/agent.ts) and the turn loop it runs  *)
(* for every prompt (loop.ts, tool.ts).                                    *)
(*                                                                         *)
(* A JavaScript function is atomic between two awaits, so an action is the *)
(* code between two awaits of the loop; `pc' names the await the loop is   *)
(* suspended in.  Everything that other callbacks may do meanwhile -- queue*)
(* or cancel steering, interrupt the tools, abort the run, finish work a   *)
(* tool left behind -- is an action of the environment.                    *)
(*                                                                         *)
(* Abstractions: a message is its role and a number; whether a compaction  *)
(* is triggered, adopted, rejected or fails is a choice (token counts are  *)
(* not modelled); the native and the textual form of a summary are both    *)
(* the message Summary; events sent to subscribers appear only in Session. *)
(*                                                                         *)
(* Definitions named Mut... are the mutants of the definition that follows *)
(* them (PROJECT.json, "mutants"); nothing else uses them.                 *)
(***************************************************************************)
EXTENDS Integers, Sequences

CONSTANTS MaxRuns,    \* bound: prompts and manual compactions together
          MaxTurns,   \* bound: turns of one run
          MaxCalls,   \* bound: tool calls of one assistant message
          MaxSteers,  \* bound: steering messages ever queued
          MaxTracked, \* bound: pieces of work tools have left running
          WithNotes,  \* whether hooks and the doom-loop detector add messages
          DeafCalls   \* the calls of a message whose tools ignore their signal

ASSUME BoundsAreNaturals ==
  /\ MaxRuns \in Nat /\ MaxTurns \in Nat /\ MaxCalls \in Nat
  /\ MaxSteers \in Nat /\ MaxTracked \in Nat /\ WithNotes \in BOOLEAN
  /\ DeafCalls \subseteq Nat

VARIABLES
  \* Agent
  messages,               \* committed history
  pendingSteering,        \* ids of queued steering messages
  nextSteeringId,
  toolInterruptRequested, \* an interrupt waiting for the next batch
  abortActiveToolBatch,   \* a batch is registered with the agent
  \* runAgentLoop
  pc, conversation, freshUserIndex, turnNumber, proactiveCompactionFailed,
  batch, batchAborted, tracked, userAborted, toolAborted, stopReason,
  \* history variables: read by properties only
  run,                    \* number of prompts and manual compactions so far
  delivered,              \* steering read by the model, in order
  runStart,               \* Len(delivered) when the run began
  lost,                   \* steering dropped by runs that completed
  late,                   \* steering queued while a run was closing
  interrupted             \* tools interrupted in this run since the last drain

agentVars == <<messages, pendingSteering, nextSteeringId,
               toolInterruptRequested, abortActiveToolBatch>>
loopVars == <<pc, conversation, freshUserIndex, turnNumber,
              proactiveCompactionFailed, batch, batchAborted, tracked,
              userAborted, toolAborted, stopReason>>
historyVars == <<run, delivered, runStart, lost, late, interrupted>>
vars == <<agentVars, loopVars, historyVars>>

-----------------------------------------------------------------------------
(* Messages *)

Roles == {"prompt", "steer", "assistant", "result", "summary", "note"}
Message == [role : Roles, n : Nat]

Prompt(r)    == [role |-> "prompt", n |-> r]
Steer(i)     == [role |-> "steer", n |-> i]
Assistant(c) == [role |-> "assistant", n |-> c]   \* it calls c tools
Result(k)    == [role |-> "result", n |-> k]      \* of the k-th call
Summary      == [role |-> "summary", n |-> 0]
Note         == [role |-> "note", n |-> 0]        \* what a hook injects
Warning      == [role |-> "note", n |-> 1]        \* of the doom-loop detector

Steers(ids)  == [j \in 1..Len(ids) |-> Steer(ids[j])]
Results(ks)  == [j \in 1..Len(ks) |-> Result(ks[j])]
Notes        == IF WithNotes THEN {<<>>, <<Note>>} ELSE {<<>>}
Warnings     == IF WithNotes THEN {<<>>, <<Warning>>} ELSE {<<>>}

-----------------------------------------------------------------------------
(* The tool calls of one assistant message: which have settled, which asked *)
(* to end the turn, the executions recorded so far (the calls they are for) *)
(* and whether runToolCalls is over.                                        *)

Modes == {"sequential", "parallel"}
States == {"running", "over"}
Batches == [calls : Nat, mode : Modes, settled : SUBSET Nat, ended : SUBSET Nat,
            executions : Seq(Nat), state : States]

NoBatch == [calls |-> 0, mode |-> "sequential", settled |-> {}, ended |-> {},
            executions |-> <<>>, state |-> "over"]

StateAfter(last) == IF last THEN "over" ELSE "running"

MutFillAborted(b) == [b EXCEPT !.state = "over"]

\* Every call without an execution gets one ("[Aborted by user]"): the calls
\* that have one are the first ones.
FillAborted(b) ==
  [b EXCEPT !.executions = @ \o [j \in 1..(b.calls - Len(@)) |-> Len(@) + j],
            !.state = "over"]

MutBeginBatch(calls, mode, aborted) ==
  [NoBatch EXCEPT !.calls = calls, !.mode = mode, !.state = StateAfter(calls = 0)]

\* runToolCalls up to its first await.
BeginBatch(calls, mode, aborted) ==
  LET b == [NoBatch EXCEPT !.calls = calls, !.mode = mode,
                           !.state = StateAfter(calls = 0)]
  IN  IF aborted THEN FillAborted(b) ELSE b

InFlight(b, k) ==
  /\ b.state = "running"
  /\ IF b.mode = "parallel" THEN k \notin b.settled
                            ELSE k = Len(b.executions) + 1

\* What the batch becomes when call k settles.  In parallel nothing is
\* recorded before the last call settles, and if the batch is aborted by then
\* only the first call keeps its own result (and its wish to end the turn).
Settle(b, k, endTurn, aborted) ==
  LET c == [b EXCEPT !.settled = @ \cup {k},
                     !.ended = IF endTurn THEN @ \cup {k} ELSE @]
      d == [c EXCEPT !.executions = Append(@, k),
                     !.state = StateAfter(k = b.calls)]
  IN  IF b.mode = "sequential"
      THEN IF aborted THEN FillAborted(d) ELSE d
      ELSE IF c.settled # 1..b.calls
      THEN c
      ELSE IF aborted
      THEN FillAborted([c EXCEPT !.executions = <<1>>, !.ended = @ \cap {1}])
      ELSE [c EXCEPT !.executions = [j \in 1..b.calls |-> j],
                     !.state = "over"]

EndsTurn(b) == b.calls = 0 \/ b.ended # {}

-----------------------------------------------------------------------------
Running == pc \notin {"idle", "manual"}

\* The signal of the run, and the one its tools are given.
Aborted == userAborted \/ toolAborted
MutBatchSignal == Aborted
BatchSignal == Aborted \/ batchAborted

\* The condition to leave the loop after a batch.
MutLoopEnds == Aborted \/ EndsTurn(batch)
LoopEnds == Aborted \/ (EndsTurn(batch) /\ pendingSteering = <<>>)

\* The condition under which run.close() returns.
MutRunClosed == TRUE
RunClosed == tracked = 0

Init ==
  /\ messages = <<>> /\ pendingSteering = <<>> /\ nextSteeringId = 0
  /\ toolInterruptRequested = FALSE /\ abortActiveToolBatch = FALSE
  /\ pc = "idle" /\ conversation = <<>> /\ freshUserIndex = 0
  /\ turnNumber = 0 /\ proactiveCompactionFailed = FALSE
  /\ batch = NoBatch /\ batchAborted = FALSE /\ tracked = 0
  /\ userAborted = FALSE /\ toolAborted = FALSE /\ stopReason = "completed"
  /\ run = 0 /\ delivered = <<>> /\ runStart = 0
  /\ lost = {} /\ late = {} /\ interrupted = FALSE

-----------------------------------------------------------------------------
(* Agent: operations other callbacks invoke while the loop is suspended.   *)

MutEnqueued(id) == <<id>> \o pendingSteering
Enqueued(id) == Append(pendingSteering, id)

\* Agent.steer (bound MaxSteers; in the last turn only late steering).  While the
\* run closes there is time for it only if close() has left-over work to wait for.
SteerAgent ==
  /\ nextSteeringId < MaxSteers
  /\ pc = "closing" => tracked > 0
  /\ turnNumber = MaxTurns => pc \in {"idle", "manual", "compact", "closing"}
  /\ nextSteeringId' = nextSteeringId + 1
  /\ pendingSteering' = Enqueued(nextSteeringId')
  /\ late' = IF pc = "closing" THEN late \cup {nextSteeringId'} ELSE late
  /\ UNCHANGED <<messages, toolInterruptRequested, abortActiveToolBatch,
                 loopVars, run, delivered, runStart, lost, interrupted>>

\* Agent.cancelPendingMessage of a message still in the queue.
CancelPending ==
  /\ \E k \in 1..Len(pendingSteering) :
       pendingSteering' = SubSeq(pendingSteering, 1, k - 1)
                          \o SubSeq(pendingSteering, k + 1, Len(pendingSteering))
  /\ UNCHANGED <<messages, nextSteeringId, toolInterruptRequested,
                 abortActiveToolBatch, loopVars, historyVars>>

\* Agent.interruptTools: a no-op when the agent is idle.
InterruptTools ==
  /\ Running
  /\ IF abortActiveToolBatch
     THEN batchAborted' = TRUE /\ UNCHANGED toolInterruptRequested
     ELSE toolInterruptRequested' = TRUE /\ UNCHANGED batchAborted
  /\ interrupted' = TRUE
  /\ UNCHANGED <<messages, pendingSteering, nextSteeringId, abortActiveToolBatch,
                 pc, conversation, freshUserIndex, turnNumber,
                 proactiveCompactionFailed, batch, tracked, userAborted,
                 toolAborted, stopReason, run, delivered, runStart, lost, late>>

\* The caller aborts the prompt's signal.
UserAbort ==
  /\ Running /\ ~userAborted
  /\ userAborted' = TRUE
  /\ UNCHANGED <<agentVars, pc, conversation, freshUserIndex, turnNumber,
                 proactiveCompactionFailed, batch, batchAborted, tracked,
                 toolAborted, stopReason, historyVars>>

MutUntrackedTwice == tracked - 2
Untracked == tracked - 1

\* Work a tool left running (a yielded code-mode cell) settles; before that it
\* may still call the abort of the context it was given.
WorkSettles ==
  /\ tracked > 0
  /\ tracked' = Untracked
  /\ \E abort \in BOOLEAN : toolAborted' = (toolAborted \/ abort)
  /\ UNCHANGED <<agentVars, pc, conversation, freshUserIndex, turnNumber,
                 proactiveCompactionFailed, batch, batchAborted, userAborted,
                 stopReason, historyVars>>

-----------------------------------------------------------------------------
(* The loop *)

MutInterruptAfterDrain == toolInterruptRequested

\* What is left of an interrupt for the next batch once steering was drained.
InterruptAfterDrain == FALSE

\* The synchronous part of a turn up to the provider request: turn_start, the
\* queued steering, the hooks' injections.
EnterTurn(conv) ==
  /\ pc' = "stream"
  /\ \E note \in Notes :
       conversation' = conv \o Steers(pendingSteering) \o note
  /\ delivered' = delivered \o pendingSteering
  /\ pendingSteering' = <<>>
  /\ toolInterruptRequested' = InterruptAfterDrain
  /\ interrupted' = FALSE

\* The loop leaves `while' without an error: the finally block awaits run.close().
LeaveLoop(conv) == pc' = "closing" /\ conversation' = conv

\* An error reaches the catch of the loop.
Throw ==
  /\ pc' = "closing"
  /\ stopReason' = IF userAborted THEN "interrupted" ELSE "failed"
  /\ UNCHANGED conversation

\* Agent.prompt and the beginning of runAgentLoop, up to the await of the
\* compaction before the prompt.
PromptAgent ==
  /\ pc = "idle" /\ run < MaxRuns
  /\ pc' = "prompt" /\ run' = run + 1 /\ runStart' = Len(delivered)
  /\ conversation' = messages /\ stopReason' = "completed"
  /\ UNCHANGED <<agentVars, freshUserIndex, turnNumber,
                 proactiveCompactionFailed, batch, batchAborted, tracked,
                 userAborted, toolAborted, delivered, lost, late, interrupted>>

\* What follows the compaction before the prompt, whether it adopted a summary
\* or left the history alone: the check of the signal and the first turn.
StartFirstTurn(conv) ==
  /\ freshUserIndex' = Len(conv)
  /\ \/ /\ Aborted
        /\ LeaveLoop(conv)
        /\ UNCHANGED <<turnNumber, pendingSteering, toolInterruptRequested,
                       delivered, interrupted>>
     \/ /\ ~Aborted
        /\ turnNumber' = 1
        /\ EnterTurn(conv)
  /\ UNCHANGED stopReason

CompactBeforePrompt ==
  /\ pc = "prompt"
  /\ \/ /\ StartFirstTurn(Append(conversation, Prompt(run)))
        /\ \E failed \in BOOLEAN :
             /\ failed => ~Aborted
             /\ proactiveCompactionFailed' = failed
     \/ /\ conversation # <<>>
        /\ StartFirstTurn(<<Summary, Prompt(run)>>)
        /\ UNCHANGED proactiveCompactionFailed
     \/ /\ Aborted /\ Throw
        /\ UNCHANGED <<proactiveCompactionFailed, freshUserIndex, turnNumber,
                       pendingSteering, toolInterruptRequested, delivered,
                       interrupted>>
  /\ UNCHANGED <<messages, nextSteeringId, abortActiveToolBatch, batch,
                 batchAborted, tracked, userAborted, toolAborted, run, runStart,
                 lost, late>>

\* The compaction before a later turn; nothing looks at the signal after it.
CompactBeforeTurn ==
  /\ pc = "compact"
  /\ \/ /\ EnterTurn(conversation)
        /\ \/ UNCHANGED proactiveCompactionFailed
           \/ ~Aborted /\ proactiveCompactionFailed' = TRUE
        /\ UNCHANGED stopReason
     \/ /\ ~proactiveCompactionFailed
        /\ EnterTurn(<<Summary>>)
        /\ UNCHANGED <<proactiveCompactionFailed, stopReason>>
     \/ /\ Aborted /\ ~proactiveCompactionFailed /\ Throw
        /\ UNCHANGED <<proactiveCompactionFailed, pendingSteering,
                       toolInterruptRequested, delivered, interrupted>>
  /\ UNCHANGED <<messages, nextSteeringId, abortActiveToolBatch, freshUserIndex,
                 turnNumber, batch, batchAborted, tracked, userAborted,
                 toolAborted, run, runStart, lost, late>>

\* The assistant message is complete: the batch registers with the agent, which
\* hands it an interrupt that came while the model was streaming.
StreamDone ==
  /\ pc \in {"stream", "restream"}
  /\ \E calls \in 0..MaxCalls, mode \in Modes :
       /\ mode = "parallel" => calls > 1
       /\ turnNumber = MaxTurns => calls = 0
       /\ conversation' = Append(conversation, Assistant(calls))
       /\ batch' = BeginBatch(calls, mode,
                              Aborted \/ toolInterruptRequested)
  /\ pc' = "tools"
  /\ abortActiveToolBatch' = TRUE
  /\ batchAborted' = toolInterruptRequested
  /\ toolInterruptRequested' = FALSE
  /\ UNCHANGED <<messages, pendingSteering, nextSteeringId, freshUserIndex,
                 turnNumber, proactiveCompactionFailed, tracked, userAborted,
                 toolAborted, stopReason, historyVars>>

\* The request fails: not for context overflow, or for that a second time.
StreamFails ==
  /\ pc \in {"stream", "restream"}
  /\ Throw
  /\ UNCHANGED <<agentVars, freshUserIndex, turnNumber,
                 proactiveCompactionFailed, batch, batchAborted, tracked,
                 userAborted, toolAborted, historyVars>>

StreamOverflows ==
  /\ pc = "stream"
  /\ pc' = "overflow"
  /\ UNCHANGED <<agentVars, conversation, freshUserIndex, turnNumber,
                 proactiveCompactionFailed, batch, batchAborted, tracked,
                 userAborted, toolAborted, stopReason, historyVars>>

\* compactAfterContextOverflow: the first turn keeps the prompt and all that
\* follows it.
MutPreservedTail == <<conversation[Len(conversation)]>>
PreservedTail ==
  IF turnNumber = 1
  THEN SubSeq(conversation, freshUserIndex, Len(conversation)) ELSE <<>>

CompactAfterOverflow ==
  /\ pc = "overflow"
  /\ \/ /\ Len(PreservedTail) < Len(conversation)
        /\ conversation' = <<Summary>> \o PreservedTail
        /\ pc' = "restream" /\ UNCHANGED stopReason
     \/ Throw
  /\ UNCHANGED <<agentVars, freshUserIndex, turnNumber,
                 proactiveCompactionFailed, batch, batchAborted, tracked,
                 userAborted, toolAborted, historyVars>>

\* The tool of call k settles: it may ask for the run to be aborted, end the turn,
\* or leave work running.
CallSettles(k) ==
  /\ pc = "tools" /\ InFlight(batch, k)
  /\ \E abort, endTurn, yields \in BOOLEAN :
       /\ yields => tracked < MaxTracked
       /\ tracked' = IF yields THEN tracked + 1 ELSE tracked
       /\ toolAborted' = (toolAborted \/ abort)
       /\ batch' = Settle(batch, k, endTurn,
                          BatchSignal \/ abort)
  /\ UNCHANGED <<agentVars, pc, conversation, freshUserIndex, turnNumber,
                 proactiveCompactionFailed, batchAborted, userAborted,
                 stopReason, historyVars>>

ToolSettles == \E k \in 1..batch.calls : CallSettles(k)

\* Every call has an execution: their results (and a doom-loop warning) join
\* the conversation, and the turn ends.
EndToolBatch ==
  /\ pc = "tools" /\ batch.state = "over"
  /\ abortActiveToolBatch' = FALSE
  /\ batch' = NoBatch /\ batchAborted' = FALSE
  /\ \E warning \in Warnings :
       LET conv == conversation \o Results(batch.executions) \o warning IN
       IF LoopEnds
       THEN LeaveLoop(conv) /\ UNCHANGED turnNumber
       ELSE /\ pc' = "compact" /\ turnNumber' = turnNumber + 1
            /\ conversation' = conv
  /\ UNCHANGED <<messages, pendingSteering, nextSteeringId,
                 toolInterruptRequested, freshUserIndex,
                 proactiveCompactionFailed, tracked,
                 userAborted, toolAborted, stopReason, historyVars>>

\* run.close() is done: agent_end, and Agent.prompt returns or rethrows.
FinishRun ==
  /\ pc = "closing" /\ RunClosed
  /\ pc' = "idle"
  /\ stopReason' = IF stopReason # "failed" /\ Aborted
                   THEN "interrupted" ELSE stopReason
  /\ messages' = IF stopReason # "failed" THEN conversation ELSE messages
  /\ toolInterruptRequested' = FALSE
  /\ abortActiveToolBatch' = FALSE
  /\ pendingSteering' = <<>>
  /\ lost' = IF stopReason' = "completed"
             THEN lost \cup {pendingSteering[j] : j \in 1..Len(pendingSteering)}
             ELSE lost
  /\ interrupted' = FALSE
  /\ turnNumber' = 0 /\ conversation' = <<>>
  /\ freshUserIndex' = 0 /\ proactiveCompactionFailed' = FALSE
  /\ userAborted' = FALSE /\ toolAborted' = FALSE
  /\ UNCHANGED <<nextSteeringId, batch, batchAborted, tracked, run, delivered,
                 runStart, late>>

\* Agent.compact, which the caller only invokes while no prompt runs.
StartManualCompaction ==
  /\ pc = "idle" /\ run < MaxRuns
  /\ pc' = "manual" /\ run' = run + 1
  /\ UNCHANGED <<agentVars, conversation, freshUserIndex, turnNumber,
                 proactiveCompactionFailed, batch, batchAborted, tracked,
                 userAborted, toolAborted, stopReason, delivered, runStart,
                 lost, late, interrupted>>

EndManualCompaction ==
  /\ pc = "manual"
  /\ pc' = "idle"
  /\ \/ messages # <<>> /\ messages' = <<Summary>>
     \/ UNCHANGED messages
  /\ UNCHANGED <<pendingSteering, nextSteeringId, toolInterruptRequested,
                 abortActiveToolBatch, conversation, freshUserIndex, turnNumber,
                 proactiveCompactionFailed, batch, batchAborted, tracked,
                 userAborted, toolAborted, stopReason, historyVars>>

LoopStep ==
  \/ CompactBeforePrompt \/ CompactBeforeTurn
  \/ StreamDone \/ StreamFails \/ StreamOverflows \/ CompactAfterOverflow
  \/ ToolSettles \/ EndToolBatch \/ WorkSettles \/ FinishRun
  \/ EndManualCompaction

Environment ==
  \/ SteerAgent \/ CancelPending \/ InterruptTools \/ UserAbort
  \/ PromptAgent \/ StartManualCompaction

Next == LoopStep \/ Environment

Spec == Init /\ [][Next]_vars

\* Fairness.  The synchronous steps happen; a compaction ends (its request has a
\* timeout); a request to the provider ends once its signal is aborted, which ends
\* the stream of its events (attachSignal).  The batch awaits its tools, and close()
\* the work they left, without a look at the signal: a tool that heeds it settles
\* once it is aborted, one that is deaf, or that nobody interrupts, and left-over
\* work may go on for ever.
Fairness ==
  /\ WF_vars(EndToolBatch \/ FinishRun)
  /\ WF_vars(CompactBeforePrompt \/ CompactBeforeTurn \/ CompactAfterOverflow
             \/ EndManualCompaction)
  /\ WF_vars(Aborted /\ (StreamDone \/ StreamFails))
  /\ \A k \in (1..MaxCalls) \ DeafCalls :
       WF_vars(BatchSignal /\ k <= batch.calls /\ CallSettles(k))

FairSpec == Spec /\ Fairness

-----------------------------------------------------------------------------
(* Properties *)

PCs == {"idle", "manual", "prompt", "compact", "stream", "overflow", "restream",
        "tools", "closing"}

\* Every variable stays in its type.
TypeOK ==
  /\ messages \in Seq(Message) /\ conversation \in Seq(Message)
  /\ pendingSteering \in Seq(Nat) /\ nextSteeringId \in Nat
  /\ toolInterruptRequested \in BOOLEAN /\ abortActiveToolBatch \in BOOLEAN
  /\ pc \in PCs /\ freshUserIndex \in Nat /\ turnNumber \in Nat
  /\ proactiveCompactionFailed \in BOOLEAN
  /\ batch \in Batches /\ batchAborted \in BOOLEAN /\ tracked \in Nat
  /\ userAborted \in BOOLEAN /\ toolAborted \in BOOLEAN
  /\ stopReason \in {"completed", "failed", "interrupted"}
  /\ run \in Nat /\ delivered \in Seq(Nat) /\ runStart \in Nat
  /\ lost \subseteq Nat /\ late \subseteq Nat /\ interrupted \in BOOLEAN

\* An assistant message that calls c tools is followed by the results of its
\* calls 1..c, in order, and a result stands nowhere else.
Paired(conv) ==
  \A i \in 1..Len(conv) :
    /\ conv[i].role = "assistant" =>
         \A k \in 1..conv[i].n :
           i + k <= Len(conv) /\ conv[i + k] = Result(k)
    /\ conv[i].role = "result" =>
         /\ conv[i].n < i
         /\ conv[i - conv[i].n].role = "assistant"
         /\ conv[i].n <= conv[i - conv[i].n].n

\* Every request the loop sends and every history it commits pairs each tool
\* call with exactly one result, whatever was aborted, interrupted or compacted
\* (loop.ts:203-206: the provider rejects a conversation with an orphan).
ToolUsePaired ==
  /\ pc \in {"stream", "restream"} => Paired(conversation)
  /\ Paired(messages)

\* An interrupt acts on the turn it was made for: no batch is skipped, and no
\* request for that outlives, once steering was drained or the run is over.
InterruptStaysInItsTurn ==
  toolInterruptRequested \/ (pc = "tools" /\ batchAborted) => interrupted

\* In the first turn the model reads the prompt and, after it, the steering of
\* this run, also when the request is repeated after an overflow compaction.
FreshContextSurvives ==
  turnNumber = 1 /\ pc \in {"stream", "restream"} =>
    \E i \in 1..Len(conversation) :
      /\ conversation[i] = Prompt(run)
      /\ \A j \in (runStart + 1)..Len(delivered) :
           i + j - runStart <= Len(conversation)
           /\ conversation[i + j - runStart] = Steer(delivered[j])

\* A run that completed dropped no steering but what was queued while it closed.
OnlyLateSteeringIsLost == lost \subseteq late

\* None of the work tools left running is running when the agent is idle again,
\* so that none of its events follow agent_end (loop.ts:250-251).
NoWorkOutlivesTheRun == ~Running => tracked = 0

\* What the code waits for although it has aborted it: a call of a deaf tool, and
\* the work that tools have left running.
DeafCallRuns ==
  pc = "tools" /\ \E k \in DeafCalls : k <= batch.calls /\ InFlight(batch, k)
LeftOverRuns == pc = "closing" /\ tracked > 0

\* A run aborted while no deaf tool runs ends, whatever it was doing, or is closing
\* and only waits for left-over work: no tool, deaf or not, is started any more.
AbortEndsRun ==
  userAborted /\ Running /\ ~DeafCallRuns ~> pc = "idle" \/ []LeftOverRuns

\* Interrupting the tools while none of them is deaf gets the queued steering out of
\* the queue (read by the model, or gone with the run), although calls that come
\* later in the batch, and tools of later turns, may be deaf or hang for ever.
Queued(i) == \E j \in 1..Len(pendingSteering) : pendingSteering[j] = i

InterruptDeliversSteering ==
  \A i \in 1..MaxSteers :
    pc = "tools" /\ batchAborted /\ ~DeafCallRuns /\ Queued(i)
      ~> ~Queued(i) \/ []LeftOverRuns

\* docs/guide/collaboration.md:83: steering "is queued ... and the child reads
\* it at the next turn boundary": a run that completes leaves none unread.
SteeringReachesModel == lost = {}

\* The queue is an inbox that is read whole and in order (SteeringInbox).
Inbox == INSTANCE SteeringInbox
           WITH pending <- pendingSteering, read <- delivered,
                nextId <- nextSteeringId
InboxSpec == Inbox!Spec
====
