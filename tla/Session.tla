---- MODULE Session ----
(***************************************************************************)
(* A session (packages/runtime/src/session): TurnOrchestrator drives an     *)
(* Agent (AgentLoop), the turn's TurnStager turns its events into entries,  *)
(* SessionManager commits them (Journal) and SessionPersistence writes them *)
(* behind.  The process may die at any moment and resume from the file.     *)
(*                                                                         *)
(* A step of the agent is a step of AgentLoop together with what the events *)
(* it emits make of the journal: the subscriber runs inside emit, so both   *)
(* happen in the code between two awaits.                                   *)
(*                                                                         *)
(* Abstractions: a line of the file is written whole or not at all, and no  *)
(* write fails; of the settings, mode and effort, each a number that grows  *)
(* with every change; a compaction carries a native summary or not.         *)
(***************************************************************************)
EXTENDS AgentLoop, Journal

CONSTANTS MaxSettings,  \* bound: mode and effort changes
          MaxFaults,    \* bound: deaths of the process and of an agent's factory
          CompactionKinds \* what compactions produce: 0 local, 1 native

ASSUME SessionBoundsAreNaturals ==
  MaxSettings \in Nat /\ MaxFaults \in Nat /\ CompactionKinds \subseteq {0, 1}

VARIABLES
  \* TurnOrchestrator, and the agent its host keeps for it
  job,                \* what owns the thread: nothing, a run, a compaction
  phase,              \* where that job is
  runtimeAgent,       \* runtime.agent, 0 when it must be rebuilt
  resolving,          \* the agent config.agent() is going to return
  currentAgent,       \* _agent
  initializedAgent,   \* _initializedAgent
  \* the native summary, committed (Agent) and of the run (LoopRequest)
  compactionSummary, requestSummary,
  \* SessionStateStore, TurnStager, SessionPersistence, ThreadRuntime
  journal,
  durable,            \* how many committed entries a wait found in the file
  mode, effort,
  \* history variables: read by properties only
  settings, faults,
  overflowed,         \* turns of the agent's runs compacted for overflow
  changedMidRun       \* a setting was changed while a run owned the thread

hostVars == <<job, phase, runtimeAgent, resolving, currentAgent,
              initializedAgent>>
summaryVars == <<compactionSummary, requestSummary>>
settingVars == <<mode, effort, settings, changedMidRun>>
sessionVars == <<hostVars, summaryVars, journal, durable, settingVars, faults,
                 overflowed>>
allVars == <<vars, sessionVars>>

SessionInit ==
  /\ Init
  /\ job = "none" /\ phase = "none"
  /\ runtimeAgent = 0 /\ resolving = 0 /\ currentAgent = 0
  /\ initializedAgent = 0
  /\ compactionSummary = 0 /\ requestSummary = 0
  /\ journal = EmptyJournal /\ durable = 0
  /\ mode = 0 /\ effort = 0 /\ settings = 0
  /\ faults = 0 /\ overflowed = {} /\ changedMidRun = FALSE

-----------------------------------------------------------------------------
(* TurnOrchestrator: beginning a run or a manual compaction *)

\* An agent that is none of those still referred to.
FreshAgent == CHOOSE a \in 1..3 : a \notin {currentAgent, initializedAgent}

\* config.agent(): the agent the host keeps, or else a new one.
Resolve ==
  IF runtimeAgent # 0
  THEN phase' = "refreshing" /\ resolving' = runtimeAgent
  ELSE phase' = "building" /\ resolving' = FreshAgent

\* The factory is done: the host keeps what it built.
Resolved ==
  /\ phase \in {"building", "refreshing"}
  /\ phase' = "ready"
  /\ runtimeAgent' = IF phase = "building" THEN resolving ELSE runtimeAgent
  /\ initializedAgent' = resolving
  /\ resolving' = 0

\* The agent gets the session's history.  (The code reads it before the await of
\* the factory; a setting appended meanwhile adds no message to it.)
Restore ==
  /\ messages' = ContextMessages(journal.entries)
  /\ compactionSummary' = ContextSummary(journal.entries)
  /\ overflowed' = {}

\* runWithOutcome up to the await of the factory.
PrepareRun ==
  /\ job = "none" /\ run < MaxRuns
  /\ job' = "run"
  /\ journal' = NewTurn(Repair(journal), Prompt(run + 1))
  /\ Resolve
  /\ UNCHANGED <<vars, runtimeAgent, currentAgent, initializedAgent, summaryVars,
                 durable, settingVars, faults, overflowed>>

\* The rest of prepareRun.  Steering queued with an agent that is replaced stays
\* with that agent.
AttachAgent ==
  /\ job = "run" /\ Resolved
  /\ currentAgent' = resolving
  /\ pendingSteering' = IF currentAgent \in {0, resolving}
                        THEN pendingSteering ELSE <<>>
  /\ IF resolving # initializedAgent
     THEN Restore ELSE UNCHANGED <<messages, compactionSummary, overflowed>>
  /\ UNCHANGED <<nextSteeringId, toolInterruptRequested, abortActiveToolBatch,
                 loopVars, historyVars, job, requestSummary, journal, durable,
                 settingVars, faults>>

\* The factory fails: nothing clears the entries the store shows as pending.
ResolveFails ==
  /\ phase \in {"building", "refreshing"}
  /\ faults < MaxFaults /\ faults' = faults + 1
  /\ job' = "none" /\ phase' = "none" /\ resolving' = 0
  /\ UNCHANGED <<vars, runtimeAgent, currentAgent, initializedAgent, summaryVars,
                 journal, durable, settingVars, overflowed>>

StartAgent ==
  /\ job = "run" /\ phase = "ready"
  /\ PromptAgent
  /\ phase' = "running"
  /\ requestSummary' = compactionSummary
  /\ UNCHANGED <<job, runtimeAgent, resolving, currentAgent, initializedAgent,
                 compactionSummary, journal, durable, settingVars,
                 faults, overflowed>>

\* compactNow, once the writes queued before it are done.
PrepareCompaction ==
  /\ job = "none" /\ run < MaxRuns
  /\ durable' = Len(journal.entries)
  /\ job' = "compact"
  /\ Resolve
  /\ UNCHANGED <<vars, runtimeAgent, currentAgent, initializedAgent, summaryVars,
                 journal, settingVars, faults, overflowed>>

RestoreForCompaction ==
  /\ job = "compact" /\ Resolved
  /\ Restore
  /\ UNCHANGED <<pendingSteering, nextSteeringId, toolInterruptRequested,
                 abortActiveToolBatch, loopVars, historyVars, job,
                 currentAgent, requestSummary, journal, durable,
                 settingVars, faults>>

StartCompaction ==
  /\ job = "compact" /\ phase = "ready"
  /\ StartManualCompaction
  /\ phase' = "running"
  /\ UNCHANGED <<job, runtimeAgent, resolving, currentAgent, initializedAgent,
                 summaryVars, journal, durable, settingVars, faults,
                 overflowed>>

-----------------------------------------------------------------------------
(* Steps of the agent and the events they emit *)

\* The id a native compaction staged or appended next gives its summary.
SummaryOf(native) == IF native = 1 THEN journal.nextId ELSE 0

\* What emits nothing the journal keeps.
QuietStep ==
  /\ \/ SteerAgent \/ CancelPending \/ InterruptTools \/ UserAbort \/ WorkSettles
     \/ StreamFails \/ StreamOverflows \/ EndToolBatch
  /\ UNCHANGED sessionVars

\* turn_start flushes the stager; the steering and the notes that join conv for
\* the turn are staged.
TurnStarts(conv, j) ==
  \E note \in Notes :
    /\ conversation' = conv \o Steers(pendingSteering) \o note
    /\ journal' = Stage(Flush(j), Steers(pendingSteering) \o note)

\* The compaction before the prompt: compaction_end if one was adopted, then
\* turn_start unless the run was aborted meanwhile.
FirstTurnStep ==
  /\ CompactBeforePrompt
  /\ \/ /\ LET conv == Append(conversation, Prompt(run)) IN
           \/ pc' = "stream" /\ TurnStarts(conv, journal)
           \/ pc' = "closing" /\ conversation' = conv /\ UNCHANGED journal
        /\ UNCHANGED requestSummary
     \/ /\ conversation # <<>> /\ ~proactiveCompactionFailed'
        /\ \E native \in CompactionKinds :
             LET conv == <<Summary, Prompt(run)>>
                 j == StageCompaction(journal, native) IN
             /\ \/ pc' = "stream" /\ TurnStarts(conv, j)
                \/ pc' = "closing" /\ conversation' = conv /\ journal' = j
             /\ requestSummary' = SummaryOf(native)
     \/ /\ pc' = "closing" /\ conversation' = conversation
        /\ UNCHANGED <<journal, requestSummary>>
  /\ UNCHANGED <<hostVars, compactionSummary, durable, settingVars, faults,
                 overflowed>>

\* The compaction before a later turn.
NextTurnStep ==
  /\ CompactBeforeTurn
  /\ \/ /\ pc' = "stream" /\ TurnStarts(conversation, journal)
        /\ UNCHANGED requestSummary
     \/ /\ pc' = "stream" /\ ~proactiveCompactionFailed'
        /\ \E native \in CompactionKinds :
             /\ TurnStarts(<<Summary>>, StageCompaction(journal, native))
             /\ requestSummary' = SummaryOf(native)
     \/ /\ pc' = "closing"
        /\ UNCHANGED <<journal, requestSummary>>
  /\ UNCHANGED <<hostVars, compactionSummary, durable, settingVars, faults,
                 overflowed>>

OverflowStep ==
  /\ CompactAfterOverflow
  /\ \/ /\ pc' = "restream"
        /\ \E native \in CompactionKinds :
             /\ journal' = StageCompaction(journal, native)
             /\ requestSummary' = SummaryOf(native)
        /\ overflowed' = overflowed \cup {turnNumber}
     \/ /\ pc' = "closing"
        /\ UNCHANGED <<journal, requestSummary, overflowed>>
  /\ UNCHANGED <<hostVars, compactionSummary, durable, settingVars, faults>>

\* message_end stages the assistant message; one that calls tools is flushed,
\* and so is the result of every call of a batch that is aborted at once.
AssistantStep ==
  /\ StreamDone
  /\ LET j == Stage(journal, <<Assistant(batch'.calls)>>
                             \o Results(batch'.executions)) IN
     journal' = IF batch'.calls = 0 THEN j ELSE Flush(j)
  /\ UNCHANGED <<hostVars, summaryVars, durable, settingVars, faults, overflowed>>

\* tool_end stages and flushes a result.
ToolStep ==
  /\ ToolSettles
  /\ LET new == SubSeq(batch'.executions, Len(batch.executions) + 1,
                       Len(batch'.executions)) IN
     journal' = IF new = <<>> THEN journal ELSE Flush(Stage(journal, Results(new)))
  /\ UNCHANGED <<hostVars, summaryVars, durable, settingVars, faults, overflowed>>

\* The native summary an agent keeps when a run that did not fail ends with this
\* one: a run without a summary leaves the agent's own in place (agent.ts:118).
SummaryAfter(ofRun) == IF ofRun # 0 THEN ofRun ELSE compactionSummary

\* Agent.prompt is over: commitRun, or handleRunError, which also forgets that
\* the agent holds the history; then finishRun.  The run may still be aborted in
\* the hooks that follow.
FinishRunStep ==
  /\ FinishRun
  /\ phase' \in IF userAborted THEN {"aborted"} ELSE {"flushing", "aborted"}
  /\ IF stopReason' = "failed"
     THEN /\ journal' = AppendCommitted(Flush(journal), "error", 0)
          /\ initializedAgent' = 0 /\ UNCHANGED compactionSummary
     ELSE /\ journal' = Flush(journal)
          /\ compactionSummary' = SummaryAfter(requestSummary)
          /\ UNCHANGED initializedAgent
  /\ requestSummary' = 0
  /\ UNCHANGED <<job, runtimeAgent, resolving, currentAgent, durable,
                 settingVars, faults, overflowed>>

\* Agent.compact is over; what it adopted was appended at once.
FinishCompactionStep ==
  /\ EndManualCompaction
  /\ phase' = "flushing"
  /\ \/ /\ messages # <<>> /\ messages' = <<Summary>>
        /\ \E native \in CompactionKinds :
             /\ journal' = AppendCommitted(journal, "compaction", native)
             /\ compactionSummary' = SummaryOf(native)
     \/ /\ messages' = messages /\ UNCHANGED <<journal, compactionSummary>>
  /\ UNCHANGED <<job, runtimeAgent, resolving, currentAgent, initializedAgent,
                 requestSummary, durable, settingVars, faults,
                 overflowed>>

\* The thread is free again; a run that was aborted does not wait for the file.
JobReturns ==
  /\ phase \in {"flushing", "aborted"}
  /\ durable' = IF phase = "aborted" THEN durable ELSE Len(journal.entries)
  /\ job' = "none" /\ phase' = "none"
  /\ UNCHANGED <<vars, runtimeAgent, resolving, currentAgent, initializedAgent,
                 summaryVars, journal, settingVars, faults,
                 overflowed>>

-----------------------------------------------------------------------------
(* SessionPersistence, settings, deaths *)

ChangeSetting(role) ==
  /\ settings < MaxSettings
  /\ settings' = settings + 1
  /\ journal' = AppendCommitted(journal, role, settings')
  /\ changedMidRun' = (changedMidRun \/ job = "run")
  /\ UNCHANGED <<vars, job, phase, resolving, currentAgent, initializedAgent,
                 summaryVars, durable, faults, overflowed>>

\* mode/set and effort/set: neither asks whether a turn is running.
ModeSet ==
  /\ ChangeSetting("mode")
  /\ mode' = settings' /\ runtimeAgent' = 0
  /\ UNCHANGED effort

EffortSet ==
  /\ ChangeSetting("effort")
  /\ effort' = settings'
  /\ UNCHANGED <<mode, runtimeAgent>>

\* What the file may hold: some of the entries still in the write queue.
OnDisk == {SubSeq(journal.entries, 1, k) : k \in durable..Len(journal.entries)}

\* The process dies; another one resumes the session from the file.
CrashAndResume ==
  /\ faults < MaxFaults
  /\ faults' = faults + 1
  /\ \E file \in OnDisk :
       journal' = Repair(Load(file)) /\ durable' = Len(file)
  /\ mode' = ContextMode(journal'.entries)
  /\ effort' = ContextEffort(journal'.entries)
  /\ job' = "resume" /\ phase' = "flushing"
  /\ runtimeAgent' = 0 /\ resolving' = 0 /\ currentAgent' = 0
  /\ initializedAgent' = 0
  /\ compactionSummary' = 0 /\ requestSummary' = 0
  /\ overflowed' = {} /\ changedMidRun' = FALSE
  /\ messages' = <<>> /\ pendingSteering' = <<>>
  /\ toolInterruptRequested' = FALSE /\ abortActiveToolBatch' = FALSE
  /\ pc' = "idle" /\ conversation' = <<>> /\ freshUserIndex' = 0
  /\ turnNumber' = 0 /\ proactiveCompactionFailed' = FALSE
  /\ batch' = NoBatch /\ batchAborted' = FALSE /\ tracked' = 0
  /\ userAborted' = FALSE /\ toolAborted' = FALSE /\ stopReason' = "completed"
  /\ interrupted' = FALSE
  /\ UNCHANGED <<nextSteeringId, run, delivered, runStart, lost, late, settings>>

SessionNext ==
  \/ PrepareRun \/ AttachAgent \/ ResolveFails \/ StartAgent
  \/ PrepareCompaction \/ RestoreForCompaction \/ StartCompaction
  \/ QuietStep \/ FirstTurnStep \/ NextTurnStep \/ OverflowStep
  \/ AssistantStep \/ ToolStep \/ FinishRunStep \/ FinishCompactionStep
  \/ JobReturns \/ ModeSet \/ EffortSet \/ CrashAndResume

SessionSpec == SessionInit /\ [][SessionNext]_allVars

-----------------------------------------------------------------------------
(* Properties *)

\* Every variable stays in its type, and no wait found more in the file than was
\* ever handed to the writer.
SessionTypeOK ==
  /\ TypeOK
  /\ job \in {"none", "run", "compact", "resume"}
  /\ phase \in {"none", "building", "refreshing", "ready", "running", "flushing",
                "aborted"}
  /\ {runtimeAgent, resolving, currentAgent, initializedAgent} \subseteq 0..3
  /\ {compactionSummary, requestSummary, mode, effort, settings, faults}
       \subseteq Nat
  /\ journal \in Journals
  /\ durable \in 0..Len(journal.entries)
  /\ overflowed \subseteq Nat /\ changedMidRun \in BOOLEAN

\* Every committed entry hangs from an earlier one (or is a root), so that
\* whatever the file held when the process died is a tree with its ancestors.
ParentsPrecede ==
  \A p \in 1..Len(journal.entries) :
    LET parent == journal.entries[p].parent IN
    parent = 0 \/ \E q \in 1..(p - 1) : journal.entries[q].id = parent

\* Whenever the process dies, what the model is sent after the resume pairs every
\* tool call with one result (manager.ts:98): no step makes a file possible that
\* resumes to anything else.
ResumedContextPaired ==
  [][\A file \in OnDisk' \ OnDisk :
       Paired(ContextMessages(Repair(Load(file)).entries))]_allVars

\* a is what is left of b when some of its members are dropped.  A doom-loop
\* warning counts as found: no event announces it, so no log has it.
Embeds(a, b) ==
  LET at[k \in 0..Len(a)] ==
        IF k = 0 THEN 0
        ELSE IF a[k] = Warning THEN at[k - 1]
        ELSE LET later == {p \in (at[k - 1] + 1)..Len(b) : b[p] = a[k]}
             IN  IF later = {} THEN Len(b) + 1
                 ELSE CHOOSE p \in later : \A q \in later : p <= q
  IN  at[Len(a)] <= Len(b)

\* Between jobs, nothing the agent remembers is missing from the context the
\* journal would restore ...
MemorySurvivesResume ==
  job = "none" /\ initializedAgent # 0 =>
    Embeds(messages, ContextMessages(journal.entries))

\* ... unless the first turn of a run was compacted for overflow.
MemorySurvivesUnlessOverflow == 1 \notin overflowed => MemorySurvivesResume

\* The newest compaction on the path has no native summary: a run that makes one
\* leaves the summary of an earlier one with the agent (agent.ts:118).
CompactedLocally(entries) ==
  LET path == Path(entries)
      c == LastOf(path, {"compaction"})
  IN  c # 0 /\ path[c].n # 1

\* Between jobs, when no turn was compacted for overflow, the native summary the
\* agent sends is the one the journal has, the case above excepted.
SummaryAgreesUnlessOverflow ==
  job = "none" /\ initializedAgent # 0 /\ overflowed = {}
    /\ ~CompactedLocally(journal.entries)
    => compactionSummary = ContextSummary(journal.entries)

\* Between them: what a resume restores is what the agent goes by, overflow excepted.
ContextIsKept == MemorySurvivesUnlessOverflow /\ SummaryAgreesUnlessOverflow

\* A resume restores the settings of the thread (session-lifecycle.md:55).
SettingsSurviveResume ==
  job = "none" => /\ ContextMode(journal.entries) = mode
                  /\ ContextEffort(journal.entries) = effort

\* ... the mode at least, when it was not changed while a run had the thread.
ModeSurvivesUnlessMidRun ==
  job = "none" /\ ~changedMidRun => ContextMode(journal.entries) = mode

\* The messages thread/read shows.
VisibleMessages(j) ==
  LET all == j.entries \o j.staged
      path == PathFrom(all, IF j.staged = <<>> THEN LeafId(j.entries) ELSE j.leaf)
  IN  {path[k].id : k \in {i \in 1..Len(path) : IsMessage(path[i])}}

\* No message a reader of the thread has seen vanishes while a run has it.
TranscriptKeepsMessages ==
  [][job = "run" /\ faults' = faults =>
       VisibleMessages(journal) \subseteq VisibleMessages(journal')]_allVars
====
