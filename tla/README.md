# Verification of diligent's agent runtime

diligent is a coding-agent runtime written in TypeScript. A client (terminal,
desktop app, editor) talks JSON-RPC to an app server; the app server keeps one
*thread runtime* per open thread; a thread owns a *session*, and a session drives
an *agent*, which alternates model requests and tool calls until it has answered.
This directory holds TLA+ models of that core, the TLC runs that check them and
TLAPS proofs about them. Everything is single-threaded JavaScript: the concurrency
is that of callbacks between two `await`s, plus the death of the process.

## Inventory

| component | state | operations | what is hard |
| --- | --- | --- | --- |
| agent loop (`core/src/agent`) | history, conversation of the run, queue of steering, interrupt flag, tool batch, tracked work | prompt, compact, steer, cancel, interrupt tools, abort; per turn: compact, drain, stream, run tools | interrupts and aborts land between any two awaits; parallel tools; overflow retried after a compaction; work that outlives its tool |
| compaction (`core/src/llm/compaction.ts`, `agent/compaction.ts`) | native and textual summary | native, fallback to local | a summary that does not belong to the history |
| retry and event streams (`core/src/llm/retry.ts`, `event-stream.ts`, `turn-scope.ts`) | attempt, output emitted, inner work | attempt, back-off, abort, dispose | no repetition of a completed tool call; cleanup is awaited |
| providers (`core/src/llm/provider`) | for ChatGPT: the WebSocket of a conversation, the chain of responses, transport failures | one request, replay, abort, fall back to HTTP | a request that leaves out what the service is thought to know; an aborted call that comes late |
| session log (`runtime/src/session`: state store, context builder, stager) | tree of entries, committed and pending leaf | stage, flush, compaction before pending, rebuild the context | two writers with different ideas of the leaf |
| session turns (`turn-orchestrator.ts`, `manager.ts`) | current agent, restored agent, queued messages | run, compactNow, steer, settings, repair, reconcile | agent replaced between runs, failures half-way, crash and repair |
| persistence (`persistence.ts`) | write queue, file | append, wait, resume, reconcile | what a crash leaves; a write that fails |
| thread runtimes (`runtime/src/app-server`: server, turn-, thread-, session-handlers) | isRunning, turnWork, agent, mode, effort, goal timer | turn/start, steer, interrupt, mode/set, effort/set, compact, resume | admission races, checks repeated after awaits, disconnects |
| server requests (`server-requests.ts`) | pending table, timers | ask, answer, time out, abort | exactly one settlement |
| goals (`runtime/src/goals`) | goal, epoch, run, children, ledger | set, pause, resume, clear, beginRun, settle, record usage | stale runs, budget, crash of the ledger |
| collaboration (`runtime/src/collab`) | table of child agents | spawn, send input, wait, close | completion against close, wait and resume |
| code mode (`runtime/src/tools/code-mode`) | gate of tool calls, cells and the calls their scripts make | acquire, release, exec, exec_wait, yield, evict, abort | scripts outlive the call that drives them; aborted waiters |
| authentication (`runtime/src/auth`, `core/src/auth`) | tokens of the binding, keyring and file | refresh, set and remove a key, sign in and out, start | refresh tokens are single-use; load, change and save without a lock |
| MCP client (`runtime/src/tools/mcp`) | connections, attempts to connect, last status | sync, login, logout, list | syncs of several agents share what a sign-in replaces |
| knowledge, approval, hooks, skills, agents, config, tools | files and rules | — | mostly I/O or pure functions |
| protocol, plug-in SDK, CLI, debug viewer, evals, apps | — | — | clients of the above |

*Interactions.* The app server calls `SessionManager.run`, whose `TurnOrchestrator`
repairs the log, stages the user message, obtains the agent from `config.agent()`,
restores history into it if it is another one than last time, subscribes to its
events and calls `Agent.prompt`. Events are delivered synchronously: the stager
makes entries of them and the orchestrator flushes them at the turn's boundaries,
after an assistant message with tool calls and after every tool result. Flushed
entries enter the in-memory tree at once and a write queue for the file. Steering,
interrupts and settings enter from other requests at any await.

*What makes each correct.* Agent: a well-formed conversation for every request; an
interrupt that hits its own turn; steering read once, in order, and not lost; runs
that end. Session: memory, log and file agree — what the agent remembers is what a
resume rebuilds, at whatever moment the process dies. Thread runtimes: one turn at
a time, users before goals, no lost wake-up. Goals: no effect of an old epoch, the
budget stops before the next batch. Collaboration: a child
runs once, and is known to whoever must wait for it. Requests: settled once, and
every client is told. Authentication: who signed in stays signed in,
unless a start cannot refresh the tokens. Providers: the model
is asked what the call asks, and its answer goes to that call. MCP: one connection
per server, reused across turns.

## Modules

| module | models |
| --- | --- |
| `SteeringInbox` | abstract promise of the steering queue: ids grow, read whole and in order, withdrawn or discarded messages never return |
| `AgentLoop` | `Agent` and `runAgentLoop`: one action per stretch of code between two awaits; `pc` names the await. It implements `SteeringInbox` |
| `Journal` | the log as a value: `Stage`, `StageCompaction`, `Flush`, `AppendCommitted`, `NewTurn`, `Repair`, `Load` and what is read from it (`Path`, `ContextMessages`, `ContextSummary`, `ContextMode`, `ContextEffort`) |
| `Session` | EXTENDS both. Steps of the agent together with what their events do to the journal; runs, manual compactions, settings, the agent's factory, the write barrier, crash and resume |
| `GoalThread` | one thread of the app server and its goal: admission of user and internal turns, the chain of turn work, interrupts, hooks, compaction, disconnects, the goal's timer, epochs, runs, children and limits |
| `GoalLedger` | the goal between `GoalController`'s memory, `GoalStore`'s queue of appends and the ledger on disk; failing and torn appends, crash, replay |
| `ToolGate` | the reader/writer gate in front of an agent's tools |
| `CodeMode` | EXTENDS `ToolGate`. exec, exec_wait, cells and their drivers, the calls scripts make, aborts, eviction, the close of a run |
| `ServerRequests` | requests of the server to its clients, their redelivery and settlement, and the serializer of prompts |
| `Collab` | the registry of child agents, the tools that use it, and what discards and rebuilds it |
| `Retry` | the retry wrapper, the event queue and the reader that builds a reply |
| `Reconcile` | a thread that is read or resumed while idle takes its file into memory, and the turns, with what they stage and show, that start meanwhile |
| `Credentials` | the ChatGPT binding, its refreshes, the auth store (keyring and file), the requests that change it, start and end of the process |
| `ModelSocket` | the WebSocket session of a conversation, the chain of responses, and the service, which remembers the last response of a connection |
| `McpConnections` | the connection to one MCP server: syncs, shared attempts, login, logout, status |
| `MCAgentLoop`, `MCSession`, `MCGoalThread`, `MCServices` | instances for TLC. `MCServices` explores `GoalLedger` to `McpConnections` side by side: they share no state, so their product is not wanted |
| `AgentLoopProofs`, `SessionProofs`, `SessionMemoryProofs`, `GoalThreadProofs`, `GoalLedgerProofs`, `LocalProofs`, `RemoteProofs`, `ServicesProofs` | theorems: `AgentLoopProofs` also of `SteeringInbox`, `SessionProofs` of `Journal` and `Session`, `SessionMemoryProofs` of `ContextIsKept`, `LocalProofs` of `ToolGate`, `CodeMode`, `Collab`, `ServerRequests` and `Reconcile`, `RemoteProofs` of `Retry`, `ModelSocket`, `McpConnections` and `Credentials`, `ServicesProofs` of `MCServices` |

*Time.* JavaScript runs to completion between awaits, so an action is the code
between two of them, with everything it calls synchronously. Awaiting a promise
that is settled already is not a point where other requests come in: only
microtasks run. Where such a microtask matters (the one between the decision and
the replacement of the entries in `Reconcile`, the listeners of an abort signal in
`CodeMode`), the model says so. Names of turns, children and calls are reused, in
`GoalThread` once nothing refers to the last bearer (`Fresh`).

*Agent and session.* `messages`, `pendingSteering`, `toolInterruptRequested` are
fields of `Agent`; `abortActiveToolBatch` says whether the callback of that name is
set; `conversation`, `turnNumber`, `freshUserIndex`, `proactiveCompactionFailed` are
locals of the loop; `batch` is the state of `runToolCalls`; `tracked` the size of the
set in `createRunScope`; the two abort flags are the two controllers a run has.
`delivered`, `runStart`, `lost`, `late`, `interrupted`, `overflowed`, `changedMidRun`,
`settings` are history variables that no guard of the code depends on. Messages are a
role and a number; whether a compaction is triggered or adopted is a choice. The text
of results is abstracted: an aborted and a real result differ only in which of them
exist. `Session` redefines no action of `AgentLoop`: `AssistantStep == StreamDone /\ ...`
adds the journal's part, as the subscriber runs inside `emit`.

*Threads and goals.* `isRunning`, `currentTurn`, `turnWork`, `goalScope`,
`goalCreation`, `pendingGoal` are fields of `ThreadRuntime`; `pc[t]` is the await of the
`handleTurnStart` that serves turn `t` and `awaits[t]` the `previousWork` it waits
for; `victim` the turn a `handleTurnInterrupt` in progress is about to retire.
`GoalController`'s counters become what decisions read of them: which limit is used
up, whether an epoch is the present one (`era`), so that a goal can go on for ever
in a finite model. The goal's file is two models: `GoalThread` takes a save to need
time and to succeed, `GoalLedger` has what saves do when they fail. Not in
`GoalThread`: plan mode and the toggles of the configuration, changes of the model,
shutdown, requests that wait for a client (`ServerRequests`), the delay of a retry.

*Services.* `ToolGate` is a value with the operators `Acquire`, `Release`, `GiveUp`, so
that `CodeMode` may apply several in one step, as an abort does. In `ServerRequests` a
request is approval or prompt; a durable one has no timeout. `Collab` keeps for each
child what the registry has under its id, and for each execution whether it runs
and whose it is. In `Reconcile` an entry is a number; `committed` and `pendingEntries` are the
store's, `staged` the list of the `TurnStager`, which a replacement of the store's entries
leaves alone; `turnStage` is where the turn is between `isRunning` and the end of its work;
`shared` says whether the list a read holds is still the store's array.

*Credentials.* Tokens are a sign-in and the number of their rotations; `server` is what the
authorization server takes next, and takes once. Of API keys there is one, of clients one
that sets it, one that signs in and one that signs out; two refreshes can overlap because a
sign-in makes a new binding with a lock of its own. A refresh may be granted, which spends
the token, or fail with the token as good as before (the server answers with an error, or is
not reached), and the answer to one that was granted may be lost. A load gives keyring and
file merged, or the file alone when the keyring cannot be reached; a save goes to the keyring
and empties the file, or falls back to the file. `signedIn` records what the user was last
told: signed in, signed out, or, at a start that could not refresh, to sign in again. `lost`
has the sign-ins of which rotated tokens did not come or were not saved. `mishap` records
what the code gives no promise about, listed under "Met while modelling"; exploration goes no
further (`CredentialsNext`). A refresh that fails is no mishap.

*Model socket.* An item of the input is a number; the options of a request count as its
first item. `shown` is the set of exchanges whose events reached the caller of a call. A
frame is handled in one step, its decoding included. The service (`Serve`, `Known`,
`Context`) is external: as the code takes it to be, it has the last completed response of
a connection, and says so when it does not know the one a request names.

*MCP.* One server of several is modelled: the others are there as what a sync awaits for
their sake, before it comes to this server's entry (`later`) or after (`awaiting`). A
configuration is its signature. A client made is `opening`, `refused` (its tokens are being
refreshed), `retrying` (the second client of the attempt), `open`, `closed`, `dead` (its
process ended) or `left` (nobody closes it). Three histories name what the property leaves
out or counts: `crossed`, operations that want different things overlapped; `behind`, a sync
closed another connection than the one it had copied; `served`, how often a sync connected
to what is configured since that, or the sign-in, last changed.

## Runs

| run | question | bounds |
| --- | --- | --- |
| `agent_loop` | conversations are paired, interrupts and left-over work stay in their turn and run, steering is lost only late, the queue implements `SteeringInbox` | 2 runs, 2 turns, 2 calls, 2 steering messages, 1 piece of left-over work |
| `agent_liveness` | an aborted run ends, and interrupted tools give way to the queued steering, unless a tool ignores its signal or left-over work never ends | 1 run, 3 turns, 2 calls, the second of them deaf, 1 steering message, 1 piece of left-over work |
| `session_memory` | history, summary and mode in memory are what a resume rebuilds (`ContextIsKept`: `MemorySurvivesUnlessOverflow`, `SummaryAgreesUnlessOverflow`); nothing shown vanishes | 2 runs of 2 turns, native compactions; either a changed setting, or a steering message and left-over work (`OneDisturbance`) |
| `session_crash` | parents are on disk before children; a resumed context is well formed | 2 runs of 2 turns, 2 calls, one fault (death or failing factory) |
| `goal_thread` | one turn at a time; epochs end with what they began, and tokens stop runs (`VainRunsAreStopped`: `StaleRunsAreStopped`, `TokensStopRuns`); no wake-up is lost; goals are created in quiet | 2 users (symmetric), 1 internal turn, 1 child; unbounded in time, deadlock checked |
| `goal_liveness` | accepted turns are served, and an active goal goes on, unless a hook, a stopped run or a stopped child never ends | 1 user, 1 internal turn, 1 child |
| `runtime_services` | the promises of the nine services, below | below |
| `agent_late_steering`, `session_overflow_prompt`, `session_setting_lost`, `goal_message_pauses`, `goal_left_busy` | the findings below | smallest bounds that show them |

`runtime_services`:

| part | properties | bounds |
| --- | --- | --- |
| ledger | `GoalIsAsSaved` (`StoreAgreesUnlessLateFailure`, `FailureStopsTheGoal`), `AcknowledgedSurvives` | 2 goals, 1 usage sample, 2 readers, 3 revisions, 2 failed appends or crashes |
| code mode | `GateIsCorrect`, `QuietAfterTheRun`, `RecordsReachTheModel` | 3 calls (2 by scripts, 1 exclusive), 2 cells, 1 of them kept |
| requests | `PendingHasResponder`, `ClientsAreTold`, `OnePromptAtATime` | 2 clients, 1 approval, 2 prompts, 1 failed send |
| children | `ChildrenAreAccounted` | 2 children, 3 executions, at most 2 active |
| retry | `RepliesAreWhole` | 3 attempts, 3 events unread |
| reads | `ReadsReconcile` (`KeepsWhatItFound`, `KeepsWhatCame`, `UndisturbedReadsAgree`) | 2 reads, 3 entries, turns without bound |
| credentials | `SignInIsKept` (`TokensCanBeRefreshed`, `NextProcessKnows`, `StaysSignedIn`) | 2 refreshes, 2 sign-ins, 2 rotations of the first and 1 of the second; processes without bound |
| model socket | `ModelIsAsked` (`WholeInput`, `OneExchange`, `NotRefused`) | 2 calls at once, 4 items, 2 sockets, 4 exchanges |
| mcp | `ConnectionsAreKept` (`NotClosed`, `OneConnection`, `Reused`) | 2 operations at once, 2 configurations, 3 clients, 2 changes of the configuration |

Why these are enough. Two runs are what it takes for something left over by one (an
interrupt, a queue, a restored history, a summary, a leaf) to reach another; two turns
distinguish the first, which owns the prompt, from the others; two calls are the
smallest batch in which one is done and one is not. Two users and a goal's turn give
every order of a turn that runs, one that waits for it and one that replaces either.
Two faults let a recovery fail too. Three executions of two children let a child be
resumed while the other's registry is gone; they do not reach the cap of two while both run
and a third is asked for, which only the theorem has. Two reads overlap each other and a turn. Two
sign-ins let a refresh of the first end after the second. Four exchanges are a request that
begins a chain, one that continues it, one refused, and its replay; an aborted call takes
the place of one of them. Two operations on two configurations share an attempt, or cross.

Bounds on counters are named in the guards or are the size of a constant set, and
modules that have them stop, so that deadlock is not checked there. `GoalThread` has
none and checks it. `OneDisturbance` is a state constraint: a changed setting comes alone in a
history; steering and left-over work may come together. In the
last turn of a run the model answers without calls and accepts only late steering.
`TranscriptKeepsMessages` is checked without faults, which are the one way a run in
progress loses what was shown. The session runs add no notes and warnings (`WithNotes`), and
`session_memory` makes native compactions only, to stay small; the proofs have all of them.
No event announces the doom-loop warning, so it is in the agent's memory and never in the
log, which is no promise anyone made: `Embeds` passes over it.

## Fairness

A liveness property must not rest on the good manners of tools and hooks. What the code
bounds by itself is assumed to end; what it only asks to end is not, and where a property
would need it, the property names the case.

`AgentLoop!FairSpec` is weakly fair to

- synchronous steps after a batch or at the close of a run;
- compactions: every one has a timeout (`llm/compaction.ts:142-155`);
- a request to the provider *whose signal is aborted*: the abort ends the stream of its
  events, whatever the provider does (`EventStream.attachSignal`, `event-stream.ts:29-35`);
- a call of a tool that heeds its signal, once the signal is aborted.

`runToolCalls` awaits its tools and looks at no signal meanwhile (`tool.ts:74-78`, `104`), so a
tool that ignores the signal holds up the batch (`docs/guide/goals.md:158-159`). `DeafCalls` is the
set of calls whose tools do; nothing is assumed of them, nor of a tool or a request that
nobody aborted, as a tool may wait for its user for ever. `createRunScope` aborts the context of
left-over work and then awaits it (`loop.ts:283`): nothing is assumed of it either.
`AbortEndsRun` and `InterruptDeliversSteering` speak of a batch in which no deaf call is running
(`DeafCallRuns`), and except a run that closes and waits for left-over work for ever
(`LeftOverRuns`). In `agent_liveness` the second call of a batch is deaf: what the run shows is
that an abort or an interrupt that comes before it starts keeps it from starting, in this turn
and in later ones.

`GoalThread!FairSpec` is weakly fair, turn by turn, to what awaits the disk, a notification, the
end of a compaction or a timer that is set. Not to hooks: a shell hook is killed after its
timeout (`hooks/runner.ts:62-65`), a plug-in's is only awaited (`141-144`, `203-213`), before a prompt
and at the end of a run. Not to the end of a run or a child, even one whose signal is aborted:
its tools may ignore it. `AcceptedTurnsAreServed` and `ActiveGoalGoesOn` except, each by name, a
hook that from some point on never answers (`HookHangs`), a stopped run and a stopped child
that never end (`RunHangs`, `ChildHangs`); each exception is needed: without it the run has a
counterexample. A child that is still at work, which nobody stopped, is one of their cases.
Disconnects and requests are never forced, nor kept away.

The other modules state safety only.

## Proofs

All for any value of the constants, under the assumptions each module names (bounds are
natural numbers; names of different kinds differ), which TLC evaluates on every run.

`AgentLoopProofs`:

- `TypeCorrect`. `TypeOK` alone is not inductive: the tail an overflow compaction
  keeps is `SubSeq(conversation, freshUserIndex, ...)`, so the invariant adds
  `FirstTurn`: in the first turn `freshUserIndex` points into the conversation
  and nothing after it is an assistant message.
- `PairingCorrect`. The conversation is paired whenever no batch is open; while one is
  open it is a paired sequence followed by that batch's assistant message; the batch
  records executions in call order, all of them when it is over. Lemmas: what appended
  to a paired sequence leaves it paired; a cut at the prompt cuts no pair.
- `InterruptCorrect`, `WorkCorrect`: inductive beside `TypeOK`.
- `LateCorrect`: strengthened by "while a run closes without an error or an abort,
  whatever is queued came late".
- `FreshCorrect`: until an overflow compaction cuts the tail of the first turn the prompt
  is at `freshUserIndex`, and after it the second message, behind the summary; the run's
  steering comes right behind the prompt, because nothing is delivered before the request.
- `InboxRefinement`: every step of the loop is a step of `SteeringInbox` or a stutter.
  `FirstInFirstOut` is proved of the inbox, and so `SteeringIsInOrder` of the agent's queue.

`SessionProofs`, for any number of entries, turns, settings and crashes: `SessionTyped`,
`FilesAreTrees`, `TranscriptKept`, `ResumesArePaired`, `ModeSurvives`. The invariant of the journal, `JournalOK`, says that ids
are unique and below the next one, that a committed entry hangs from an earlier one (or is a
root), a staged one from those or an earlier staged one, and that the leaf is the last staged
entry if there is one. That suffices for every operation: a checkpoint goes between the two
parts, a repair hangs from an entry of the path, a resume loads any prefix. `PathFrom` is a
recursive function over positions, each of which takes its value from a smaller one; such a
table exists and is unique in what it says (`TableExists`), which gives the two equations
the proofs use: the path to no entry is empty, and the path to an entry is that to its parent
with the entry at the end (`Paths`). `TranscriptKept` needs one thing more, `RunSeesAll`:
while a run has the thread, the entry the next one hangs from is below every message that is
shown. It is not so before a run takes a new stager, and the only other step that
moves the leaf back is a resume. That a checkpoint put before the pending entries hides
none of them is `CarriedIsSeen`: every old entry is there, under its own parent or under
one put in between.

`ResumesArePaired` counts, along the path to an entry, the results that are due there
(`Due`: an assistant message makes its calls due, a result takes one away). A log is `Tidy`
when each result hangs where one is due and answers the next call, and messages and
checkpoints hang where none is. What a file holds is a prefix of the committed entries, so it is
tidy whenever they are (`TidyPrefix`), its last path is neat (`PathsAreNeat`: every message
before the last assistant message is answered), and `Repair` gives the results that are missing
to that one (`RepairIsTidy`), or does nothing when none is due (`RepairNothing`). The context of
a tidy log whose leaf has nothing due is paired (`ContextPaired`). `DueInv` says what an action
may count on: while the loop waits for a batch, what is due at the leaf is the calls without an
execution yet, in order, and nothing else is staged; otherwise nothing is due, in
the committed entries either, which settings and errors hang from in the middle of a run. Any
number read step by step along a path is kept by what is put between entries that it does not
depend on (`ThreadsAlong`); `Due` is one, the mode another: `ModeSurvives` follows from `ModeInv`,
that the mode is the one in force at the committed leaf and at what the run's next entry
hangs from, and from `RepairNothing` at the start of a run.

`SessionMemoryProofs`: `ContextKept` relates two histories that are built apart: the agent appends to its conversation,
the stager to the log. `View` is what the path to an entry restores, the messages and the native
summary, and an entry restores what it makes of the view of its parent (`ViewSteps`, `After`).
So each operation of the journal is known by what it does to two views: that of the committed
leaf (`Restored`) and that of the entry the next one hangs from (`Upcoming`), which a resume
will see once the staged entries are committed. Staging adds messages to the second, a
flush makes it the first, a checkpoint cuts it to the summary and what is pending. `RunInv`
says where the agent's memory is found: in `Restored` between jobs and until the prompt is
taken, in `Upcoming` afterwards, with the results of the batch while tools run (`MemoryInv`); and
that the summary of the next request is that of `Upcoming`, which needs that only messages
are staged behind a checkpoint while the run may still be compacted (`SummaryInv`).
`StagedInv` has the shape of what is staged: entries that hang from each other, a prompt alone
before the first turn. `Found` says by a placement, a rising choice of positions, what `Embeds`
says by search (`FoundEmbeds`), and what is found stays found when both sides grow
(`FoundOneByOne`). The exceptions are the property's own: after an overflow in a first turn
(finding 2) memory and log part until a resume, and so may the summary after any overflow
or local compaction.

`GoalThreadProofs`, for any number of turns and children: `TypeCorrect`,
`SessionIsExclusive`, `CreationFindsQuiet`, `RunsThatCountAreLive`, `VainRunsStop`,
`EndedTurnsLeave`, `WakesAreKept`, `OldWorkTouchesNothing`. That nobody else executes is not visible in
what a turn checks: it checks only that the work before it is over. The inductive
invariant therefore says what the chain of promises looks like: every turn in work but
one waits for exactly one other, no two wait for the same one, the one that waits for
nobody is the head, and `turnWork` is the last of the chain. A new turn goes behind
the last; an end frees the one behind the head. A second part says that a thread that is
not running has no current turn, and that a compaction runs only when there is neither a
current turn nor turn work. The quiet at `CreateGoal` follows: who is both head and last is
alone. The epochs are a second invariant (`Epochs`) on top of it: a run of the present epoch
is the one that counts until it is settled; the run that counts began while the goal was
active; who runs for a past epoch, or without tokens, is aborted. The case that decides is
a sample that uses up the tokens of a goal that is complete: only the turn that counts may
still work then, as the head of the chain is one turn and a complete goal has no child of a
past epoch. A third (`Busy`) says of the turn a thread is busy with that it has not ended, unless
its user stopped it, and works for the active goal, unless a user's message is about to
retire it (`CurrentFits`); and of an active goal without a timer that somebody in progress
will set one (`Owed`). The other turns matter for it: one that consumes a wake is past its
start, and a turn that starts retires nobody else (`HoldersFit`). A fourth (`Forsaken`): while
a turn or a child works for a goal that is gone, there is no goal, because a goal is
made only when the thread is quiet.

`GoalLedgerProofs`: `LedgerTyped`, `WhatIsSavedIsTheGoal`, `SavedChangesSurvive`, for any number of
goals, reports, requests, reads, failed appends and crashes. What holds when the queue is empty says
nothing of a queue that is not, so the invariant (`LedgerInv`) follows the goal through the
queue: short of a late failure, and of a failure with no recovery queued for it, the last
snapshot in the queue, or the store's copy if there is none, charged with the samples behind
it, is the goal in memory (`Reaches`). Snapshots are queued in the order of their revisions, all
of them between the store's and the goal's, so none is refused (`QueueFits`); a sample in the
queue is new to the store and there only once (`SamplesFit`). A request waits for the write of its
own revision, and then for what is queued behind it, when that revision is in the store or
the failure is known: so what it is told is true (`CallFits`). The ledger, when it can be
read, replays to the store's copy (`ReplayFits`), by a lemma about replay: a line more is one
`Apply` more (`ReplayAppended`). Recoveries are one for each reader that finds the failure,
whence the assumption that readers are finitely many. A second invariant (`GoalsAreSet`) says that
every goal in memory, queue, store and ledger was set.

`LocalProofs`, the tools: `GateAdmitsRight`, of any callers: `holders` counts who is inside, the
inside is one exclusive call or shared ones, the queue repeats nobody and has nobody who
is inside, and after each operation its head cannot be admitted. `ScriptsShareTheGate` is
the same rule with the gate as code mode uses it, where several waiters leave at once and
each that leaves may let in the next (`Leave`, a fold). `RunsEndQuietly` and `RecordsAreTold`
rest on one invariant, `CodeInv`: a call is live just when the gate has it, inside or in the
queue (`HeldFit`); while a run is open its cells, drivers and calls are its own, and when it is
over none has a live call (`RunFits`); the records of a cell are the tools its calls ran that
no result has told yet (`RecordsFit`). The assumption that there is a cell (`Cells # {}`) is
needed only for a choice among them to be one.
`CollabTyped`, `ChildrenAccounted`, for any number of children and executions: the registry
has, under each id, the last execution of that child; an agent is discarded, by what
asks first, only when no goal has children and no turn can get a goal, so what becomes an orphan
is no goal's; while a tool waits the registry stays as it is, and runs can only end. The cap
holds because the runs that are no orphans are the entries of active children.

The app server, in the same module: `RequestsTyped`, `RequestsHaveResponders`, `EveryClientIsTold`, `PromptsComeOneByOne`.
One invariant: who is not connected shows nothing; who still shows an answered request is
on the list of those to tell; the serializer has every prompt that is asked and not over,
once, and only its first is shown.

Reads, in the same module: `ReconcileTyped`, `ReadsAreSafe`. The invariant (`ReconcileInv`) says
that every entry, written, waiting to be written or staged, was made once; that memory
goes in the order of the file (`InOrder`: each entry has a place in the file and the queue, and the
places increase); and what a read holds (`ReadFits`). Until something replaces the list it
began with, what the thread had when it was seen idle is in the file, or will be when the
writes the read waits for are done; what it has read is a prefix of the file; and what it is
about to adopt is no shorter than its list was. So if the file has nothing beyond that list,
what was read is the list (`ReadIsTheList`): both go in the order of the file, and neither is
longer. Undisturbed, a read finds what it left, or adopts the file.

`RemoteProofs`, the model: `RetryTyped`, `RepliesHoldOneAttempt`, for any number of attempts and any delay of the
reader. Between parts of two attempts in the queue there is a retry event; a part that
nothing behind it retracts is of the attempt in progress; a whole tool call is never
retracted; a whole reply ends the stream. `SocketTyped` and `ModelReadsTheInput`, for any number
of calls, connections and responses: the invariant (`SocketInv`) follows the input through the
session. What a call sends is the whole input, or the rest of it after a response whose
input and items are a prefix (`RequestFits`); what the chain remembers is what the service
remembers of that connection, while no request is on its way (`ChainFits`, `Remembered`);
frames on the wire belong to the exchange of the call that waits for them (`WireFits`, `Waited`),
so what an aborted call left behind reaches nobody else.

Connections and credentials, in the same module: `McpTyped`, `ConnectionsKept`, for any number of operations. A client
that is being connected is a sign-in's own, or that of an attempt, and then everyone who
waits for it has the attempt's configuration; so an attempt that ends ends for all of
them and for nobody else. As long as nothing crossed, operations in progress are syncs that
agree on a configuration, or one alone, and nothing is opened beside a connection: what
differs was disposed of first. Short of a sync that is behind, what a sync connected to the
configured server stays until the configuration changes or the user signs in or out, so no
second one is served (`Reused`). `CredentialsTyped`, `SignInsAreKept`: short of the mishaps the model
names (`mishap`), at most one refresh of a sign-in has tokens the server no longer expects,
and it is the one whose answer is on its way; a sign-in falls behind the server only when an
answer or a save is lost (`lost`); the binding, the store and what the next process reads are the
newest tokens, or those whose successor is about to be saved; and the binding is the last
sign-in that was completed, unless the user was told otherwise.

Sequences without end. tlapm cannot instantiate the library's induction theorems, which take
an operator. Where a proof needs induction over a sequence or a fold it takes the least
place at which the claim fails (`LeastExists`, `LeastNatural`, from the order of the naturals being well-founded).

`ServicesProofs`: `PartsRunAlone`, `ServicesTyped`, `PromisesAreKept`. The run `runtime_services`
explores nine services that share no state side by side. A step of the composition is a step
of one part and a stutter of the others (`StepsOfParts`), so the composition implements each
part's own specification, and what is proved of a part alone holds of all together: each
invariant and action property of the run is a theorem of the specification it checks.

Only model-checked: liveness. Fairness and ENABLED are out of the prover's reach. Every
invariant and every action property of the passing runs is a theorem.

## Findings

1. `agent_late_steering`. Steering accepted while a run is closing is dropped although
   the run completed (`agent.ts:127`), against `docs/guide/collaboration.md:83`. There is time for it when the run has
   left-over work, for which the close waits (`loop.ts:283`); without any, only microtasks run there.
   `OnlyLateSteeringIsLost` shows that it is the only way.
2. `session_overflow_prompt`. A first turn compacted after a context overflow loses its
   prompt from the log's context: the prompt was flushed at `turn_start` and the compaction
   entry goes behind it (`turn-stager.ts:165`), against `docs/guide/compaction.md:89-90`.
   Without such a turn memory and log agree (`MemorySurvivesUnlessOverflow`).
3. `session_setting_lost`. A setting changed during a run is not on the path the session
   continues (`manager.ts:302`), against `docs/guide/session-lifecycle.md:55`. The property
   also covers `context-builder.ts:151`: effort and model are read only after the last
   compaction, the mode from the whole path.
4. `goal_message_pauses`. A user's message moves the goal to a new epoch and then awaits
   the save; an automatic turn that was being announced begins a run of the *new* epoch,
   is retired, and its interrupted settlement pauses the goal (`turn-handlers.ts:102`,
   `controller.ts:461`), against `docs/guide/goals.md:90-92`.
5. `goal_left_busy`. A goal stopped while a user's message is being announced leaves the
   thread busy with a turn that is over (`turn-handlers.ts:380`), until somebody interrupts
   it. `OnlyStoppedTurnsStayBusy` shows that it is the only way.

Met while modelling, and part of the models rather than findings of a run:

- A local compaction in a run that began with a native summary leaves that summary in the
  agent (`agent.ts:118`), which `SummaryAgreesUnlessOverflow` excepts (`CompactedLocally`). Even
  when all are native the log may name the older of two compactions of one unflushed turn
  (`turn-stager.ts:170`), which it excepts too (`overflowed`).
- An append of the ledger that fails with a recovery queued behind it leaves the goal with
  a revision the store does not have (`lateFailure`); edits, resume and clear are then refused
  as conflicts until a restart. A clear may be acknowledged though its own write failed.
- A torn append followed by another line makes the ledger unreadable for later processes
  (`AcknowledgedSurvives` speaks of readable ledgers).
- An abort reaches waiting calls one listener after the other, and the first to leave the
  queue may let in one whose signal is aborted too (`gate.ts:19`); it then runs and ends by its
  own signal. `exec_wait(terminate)` and eviction leave the calls in flight unaborted, and
  forget their records.
- A `peer.send` that throws while an answer is announced (`server-requests.ts:53`) leaves the
  request in nobody's hands (`"stranded"`), and with it the prompts behind it.
- `mode/set`, a change of model and `config/reload` discard the agent and its registry while
  ordinary children still run (`orphans`). The next registry restores them as shut down, so
  that `wait` reports a child that runs as finished and `resume_id` can start it a second
  time; `collab/factory.ts:15-20` takes such children to be of an earlier server. `OneRunPerChild` and
  `FinishedIsFinished` leave orphans out.
- `config/reload` looks for work of a goal before it reads the files and discards the agent
  after, without looking again (`config-handlers.ts:90` and `97`; `slipped`).
- A read looks once whether the thread is idle, and replaces the entries of a turn that began
  since (`thread-handlers.ts:188-189`). Entries of that turn vanish from memory, though not from
  the file, in the three cases `ReadsReconcile` names: another read replaced the list meanwhile
  (two reads and a turn suffice), the file has an entry from elsewhere, or the entry came in
  the microtask after the comparison. What the turn showed and had not committed is hidden until
  its next event (`state-store.ts:28-29`).
- A turn that gets no agent leaves its user's message shown and never commits it
  (`turn-orchestrator.ts:109-116`, `284`).
- Updates of the auth store load it, change their copy and save that without a lock: of two
  that overlap, one is undone (`auth-store.ts:364-391`, `"overwritten"`). In the default mode a
  save that falls back to the file is hidden by what the keyring still holds
  (`auth-store.ts:290`, `"hidden"`), and an update that cannot read the keyring starts from
  the file and overwrites the rest (`"overwritten"`); so does a start (`"unread"`).
- Signing out does not stop a refresh in flight, whose save brings the tokens back
  (`config-handlers.ts:232-236`, `"late"`). A failed save of rotated tokens is dropped (`provider-auth.ts:74`, `lost`): the
  next process finds a refresh token that is spent.
- A start that cannot refresh tokens that are due removes them, even if the network was down
  and they are as good as ever (`config/runtime.ts:140-147`); if the removal fails too, nobody is told (`"unremoved"`). The log
  says to sign in again; `StaysSignedIn` counts that as being told.
- An aborted call goes on building its body, and when it comes to the session it finds the
  next call's exchange and is refused, or closes the idle socket (`websocket-session.ts:149`,
  `163`); the next call is never the one refused (`NotRefused`).
- MCP operations that overlap and want different things replace each other's connection
  without closing it (`client.ts:203`, `301`; `crossed`). A sync goes through a copy of the entries,
  awaits each disposal, and then disposes by name: it may close a connection another sync made
  meanwhile, of the configuration it wants itself (`client.ts:186-190`; `behind`), against
  `docs/guide/mcp-servers.md:146`, by which connections are reused. A logout can be undone by a
  connect in flight. A client whose `listTools` answers with an error is never closed
  (`client.ts:502`; `left`), a server that dies is not noticed until its signature changes, and a
  failed login does not restore the connection it dropped.
- A hook of a plug-in is awaited without a timeout (`hooks/runner.ts:141-144`, `203-213`), and so
  is a tool after an abort (`tool.ts:74-78`): either keeps the turn's work, and the turns that wait
  for it, for as long as it likes.

## Plan

Done: the agent loop and the session; threads and goals; ledger, code mode, requests,
children, retry, reads, credentials, the model socket and MCP connections; the proofs above.

What would add most now: failing writes of the session file in `Session`; `send_input`
and nested children in `Collab`; plan mode and changes of the model in `GoalThread`;
steering that reaches the thread between two runs.

## Not modelled

Wire formats and the other model providers, the tools themselves, discovery of skills,
agents and hooks, configuration files, the OAuth exchanges, MCP resources and prompts,
knowledge, approval rules, the
protocol's schemas, the terminal client, the debug viewer, the evaluations, and the
OVERDARE applications: input and output, pure conversion, or user interface. They are
most of the repository's lines; the models cover the part of it that keeps promises over
several steps.

Of the modelled parts: torn lines and failing writes of the session file, knowledge
injection, hooks that block tools, steering while the factory is awaited (delivered to the
previous agent), the deadline of a turn scope, nested children and `send_input`, output and
stored values of scripts, the auth store's modes with one storage, the disposal of a conversation's
socket. PROJECT.json lists each hazard that no property covers and
why.
