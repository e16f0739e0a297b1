------------------------------ MODULE CodeMode ------------------------------
(***************************************************************************)
(* Code mode (tools/code-mode/session.ts and tools.ts).  An exec call      *)
(* starts a cell, a worker that runs a script; the script calls tools      *)
(* through the host, which runs them behind the agent's gate.  The call    *)
(* that drives a cell may return while the script runs on; an exec_wait    *)
(* drives it again, in the same run of the agent or a later one.  The run  *)
(* stays open until the calls it dispatched have settled.                  *)
(*                                                                         *)
(* The script's output and values it stores are left out, and so are hosts *)
(* that give no run scope.                                                 *)
(***************************************************************************)
EXTENDS ToolGate, FiniteSets, SequencesExt

CONSTANTS Cells, Nested,   \* scripts, and the calls they make
          MaxLive          \* cells kept (MAX_LIVE_CELLS)

ASSUME CodeModeConstants ==
  Cells # {} /\ Nested \subseteq Callers /\ MaxLive \in Nat \ {0}

VARIABLES
  run,          \* "idle", "open", "aborted", or "closing" (waits for tracked work)
  interrupted,  \* the current batch of tool calls was
  status,       \* of a cell; "collected" and "discarded" ones are forgotten
  awaited,      \* whether an exec or exec_wait waits on the cell
  driver,       \* the dispatcher of a cell: none, or its call's batch
  held,         \* calls the cell asks for while nothing drives it
  owner, at,    \* of a nested call: its cell; and of every call, how far it is
  batch,        \* calls made under the signal of the current batch
  record        \* of a nested call: in nestedCalls, or in a result

codeModeVars == <<gate, run, interrupted, status, awaited, driver, held, owner, at,
                  batch, record>>

Direct == Callers \ Nested
Live == {x \in Callers : at[x] = "live"}   \* waits at the gate, or is inside
InFlight(c) == {x \in Live \cap Nested : owner[x] = c}

\* What the gate does to the calls: those that gave up are over.
Through(g) ==
  /\ gate' = g
  /\ at' = [x \in Callers |->
              IF at[x] = "live" /\ x \notin g.inside \cup Queued(g) THEN "done" ELSE at[x]]

\* Signals are aborted at once, but a listener that leaves the queue lets in who is
\* behind it before that one's listener runs: those of the signal itself, which the
\* direct calls share, before those of the signals that depend on it.
Leave(g, S) ==
  FoldLeft(LAMBDA h, x : IF x \in S THEN GiveUp(h, x) ELSE h, g, g.waiting)
Aborted(g, S) == Leave(Leave(g, S \ Nested), S \cap Nested)

\* The result of an exec or exec_wait carries the records since the last one.
Told(S) == record' = [x \in Nested |-> IF record[x] = "kept" /\ owner[x] \in S
                                       THEN "told" ELSE record[x]]

\* finish("terminated"): a call that waits on the cell returns.
Terminated(S) ==
  /\ status' = [c \in Cells |-> IF c \notin S THEN status[c]
                                ELSE IF awaited[c] THEN "discarded" ELSE "terminated"]
  /\ awaited' = [c \in Cells |-> awaited[c] /\ c \notin S]
  /\ Told({c \in S : awaited[c]})

Running == {c \in Cells : status[c] = "running"}

\* No call of the batch is in progress; the next one may be made.  Calls overlap only
\* when all tools of the batch support it, and exec and exec_wait do not.
BatchOver == Live \cap Direct = {} /\ \A c \in Cells : ~awaited[c]
Batching == run = "open" /\ ~interrupted
Turn == Batching /\ BatchOver

-----------------------------------------------------------------------------
\* The agent's run and its batches.

BeginRun ==
  /\ run = "idle" /\ run' = "open"
  /\ UNCHANGED <<gate, interrupted, status, awaited, driver, held, owner, at, batch, record>>

CallDirectly(x) ==
  /\ Batching /\ x \in Direct /\ at[x] = "free" /\ \A c \in Cells : ~awaited[c]
  /\ Live \cap Direct # {} => ((Live \cap Direct) \cup {x}) \cap Exclusive = {}
  /\ gate' = Acquire(gate, x) /\ at' = [at EXCEPT ![x] = "live"]
  /\ batch' = batch \cup {x}
  /\ UNCHANGED <<run, interrupted, status, awaited, driver, held, owner, record>>

EndBatch ==
  /\ run = "open" /\ BatchOver
  /\ interrupted' = FALSE /\ batch' = {}
  /\ driver' = [c \in Cells |-> IF driver[c] = "batch" THEN "past" ELSE driver[c]]
  /\ UNCHANGED <<gate, run, status, awaited, held, owner, at, record>>

\* The tool interrupt: cells a call of the batch waits on are terminated, and the
\* calls made under its signal are aborted.
InterruptBatch ==
  /\ Batching /\ ~BatchOver /\ interrupted' = TRUE
  /\ Terminated({c \in Running : awaited[c]})
  /\ driver' = [c \in Cells |->
                  IF awaited[c] THEN "none"
                  ELSE IF driver[c] = "batch" THEN "aborted" ELSE driver[c]]
  /\ Through(Aborted(gate, batch))
  /\ UNCHANGED <<run, held, owner, batch>>

\* The run is aborted: so is every cell that one of its calls drives or drove.
AbortRun ==
  /\ run \in {"open", "closing"}
  /\ run' = IF run = "open" THEN "aborted" ELSE run
  /\ Terminated({c \in Running : awaited[c] \/ driver[c] # "none"})
  /\ driver' = [c \in Cells |-> "none"]
  /\ Through(Aborted(gate, Live))
  /\ UNCHANGED <<interrupted, held, owner, batch>>

MutDriversAfterClose == driver
DriversAfterClose == [c \in Cells |-> "none"]

\* close(): no new work of the run; then it waits for what it tracks.
CloseRun ==
  /\ run \in {"open", "aborted"} /\ BatchOver
  /\ run' = "closing" /\ driver' = DriversAfterClose
  /\ interrupted' = FALSE /\ batch' = {}
  /\ UNCHANGED <<gate, status, awaited, held, owner, at, record>>

EndRun ==
  /\ run = "closing" /\ Live \cap Nested = {}
  /\ run' = "idle"
  /\ UNCHANGED <<gate, interrupted, status, awaited, driver, held, owner, at, batch, record>>

-----------------------------------------------------------------------------
\* Cells.

Kept == {c \in Cells : status[c] \in {"running", "ended", "terminated"}}

\* exec: cells nobody waits on make room (evictIdleCells; which of them was driven
\* last is left open), and the new one is driven.
Exec(c) ==
  /\ Turn /\ status[c] = "new"
  /\ \E evicted \in SUBSET Kept :
       /\ \/ Cardinality(Kept \ evicted) = MaxLive - 1
          \/ Cardinality(Kept) < MaxLive /\ evicted = {}
       /\ status' = [d \in Cells |-> IF d \in evicted THEN "discarded"
                                     ELSE IF d = c THEN "running" ELSE status[d]]
       /\ driver' = [d \in Cells |-> IF d \in evicted THEN "none"
                                     ELSE IF d = c THEN "batch" ELSE driver[d]]
  /\ awaited' = [awaited EXCEPT ![c] = TRUE]
  /\ UNCHANGED <<gate, run, interrupted, held, owner, at, batch, record>>

\* exec_wait on a running cell: it becomes the driver, and dispatches what was held.
Drive(c) ==
  /\ Turn /\ status[c] = "running"
  /\ awaited' = [awaited EXCEPT ![c] = TRUE]
  /\ driver' = [driver EXCEPT ![c] = "batch"]
  /\ gate' = FoldLeft(Acquire, gate, held[c])
  /\ held' = [held EXCEPT ![c] = <<>>]
  /\ at' = [x \in Callers |-> IF at[x] = "held" /\ owner[x] = c THEN "live" ELSE at[x]]
  /\ batch' = batch \cup {x \in Nested : at[x] = "held" /\ owner[x] = c}
  /\ UNCHANGED <<run, interrupted, status, owner, record>>

\* exec_wait on a cell whose script has ended awaits the calls it aborted.
Collect(c) ==
  /\ Turn /\ status[c] = "ended"
  /\ awaited' = [awaited EXCEPT ![c] = TRUE]
  /\ UNCHANGED <<gate, run, interrupted, status, driver, held, owner, at, batch, record>>

\* exec_wait on a terminated cell, or with terminate: it returns at once.
Discard(c) ==
  /\ Turn /\ status[c] \in {"running", "terminated"}
  /\ status' = [status EXCEPT ![c] = "discarded"]
  /\ driver' = [driver EXCEPT ![c] = "none"]
  /\ Told({c})
  /\ UNCHANGED <<gate, run, interrupted, awaited, held, owner, at, batch>>

\* The script yields, or the time of the call that drives it is over.
Yield(c) ==
  /\ awaited[c] /\ status[c] = "running"
  /\ awaited' = [awaited EXCEPT ![c] = FALSE]
  /\ Told({c})
  /\ UNCHANGED <<gate, run, interrupted, status, driver, held, owner, at, batch>>

\* The script calls a tool: without a driver the call is held, and under an aborted
\* signal it fails at once.
ScriptCalls(c, x) ==
  /\ status[c] = "running" /\ x \in Nested /\ at[x] = "free"
  /\ owner' = [owner EXCEPT ![x] = c]
  /\ CASE driver[c] = "none" ->
            /\ held' = [held EXCEPT ![c] = Append(@, x)]
            /\ at' = [at EXCEPT ![x] = "held"] /\ UNCHANGED <<gate, batch>>
       [] driver[c] = "aborted" ->
            at' = [at EXCEPT ![x] = "done"] /\ UNCHANGED <<gate, held, batch>>
       [] OTHER ->
            /\ gate' = Acquire(gate, x) /\ at' = [at EXCEPT ![x] = "live"]
            /\ batch' = IF driver[c] = "batch" THEN batch \cup {x} ELSE batch
            /\ UNCHANGED held
  /\ UNCHANGED <<run, interrupted, status, awaited, driver, record>>

\* The script is over, or its worker crashed: the calls it left are aborted, one by
\* one in the order they were dispatched.
ScriptEnds(c) ==
  /\ status[c] = "running"
  /\ status' = [status EXCEPT ![c] = "ended"]
  /\ driver' = [driver EXCEPT ![c] = "none"]
  /\ Through(Aborted(gate, InFlight(c)))
  /\ UNCHANGED <<run, interrupted, awaited, held, owner, batch, record>>

\* What drives the cell returns once all calls of the cell have settled.
MutSettled(c) == TRUE
Settled(c) == InFlight(c) = {}
DriveReturns(c) ==
  /\ awaited[c] /\ status[c] = "ended" /\ Settled(c)
  /\ awaited' = [awaited EXCEPT ![c] = FALSE]
  /\ status' = [status EXCEPT ![c] = "collected"]
  /\ Told({c})
  /\ UNCHANGED <<gate, run, interrupted, driver, held, owner, at, batch>>

\* A tool ends, in whatever way; a nested call leaves its record with the cell.
ToolEnds(x) ==
  /\ x \in gate.inside
  /\ gate' = Release(gate, x) /\ at' = [at EXCEPT ![x] = "done"]
  /\ record' = IF x \in Nested THEN [record EXCEPT ![x] = "kept"] ELSE record
  /\ UNCHANGED <<run, interrupted, status, awaited, driver, held, owner, batch>>

CodeModeInit ==
  /\ GateInit /\ run = "idle" /\ interrupted = FALSE /\ batch = {}
  /\ status = [c \in Cells |-> "new"] /\ awaited = [c \in Cells |-> FALSE]
  /\ driver = [c \in Cells |-> "none"] /\ held = [c \in Cells |-> <<>>]
  /\ owner = [x \in Nested |-> CHOOSE c \in Cells : TRUE]
  /\ at = [x \in Callers |-> "free"] /\ record = [x \in Nested |-> "none"]

CodeModeNext ==
  \/ BeginRun \/ EndBatch \/ InterruptBatch \/ AbortRun \/ CloseRun \/ EndRun
  \/ \E x \in Callers : CallDirectly(x) \/ ToolEnds(x)
  \/ \E c \in Cells :
       \/ Exec(c) \/ Drive(c) \/ Collect(c) \/ Discard(c) \/ Yield(c)
       \/ ScriptEnds(c) \/ DriveReturns(c)
       \/ \E x \in Nested : ScriptCalls(c, x)

CodeModeSpec == CodeModeInit /\ [][CodeModeNext]_codeModeVars

-----------------------------------------------------------------------------
\* The types of the run, its cells and their calls.
CodeModeTypeOK ==
  /\ run \in {"idle", "open", "aborted", "closing"} /\ interrupted \in BOOLEAN
  /\ status \in [Cells -> {"new", "running", "ended", "terminated", "collected", "discarded"}]
  /\ awaited \in [Cells -> BOOLEAN]
  /\ driver \in [Cells -> {"none", "batch", "past", "aborted"}]
  /\ owner \in [Nested -> Cells] /\ batch \subseteq Callers
  /\ at \in [Callers -> {"free", "held", "live", "done"}]
  /\ record \in [Nested -> {"none", "kept", "told"}]
  /\ Live = gate.inside \cup Queued(gate)

\* No tool call of a run goes on, or waits to start, once the run has ended: not one
\* of a script that yielded, was held, or asked for it while the run was closing.
QuietAfterTheRun == run = "idle" => gate.inside = {} /\ gate.waiting = <<>>

\* When an exec or exec_wait returns the end of a script, every tool the script ran
\* is in its result or an earlier one.
RecordsReachTheModel ==
  \A x \in Nested : record[x] = "kept" => status[owner[x]] # "collected"
=============================================================================
