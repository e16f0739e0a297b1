------------------------------- MODULE Retry -------------------------------
(***************************************************************************)
(* A request to the model: withRetry (core/src/llm/retry.ts) tries it      *)
(* again when it fails, and streamAssistantMessage                         *)
(* (core/src/agent/assistant.ts) builds the reply from the events of all   *)
(* attempts, which reach it through a queue (core/src/event-stream.ts).    *)
(* What an attempt has shown is discarded before the next one is shown,    *)
(* and after a whole tool call there is no next one.                       *)
(***************************************************************************)
EXTENDS Naturals, Sequences, FiniteSets

CONSTANTS MaxAttempts,
          MaxQueued   \* bound: events the reader is behind

ASSUME RetryConstants == {MaxAttempts, MaxQueued} \subseteq Nat \ {0}

VARIABLES
  attempt,       \* the attempt in progress, or the last one
  stage,         \* "starting", "streaming", "closing", "waiting" or "over"
  outcome,       \* of an attempt that is closing: "done", "retryable" or "fatal"
  outputState,   \* "none", "draft" or "tool"
  stopping,      \* the caller's signal is aborted
  events,        \* the stream between the two
  reply,         \* what the reader shows: parts, with the attempt each is from
  reader         \* "reading", "replied" or "failed"

retryVars == <<attempt, stage, outcome, outputState, stopping, events, reply, reader>>

Part == {"draft", "tool"}
Event(type) == [type |-> type, attempt |-> attempt]

\* updateOutputState(): a completed tool call is the stronger boundary.
Grows(type) == IF outputState = "tool" THEN "tool" ELSE type

\* decideRetry()
MutRetries == outcome = "retryable" /\ outputState # "tool"
Retries ==
  /\ outcome = "retryable" /\ outputState # "tool" /\ attempt < MaxAttempts

\* push(): nothing is added after the event that ends the stream.
Push(type) == events' = Append(events, Event(type))

Room == Len(events) < MaxQueued

-----------------------------------------------------------------------------
\* The wrapper.

StartAttempt ==
  /\ stage = "starting"
  /\ IF stopping
     THEN Push("error") /\ stage' = "over"
     ELSE stage' = "streaming" /\ UNCHANGED events
  /\ outputState' = "none"
  /\ UNCHANGED <<attempt, outcome, stopping, reply, reader>>

Forward(type) ==
  /\ stage = "streaming" /\ Room
  /\ Push(type) /\ outputState' = Grows(type)
  /\ UNCHANGED <<attempt, stage, outcome, stopping, reply, reader>>

\* The provider ends its stream, well or not, or throws; what it still does is awaited.
EndStream(how) ==
  /\ stage = "streaming" /\ stage' = "closing" /\ outcome' = how
  /\ UNCHANGED <<attempt, outputState, stopping, events, reply, reader>>

\* Whoever sees a draft is told before the next attempt that it is discarded.
MutDiscarded == events
Discarded == IF outputState = "draft" THEN Append(events, Event("retry")) ELSE events

Decide ==
  /\ stage = "closing"
  /\ IF Retries
     THEN events' = Discarded /\ stage' = "waiting"
     ELSE Push(IF outcome = "done" THEN "done" ELSE "error") /\ stage' = "over"
  /\ UNCHANGED <<attempt, outcome, outputState, stopping, reply, reader>>

\* The provider's own work fails: so does the request.
CleanupFails ==
  /\ stage = "closing" /\ Push("error") /\ stage' = "over"
  /\ UNCHANGED <<attempt, outcome, outputState, stopping, reply, reader>>

\* The delay is over, or the signal ends it.
NextAttempt ==
  /\ stage = "waiting" /\ stage' = "starting" /\ attempt' = attempt + 1
  /\ UNCHANGED <<outcome, outputState, stopping, events, reply, reader>>

StopRequest ==
  /\ ~stopping /\ stopping' = TRUE
  /\ UNCHANGED <<attempt, stage, outcome, outputState, events, reply, reader>>

-----------------------------------------------------------------------------
\* The reader.

Oldest == Head(events)
Receive ==
  /\ events # <<>> /\ reader = "reading"
  /\ events' = Tail(events)
  /\ CASE Oldest.type \in Part ->
            reply' = reply \cup {Oldest} /\ UNCHANGED reader
       [] Oldest.type = "retry" -> reply' = {} /\ UNCHANGED reader
       [] Oldest.type = "done"  -> reader' = "replied" /\ UNCHANGED reply
       [] OTHER                -> reader' = "failed" /\ UNCHANGED reply
  /\ UNCHANGED <<attempt, stage, outcome, outputState, stopping>>

RetryInit ==
  /\ attempt = 1 /\ stage = "starting" /\ outcome = "done" /\ outputState = "none"
  /\ stopping = FALSE /\ events = <<>> /\ reply = {} /\ reader = "reading"

RetryNext ==
  \/ StartAttempt \/ Decide \/ CleanupFails \/ NextAttempt \/ StopRequest \/ Receive
  \/ \E type \in Part : Forward(type)
  \/ \E how \in {"done", "retryable", "fatal"} : EndStream(how)

RetrySpec == RetryInit /\ [][RetryNext]_retryVars

-----------------------------------------------------------------------------
\* The types of the request and its reader.
RetryTypeOK ==
  /\ attempt \in 1..MaxAttempts
  /\ stage \in {"starting", "streaming", "closing", "waiting", "over"}
  /\ outcome \in {"done", "retryable", "fatal"} /\ outputState \in Part \cup {"none"}
  /\ stopping \in BOOLEAN /\ reader \in {"reading", "replied", "failed"}
  /\ \A i \in DOMAIN events : events[i].type \in Part \cup {"retry", "done", "error"}

\* However far the reader is behind, a reply holds parts of one attempt, the last one
\* when it is whole; a tool call the reader has seen whole is never followed by another
\* attempt, which could make the call again.
RepliesAreWhole ==
  /\ Cardinality({p.attempt : p \in reply}) <= 1
  /\ reader = "replied" => \A p \in reply : p.attempt = attempt
  /\ (\E p \in reply : p.type = "tool") => \A p \in reply : p.attempt = attempt
=============================================================================
