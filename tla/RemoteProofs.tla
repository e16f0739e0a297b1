------------------------------ MODULE RemoteProofs ------------------------------
(***************************************************************************)
(* Services outside the process.  A reply of the model is of one attempt,  *)
(* a request over a socket is answered for the whole of its input,         *)
(* a connection to an MCP server is shared and reused, and who signed in    *)
(* stays signed in; for any number of attempts, calls, sockets,            *)
(* operations, clients and refreshes.                                      *)
(***************************************************************************)
EXTENDS Retry, ModelSocket, McpConnections, Credentials, FiniteSetTheorems,
        SequenceTheorems, TLAPS

-----------------------------------------------------------------------------
\* Attempts

Events == [type : Part \cup {"retry", "done", "error"}, attempt : Nat]

RetryTypes ==
  /\ RetryTypeOK /\ events \in Seq(Events) /\ reply \subseteq Events
  /\ \A p \in reply : p.type \in Part
  /\ stage = "waiting" => attempt < MaxAttempts

\* A retry is still to be read after the i-th event (0: after what the reply shows).
Retracted(i) == \E k \in 1..Len(events) : k > i /\ events[k].type = "retry"

\* A part that nothing retracts is of the attempt in progress, which knows of it.
Current(p) == /\ p.attempt = attempt /\ stage \notin {"starting", "waiting"}
              /\ outputState # "none" /\ (p.type = "tool" => outputState = "tool")

KeptIsCurrent ==
  /\ \A i \in 1..Len(events) : events[i].type \in Part /\ ~Retracted(i) => Current(events[i])
  /\ \A p \in reply : ~Retracted(0) => Current(p)

\* Tool calls that were whole are not retracted.
ToolsStay ==
  /\ \A i \in 1..Len(events) : events[i].type = "tool" => ~Retracted(i)
  /\ \A p \in reply : p.type = "tool" => ~Retracted(0)

\* Between parts of two attempts there is a retry.
RetriesBetween ==
  /\ \A i, j \in 1..Len(events) :
       /\ i < j /\ events[i].type \in Part /\ events[j].type \in Part
       /\ events[i].attempt # events[j].attempt
       => \E k \in 1..Len(events) : i < k /\ k < j /\ events[k].type = "retry"
  /\ \A p \in reply, j \in 1..Len(events) :
       events[j].type \in Part /\ p.attempt # events[j].attempt
       => \E k \in 1..Len(events) : k < j /\ events[k].type = "retry"
  /\ \A p, q \in reply : p.attempt = q.attempt

\* A whole reply is the end of the stream.
DoneIsLast ==
  /\ \A i \in 1..Len(events) : events[i].type = "done" => i = Len(events) /\ stage = "over"
  /\ reader = "replied" => events = <<>> /\ stage = "over"

RetryInv == RetryTypes /\ KeptIsCurrent /\ ToolsStay /\ RetriesBetween /\ DoneIsLast

LEMMA EventIs ==
  ASSUME attempt \in Nat, NEW type \in Part \cup {"retry", "done", "error"}
  PROVE  \E e \in Events : e = Event(type) /\ e.type = type /\ e.attempt = attempt
<1>1. Event(type) \in Events
  BY DEF Event, Events
<1>2. Event(type).type = type /\ Event(type).attempt = attempt
  BY DEF Event
<1>. QED
  BY <1>1, <1>2

\* What a longer stream is.
LEMMA Pushed ==
  ASSUME RetryTypes, NEW e \in Events, events' = Append(events, e)
  PROVE  /\ events' \in Seq(Events) /\ Len(events) \in Nat /\ Len(events') = Len(events) + 1
         /\ \A i \in 1..Len(events) : events'[i] = events[i]
         /\ events'[Len(events) + 1] = e
BY DEF RetryTypes

\* A new part, of the attempt in progress.
LEMMA ForwardStep ==
  ASSUME RetryInv, NEW type \in Part, Forward(type)
  PROVE  RetryInv'
<1>1. RetryTypes /\ events' = Append(events, Event(type)) /\ attempt \in Nat
      /\ outputState' = Grows(type) /\ stage = "streaming"
      /\ UNCHANGED <<attempt, stage, outcome, stopping, reply, reader>>
  BY RetryConstants DEF RetryInv, RetryTypes, RetryTypeOK, Forward, Push
<1>2. PICK e \in Events : e = Event(type) /\ e.type = type /\ e.attempt = attempt
  BY <1>1, EventIs
<1>3. PICK n \in Nat : n = Len(events)
  BY <1>1 DEF RetryTypes
<1>4. /\ events' \in Seq(Events) /\ n \in Nat /\ Len(events') = n + 1
      /\ \A i \in 1..n : events'[i] = events[i]
      /\ events'[n + 1] = e
  BY <1>1, <1>2, <1>3, Pushed
<1>5. RetryTypes'
  <2>1. \A i \in 1..Len(events') : events'[i].type \in Part \cup {"retry", "done", "error"}
    BY <1>1, <1>2, <1>4, <1>3 DEF RetryTypes, RetryTypeOK
  <2>. QED
    BY <1>1, <1>4, <2>1 DEF RetryTypes, RetryTypeOK, Grows, Part
<1>6. \A i \in 0..n : Retracted(i)' <=> Retracted(i)
  BY <1>2, <1>4, <1>3 DEF Retracted, Part
<1>7. \A p : Current(p) => Current(p)'
  BY <1>1 DEF Current, Grows, Part
<1>8. Current(e)'
  BY <1>1, <1>2 DEF Current, Grows, Part
<1>9. KeptIsCurrent'
  BY <1>1, <1>4, <1>3, <1>6, <1>7, <1>8 DEF RetryInv, KeptIsCurrent
<1>10. ToolsStay'
  <2>1. ~Retracted(n + 1)'
    BY <1>4 DEF Retracted
  <2>. QED
    BY <1>1, <1>4, <1>3, <1>6, <2>1 DEF RetryInv, ToolsStay
<1>11. RetriesBetween'
  <2>1. ASSUME NEW i \in 1..n, events[i].type \in Part, events[i].attempt # e.attempt
        PROVE  \E k \in 1..n : i < k /\ events[k].type = "retry"
    <3>1. Retracted(i)
      BY <1>2, <1>3, <2>1 DEF RetryInv, KeptIsCurrent, Current
    <3>. QED
      BY <1>3, <3>1 DEF Retracted
  <2>2. ASSUME NEW p \in reply, p.attempt # e.attempt
        PROVE  \E k \in 1..n : events[k].type = "retry"
    <3>1. Retracted(0)
      BY <1>2, <2>2 DEF RetryInv, KeptIsCurrent, Current
    <3>. QED
      BY <1>3, <3>1 DEF Retracted
  <2>3. ASSUME NEW i \in 1..Len(events'), NEW j \in 1..Len(events'), i < j,
               events'[i].type \in Part, events'[j].type \in Part,
               events'[i].attempt # events'[j].attempt
        PROVE  \E k \in 1..Len(events') : i < k /\ k < j /\ events'[k].type = "retry"
    <3>1. i \in 1..n /\ events'[i] = events[i]
      BY <1>4, <2>3
    <3>2. CASE j = n + 1
      <4>1. PICK k \in 1..n : i < k /\ events[k].type = "retry"
        BY <1>4, <2>1, <2>3, <3>1, <3>2
      <4>. QED
        BY <1>4, <3>2, <4>1
    <3>3. CASE j \in 1..n
      <4>1. PICK k \in 1..n : i < k /\ k < j /\ events[k].type = "retry"
        BY <1>3, <1>4, <2>3, <3>1, <3>3 DEF RetryInv, RetriesBetween
      <4>. QED
        BY <1>4, <4>1
    <3>. QED
      BY <1>4, <2>3, <3>2, <3>3
  <2>4. ASSUME NEW p \in reply', NEW j \in 1..Len(events'), events'[j].type \in Part,
               p.attempt # events'[j].attempt
        PROVE  \E k \in 1..Len(events') : k < j /\ events'[k].type = "retry"
    <3>1. p \in reply
      BY <1>1
    <3>2. CASE j = n + 1
      <4>1. PICK k \in 1..n : events[k].type = "retry"
        BY <1>4, <2>2, <2>4, <3>1, <3>2
      <4>. QED
        BY <1>4, <3>2, <4>1
    <3>3. CASE j \in 1..n
      <4>1. PICK k \in 1..n : k < j /\ events[k].type = "retry"
        BY <1>3, <1>4, <2>4, <3>1, <3>3 DEF RetryInv, RetriesBetween
      <4>. QED
        BY <1>4, <4>1
    <3>. QED
      BY <1>4, <2>4, <3>2, <3>3
  <2>5. \A p, q \in reply' : p.attempt = q.attempt
    BY <1>1 DEF RetryInv, RetriesBetween
  <2>. QED
    BY <2>3, <2>4, <2>5 DEF RetriesBetween
<1>12. DoneIsLast'
  BY <1>1, <1>2, <1>4, <1>3 DEF RetryInv, DoneIsLast, Part
<1>. QED
  BY <1>5, <1>9, <1>10, <1>11, <1>12 DEF RetryInv

\* The stream ends with an event that is no part.
LEMMA EndPushed ==
  ASSUME RetryInv, NEW e \in Events, e.type \in {"done", "error"}, stage # "over",
         events' = Append(events, e), stage' = "over",
         outputState' = outputState \/ stage = "starting",
         outputState' \in Part \cup {"none"},
         UNCHANGED <<attempt, outcome, stopping, reply, reader>>
  PROVE  RetryInv'
<1>1. RetryTypes
  BY DEF RetryInv
<1>3. PICK n \in Nat : n = Len(events)
  BY <1>1 DEF RetryTypes
<1>4. /\ events' \in Seq(Events) /\ n \in Nat /\ Len(events') = n + 1
      /\ \A i \in 1..n : events'[i] = events[i]
      /\ events'[n + 1] = e
  BY <1>1, <1>3, Pushed
<1>5. RetryTypes'
  <2>1. \A i \in 1..Len(events') : events'[i].type \in Part \cup {"retry", "done", "error"}
    BY <1>1, <1>4, <1>3 DEF RetryTypes, RetryTypeOK
  <2>. QED
    BY <1>1, <1>4, <2>1 DEF RetryTypes, RetryTypeOK
<1>6. \A i \in 0..n : Retracted(i)' <=> Retracted(i)
  BY <1>4, <1>3 DEF Retracted
<1>7. \A p : Current(p) => Current(p)'
  BY DEF Current
<1>9. KeptIsCurrent'
  BY <1>4, <1>3, <1>6, <1>7 DEF RetryInv, KeptIsCurrent, Part
<1>10. ToolsStay'
  BY <1>4, <1>3, <1>6 DEF RetryInv, ToolsStay
<1>11. RetriesBetween'
  BY <1>4, <1>3 DEF RetryInv, RetriesBetween, Part
<1>12. DoneIsLast'
  BY <1>4, <1>3 DEF RetryInv, DoneIsLast
<1>. QED
  BY <1>5, <1>9, <1>10, <1>11, <1>12 DEF RetryInv

\* Between attempts, everything that was shown is retracted.
LEMMA NoneKept ==
  ASSUME RetryInv, stage \in {"starting", "waiting"} \/ outputState = "none"
  PROVE  /\ \A i \in 1..Len(events) : events[i].type \in Part => Retracted(i)
         /\ \A p \in reply : Retracted(0)
BY DEF RetryInv, KeptIsCurrent, Current

\* Steps between attempts that leave the stream alone.
LEMMA QuietStep ==
  ASSUME RetryInv, UNCHANGED <<events, reply, reader>>, RetryTypes', stage # "over",
         stage \in {"starting", "waiting"} \/ outputState = "none"
  PROVE  RetryInv'
<1>1. \A i : Retracted(i)' <=> Retracted(i)
  BY DEF Retracted
<1>2. KeptIsCurrent'
  BY <1>1, NoneKept DEF KeptIsCurrent
<1>3. ToolsStay' /\ RetriesBetween' /\ DoneIsLast'
  BY <1>1 DEF RetryInv, ToolsStay, RetriesBetween, DoneIsLast
<1>. QED
  BY <1>2, <1>3 DEF RetryInv

\* An attempt begins, or the request is over before it does.
LEMMA StartStep ==
  ASSUME RetryInv, StartAttempt
  PROVE  RetryInv'
<1>1. stage = "starting" /\ outputState' = "none" /\ attempt \in Nat
      /\ UNCHANGED <<attempt, outcome, stopping, reply, reader>>
  BY RetryConstants DEF StartAttempt, RetryInv, RetryTypes, RetryTypeOK
<1>2. CASE stopping
  <2>1. events' = Append(events, Event("error")) /\ stage' = "over"
    BY <1>2 DEF StartAttempt, Push
  <2>2. PICK e \in Events : e = Event("error") /\ e.type = "error"
    BY <1>1, EventIs
  <2>. QED
    BY <1>1, <2>1, <2>2, EndPushed
<1>3. CASE ~stopping
  <2>1. stage' = "streaming" /\ events' = events
    BY <1>3 DEF StartAttempt
  <2>2. RetryTypes'
    BY <1>1, <2>1 DEF RetryInv, RetryTypes, RetryTypeOK
  <2>. QED
    BY <1>1, <2>1, <2>2, QuietStep
<1>. QED
  BY <1>2, <1>3

\* The provider's stream ends: what was shown is still current.
LEMMA EndStreamStep ==
  ASSUME RetryInv, NEW how \in {"done", "retryable", "fatal"}, EndStream(how)
  PROVE  RetryInv'
<1>1. RetryTypes'
  BY DEF EndStream, RetryInv, RetryTypes, RetryTypeOK
<1>2. \A i : Retracted(i)' <=> Retracted(i)
  BY DEF EndStream, Retracted
<1>3. \A p : Current(p) => Current(p)'
  BY DEF EndStream, Current
<1>4. KeptIsCurrent' /\ ToolsStay' /\ RetriesBetween'
  BY <1>2, <1>3 DEF EndStream, RetryInv, KeptIsCurrent, ToolsStay, RetriesBetween
<1>5. DoneIsLast'
  BY DEF EndStream, RetryInv, DoneIsLast
<1>. QED
  BY <1>1, <1>4, <1>5 DEF RetryInv

\* A draft is retracted before the next attempt.
LEMMA RetractStep ==
  ASSUME RetryInv, stage = "closing", Retries, events' = Discarded, stage' = "waiting",
         UNCHANGED <<attempt, outcome, outputState, stopping, reply, reader>>
  PROVE  RetryInv'
<1>1. RetryTypes /\ attempt \in Nat /\ outputState \in {"none", "draft"} /\ attempt' < MaxAttempts
  BY RetryConstants DEF RetryInv, RetryTypes, RetryTypeOK, Retries, Part
<1>2. CASE outputState = "none"
  <2>1. events' = events
    BY <1>2 DEF Discarded
  <2>2. RetryTypes'
    BY <1>1, <2>1 DEF RetryTypes, RetryTypeOK
  <2>. QED
    BY <1>2, <2>1, <2>2, QuietStep
<1>3. CASE outputState = "draft"
  <2>1. PICK e \in Events : e = Event("retry") /\ e.type = "retry"
    BY <1>1, EventIs
  <2>2. PICK n \in Nat : n = Len(events)
    BY <1>1 DEF RetryTypes
  <2>3. /\ events' \in Seq(Events) /\ Len(events') = n + 1
        /\ \A i \in 1..n : events'[i] = events[i]
        /\ events'[n + 1] = e
    BY <1>1, <1>3, <2>1, <2>2, Pushed DEF Discarded
  <2>4. RetryTypes'
    <3>1. \A i \in 1..Len(events') : events'[i].type \in Part \cup {"retry", "done", "error"}
      BY <1>1, <2>1, <2>2, <2>3 DEF RetryTypes, RetryTypeOK
    <3>. QED
      BY <1>1, <2>3, <3>1 DEF RetryTypes, RetryTypeOK
  <2>5. \A i \in 0..n : Retracted(i)'
    BY <2>1, <2>3 DEF Retracted
  <2>6. KeptIsCurrent'
    BY <2>1, <2>3, <2>5 DEF KeptIsCurrent, Part
  <2>7. /\ \A i \in 1..n : events[i].type # "tool"
        /\ \A p \in reply : p.type # "tool"
    BY <1>3, <2>2 DEF RetryInv, RetryTypes, ToolsStay, KeptIsCurrent, Current, Part
  <2>8. ToolsStay'
    BY <2>1, <2>3, <2>7 DEF ToolsStay
  <2>9. RetriesBetween'
    BY <2>1, <2>2, <2>3 DEF RetryInv, RetriesBetween, Part
  <2>10. DoneIsLast'
    BY <2>1, <2>2, <2>3 DEF RetryInv, DoneIsLast
  <2>. QED
    BY <2>4, <2>6, <2>8, <2>9, <2>10 DEF RetryInv
<1>. QED
  BY <1>1, <1>2, <1>3

\* The attempt is over: the next one, or the end of the stream.
LEMMA DecideStep ==
  ASSUME RetryInv, Decide \/ CleanupFails
  PROVE  RetryInv'
<1>1. stage = "closing" /\ attempt \in Nat /\ outputState \in Part \cup {"none"}
      /\ UNCHANGED <<attempt, outcome, outputState, stopping, reply, reader>>
  BY RetryConstants DEF Decide, CleanupFails, RetryInv, RetryTypes, RetryTypeOK
<1>2. CASE Retries /\ events' = Discarded /\ stage' = "waiting"
  BY <1>1, <1>2, RetractStep
<1>3. CASE \E type \in {"done", "error"} : Push(type) /\ stage' = "over"
  <2>1. PICK type \in {"done", "error"} : Push(type) /\ stage' = "over"
    BY <1>3
  <2>2. PICK e \in Events : e = Event(type) /\ e.type = type
    BY <1>1, EventIs
  <2>3. events' = Append(events, e)
    BY <2>1, <2>2 DEF Push
  <2>. QED
    BY <1>1, <2>1, <2>2, <2>3, EndPushed
<1>. QED
  BY <1>2, <1>3 DEF Decide, CleanupFails

\* The next attempt is counted.
LEMMA NextAttemptStep ==
  ASSUME RetryInv, NextAttempt
  PROVE  RetryInv'
<1>1. RetryTypes'
  BY RetryConstants DEF NextAttempt, RetryInv, RetryTypes, RetryTypeOK
<1>. QED
  BY <1>1, QuietStep DEF NextAttempt

\* The caller gives up.
LEMMA StopStep ==
  ASSUME RetryInv, StopRequest
  PROVE  RetryInv'
<1>1. RetryTypes'
  BY DEF StopRequest, RetryInv, RetryTypes, RetryTypeOK
<1>. QED
  BY <1>1 DEF StopRequest, RetryInv, KeptIsCurrent, ToolsStay, RetriesBetween, DoneIsLast,
              Retracted, Current

\* The reader takes the oldest event: what retracts a part is one place nearer.
LEMMA ReceiveStep ==
  ASSUME RetryInv, Receive
  PROVE  RetryInv'
<1>1. /\ RetryTypes /\ events # <<>> /\ reader = "reading" /\ events' = Tail(events)
      /\ UNCHANGED <<attempt, stage, outcome, outputState, stopping>>
  BY DEF RetryInv, Receive
<1>2. PICK h \in Events, n \in Nat :
        /\ h = Head(events) /\ h = events[1] /\ Len(events) = n + 1
        /\ h.type \in Part \cup {"retry", "done", "error"}
  <2>1. events \in Seq(Events) /\ events # <<>>
    BY <1>1 DEF RetryTypes
  <2>2. Head(events) \in Events /\ Head(events) = events[1] /\ Len(events) - 1 \in Nat
    BY <2>1
  <2>. QED
    BY <2>1, <2>2 DEF Events
<1>3. /\ events' \in Seq(Events) /\ Len(events') = n
      /\ \A i \in 1..n : events'[i] = events[i + 1]
  BY <1>1, <1>2 DEF RetryTypes
<1>4. \A i \in 0..n : Retracted(i)' <=> Retracted(i + 1)
  <2>1. ASSUME NEW i \in 0..n, Retracted(i)' PROVE Retracted(i + 1)
    <3>1. PICK k \in 1..n : k > i /\ events'[k].type = "retry"
      BY <1>3, <2>1 DEF Retracted
    <3>2. k + 1 \in 1..Len(events) /\ k + 1 > i + 1 /\ events[k + 1].type = "retry"
      BY <1>2, <1>3, <3>1
    <3>. QED
      BY <3>2 DEF Retracted
  <2>2. ASSUME NEW i \in 0..n, Retracted(i + 1) PROVE Retracted(i)'
    <3>1. PICK k \in 1..(n + 1) : k > i + 1 /\ events[k].type = "retry"
      BY <1>2, <2>2 DEF Retracted
    <3>2. k - 1 \in 1..n /\ k - 1 > i /\ events'[k - 1].type = "retry"
      BY <1>3, <3>1
    <3>. QED
      BY <1>3, <3>2 DEF Retracted
  <2>. QED
    BY <2>1, <2>2
<1>5. h.type # "retry" => (Retracted(0) <=> Retracted(1))
  BY <1>2 DEF Retracted
<1>6. \A p : Current(p)' <=> Current(p)
  BY <1>1 DEF Current
<1>7. \A i \in 1..n : i + 1 \in 1..Len(events) /\ i \in 0..n
  BY <1>2
<1>8. /\ (\A i \in 1..Len(events) : events[i].type \in Part /\ ~Retracted(i)
                                        => Current(events[i]))'
      /\ (\A i \in 1..Len(events) : events[i].type = "tool" => ~Retracted(i))'
      /\ \A i \in 1..n : events'[i].type \in Part \cup {"retry", "done", "error"}
  <2>1. ASSUME NEW i \in 1..n
        PROVE  /\ events'[i].type \in Part \cup {"retry", "done", "error"}
               /\ events'[i].type = "tool" => ~Retracted(i)'
               /\ events'[i].type \in Part /\ ~Retracted(i)' => Current(events[i + 1])
    <3>1. i + 1 \in 1..Len(events) /\ events'[i] = events[i + 1]
          /\ (Retracted(i)' <=> Retracted(i + 1))
      BY <1>3, <1>4, <1>7
    <3>2. events[i + 1].type \in Part \cup {"retry", "done", "error"}
      BY <1>1, <3>1 DEF RetryTypes, RetryTypeOK
    <3>3. events[i + 1].type = "tool" => ~Retracted(i + 1)
      BY <3>1 DEF RetryInv, ToolsStay
    <3>4. events[i + 1].type \in Part /\ ~Retracted(i + 1) => Current(events[i + 1])
      BY <3>1 DEF RetryInv, KeptIsCurrent
    <3>. QED
      BY <1>6, <3>1, <3>2, <3>3, <3>4
  <2>. QED
    BY <1>1, <1>3, <2>1 DEF Current
<1>9. ASSUME NEW i \in 1..n, NEW j \in 1..n, i < j,
             events'[i].type \in Part, events'[j].type \in Part,
             events'[i].attempt # events'[j].attempt
      PROVE  \E k \in 1..n : i < k /\ k < j /\ events'[k].type = "retry"
  <2>1. PICK k \in 1..(n + 1) : i + 1 < k /\ k < j + 1 /\ events[k].type = "retry"
    BY <1>2, <1>3, <1>7, <1>9, SMTT(30) DEF RetryInv, RetriesBetween
  <2>2. k - 1 \in 1..n /\ i < k - 1 /\ k - 1 < j /\ (k - 1) + 1 = k
    BY <2>1
  <2>. QED
    BY <1>3, <2>1, <2>2
<1>10. \A i \in 1..n : events'[i].type = "done" => i = n /\ stage' = "over"
  BY <1>1, <1>2, <1>3, <1>7 DEF RetryInv, DoneIsLast
<1>11. CASE h.type \in Part
  <2>1. reply' = reply \cup {h} /\ reader' = reader
    BY <1>2, <1>11 DEF Receive, Oldest, Part
  <2>2. RetryTypes'
    BY <1>1, <1>3, <1>8, <1>11, <2>1 DEF RetryTypes, RetryTypeOK
  <2>3. KeptIsCurrent'
    <3>1. \A p \in reply' : ~Retracted(0)' => Current(p)'
      BY <1>2, <1>4, <1>5, <1>6, <1>11, <2>1 DEF RetryInv, KeptIsCurrent, Part
    <3>. QED
      BY <1>3, <1>8, <3>1 DEF KeptIsCurrent
  <2>4. ToolsStay'
    <3>1. \A p \in reply' : p.type = "tool" => ~Retracted(0)'
      BY <1>2, <1>4, <1>5, <1>11, <2>1 DEF RetryInv, ToolsStay, Part
    <3>. QED
      BY <1>3, <1>8, <3>1 DEF ToolsStay
  <2>5. ASSUME NEW p \in reply', NEW j \in 1..n,
               events'[j].type \in Part, p.attempt # events'[j].attempt
        PROVE  \E k \in 1..n : k < j /\ events'[k].type = "retry"
    <3>1. events[j + 1].type \in Part /\ p.attempt # events[j + 1].attempt
      BY <1>3, <2>5
    <3>2. PICK k \in 1..(n + 1) : k < j + 1 /\ events[k].type = "retry"
      <4>1. CASE p \in reply
        BY <1>2, <1>7, <3>1, <4>1 DEF RetryInv, RetriesBetween
      <4>2. CASE p = h
        BY <1>2, <1>7, <1>11, <3>1, <4>2 DEF RetryInv, RetriesBetween
      <4>. QED
        BY <2>1, <4>1, <4>2
    <3>3. k # 1
      BY <1>2, <1>11, <3>2 DEF Part
    <3>4. k - 1 \in 1..n /\ k - 1 < j /\ (k - 1) + 1 = k
      BY <3>2, <3>3
    <3>. QED
      BY <1>3, <3>2, <3>4
  <2>6. \A p \in reply : p.attempt = h.attempt
    BY <1>2, <1>11 DEF RetryInv, RetriesBetween
  <2>7. RetriesBetween'
    <3>1. \A p, q \in reply : p.attempt = q.attempt
      BY <1>2 DEF RetryInv, RetriesBetween
    <3>2. \A p, q \in reply' : p.attempt = q.attempt
      BY <2>1, <2>6, <3>1
    <3>3. \A p \in reply', j \in 1..Len(events') :
            events'[j].type \in Part /\ p.attempt # events'[j].attempt
            => \E k \in 1..Len(events') : k < j /\ events'[k].type = "retry"
      BY <1>3, <2>5
    <3>. QED
      BY <1>3, <1>9, <3>2, <3>3 DEF RetriesBetween
  <2>8. DoneIsLast'
    BY <1>1, <1>3, <1>10, <2>1 DEF DoneIsLast
  <2>. QED
    BY <2>2, <2>3, <2>4, <2>7, <2>8 DEF RetryInv
<1>12. CASE h.type = "retry"
  <2>1. reply' = {} /\ reader' = reader
    BY <1>2, <1>12 DEF Receive, Oldest, Part
  <2>2. RetryTypes'
    BY <1>1, <1>3, <1>8, <2>1 DEF RetryTypes, RetryTypeOK
  <2>3. KeptIsCurrent' /\ ToolsStay'
    BY <1>3, <1>8, <2>1 DEF KeptIsCurrent, ToolsStay
  <2>4. RetriesBetween'
    BY <1>3, <1>9, <2>1 DEF RetriesBetween
  <2>5. DoneIsLast'
    BY <1>1, <1>3, <1>10, <2>1 DEF DoneIsLast
  <2>. QED
    BY <2>2, <2>3, <2>4, <2>5 DEF RetryInv
<1>13. CASE h.type \in {"done", "error"}
  <2>1. reply' = reply /\ reader' \in {"replied", "failed"}
        /\ (reader' = "replied" => h.type = "done")
    BY <1>2, <1>13 DEF Receive, Oldest, Part
  <2>2. RetryTypes'
    BY <1>1, <1>3, <1>8, <2>1 DEF RetryTypes, RetryTypeOK
  <2>3. Retracted(0)' <=> Retracted(0)
    BY <1>4, <1>5, <1>13
  <2>4. KeptIsCurrent'
    BY <1>3, <1>6, <1>8, <2>1, <2>3 DEF RetryInv, KeptIsCurrent
  <2>5. ToolsStay'
    BY <1>3, <1>8, <2>1, <2>3 DEF RetryInv, ToolsStay
  <2>6. ASSUME NEW p \in reply, NEW j \in 1..n,
               events'[j].type \in Part, p.attempt # events'[j].attempt
        PROVE  \E k \in 1..n : k < j /\ events'[k].type = "retry"
    <3>1. PICK k \in 1..(n + 1) : k < j + 1 /\ events[k].type = "retry"
      BY <1>2, <1>3, <1>7, <2>6 DEF RetryInv, RetriesBetween
    <3>2. k # 1
      BY <1>2, <1>13, <3>1
    <3>3. k - 1 \in 1..n /\ k - 1 < j /\ (k - 1) + 1 = k
      BY <3>1, <3>2
    <3>. QED
      BY <1>3, <3>1, <3>3
  <2>7. RetriesBetween'
    BY <1>3, <1>9, <2>1, <2>6 DEF RetryInv, RetriesBetween
  <2>8. h.type = "done" => n = 0 /\ stage = "over"
    BY <1>2 DEF RetryInv, DoneIsLast
  <2>9. n = 0 => events' = <<>>
    BY <1>3
  <2>10. DoneIsLast'
    BY <1>1, <1>3, <1>10, <2>1, <2>8, <2>9 DEF DoneIsLast
  <2>. QED
    BY <2>2, <2>4, <2>5, <2>7, <2>10 DEF RetryInv
<1>. QED
  BY <1>2, <1>11, <1>12, <1>13

LEMMA RetryBegins == RetryInit => RetryInv
<1>. SUFFICES ASSUME RetryInit PROVE RetryInv
  OBVIOUS
<1>1. events = <<>> /\ events \in Seq(Events) /\ Len(events) = 0
  BY DEF RetryInit
<1>2. 1 \in 1..MaxAttempts
  BY RetryConstants
<1>3. RetryTypes
  <2>1. RetryTypeOK
    <3>1. \A i \in DOMAIN events : FALSE
      BY <1>1
    <3>. QED
      BY <1>2, <3>1, Zenon DEF RetryInit, RetryTypeOK
  <2>. QED
    BY <1>1, <2>1 DEF RetryInit, RetryTypes
<1>. QED
  BY <1>1, <1>3
  DEF RetryInit, RetryInv, KeptIsCurrent, ToolsStay, RetriesBetween, DoneIsLast

LEMMA RetryKept == RetryInv /\ [RetryNext]_retryVars => RetryInv'
<1>. SUFFICES ASSUME RetryInv, [RetryNext]_retryVars PROVE RetryInv'
  OBVIOUS
<1>1. CASE \E type \in Part : Forward(type)
  BY <1>1, ForwardStep
<1>2. CASE \E how \in {"done", "retryable", "fatal"} : EndStream(how)
  BY <1>2, EndStreamStep
<1>3. CASE UNCHANGED retryVars
  BY <1>3 DEF retryVars, RetryInv, RetryTypes, RetryTypeOK, KeptIsCurrent, ToolsStay,
              RetriesBetween, DoneIsLast, Retracted, Current
<1>. QED
  BY <1>1, <1>2, <1>3, StartStep, DecideStep, NextAttemptStep, StopStep, ReceiveStep
  DEF RetryNext

\* The invariant says it in the reader's terms.
LEMMA WholeReplies == RetryInv => RepliesAreWhole
<1>. SUFFICES ASSUME RetryInv PROVE RepliesAreWhole
  OBVIOUS
<1>1. Cardinality({p.attempt : p \in reply}) <= 1
  <2>1. CASE reply = {}
    <3>1. {q.attempt : q \in reply} = {}
      BY <2>1
    <3>2. Cardinality({q.attempt : q \in reply}) = 0
      BY <3>1, FS_EmptySet, Zenon
    <3>. QED
      BY <3>2
  <2>2. CASE reply # {}
    <3>1. PICK p \in reply : TRUE
      BY <2>2
    <3>2. {q.attempt : q \in reply} = {p.attempt}
      BY <3>1 DEF RetryInv, RetriesBetween
    <3>3. Cardinality({q.attempt : q \in reply}) = 1
      BY <3>2, FS_Singleton, Zenon
    <3>. QED
      BY <3>3
  <2>. QED
    BY <2>1, <2>2
<1>2. ASSUME reader = "replied", NEW p \in reply PROVE p.attempt = attempt
  <2>1. ~Retracted(0)
    BY <1>2 DEF RetryInv, DoneIsLast, Retracted
  <2>. QED
    BY <1>2, <2>1 DEF RetryInv, KeptIsCurrent, Current
<1>3. ASSUME NEW q \in reply, q.type = "tool", NEW p \in reply PROVE p.attempt = attempt
  <2>1. ~Retracted(0)
    BY <1>3 DEF RetryInv, ToolsStay
  <2>. QED
    BY <1>3, <2>1 DEF RetryInv, KeptIsCurrent, Current
<1>. QED
  BY <1>1, <1>2, <1>3 DEF RepliesAreWhole

\* withRetry and streamAssistantMessage: however many attempts a request takes, and however
\* far its reader is behind, the reply it shows is made of one attempt, the last one when it
\* is whole or holds a whole tool call.
THEOREM RepliesHoldOneAttempt == RetrySpec => []RepliesAreWhole
BY RetryBegins, RetryKept, WholeReplies, PTL DEF RetrySpec

\* The types of the attempt, the stream between it and its reader, and the reply.
THEOREM RetryTyped == RetrySpec => []RetryTypeOK
<1>1. RetryInv => RetryTypeOK
  BY DEF RetryInv, RetryTypes
<1>. QED
  BY <1>1, RetryBegins, RetryKept, PTL DEF RetrySpec

-----------------------------------------------------------------------------
\* The socket

Stages == {"none", "building", "http", "connecting", "waiting", "replaying", "finishing"}
EndsOf == {"completed", "incomplete", "failed", "rejected"}
Items == 1..MaxItems
Inputs == Seq(Items)
CallRecord == [stage : Stages, aborted : BOOLEAN, input : Inputs, chained : Nat, previous : Nat,
               exchange : Nat, socket : Nat, heard : BOOLEAN, shown : SUBSET Nat,
               reply : Nat, complete : BOOLEAN]
ChainRecord == [baseline : Inputs, response : Nat, socket : Nat]
Frame == [kind : EndsOf \cup {"created", "delta"}, exchange : Nat, item : Nat]

SocketTypes ==
  /\ transcript \in Inputs /\ items \in 0..MaxItems
  /\ current \in ModelCalls \cup {NoModelCall} /\ active \in ModelCalls \cup {NoModelCall}
  /\ sockets \in 0..MaxSockets /\ socket \in 0..sockets
  /\ exchanges \in 0..MaxExchanges /\ failures \in 0..2
  /\ call \in [ModelCalls -> CallRecord]
  /\ chain # NoChain => /\ chain \in ChainRecord /\ chain.response \in 1..items
                        /\ chain.socket \in 1..sockets /\ chain.baseline # << >>
  /\ cache \in [response : Nat, context : Inputs] /\ cache.response <= items
  /\ inbox \in [exchange : Nat, previous : Nat, input : Inputs] /\ inbox.previous <= items
  /\ wire \in Seq(Frame)

\* A request sends what its baseline does not have; what it shows is of its exchange.
\* There were i items, x exchanges and s sockets.
RequestFits(k, i, x, s) ==
  /\ k.chained <= Len(k.input) /\ (k.chained # 0 => k.previous # 0) /\ k.previous <= i
  /\ k.exchange <= x /\ k.shown \subseteq {k.exchange} \ {0}
  /\ k.stage \in {"building", "connecting", "replaying"} => k.shown = {}
  /\ k.stage = "building" => k.chained = 0 /\ k.previous = 0
  /\ k.stage \in {"connecting", "waiting"} => k.exchange # 0
  /\ k.stage \in {"waiting", "finishing"} => k.socket \in 1..s
  /\ k.stage = "finishing" => k.reply \in 1..i

\* What the service remembers of a response, m, is what led to it and the response.
Remembered(k, m) ==
  /\ k.previous # 0 /\ m.response = k.previous => m.context = SubSeq(k.input, 1, k.chained)
  /\ k.stage = "finishing" /\ k.complete /\ m.response = k.reply
     => m.context = Append(k.input, k.reply)

\* The conversation waits for the one call that was not aborted.
Waited(k, isCurrent, failed) ==
  /\ isCurrent <=> (k.stage # "none" /\ ~k.aborted)
  /\ isCurrent /\ k.stage \in {"building", "connecting", "waiting", "replaying"} => failed < 2

CallsFit ==
  \A c \in ModelCalls : /\ RequestFits(call[c], items, exchanges, sockets)
                        /\ Remembered(call[c], cache)
                        /\ Waited(call[c], c = current, failures)

ActiveFits ==
  active # NoModelCall => active = current /\ call[active].stage \in {"connecting", "waiting"}

\* What the service has not answered is what the active call, k, has sent.
SentFits(k) ==
  /\ k.stage = "waiting" /\ inbox.previous = k.previous /\ inbox.exchange = k.exchange
  /\ inbox.input = SubSeq(k.input, k.chained + 1, Len(k.input))

InboxFits ==
  inbox # NoRequest => active # NoModelCall /\ wire = << >> /\ SentFits(call[active])

FrameFits(frame, last, k, m, i) ==
  /\ frame.exchange = k.exchange /\ frame.item <= i
  /\ frame.kind \in EndsOf <=> last
  /\ frame.kind \in {"completed", "incomplete"} => frame.item # 0
  /\ frame.kind = "completed" => m.response = frame.item /\ m.context = Append(k.input, frame.item)

WireFits ==
  wire # << >> =>
    /\ active # NoModelCall /\ call[active].stage = "waiting"
    /\ \A i \in 1..Len(wire) : FrameFits(wire[i], i = Len(wire), call[active], cache, items)

ChainFits ==
  chain # NoChain /\ cache.response = chain.response => cache.context = chain.baseline

SocketInv == SocketTypes /\ CallsFit /\ ActiveFits /\ InboxFits /\ WireFits /\ ChainFits

LEMMA SocketBounds ==
  /\ MaxItems \in Nat /\ MaxSockets \in Nat /\ MaxExchanges \in Nat
  /\ NoModelCall \notin ModelCalls /\ Items \subseteq Nat /\ 0 \notin Items
BY SocketConstants DEF Items

LEMMA CallTypes ==
  ASSUME NEW k \in CallRecord
  PROVE  /\ k.stage \in Stages /\ k.input \in Inputs /\ k.chained \in Nat /\ k.previous \in Nat
         /\ k.exchange \in Nat /\ k.socket \in Nat /\ k.shown \in SUBSET Nat /\ k.reply \in Nat
         /\ Len(k.input) \in Nat /\ k.aborted \in BOOLEAN /\ k.complete \in BOOLEAN
<1>1. /\ k.stage \in Stages /\ k.input \in Inputs /\ k.chained \in Nat /\ k.previous \in Nat
      /\ k.exchange \in Nat /\ k.socket \in Nat /\ k.shown \in SUBSET Nat /\ k.reply \in Nat
  BY DEF CallRecord
<1>2. k.aborted \in BOOLEAN /\ k.complete \in BOOLEAN
  BY Zenon DEF CallRecord
<1>3. Len(k.input) \in Nat
  BY <1>1 DEF Inputs
<1> QED
  BY <1>1, <1>2, <1>3

LEMMA NotCallingIs ==
  /\ NotCalling \in CallRecord /\ NotCalling.stage = "none" /\ NotCalling.input = << >>
  /\ NotCalling.chained = 0 /\ NotCalling.previous = 0 /\ NotCalling.exchange = 0
  /\ NotCalling.socket = 0 /\ NotCalling.shown = {} /\ NotCalling.reply = 0
BY DEF NotCalling, CallRecord, Stages, Inputs

LEMMA NothingServed ==
  /\ NoResponse \in [response : Nat, context : Inputs] /\ NoResponse.response = 0
  /\ NoRequest \in [exchange : Nat, previous : Nat, input : Inputs] /\ NoRequest.previous = 0
  /\ << >> \in Seq(Frame)
BY DEF NoResponse, NoRequest, Inputs

\* A call that there is not fits whatever there was.
LEMMA NotCallingFits ==
  ASSUME NEW i \in Nat, NEW x \in Nat, NEW s \in Nat, NEW m, NEW failed
  PROVE  /\ RequestFits(NotCalling, i, x, s) /\ Remembered(NotCalling, m)
         /\ Waited(NotCalling, FALSE, failed)
<1>1. RequestFits(NotCalling, i, x, s)
  BY NotCallingIs DEF RequestFits
<1>2. Remembered(NotCalling, m)
  BY NotCallingIs DEF Remembered
<1>3. Waited(NotCalling, FALSE, failed)
  BY NotCallingIs DEF Waited
<1> QED
  BY <1>1, <1>2, <1>3

LEMMA RequestStaysFit ==
  ASSUME NEW k \in CallRecord, NEW i \in Nat, NEW x \in Nat, NEW s \in Nat,
         NEW i1 \in Nat, NEW x1 \in Nat, NEW s1 \in Nat, i <= i1, x <= x1, s <= s1,
         RequestFits(k, i, x, s)
  PROVE  RequestFits(k, i1, x1, s1)
BY CallTypes, SMTT(20) DEF RequestFits

\* What the service remembers stays, is forgotten, or is of a response that is new.
CacheGrows ==
  \/ cache' = cache
  \/ cache' = NoResponse
  \/ cache'.response > items

LEMMA RememberedStays ==
  ASSUME NEW k \in CallRecord, SocketTypes, CacheGrows, Remembered(k, cache),
         RequestFits(k, items, exchanges, sockets)
  PROVE  Remembered(k, cache')
<1>1. CASE cache' = cache
  BY <1>1
<1>2. CASE cache' = NoResponse
  <2>1. cache'.response = 0
    BY <1>2, NothingServed
  <2>2. k.stage = "finishing" => k.reply # 0
    BY CallTypes DEF RequestFits
  <2> QED
    BY <2>1, <2>2 DEF Remembered
<1>3. CASE cache'.response > items
  <2>1. cache'.response # k.previous
    BY <1>3, CallTypes DEF RequestFits, SocketTypes
  <2>2. k.stage = "finishing" => cache'.response # k.reply
    BY <1>3, CallTypes DEF RequestFits, SocketTypes
  <2> QED
    BY <2>1, <2>2 DEF Remembered
<1> QED
  BY <1>1, <1>2, <1>3 DEF CacheGrows

LEMMA SocketNumbers ==
  ASSUME SocketTypes
  PROVE  /\ items \in Nat /\ exchanges \in Nat /\ sockets \in Nat /\ socket \in Nat
         /\ failures \in Nat /\ cache.response \in Nat
         /\ \A c \in ModelCalls : call[c] \in CallRecord
BY SocketBounds DEF SocketTypes

\* Calls that do not move fit when there is more of everything.
LEMMA CallsStayFit ==
  ASSUME SocketTypes, CallsFit, CacheGrows,
         items' \in Nat, exchanges' \in Nat, sockets' \in Nat,
         items <= items', exchanges <= exchanges', sockets <= sockets',
         NEW c \in ModelCalls, call'[c] = call[c]
  PROVE  RequestFits(call'[c], items', exchanges', sockets') /\ Remembered(call'[c], cache')
<1>1. /\ RequestFits(call[c], items, exchanges, sockets) /\ Remembered(call[c], cache)
      /\ call[c] \in CallRecord
  BY SocketNumbers DEF CallsFit
<1>2. RequestFits(call[c], items', exchanges', sockets')
  BY <1>1, SocketNumbers, RequestStaysFit
<1>3. Remembered(call[c], cache')
  BY <1>1, RememberedStays
<1> QED
  BY <1>2, <1>3

\* One call moves.
LEMMA CallsFitAgain ==
  ASSUME SocketTypes, CallsFit, CacheGrows,
         items' \in Nat, exchanges' \in Nat, sockets' \in Nat,
         items <= items', exchanges <= exchanges', sockets <= sockets',
         NEW c \in ModelCalls, \A d \in ModelCalls : d # c => call'[d] = call[d],
         RequestFits(call'[c], items', exchanges', sockets'), Remembered(call'[c], cache'),
         Waited(call'[c], c = current', failures'),
         \A d \in ModelCalls : d # c /\ Waited(call[d], d = current, failures)
                               => Waited(call[d], d = current', failures')
  PROVE  CallsFit'
<1> SUFFICES ASSUME NEW d \in ModelCalls
             PROVE  /\ RequestFits(call'[d], items', exchanges', sockets')
                    /\ Remembered(call'[d], cache') /\ Waited(call'[d], d = current', failures')
  BY DEF CallsFit
<1>1. CASE d = c
  BY <1>1
<1>2. CASE d # c
  <2>1. Waited(call[d], d = current, failures)
    BY DEF CallsFit
  <2> QED
    BY <1>2, <2>1, CallsStayFit
<1> QED
  BY <1>1, <1>2

\* When the session's socket is dropped nothing is under way.
LEMMA DropIs ==
  ASSUME SocketInv, Drop, chain' = chain \/ chain' = NoChain
  PROVE  /\ socket' = 0 /\ CacheGrows
         /\ cache' \in [response : Nat, context : Inputs] /\ cache'.response = 0
         /\ inbox' \in [exchange : Nat, previous : Nat, input : Inputs] /\ inbox'.previous = 0
         /\ wire' \in Seq(Frame) /\ InboxFits' /\ WireFits' /\ ChainFits'
<1>1. socket' = 0 /\ inbox' = NoRequest /\ cache' = NoResponse /\ wire' = << >>
  BY DEF Drop
<1>2. ChainFits'
  <2>1. chain # NoChain => chain.response # 0
    BY SocketBounds DEF SocketInv, SocketTypes
  <2> QED
    BY <1>1, <2>1, NothingServed DEF ChainFits
<1>3. InboxFits' /\ WireFits'
  BY <1>1 DEF InboxFits, WireFits
<1> QED
  BY <1>1, <1>2, <1>3, NothingServed DEF CacheGrows

LEMMA FrameTypes ==
  ASSUME SocketTypes, NEW i \in 1..Len(wire)
  PROVE  /\ wire[i] \in Frame /\ wire[i].item \in Nat /\ wire[i].exchange \in Nat
         /\ wire[i].kind \in EndsOf \cup {"created", "delta"}
<1>1. wire \in Seq(Frame)
  BY DEF SocketTypes
<1>2. wire[i] \in Frame
  BY <1>1
<1> QED
  BY <1>2 DEF Frame

\* The exchange, if there is one, and what the service knows of it go on.
LEMMA ServiceStays ==
  ASSUME SocketInv, UNCHANGED <<inbox, cache, wire>>, active' = active,
         active # NoModelCall => call'[active] = call[active],
         items' \in Nat, items <= items', chain' = chain \/ chain' = NoChain
  PROVE  CacheGrows /\ InboxFits' /\ WireFits' /\ ChainFits'
<1>1. InboxFits'
  BY DEF SocketInv, InboxFits, SentFits
<1>2. WireFits'
  <2> SUFFICES ASSUME wire # << >>
               PROVE  /\ active # NoModelCall /\ call'[active].stage = "waiting"
                      /\ \A i \in 1..Len(wire) :
                           FrameFits(wire[i], i = Len(wire), call'[active], cache, items')
    BY DEF WireFits
  <2>1. active # NoModelCall /\ call'[active].stage = "waiting" /\ call'[active] = call[active]
    BY DEF SocketInv, WireFits
  <2>2. ASSUME NEW i \in 1..Len(wire)
        PROVE  FrameFits(wire[i], i = Len(wire), call'[active], cache, items')
    <3>1. FrameFits(wire[i], i = Len(wire), call[active], cache, items)
      BY DEF SocketInv, WireFits
    <3>2. wire[i].item \in Nat /\ items \in Nat
      BY FrameTypes, SocketNumbers DEF SocketInv
    <3> QED
      BY <2>1, <3>1, <3>2 DEF FrameFits
  <2> QED
    BY <2>1, <2>2
<1>3. ChainFits'
  BY DEF SocketInv, ChainFits
<1> QED
  BY <1>1, <1>2, <1>3 DEF CacheGrows

\* A call that returns is none, and the conversation no longer waits for it.
LEMMA ReturnIs ==
  ASSUME SocketTypes, NEW c \in ModelCalls, Return(c)
  PROVE  /\ call' \in [ModelCalls -> CallRecord] /\ call'[c] = NotCalling
         /\ \A d \in ModelCalls : d # c => call'[d] = call[d] /\ (d = current' <=> d = current)
         /\ current' \in ModelCalls \cup {NoModelCall} /\ c # current'
BY NotCallingIs, SocketBounds DEF SocketTypes, Return

LEMMA AppendItem ==
  ASSUME NEW s \in Inputs, NEW i \in Items
  PROVE  Append(s, i) \in Inputs /\ Append(s, i) # << >> /\ <<i>> \in Inputs
<1>1. Append(s, i) \in Inputs
  BY DEF Inputs
<1>2. Append(s, i) # << >>
  <2>1. Len(Append(s, i)) = Len(s) + 1 /\ Len(s) \in Nat
    BY DEF Inputs
  <2>2. Len(Append(s, i)) # 0
    BY <2>1
  <2>3. Len(<< >>) = 0
    OBVIOUS
  <2> QED
    BY <2>2, <2>3, Zenon
<1>3. <<i>> \in Inputs
  BY DEF Inputs
<1> QED
  BY <1>1, <1>2, <1>3

LEMMA SayKeeps ==
  ASSUME SocketInv, Say
  PROVE  SocketInv'
<1>1. /\ items < MaxItems /\ items' = items + 1 /\ current = NoModelCall
      /\ transcript' \in {Append(transcript, items'), <<items'>>}
      /\ UNCHANGED <<current, call, active, socket, sockets, exchanges, chain, failures>>
      /\ UNCHANGED <<inbox, cache, wire>>
  BY DEF Say, service
<1>2. SocketTypes
  BY DEF SocketInv
<1>3. items' \in Items /\ items' \in 0..MaxItems /\ items \in Nat
  BY <1>1, <1>2, SocketNumbers, SocketBounds DEF Items
<1>4. transcript' \in Inputs
  BY <1>1, <1>2, <1>3, AppendItem DEF SocketTypes
<1>5. SocketTypes'
  BY <1>1, <1>2, <1>3, <1>4, SocketNumbers DEF SocketTypes
<1>6. CacheGrows /\ InboxFits' /\ WireFits' /\ ChainFits'
  BY <1>1, <1>3, ServiceStays
<1>7. ASSUME NEW c \in ModelCalls
      PROVE  /\ RequestFits(call'[c], items', exchanges', sockets')
             /\ Remembered(call'[c], cache') /\ Waited(call'[c], c = current', failures')
  <2>1. Waited(call[c], c = current, failures)
    BY DEF SocketInv, CallsFit
  <2>2. CallsFit
    BY DEF SocketInv
  <2>3. items' \in Nat /\ exchanges' \in Nat /\ sockets' \in Nat /\ items <= items'
        /\ exchanges <= exchanges' /\ sockets <= sockets'
    BY <1>1, <1>2, <1>3, SocketNumbers
  <2>4. RequestFits(call'[c], items', exchanges', sockets') /\ Remembered(call'[c], cache')
    BY <1>1, <1>2, <1>6, <2>2, <2>3, CallsStayFit
  <2> QED
    BY <1>1, <2>1, <2>4
<1>8. CallsFit'
  BY <1>7 DEF CallsFit
<1>9. ActiveFits'
  BY <1>1 DEF SocketInv, ActiveFits
<1> QED
  BY <1>5, <1>6, <1>8, <1>9 DEF SocketInv

LEMMA NumbersStay ==
  ASSUME SocketInv, UNCHANGED <<items, exchanges, sockets>>
  PROVE  /\ SocketTypes /\ CallsFit
         /\ items' \in Nat /\ exchanges' \in Nat /\ sockets' \in Nat
         /\ items <= items' /\ exchanges <= exchanges' /\ sockets <= sockets'
<1>1. SocketTypes /\ CallsFit
  BY DEF SocketInv
<1> QED
  BY <1>1, SocketNumbers

LEMMA StartCallKeeps ==
  ASSUME SocketInv, NEW c \in ModelCalls, StartCall(c)
  PROVE  SocketInv'
<1> DEFINE k == [NotCalling EXCEPT
                   !.stage = IF failures < 2 THEN "building" ELSE "http", !.input = transcript]
<1>1. /\ current = NoModelCall /\ call[c].stage = "none" /\ current' = c
      /\ call' = [call EXCEPT ![c] = k]
      /\ UNCHANGED <<transcript, items, active, socket, sockets, exchanges, chain, failures>>
      /\ UNCHANGED <<inbox, cache, wire>>
  BY DEF StartCall, service
<1>2. SocketTypes /\ transcript \in Inputs /\ call \in [ModelCalls -> CallRecord]
  BY DEF SocketInv, SocketTypes
<1>3. /\ k \in CallRecord /\ k.chained = 0 /\ k.previous = 0 /\ k.exchange = 0 /\ k.shown = {}
      /\ k.stage = (IF failures < 2 THEN "building" ELSE "http") /\ ~k.aborted
      /\ k.input = transcript
  BY <1>2 DEF NotCalling, CallRecord, Stages
<1> HIDE DEF k
<1>4. /\ call' \in [ModelCalls -> CallRecord] /\ call'[c] = k
      /\ \A d \in ModelCalls : d # c => call'[d] = call[d]
  BY <1>1, <1>2, <1>3
<1>5. SocketTypes'
  BY <1>1, <1>2, <1>4 DEF SocketTypes
<1>6. active = NoModelCall
  BY <1>1 DEF SocketInv, ActiveFits
<1>7. CacheGrows /\ InboxFits' /\ WireFits' /\ ChainFits'
  BY <1>1, <1>2, <1>6, SocketNumbers, ServiceStays
<1>8. /\ items' \in Nat /\ exchanges' \in Nat /\ sockets' \in Nat /\ CallsFit
      /\ items <= items' /\ exchanges <= exchanges' /\ sockets <= sockets'
  BY <1>1, NumbersStay
<1>9. RequestFits(k, items', exchanges', sockets')
  BY <1>2, <1>3, <1>8 DEF RequestFits, Inputs
<1>10. Remembered(k, cache')
  BY <1>3 DEF Remembered
<1>11. Waited(k, c = current', failures')
  BY <1>1, <1>3 DEF Waited
<1>12. \A d \in ModelCalls : d # c /\ Waited(call[d], d = current, failures)
                             => Waited(call[d], d = current', failures')
  BY <1>1, SocketBounds DEF Waited
<1>13. CallsFit'
  BY <1>2, <1>4, <1>7, <1>8, <1>9, <1>10, <1>11, <1>12, CallsFitAgain
<1>14. ActiveFits'
  BY <1>1, <1>6 DEF ActiveFits
<1> QED
  BY <1>5, <1>7, <1>13, <1>14 DEF SocketInv

LEMMA IdleClosesKeeps ==
  ASSUME SocketInv, IdleCloses
  PROVE  SocketInv'
<1>1. /\ active = NoModelCall /\ Drop
      /\ UNCHANGED <<transcript, items, current, call, active, sockets, exchanges, chain,
                     failures>>
  BY DEF IdleCloses, conversation
<1>2. /\ socket' = 0 /\ CacheGrows
      /\ cache' \in [response : Nat, context : Inputs] /\ cache'.response = 0
      /\ inbox' \in [exchange : Nat, previous : Nat, input : Inputs] /\ inbox'.previous = 0
      /\ wire' \in Seq(Frame) /\ InboxFits' /\ WireFits' /\ ChainFits'
  BY <1>1, DropIs
<1>3. SocketTypes'
  BY <1>1, <1>2, SocketBounds DEF SocketInv, SocketTypes
<1>4. ActiveFits'
  BY <1>1 DEF ActiveFits
<1>5. CallsFit'
  <2> SUFFICES ASSUME NEW c \in ModelCalls
               PROVE  /\ RequestFits(call'[c], items', exchanges', sockets')
                      /\ Remembered(call'[c], cache') /\ Waited(call'[c], c = current', failures')
    BY DEF CallsFit
  <2>1. /\ items' \in Nat /\ exchanges' \in Nat /\ sockets' \in Nat /\ CallsFit /\ SocketTypes
        /\ items <= items' /\ exchanges <= exchanges' /\ sockets <= sockets'
    BY <1>1, NumbersStay
  <2>2. RequestFits(call'[c], items', exchanges', sockets') /\ Remembered(call'[c], cache')
    BY <1>1, <1>2, <2>1, CallsStayFit
  <2>3. Waited(call'[c], c = current', failures')
    BY <1>1, <2>1 DEF CallsFit
  <2> QED
    BY <2>2, <2>3
<1> QED
  BY <1>2, <1>3, <1>4, <1>5 DEF SocketInv

\* The active call, and no other one, is the one the conversation waits for.
LEMMA ActiveIs ==
  ASSUME SocketInv, active # NoModelCall
  PROVE  /\ active = current /\ active \in ModelCalls /\ call[active] \in CallRecord
         /\ call[active].stage \in {"connecting", "waiting"} /\ ~call[active].aborted
         /\ failures < 2
         /\ RequestFits(call[active], items, exchanges, sockets)
         /\ Remembered(call[active], cache) /\ Waited(call[active], TRUE, failures)
<1>1. active = current /\ active \in ModelCalls
      /\ call[active].stage \in {"connecting", "waiting"} /\ call[active] \in CallRecord
  BY DEF SocketInv, SocketTypes, ActiveFits
<1>2. /\ RequestFits(call[active], items, exchanges, sockets)
      /\ Remembered(call[active], cache) /\ Waited(call[active], active = current, failures)
  BY <1>1 DEF SocketInv, CallsFit
<1>3. Waited(call[active], TRUE, failures)
  BY <1>1, <1>2
<1> QED
  BY <1>1, <1>2, <1>3 DEF Waited

\* An exchange that ends with an error.
LEMMA ErrorKeeps ==
  ASSUME SocketInv, NEW c \in ModelCalls, active = c, NEW mayReplay \in BOOLEAN,
         Error(c, mayReplay), UNCHANGED <<transcript, items, sockets, exchanges, chain>>,
         failures' \in 0..2, mayReplay => failures' = failures
  PROVE  SocketInv'
<1>1. active' = NoModelCall /\ Drop
      /\ (IF mayReplay /\ Replayable(c)
          THEN Stage(c, "replaying") /\ UNCHANGED current ELSE Return(c))
  BY DEF Error
<1>2. /\ socket' = 0 /\ CacheGrows
      /\ cache' \in [response : Nat, context : Inputs] /\ cache'.response = 0
      /\ inbox' \in [exchange : Nat, previous : Nat, input : Inputs] /\ inbox'.previous = 0
      /\ wire' \in Seq(Frame) /\ InboxFits' /\ WireFits' /\ ChainFits'
  BY <1>1, DropIs
<1>3. ActiveFits'
  BY <1>1 DEF ActiveFits
<1>4. /\ items' \in Nat /\ exchanges' \in Nat /\ sockets' \in Nat /\ CallsFit /\ SocketTypes
      /\ items <= items' /\ exchanges <= exchanges' /\ sockets <= sockets'
  BY NumbersStay
<1>5. active = current /\ call[c] \in CallRecord /\ ~call[c].aborted /\ failures < 2
      /\ RequestFits(call[c], items, exchanges, sockets) /\ c # NoModelCall
  BY ActiveIs, SocketBounds
<1>6. ASSUME NEW d \in ModelCalls, d # c, Waited(call[d], d = current, failures)
      PROVE  Waited(call[d], FALSE, failures')
  BY <1>5, <1>6 DEF Waited
<1>7. CASE mayReplay /\ Replayable(c)
  <2> DEFINE k == [call[c] EXCEPT !.stage = "replaying"]
  <2>1. call' = [call EXCEPT ![c] = k] /\ current' = current /\ failures' = failures
    BY <1>1, <1>7 DEF Stage
  <2>2. /\ k \in CallRecord /\ k.stage = "replaying" /\ k.chained = call[c].chained
        /\ k.previous = call[c].previous /\ k.exchange = call[c].exchange
        /\ k.input = call[c].input /\ k.shown = call[c].shown
    BY <1>5 DEF CallRecord, Stages
  <2>3. ~k.aborted
    BY <1>5 DEF CallRecord
  <2> HIDE DEF k
  <2>4. /\ call' \in [ModelCalls -> CallRecord] /\ call'[c] = k
        /\ \A d \in ModelCalls : d # c => call'[d] = call[d]
    BY <1>4, <2>1, <2>2 DEF SocketTypes
  <2>5. SocketTypes'
    BY <1>1, <1>2, <1>4, <2>1, <2>4, SocketBounds DEF SocketTypes
  <2>6. RequestFits(k, items, exchanges, sockets)
    BY <1>5, <1>7, <2>2 DEF RequestFits, Replayable
  <2>7. Remembered(k, cache')
    BY <1>2, <2>2 DEF Remembered
  <2>8. Waited(k, c = current', failures')
    BY <1>5, <2>1, <2>2, <2>3 DEF Waited
  <2>9. CallsFit'
    BY <1>2, <1>4, <2>1, <2>4, <2>6, <2>7, <2>8, CallsFitAgain
  <2> QED
    BY <1>2, <1>3, <2>5, <2>9 DEF SocketInv
<1>8. CASE ~(mayReplay /\ Replayable(c))
  <2>1. /\ call' \in [ModelCalls -> CallRecord] /\ call'[c] = NotCalling
        /\ \A d \in ModelCalls : d # c => call'[d] = call[d] /\ (d = current' <=> d = current)
        /\ current' \in ModelCalls \cup {NoModelCall} /\ c # current'
    BY <1>1, <1>4, <1>8, ReturnIs
  <2>2. SocketTypes'
    BY <1>1, <1>2, <1>4, <2>1, SocketBounds DEF SocketTypes
  <2>3. RequestFits(call'[c], items', exchanges', sockets') /\ Remembered(call'[c], cache')
        /\ Waited(call'[c], FALSE, failures')
    BY <1>4, <2>1, NotCallingFits
  <2>4. ASSUME NEW d \in ModelCalls, d # c, Waited(call[d], d = current, failures)
        PROVE  Waited(call[d], d = current', failures')
    <3>1. Waited(call[d], FALSE, failures') /\ ~(d = current')
      BY <1>5, <1>6, <2>1, <2>4
    <3> QED
      BY <3>1 DEF Waited
  <2>5. Waited(call'[c], c = current', failures')
    BY <2>1, <2>3 DEF Waited
  <2>6. CallsFit'
    BY <1>2, <1>4, <2>1, <2>3, <2>4, <2>5, CallsFitAgain
  <2> QED
    BY <1>2, <1>3, <2>2, <2>6 DEF SocketInv
<1> QED
  BY <1>7, <1>8

LEMMA FirstEventTimesOutKeeps ==
  ASSUME SocketInv, NEW c \in ModelCalls, FirstEventTimesOut(c)
  PROVE  SocketInv'
<1>1. active = c /\ Error(c, TRUE)
      /\ UNCHANGED <<transcript, items, sockets, exchanges, chain, failures>>
  BY DEF FirstEventTimesOut
<1>2. failures' \in 0..2
  BY <1>1 DEF SocketInv, SocketTypes
<1> QED
  BY <1>1, <1>2, ErrorKeeps

LEMMA TransportFailsKeeps ==
  ASSUME SocketInv, NEW c \in ModelCalls, TransportFails(c)
  PROVE  SocketInv'
<1>1. active = c /\ Error(c, FALSE) /\ failures' = failures + 1
      /\ UNCHANGED <<transcript, items, sockets, exchanges, chain>>
  BY DEF TransportFails
<1>2. failures' \in 0..2
  <2>1. failures < 2
    BY <1>1, ActiveIs, SocketBounds
  <2>2. failures \in 0..2
    BY DEF SocketInv, SocketTypes
  <2> QED
    BY <1>1, <2>1, <2>2
<1> QED
  BY <1>1, <1>2, ErrorKeeps

LEMMA AbortCallKeeps ==
  ASSUME SocketInv, NEW c \in ModelCalls, AbortCall(c)
  PROVE  SocketInv'
<1>1. current = c /\ current' = NoModelCall
      /\ UNCHANGED <<transcript, items, sockets, exchanges, chain, failures>>
  BY DEF AbortCall
<1>2. c # NoModelCall
  BY SocketBounds
<1>3. /\ items' \in Nat /\ exchanges' \in Nat /\ sockets' \in Nat /\ CallsFit /\ SocketTypes
      /\ items <= items' /\ exchanges <= exchanges' /\ sockets <= sockets'
  BY <1>1, NumbersStay
<1>4. CASE active = c
  <2>1. Error(c, FALSE)
    BY <1>1, <1>4 DEF AbortCall, Error, Return
  <2>2. failures' \in 0..2
    BY <1>1, <1>3 DEF SocketTypes
  <2> QED
    BY <1>1, <1>4, <2>1, <2>2, ErrorKeeps
<1>5. CASE active # c
  <2> DEFINE k == [call[c] EXCEPT !.aborted = TRUE]
  <2>1. call' = [call EXCEPT ![c] = k] /\ UNCHANGED <<active, socket, inbox, cache, wire>>
    BY <1>5 DEF AbortCall, service
  <2>2. active = NoModelCall
    BY <1>1, <1>5 DEF SocketInv, ActiveFits
  <2>3. call[c] \in CallRecord /\ call \in [ModelCalls -> CallRecord]
    BY <1>3 DEF SocketTypes
  <2>4. /\ k \in CallRecord /\ k.stage = call[c].stage /\ k.chained = call[c].chained
        /\ k.previous = call[c].previous /\ k.exchange = call[c].exchange
        /\ k.input = call[c].input /\ k.shown = call[c].shown /\ k.socket = call[c].socket
        /\ k.reply = call[c].reply
    BY <2>3 DEF CallRecord
  <2>5. k.aborted /\ k.complete = call[c].complete
    BY <2>3 DEF CallRecord
  <2> HIDE DEF k
  <2>6. /\ call' \in [ModelCalls -> CallRecord] /\ call'[c] = k
        /\ \A d \in ModelCalls : d # c => call'[d] = call[d]
    BY <2>1, <2>3, <2>4
  <2>7. SocketTypes'
    BY <1>1, <1>3, <2>1, <2>6 DEF SocketTypes
  <2>8. CacheGrows /\ InboxFits' /\ WireFits' /\ ChainFits'
    BY <1>1, <1>3, <2>1, <2>2, ServiceStays
  <2>9. RequestFits(call[c], items, exchanges, sockets) /\ Remembered(call[c], cache)
    BY <1>3 DEF CallsFit
  <2>10. RequestFits(k, items', exchanges', sockets')
    BY <1>1, <2>4, <2>9 DEF RequestFits
  <2>11. Remembered(k, cache')
    BY <2>1, <2>4, <2>5, <2>9 DEF Remembered
  <2>12. Waited(k, c = current', failures')
    BY <1>1, <1>2, <2>5 DEF Waited
  <2>13. \A d \in ModelCalls : d # c /\ Waited(call[d], d = current, failures)
                               => Waited(call[d], d = current', failures')
    BY <1>1, SocketBounds DEF Waited
  <2>14. CallsFit'
    BY <1>3, <2>6, <2>8, <2>10, <2>11, <2>12, <2>13, CallsFitAgain
  <2>15. ActiveFits'
    BY <2>1, <2>2 DEF ActiveFits
  <2> QED
    BY <2>7, <2>8, <2>14, <2>15 DEF SocketInv
<1> QED
  BY <1>4, <1>5

LEMMA HttpEndsKeeps ==
  ASSUME SocketInv, NEW c \in ModelCalls, HttpEnds(c)
  PROVE  SocketInv'
<1>1. /\ call[c].stage = "http" /\ Return(c)
      /\ UNCHANGED <<active, socket, sockets, exchanges, chain, failures>>
      /\ UNCHANGED <<inbox, cache, wire>>
  BY DEF HttpEnds, service
<1>2. SocketTypes /\ CallsFit
  BY DEF SocketInv
<1>3. items \in Nat /\ transcript \in Inputs /\ items \in 0..MaxItems
  BY <1>2, SocketNumbers DEF SocketTypes
<1>4. /\ items' \in Nat /\ items <= items' /\ items' \in 0..MaxItems /\ transcript' \in Inputs
  <2>1. CASE UNCHANGED <<transcript, items>>
    BY <1>3, <2>1
  <2>2. CASE items < MaxItems /\ items' = items + 1 /\ transcript' = Append(transcript, items')
    <3>1. items' \in Items /\ items' \in 0..MaxItems
      BY <1>3, <2>2, SocketBounds DEF Items
    <3>2. transcript' \in Inputs
      BY <1>3, <2>2, <3>1, AppendItem
    <3>3. items' \in Nat /\ items <= items'
      BY <1>3, <2>2
    <3> QED
      BY <3>1, <3>2, <3>3
  <2> QED
    BY <2>1, <2>2 DEF HttpEnds
<1>5. /\ call' \in [ModelCalls -> CallRecord] /\ call'[c] = NotCalling
      /\ \A d \in ModelCalls : d # c => call'[d] = call[d] /\ (d = current' <=> d = current)
      /\ current' \in ModelCalls \cup {NoModelCall} /\ c # current'
  BY <1>1, <1>2, ReturnIs
<1>6. active # c
  BY <1>1, ActiveIs, SocketBounds
<1>7. SocketTypes'
  BY <1>1, <1>2, <1>3, <1>4, <1>5 DEF SocketTypes
<1>8. active # NoModelCall => call'[active] = call[active]
  BY <1>2, <1>5, <1>6 DEF SocketTypes
<1>9. CacheGrows /\ InboxFits' /\ WireFits' /\ ChainFits'
  BY <1>1, <1>4, <1>8, ServiceStays
<1>10. /\ exchanges' \in Nat /\ sockets' \in Nat
       /\ exchanges <= exchanges' /\ sockets <= sockets'
  BY <1>1, <1>2, SocketNumbers
<1>11. RequestFits(call'[c], items', exchanges', sockets') /\ Remembered(call'[c], cache')
       /\ Waited(call'[c], c = current', failures')
  <2>1. RequestFits(call'[c], items', exchanges', sockets') /\ Remembered(call'[c], cache')
        /\ Waited(call'[c], FALSE, failures')
    BY <1>4, <1>5, <1>10, NotCallingFits
  <2> QED
    BY <1>5, <2>1 DEF Waited
<1>12. \A d \in ModelCalls : d # c /\ Waited(call[d], d = current, failures)
                             => Waited(call[d], d = current', failures')
  BY <1>1, <1>5 DEF Waited
<1>13. CallsFit'
  BY <1>2, <1>4, <1>5, <1>9, <1>10, <1>11, <1>12, CallsFitAgain
<1>14. ActiveFits'
  BY <1>1, <1>2, <1>5, <1>6, <1>8 DEF SocketInv, SocketTypes, ActiveFits
<1> QED
  BY <1>7, <1>9, <1>13, <1>14 DEF SocketInv

LEMMA ItemsConcat ==
  ASSUME NEW s \in Seq(Items), NEW t \in Seq(Items)
  PROVE  /\ s \o t \in Seq(Items) /\ Len(s \o t) = Len(s) + Len(t)
         /\ \A i \in 1..(Len(s) + Len(t)) :
              (s \o t)[i] = IF i <= Len(s) THEN s[i] ELSE t[i - Len(s)]
OBVIOUS

LEMMA SeqsAreEqual ==
  ASSUME NEW s \in Seq(Items), NEW t \in Seq(Items), Len(s) = Len(t),
         \A i \in 1..Len(t) : s[i] = t[i]
  PROVE  s = t
OBVIOUS

\* What of an input its baseline has and what is sent make up the input.
LEMMA PartsMakeWhole ==
  ASSUME NEW s \in Inputs, NEW n \in Nat, n <= Len(s)
  PROVE  /\ SubSeq(s, 1, n) \o SubSeq(s, n + 1, Len(s)) = s
         /\ SubSeq(s, n + 1, Len(s)) \in Inputs
<1>1. s \in Seq(Items) /\ Len(s) \in Nat
  BY DEF Inputs
<1> DEFINE a == SubSeq(s, 1, n)
           b == SubSeq(s, n + 1, Len(s))
<1>2. a \in Seq(Items) /\ b \in Seq(Items) /\ Len(a) = n /\ Len(b) = Len(s) - n
  BY <1>1
<1>3. \A i \in 1..n : a[i] = s[i]
  BY <1>1
<1>4. \A i \in 1..(Len(s) - n) : b[i] = s[n + i]
  BY <1>1
<1> HIDE DEF a, b
<1>5. a \o b \in Seq(Items) /\ Len(a \o b) = Len(s)
  BY <1>1, <1>2
<1>6. \A i \in 1..Len(s) : (a \o b)[i] = s[i]
  <2> SUFFICES ASSUME NEW i \in 1..Len(s) PROVE (a \o b)[i] = s[i]
    OBVIOUS
  <2>1. (a \o b)[i] = IF i <= Len(a) THEN a[i] ELSE b[i - Len(a)]
    <3>1. i \in 1..(Len(a) + Len(b))
      BY <1>1, <1>2
    <3> QED
      BY <1>2, <3>1, ItemsConcat
  <2>2. CASE i <= n
    <3>1. i \in 1..n
      BY <2>2
    <3> QED
      BY <1>2, <1>3, <2>1, <2>2, <3>1
  <2>3. CASE i > n
    <3>1. i - n \in 1..(Len(s) - n) /\ n + (i - n) = i
      BY <1>1, <2>3
    <3>2. b[i - n] = s[i]
      BY <1>4, <3>1
    <3> QED
      BY <1>1, <1>2, <2>1, <2>3, <3>2
  <2>4. i <= n \/ i > n
    BY <1>1
  <2> QED
    BY <2>2, <2>3, <2>4, Zenon
<1>7. a \o b = s
  <2> DEFINE w == a \o b
  <2>1. w \in Seq(Items) /\ Len(w) = Len(s) /\ \A i \in 1..Len(s) : w[i] = s[i]
    BY <1>5, <1>6
  <2> HIDE DEF w
  <2>2. w = s
    BY <1>1, <2>1, SeqsAreEqual
  <2> QED
    BY <2>2 DEF w
<1> QED
  BY <1>2, <1>7 DEF Inputs, a, b

\* A request that is begun: what it leaves out is the baseline of the chain, or nothing.
Begun(request) ==
  /\ request \in CallRecord /\ request.chained <= Len(request.input) /\ request.shown = {}
  /\ (request.chained # 0 => request.previous # 0) /\ request.previous <= items
  /\ request.exchange <= exchanges
  /\ request.previous # 0 /\ cache.response = request.previous
     => cache.context = SubSeq(request.input, 1, request.chained)

LEMMA ChainIsExtended ==
  ASSUME SocketInv, NEW c \in ModelCalls, Chained(c)
  PROVE  /\ Len(chain.baseline) <= Len(call[c].input) /\ Len(chain.baseline) \in Nat
         /\ SubSeq(call[c].input, 1, Len(chain.baseline)) = chain.baseline
         /\ chain.response \in 1..items /\ chain # NoChain
<1>1. chain # NoChain /\ Extends(call[c].input, chain.baseline)
  BY DEF Chained
<1>2. chain.baseline \in Inputs /\ chain.response \in 1..items
  BY <1>1 DEF SocketInv, SocketTypes, ChainRecord
<1>3. Len(chain.baseline) <= Len(call[c].input)
      /\ SubSeq(chain.baseline, 1, Len(chain.baseline))
         = SubSeq(call[c].input, 1, Len(chain.baseline))
  BY <1>1, Zenon DEF Extends, IsStrictPrefix, IsPrefix
<1>4. SubSeq(chain.baseline, 1, Len(chain.baseline)) = chain.baseline
      /\ Len(chain.baseline) \in Nat
  BY <1>2 DEF Inputs
<1> QED
  BY <1>1, <1>2, <1>3, <1>4

LEMMA ReturnedFits ==
  ASSUME SocketTypes, CallsFit, CacheGrows, NEW c \in ModelCalls, Return(c),
         items' \in Nat, exchanges' \in Nat, sockets' \in Nat,
         items <= items', exchanges <= exchanges', sockets <= sockets', failures' \in {failures, 0}
  PROVE  CallsFit'
<1>1. /\ call' \in [ModelCalls -> CallRecord] /\ call'[c] = NotCalling
      /\ \A d \in ModelCalls : d # c => call'[d] = call[d] /\ (d = current' <=> d = current)
      /\ current' \in ModelCalls \cup {NoModelCall} /\ c # current'
  BY ReturnIs
<1>2. RequestFits(call'[c], items', exchanges', sockets') /\ Remembered(call'[c], cache')
      /\ Waited(call'[c], c = current', failures')
  <2>1. RequestFits(call'[c], items', exchanges', sockets') /\ Remembered(call'[c], cache')
        /\ Waited(call'[c], FALSE, failures')
    BY <1>1, NotCallingFits
  <2> QED
    BY <1>1, <2>1 DEF Waited
<1>3. \A d \in ModelCalls : d # c /\ Waited(call[d], d = current, failures)
                            => Waited(call[d], d = current', failures')
  BY <1>1 DEF Waited
<1> QED
  BY <1>1, <1>2, <1>3, CallsFitAgain

LEMMA NoneOnTheWire ==
  ASSUME SocketInv, active = NoModelCall
  PROVE  inbox = NoRequest /\ wire = << >>
BY DEF SocketInv, InboxFits, WireFits

\* A call that is not active when another one is, or is aborted, gives up its request.
LEMMA RequestGivenUp ==
  ASSUME SocketInv, NEW c \in ModelCalls, active # c, Return(c), chain' = NoChain,
         active' = active, UNCHANGED <<transcript, items, exchanges, sockets, failures>>,
         \/ UNCHANGED <<socket, inbox, cache, wire>>
         \/ active = NoModelCall /\ Drop
  PROVE  SocketInv'
<1>1. /\ items' \in Nat /\ exchanges' \in Nat /\ sockets' \in Nat /\ CallsFit /\ SocketTypes
      /\ items <= items' /\ exchanges <= exchanges' /\ sockets <= sockets'
  BY NumbersStay
<1>2. /\ call' \in [ModelCalls -> CallRecord]
      /\ \A d \in ModelCalls : d # c => call'[d] = call[d] /\ (d = current' <=> d = current)
      /\ current' \in ModelCalls \cup {NoModelCall}
  BY <1>1, ReturnIs
<1>3. active # NoModelCall => /\ active \in ModelCalls /\ call'[active] = call[active]
                              /\ active = current /\ active = current'
  BY <1>2, ActiveIs
<1>4. CacheGrows /\ InboxFits' /\ WireFits' /\ ChainFits'
  BY <1>1, <1>3, ServiceStays, DropIs
<1>5. ActiveFits'
  BY <1>3 DEF SocketInv, ActiveFits
<1>6. CallsFit'
  BY <1>1, <1>4, ReturnedFits
<1>7. SocketTypes'
  <2>1. CASE UNCHANGED <<socket, inbox, cache, wire>>
    BY <1>1, <1>2, <2>1 DEF SocketTypes
  <2>2. CASE Drop
    <3>1. /\ socket' = 0 /\ cache' \in [response : Nat, context : Inputs] /\ cache'.response = 0
          /\ inbox' \in [exchange : Nat, previous : Nat, input : Inputs] /\ inbox'.previous = 0
          /\ wire' \in Seq(Frame)
      BY <2>2, DropIs
    <3> QED
      BY <1>1, <1>2, <3>1, SocketBounds DEF SocketTypes
  <2> QED
    BY <2>1, <2>2
<1> QED
  BY <1>4, <1>5, <1>6, <1>7 DEF SocketInv

\* What of a request goes over a socket.
LEMMA SentIs ==
  ASSUME SocketTypes, NEW c \in ModelCalls, NEW request \in CallRecord,
         request.chained <= Len(request.input), NEW id \in Nat, Sent(c, request, id)
  PROVE  /\ inbox' \in [exchange : Nat, previous : Nat, input : Inputs]
         /\ inbox'.previous = request.previous /\ inbox'.exchange = request.exchange
         /\ inbox'.input = SubSeq(request.input, request.chained + 1, Len(request.input))
         /\ call'[c] \in CallRecord /\ call' \in [ModelCalls -> CallRecord]
         /\ \A d \in ModelCalls : d # c => call'[d] = call[d]
         /\ call'[c].stage = "waiting" /\ call'[c].socket = id
         /\ call'[c].input = request.input /\ call'[c].chained = request.chained
         /\ call'[c].previous = request.previous /\ call'[c].exchange = request.exchange
         /\ call'[c].shown = request.shown /\ (call'[c].aborted <=> request.aborted)
<1> DEFINE k == [request EXCEPT !.stage = "waiting", !.socket = id]
           rest == SubSeq(request.input, request.chained + 1, Len(request.input))
<1>1. inbox' = [exchange |-> request.exchange, previous |-> request.previous, input |-> rest]
      /\ call' = [call EXCEPT ![c] = k]
  BY DEF Sent
<1>2. rest \in Inputs
  BY CallTypes, PartsMakeWhole
<1>3. /\ k \in CallRecord /\ k.stage = "waiting" /\ k.socket = id
      /\ k.input = request.input /\ k.chained = request.chained
      /\ k.previous = request.previous /\ k.exchange = request.exchange
      /\ k.shown = request.shown
  BY DEF CallRecord, Stages
<1>4. k.aborted <=> request.aborted
  BY DEF CallRecord
<1> HIDE DEF k, rest
<1>5. call' \in [ModelCalls -> CallRecord] /\ call'[c] = k
      /\ \A d \in ModelCalls : d # c => call'[d] = call[d]
  BY <1>1, <1>3 DEF SocketTypes
<1>6. inbox' \in [exchange : Nat, previous : Nat, input : Inputs]
      /\ inbox'.previous = request.previous /\ inbox'.exchange = request.exchange
      /\ inbox'.input = rest
  BY <1>1, <1>2, CallTypes
<1> QED
  BY <1>3, <1>4, <1>5, <1>6 DEF rest

\* An exchange begins, on the session's socket or on one that is being connected.
LEMMA ExchangeBegins ==
  ASSUME SocketInv, NEW c \in ModelCalls, call[c].stage \in {"building", "replaying"},
         NEW request, Begun(request), (request.aborted <=> call[c].aborted), Request(c, request),
         active = NoModelCall, ~request.aborted, exchanges < MaxExchanges,
         exchanges' = exchanges + 1, active' = c, UNCHANGED <<socket, current>>,
         IF socket # 0
         THEN /\ Sent(c, [request EXCEPT !.exchange = exchanges'], socket)
              /\ UNCHANGED <<cache, wire>>
         ELSE /\ call' = [call EXCEPT ![c] = [[request EXCEPT !.exchange = exchanges']
                                              EXCEPT !.stage = "connecting"]]
              /\ UNCHANGED service
  PROVE  SocketInv'
<1> DEFINE numbered == [request EXCEPT !.exchange = exchanges']
<1>1. SocketTypes /\ CallsFit /\ inbox = NoRequest /\ wire = << >>
  BY NoneOnTheWire DEF SocketInv
<1>2. chain' = NoChain /\ UNCHANGED <<transcript, items, sockets, failures>>
  BY DEF Request
<1>3. exchanges' \in Nat /\ exchanges' \in 0..MaxExchanges /\ exchanges' # 0
      /\ exchanges \in Nat /\ exchanges <= exchanges'
  BY <1>1, SocketNumbers, SocketBounds, SMTT(20) DEF SocketTypes
<1>4. request \in CallRecord /\ request.chained <= Len(request.input) /\ request.shown = {}
      /\ (request.chained # 0 => request.previous # 0) /\ request.previous <= items
      /\ (request.previous # 0 /\ cache.response = request.previous
          => cache.context = SubSeq(request.input, 1, request.chained))
  BY DEF Begun
<1>5. /\ numbered \in CallRecord /\ numbered.exchange = exchanges'
      /\ numbered.input = request.input /\ numbered.chained = request.chained
      /\ numbered.previous = request.previous /\ numbered.shown = {}
  BY <1>3, <1>4 DEF CallRecord
<1>6. ~numbered.aborted
  BY <1>4 DEF CallRecord
<1> HIDE DEF numbered
<1>7. c = current /\ failures < 2
  BY DEF SocketInv, CallsFit, Waited
<1>8. /\ call' \in [ModelCalls -> CallRecord] /\ call'[c] \in CallRecord
      /\ \A d \in ModelCalls : d # c => call'[d] = call[d]
      /\ call'[c].stage \in {"connecting", "waiting"} /\ ~call'[c].aborted
      /\ call'[c].stage = "waiting" => call'[c].socket = socket /\ socket # 0
      /\ call'[c].input = numbered.input /\ call'[c].chained = numbered.chained
      /\ call'[c].previous = numbered.previous /\ call'[c].exchange = numbered.exchange
      /\ call'[c].shown = {} /\ cache' = cache /\ wire' = << >>
      /\ inbox' \in [exchange : Nat, previous : Nat, input : Inputs] /\ inbox'.previous <= items
      /\ inbox' # NoRequest => SentFits(call[c])'
  <2>1. CASE socket # 0
    <3>1. Sent(c, numbered, socket) /\ UNCHANGED <<cache, wire>>
      BY <2>1 DEF numbered
    <3>2. numbered.chained <= Len(numbered.input) /\ socket \in Nat
      BY <1>1, <1>4, <1>5, SocketNumbers
    <3>3. /\ inbox' \in [exchange : Nat, previous : Nat, input : Inputs]
          /\ inbox'.previous = numbered.previous /\ inbox'.exchange = numbered.exchange
          /\ inbox'.input = SubSeq(numbered.input, numbered.chained + 1, Len(numbered.input))
          /\ call'[c] \in CallRecord /\ call' \in [ModelCalls -> CallRecord]
          /\ \A d \in ModelCalls : d # c => call'[d] = call[d]
          /\ call'[c].stage = "waiting" /\ call'[c].socket = socket
          /\ call'[c].input = numbered.input /\ call'[c].chained = numbered.chained
          /\ call'[c].previous = numbered.previous /\ call'[c].exchange = numbered.exchange
          /\ call'[c].shown = numbered.shown /\ (call'[c].aborted <=> numbered.aborted)
      BY <1>1, <1>5, <3>1, <3>2, SentIs, Zenon
    <3>4. SentFits(call[c])'
      BY <3>3 DEF SentFits
    <3>5. ~call'[c].aborted
      BY <1>6, <3>3, Zenon
    <3>6. inbox'.previous <= items
      BY <1>4, <1>5, <3>3
    <3> QED
      BY <1>1, <1>5, <2>1, <3>1, <3>3, <3>4, <3>5, <3>6, Zenon
  <2>2. CASE socket = 0
    <3> DEFINE k == [numbered EXCEPT !.stage = "connecting"]
    <3>1. call' = [call EXCEPT ![c] = k] /\ UNCHANGED <<inbox, cache, wire>>
      BY <2>2 DEF numbered, service
    <3>2. /\ k \in CallRecord /\ k.stage = "connecting"
          /\ k.input = numbered.input /\ k.chained = numbered.chained
          /\ k.previous = numbered.previous /\ k.exchange = numbered.exchange
          /\ k.shown = numbered.shown
      BY <1>5 DEF CallRecord, Stages
    <3>3. ~k.aborted
      BY <1>5, <1>6 DEF CallRecord
    <3> HIDE DEF k
    <3>4. call' \in [ModelCalls -> CallRecord] /\ call'[c] = k
          /\ \A d \in ModelCalls : d # c => call'[d] = call[d]
      BY <1>1, <3>1, <3>2 DEF SocketTypes
    <3>5. inbox' \in [exchange : Nat, previous : Nat, input : Inputs] /\ inbox'.previous <= items
      BY <1>1, <3>1 DEF SocketTypes
    <3> QED
      BY <1>1, <1>5, <3>1, <3>2, <3>3, <3>4, <3>5
  <2> QED
    BY <2>1, <2>2
<1>9. SocketTypes'
  BY <1>1, <1>2, <1>3, <1>8 DEF SocketTypes
<1>10. ActiveFits'
  BY <1>7, <1>8 DEF ActiveFits
<1>11. InboxFits' /\ WireFits' /\ ChainFits'
  BY <1>2, <1>8, SocketBounds DEF InboxFits, WireFits, ChainFits
<1>12. CallsFit'
  <2>1. RequestFits(call'[c], items', exchanges', sockets')
    <3>1. socket # 0 => socket \in 1..sockets
      BY <1>1, SocketNumbers DEF SocketTypes
    <3> QED
      BY <1>2, <1>3, <1>4, <1>5, <1>8, <3>1 DEF RequestFits
  <2>2. Remembered(call'[c], cache')
    BY <1>4, <1>5, <1>8 DEF Remembered
  <2>3. Waited(call'[c], c = current', failures')
    BY <1>2, <1>7, <1>8 DEF Waited
  <2>4. \A d \in ModelCalls : d # c /\ Waited(call[d], d = current, failures)
                              => Waited(call[d], d = current', failures')
    BY <1>2
  <2>5. items' \in Nat /\ sockets' \in Nat /\ items <= items' /\ sockets <= sockets'
    BY <1>1, <1>2, SocketNumbers
  <2>6. CacheGrows
    BY <1>8 DEF CacheGrows
  <2> QED
    BY <1>1, <1>3, <1>8, <2>1, <2>2, <2>3, <2>4, <2>5, <2>6, CallsFitAgain
<1> QED
  BY <1>9, <1>10, <1>11, <1>12 DEF SocketInv

LEMMA BeginKeeps ==
  ASSUME SocketInv, NEW c \in ModelCalls, call[c].stage \in {"building", "replaying"},
         NEW request, Begun(request), (request.aborted <=> call[c].aborted), Request(c, request)
  PROVE  SocketInv'
<1>1. active # c
  BY ActiveIs, SocketBounds
<1>2. chain' = NoChain /\ UNCHANGED <<transcript, items, sockets, failures>>
  BY DEF Request
<1>3. CASE active # NoModelCall
  <2>1. Return(c) /\ UNCHANGED <<active, socket, exchanges, inbox, cache, wire>>
    BY <1>3 DEF Request, service
  <2> QED
    BY <1>1, <1>2, <2>1, RequestGivenUp
<1>4. CASE active = NoModelCall /\ request.aborted
  <2>1. Return(c) /\ Drop /\ UNCHANGED <<active, exchanges>>
    BY <1>4 DEF Request
  <2> QED
    BY <1>1, <1>2, <1>4, <2>1, RequestGivenUp
<1>5. CASE active = NoModelCall /\ ~request.aborted
  <2>1. /\ exchanges < MaxExchanges /\ exchanges' = exchanges + 1 /\ active' = c
        /\ UNCHANGED <<socket, current>>
        /\ IF socket # 0
           THEN /\ Sent(c, [request EXCEPT !.exchange = exchanges'], socket)
                /\ UNCHANGED <<cache, wire>>
           ELSE /\ call' = [call EXCEPT ![c] = [[request EXCEPT !.exchange = exchanges']
                                                EXCEPT !.stage = "connecting"]]
                /\ UNCHANGED service
    BY <1>5, Zenon DEF Request
  <2> QED
    BY <1>5, <2>1, ExchangeBegins, Zenon
<1> QED
  BY <1>3, <1>4, <1>5

LEMMA CallIs ==
  ASSUME SocketInv, NEW c \in ModelCalls
  PROVE  /\ call[c] \in CallRecord /\ RequestFits(call[c], items, exchanges, sockets)
         /\ Remembered(call[c], cache) /\ Waited(call[c], c = current, failures)
BY SocketNumbers DEF SocketInv, CallsFit

\* The request that leaves out n items, for the response p has them.
Without(k, n, p) == [k EXCEPT !.chained = n, !.previous = p]

LEMMA WithoutIs ==
  ASSUME NEW k \in CallRecord, NEW n \in Nat, NEW p \in Nat
  PROVE  /\ Without(k, n, p) \in CallRecord /\ Without(k, n, p).chained = n
         /\ Without(k, n, p).previous = p /\ Without(k, n, p).input = k.input
         /\ Without(k, n, p).shown = k.shown /\ Without(k, n, p).exchange = k.exchange
         /\ Without(k, n, p).aborted <=> k.aborted
<1> DEFINE r == [k EXCEPT !.chained = n, !.previous = p]
<1>1. /\ r \in CallRecord /\ r.chained = n /\ r.previous = p /\ r.input = k.input
      /\ r.shown = k.shown /\ r.exchange = k.exchange
  BY DEF CallRecord
<1>2. r.aborted <=> k.aborted
  BY DEF CallRecord
<1>3. r = Without(k, n, p)
  BY Zenon DEF Without
<1> HIDE DEF r
<1> QED
  BY <1>1, <1>2, <1>3, Zenon

LEMMA BuiltKeeps ==
  ASSUME SocketInv, NEW c \in ModelCalls, Built(c)
  PROVE  SocketInv'
<1> DEFINE request == IF Chained(c)
                      THEN [call[c] EXCEPT !.chained = Len(chain.baseline),
                                           !.previous = chain.response]
                      ELSE call[c]
<1>1. call[c].stage = "building" /\ Request(c, request)
  BY DEF Built
<1>2. /\ call[c] \in CallRecord /\ call[c].shown = {} /\ call[c].exchange <= exchanges
      /\ call[c].chained = 0 /\ call[c].previous = 0
  BY <1>1, CallIs DEF RequestFits
<1>3. items \in Nat /\ Len(call[c].input) \in Nat
  BY <1>2, CallTypes, SocketNumbers DEF SocketInv
<1>4. CASE Chained(c)
  <2> DEFINE k == Without(call[c], Len(chain.baseline), chain.response)
  <2>1. request = k
    BY <1>4 DEF Without
  <2>2. /\ Len(chain.baseline) <= Len(call[c].input) /\ Len(chain.baseline) \in Nat
        /\ SubSeq(call[c].input, 1, Len(chain.baseline)) = chain.baseline
        /\ chain.response \in 1..items /\ chain # NoChain
    BY <1>4, ChainIsExtended
  <2> HIDE DEF request
  <2>3. /\ k \in CallRecord /\ k.chained = Len(chain.baseline)
        /\ k.previous = chain.response /\ k.input = call[c].input
        /\ k.shown = call[c].shown /\ k.exchange = call[c].exchange
        /\ k.aborted <=> call[c].aborted
    <3>1. chain.response \in Nat
      BY <1>3, <2>2
    <3> QED
      BY <1>2, <2>2, <3>1, WithoutIs, Zenon
  <2> HIDE DEF k
  <2>5. cache.response = k.previous => cache.context = SubSeq(k.input, 1, k.chained)
    BY <2>2, <2>3 DEF SocketInv, ChainFits
  <2>6. Begun(k)
    BY <1>2, <1>3, <2>2, <2>3, <2>5 DEF Begun
  <2> QED
    BY <1>1, <2>1, <2>3, <2>6, BeginKeeps
<1>5. CASE ~Chained(c)
  <2>1. request = call[c]
    BY <1>5
  <2> HIDE DEF request
  <2>2. Begun(request)
    BY <1>2, <1>3, <2>1 DEF Begun
  <2>3. request.aborted <=> call[c].aborted
    BY <2>1
  <2> QED
    BY <1>1, <2>2, <2>3, BeginKeeps
<1> QED
  BY <1>4, <1>5

LEMMA ReplayKeeps ==
  ASSUME SocketInv, NEW c \in ModelCalls, Replay(c)
  PROVE  SocketInv'
<1> DEFINE request == [call[c] EXCEPT !.chained = 0, !.previous = 0]
<1>1. call[c].stage = "replaying" /\ Request(c, request)
  BY DEF Replay
<1>2. call[c] \in CallRecord /\ call[c].shown = {} /\ call[c].exchange <= exchanges
  BY <1>1, CallIs DEF RequestFits
<1>3. /\ request \in CallRecord /\ request.chained = 0 /\ request.previous = 0
      /\ request.input = call[c].input /\ request.shown = {}
      /\ request.exchange = call[c].exchange
  BY <1>2 DEF CallRecord
<1>4. request.aborted <=> call[c].aborted
  BY <1>2 DEF CallRecord
<1>5. items \in Nat /\ Len(call[c].input) \in Nat
  BY <1>2, CallTypes, SocketNumbers DEF SocketInv
<1> HIDE DEF request
<1>6. Begun(request)
  BY <1>2, <1>3, <1>5 DEF Begun
<1> QED
  BY <1>1, <1>4, <1>6, BeginKeeps

LEMMA ConnectedKeeps ==
  ASSUME SocketInv, NEW c \in ModelCalls, Connected(c)
  PROVE  SocketInv'
<1>1. /\ call[c].stage = "connecting" /\ active = c /\ sockets < MaxSockets
      /\ sockets' = sockets + 1 /\ socket' = sockets' /\ Sent(c, call[c], sockets')
      /\ UNCHANGED <<transcript, items, current, active, exchanges, chain, cache, wire, failures>>
  BY DEF Connected, conversation
<1>2. /\ call[c] \in CallRecord /\ RequestFits(call[c], items, exchanges, sockets)
      /\ Remembered(call[c], cache) /\ Waited(call[c], c = current, failures)
  BY CallIs
<1>3. SocketTypes /\ CallsFit /\ wire = << >>
  BY <1>1 DEF SocketInv, WireFits
<1>4. sockets' \in Nat /\ sockets' \in 0..MaxSockets /\ sockets <= sockets' /\ sockets' # 0
      /\ sockets \in Nat
  BY <1>1, <1>3, SocketNumbers, SocketBounds DEF SocketTypes
<1>5. call[c].chained <= Len(call[c].input) /\ call[c].previous <= items
  BY <1>2 DEF RequestFits
<1>6. /\ inbox' \in [exchange : Nat, previous : Nat, input : Inputs]
      /\ inbox'.previous = call[c].previous /\ inbox'.exchange = call[c].exchange
      /\ inbox'.input = SubSeq(call[c].input, call[c].chained + 1, Len(call[c].input))
      /\ call'[c] \in CallRecord /\ call' \in [ModelCalls -> CallRecord]
      /\ \A d \in ModelCalls : d # c => call'[d] = call[d]
      /\ call'[c].stage = "waiting" /\ call'[c].socket = sockets'
      /\ call'[c].input = call[c].input /\ call'[c].chained = call[c].chained
      /\ call'[c].previous = call[c].previous /\ call'[c].exchange = call[c].exchange
      /\ call'[c].shown = call[c].shown /\ (call'[c].aborted <=> call[c].aborted)
  <2>1. PICK id \in Nat : id = sockets'
    BY <1>4
  <2>2. Sent(c, call[c], id)
    BY <1>1, <2>1, Zenon
  <2> QED
    BY <1>2, <1>3, <1>5, <2>1, <2>2, SentIs, Zenon
<1>7. SocketTypes'
  BY <1>1, <1>3, <1>4, <1>5, <1>6 DEF SocketTypes
<1>8. ActiveFits'
  BY <1>1, <1>6 DEF SocketInv, ActiveFits
<1>9. SentFits(call[c])'
  BY <1>6 DEF SentFits
<1>10. InboxFits' /\ WireFits' /\ ChainFits'
  BY <1>1, <1>3, <1>9, SocketBounds DEF SocketInv, InboxFits, WireFits, ChainFits
<1>11. CallsFit'
  <2>1. RequestFits(call'[c], items', exchanges', sockets')
    BY <1>1, <1>2, <1>4, <1>6 DEF RequestFits
  <2>2. Remembered(call'[c], cache')
    BY <1>1, <1>2, <1>6 DEF Remembered
  <2>3. Waited(call'[c], c = current', failures')
    BY <1>1, <1>2, <1>6 DEF Waited
  <2>4. \A d \in ModelCalls : d # c /\ Waited(call[d], d = current, failures)
                              => Waited(call[d], d = current', failures')
    BY <1>1
  <2>5. items' \in Nat /\ exchanges' \in Nat /\ items <= items' /\ exchanges <= exchanges'
    BY <1>1, <1>3, SocketNumbers
  <2>6. CacheGrows
    BY <1>1 DEF CacheGrows
  <2> QED
    BY <1>3, <1>4, <1>6, <2>1, <2>2, <2>3, <2>4, <2>5, <2>6, CallsFitAgain
<1> QED
  BY <1>7, <1>8, <1>10, <1>11 DEF SocketInv

\* What an exchange sent and the service remembers are the input of its call.
LEMMA InputIsWhole ==
  ASSUME SocketInv
  PROVE  WholeInput
<1> SUFFICES ASSUME inbox # NoRequest, Known
             PROVE  active # NoModelCall /\ call[active].input = Context
  BY DEF WholeInput
<1> DEFINE k == call[active]
<1>1. active # NoModelCall /\ SentFits(k)
  BY DEF SocketInv, InboxFits
<1>2. k \in CallRecord /\ RequestFits(k, items, exchanges, sockets) /\ Remembered(k, cache)
  BY <1>1, ActiveIs
<1> HIDE DEF k
<1>3. /\ inbox.previous = k.previous
      /\ inbox.input = SubSeq(k.input, k.chained + 1, Len(k.input))
  BY <1>1 DEF SentFits
<1>4. k.chained \in Nat /\ k.chained <= Len(k.input) /\ k.input \in Inputs
  BY <1>2, CallTypes DEF RequestFits
<1>5. SubSeq(k.input, 1, k.chained) \o SubSeq(k.input, k.chained + 1, Len(k.input)) = k.input
  BY <1>4, PartsMakeWhole
<1>6. CASE inbox.previous = 0
  <2>1. k.chained = 0
    BY <1>2, <1>3, <1>6 DEF RequestFits
  <2>2. SubSeq(k.input, 1, 0) = << >>
    BY <1>4 DEF Inputs
  <2>3. Context = << >> \o inbox.input
    BY <1>6 DEF Context
  <2>4. Context = k.input
    BY <1>3, <1>5, <2>1, <2>2, <2>3
  <2> QED
    BY <1>1, <2>4 DEF k
<1>7. CASE inbox.previous # 0
  <2>1. cache.context = SubSeq(k.input, 1, k.chained)
    BY <1>2, <1>3, <1>7 DEF Known, Remembered
  <2>2. Context = cache.context \o inbox.input
    BY <1>7 DEF Context
  <2>3. Context = k.input
    BY <1>3, <1>5, <2>1, <2>2
  <2> QED
    BY <1>1, <2>3 DEF k
<1> QED
  BY <1>6, <1>7

LEMMA FramesEnd ==
  ASSUME NEW frames \in Frames \cup Rejections
  PROVE  /\ Len(frames) \in Nat \ {0}
         /\ \A i \in 1..Len(frames) : /\ frames[i] \in EndsOf \cup {"created", "delta"}
                                      /\ frames[i] \in EndsOf <=> i = Len(frames)
         /\ frames[Len(frames)] \in EndsOf
         /\ frames[Len(frames)] \in {"completed", "incomplete"} => frames \in Frames
<1>1. CASE frames = <<"created", "delta", "completed">>
  BY <1>1 DEF EndsOf, Frames
<1>2. CASE frames = <<"delta", "incomplete">>
  BY <1>2 DEF EndsOf, Frames
<1>3. CASE frames = <<"created", "failed">>
  BY <1>3 DEF EndsOf, Frames
<1>4. CASE frames = <<"rejected">>
  BY <1>4 DEF EndsOf, Frames
<1>5. CASE frames = <<"delta", "rejected">>
  BY <1>5 DEF EndsOf, Frames
<1> QED
  BY <1>1, <1>2, <1>3, <1>4, <1>5, Zenon DEF Frames, Rejections

LEMMA ServeKeeps ==
  ASSUME SocketInv, Serve
  PROVE  SocketInv'
<1>1. /\ inbox # NoRequest /\ inbox' = NoRequest
      /\ UNCHANGED <<transcript, current, call, active, socket, sockets, exchanges, chain,
                     failures>>
  BY DEF Serve
<1>2. PICK frames \in (IF Known THEN Frames \cup Rejections ELSE Rejections) :
        LET end == Last(frames)
        IN /\ end = "rejected" => inbox.previous # 0
           /\ items' = IF end \in {"completed", "incomplete"} THEN items + 1 ELSE items
           /\ items' <= MaxItems
           /\ wire' = [i \in 1..Len(frames) |->
                         [kind |-> frames[i], exchange |-> inbox.exchange, item |-> items']]
           /\ cache' = IF end = "completed"
                       THEN [response |-> items', context |-> Append(Context, items')] ELSE cache
  BY Zenon DEF Serve
<1> DEFINE end == frames[Len(frames)]
           k == call[active]
           n == Len(frames)
<1>3. /\ items' = IF end \in {"completed", "incomplete"} THEN items + 1 ELSE items
      /\ items' <= MaxItems
      /\ wire' = [i \in 1..n |->
                    [kind |-> frames[i], exchange |-> inbox.exchange, item |-> items']]
      /\ cache' = IF end = "completed"
                  THEN [response |-> items', context |-> Append(Context, items')] ELSE cache
  BY <1>2, Zenon DEF Last
<1>4. frames \in Frames \cup Rejections /\ (frames \in Frames \ Rejections => Known)
  BY <1>2
<1>5. n \in Nat \ {0} /\ end \in EndsOf
      /\ \A i \in 1..n : /\ frames[i] \in EndsOf \cup {"created", "delta"}
                         /\ frames[i] \in EndsOf <=> i = n
  BY <1>4, FramesEnd
<1>6. end \in {"completed", "incomplete"} => Known
  <2>1. frames \in Rejections => end = "rejected"
    BY DEF Rejections
  <2> QED
    BY <1>4, <2>1, FramesEnd
<1> HIDE DEF end
<1>7. SocketTypes /\ CallsFit /\ active # NoModelCall /\ SentFits(k) /\ WholeInput
  BY <1>1, InputIsWhole DEF SocketInv, InboxFits
<1>8. k \in CallRecord /\ active = current /\ active \in ModelCalls
  BY <1>7, ActiveIs
<1>9. inbox.exchange = k.exchange /\ k.stage = "waiting" /\ k.exchange \in Nat
  BY <1>7, <1>8, CallTypes DEF SentFits
<1>10. items \in Nat /\ items' \in Nat /\ items <= items' /\ items' \in 0..MaxItems
       /\ (end \in {"completed", "incomplete"} => items' = items + 1 /\ items' \in Items)
  <2>1. items \in Nat /\ items \in 0..MaxItems
    BY <1>7, SocketNumbers DEF SocketTypes
  <2>2. items' = items + 1 \/ items' = items
    BY <1>3
  <2> QED
    BY <1>3, <2>1, <2>2, SocketBounds DEF Items
<1>11. end = "completed" =>
         /\ cache' = [response |-> items', context |-> Append(k.input, items')]
         /\ Append(k.input, items') \in Inputs
  <2> SUFFICES ASSUME end = "completed"
               PROVE  /\ cache' = [response |-> items', context |-> Append(k.input, items')]
                      /\ Append(k.input, items') \in Inputs
    OBVIOUS
  <2>1. Context = k.input
    BY <1>1, <1>6, <1>7 DEF WholeInput
  <2>2. k.input \in Inputs /\ items' \in Items
    BY <1>8, <1>10, CallTypes
  <2>3. Append(k.input, items') \in Inputs
    BY <2>2, AppendItem
  <2> QED
    BY <1>3, <2>1, <2>3
<1>12. end # "completed" => cache' = cache
  BY <1>3
<1> HIDE DEF k
<1>13. CacheGrows
  BY <1>10, <1>11, <1>12 DEF CacheGrows
<1>14. cache' \in [response : Nat, context : Inputs] /\ cache'.response <= items'
  <2>1. CASE end = "completed"
    <3> DEFINE context == Append(k.input, items')
    <3>1. cache' = [response |-> items', context |-> context] /\ context \in Inputs
      BY <1>11, <2>1
    <3> HIDE DEF context
    <3> QED
      BY <1>10, <3>1
  <2>2. CASE end # "completed"
    BY <1>7, <1>10, <1>12, <2>2, SocketNumbers DEF SocketTypes
  <2> QED
    BY <2>1, <2>2
<1>15. \A i \in 1..n : wire'[i] = [kind |-> frames[i], exchange |-> k.exchange, item |-> items']
  BY <1>3, <1>9
<1>16. wire' \in Seq(Frame) /\ Len(wire') = n
  <2>1. \A i \in 1..n : [kind |-> frames[i], exchange |-> inbox.exchange, item |-> items'] \in Frame
    BY <1>5, <1>9, <1>10 DEF Frame
  <2> DEFINE w == [i \in 1..n |->
                     [kind |-> frames[i], exchange |-> inbox.exchange, item |-> items']]
  <2>2. w \in [1..n -> Frame]
    BY <2>1
  <2> HIDE DEF w, n
  <2>3. w \in Seq(Frame) /\ Len(w) = n
    BY <1>5, <2>2
  <2> QED
    BY <1>3, <2>3 DEF w
<1>17. SocketTypes'
  BY <1>1, <1>7, <1>10, <1>14, <1>16, NothingServed DEF SocketTypes
<1>18. ActiveFits' /\ InboxFits'
  BY <1>1 DEF SocketInv, ActiveFits, InboxFits
<1>19. ChainFits'
  <2>1. chain # NoChain => chain.response <= items /\ chain.response \in Nat
    BY <1>7, <1>10 DEF SocketTypes
  <2>2. CASE end = "completed"
    BY <1>1, <1>10, <1>11, <2>1, <2>2 DEF ChainFits
  <2>3. CASE end # "completed"
    BY <1>1, <1>12, <2>3 DEF SocketInv, ChainFits
  <2> QED
    BY <2>2, <2>3
<1>20. WireFits'
  <2>1. ASSUME NEW i \in 1..n PROVE FrameFits(wire'[i], i = n, k, cache', items')
    <3>1. /\ wire'[i].kind = frames[i] /\ wire'[i].exchange = k.exchange
          /\ wire'[i].item = items'
      <4>1. wire'[i] = [kind |-> frames[i], exchange |-> k.exchange, item |-> items']
        BY <1>15
      <4> QED
        BY <4>1
    <3>2. frames[i] \in EndsOf <=> i = n
      BY <1>5
    <3>3. frames[i] \in {"completed", "incomplete"} => frames[i] = end /\ items' # 0
      BY <1>10, <3>2, SocketBounds DEF EndsOf, end
    <3>4. frames[i] = "completed" => cache'.response = items'
                                     /\ cache'.context = Append(k.input, items')
      BY <1>11, <3>3
    <3> QED
      BY <1>10, <3>1, <3>2, <3>3, <3>4 DEF FrameFits
  <2> QED
    BY <1>1, <1>7, <1>9, <1>16, <2>1 DEF WireFits, k
<1>21. CallsFit'
  <2> SUFFICES ASSUME NEW c \in ModelCalls
               PROVE  /\ RequestFits(call'[c], items', exchanges', sockets')
                      /\ Remembered(call'[c], cache') /\ Waited(call'[c], c = current', failures')
    BY DEF CallsFit
  <2>1. exchanges' \in Nat /\ sockets' \in Nat /\ exchanges <= exchanges' /\ sockets <= sockets'
    BY <1>1, <1>7, SocketNumbers
  <2>2. RequestFits(call'[c], items', exchanges', sockets') /\ Remembered(call'[c], cache')
    BY <1>1, <1>7, <1>10, <1>13, <2>1, CallsStayFit
  <2>3. Waited(call'[c], c = current', failures')
    BY <1>1, <1>7 DEF CallsFit
  <2> QED
    BY <2>2, <2>3
<1> QED
  BY <1>17, <1>18, <1>19, <1>20, <1>21 DEF SocketInv

LEMMA TailIs ==
  ASSUME NEW w \in Seq(Frame), w # << >>
  PROVE  /\ Tail(w) \in Seq(Frame) /\ Len(Tail(w)) = Len(w) - 1 /\ Len(w) \in Nat \ {0}
         /\ \A i \in 1..(Len(w) - 1) : Tail(w)[i] = w[i + 1]
         /\ Head(w) = w[1] /\ (Tail(w) # << >> => Len(w) # 1)
OBVIOUS

LEMMA HeardIs ==
  ASSUME NEW k \in CallRecord, NEW frame \in Frame
  PROVE  /\ AfterFrame(k, frame) \in CallRecord
         /\ AfterFrame(k, frame).stage = (IF frame.kind \in {"completed", "incomplete"}
                                     THEN "finishing" ELSE k.stage)
         /\ AfterFrame(k, frame).shown \subseteq k.shown \cup {frame.exchange}
         /\ AfterFrame(k, frame).reply = frame.item
         /\ AfterFrame(k, frame).complete <=> frame.kind = "completed"
         /\ AfterFrame(k, frame).aborted <=> k.aborted
         /\ AfterFrame(k, frame).input = k.input /\ AfterFrame(k, frame).chained = k.chained
         /\ AfterFrame(k, frame).previous = k.previous /\ AfterFrame(k, frame).exchange = k.exchange
         /\ AfterFrame(k, frame).socket = k.socket
<1> DEFINE shown == IF frame.kind = "created" THEN k.shown ELSE k.shown \cup {frame.exchange}
           newStage == IF frame.kind \in {"completed", "incomplete"} THEN "finishing" ELSE k.stage
           complete == (frame.kind = "completed")
           h == [k EXCEPT !.heard = TRUE, !.shown = shown, !.stage = newStage,
                          !.reply = frame.item, !.complete = complete]
<1>1. AfterFrame(k, frame) = h
  BY Zenon DEF AfterFrame, CallRecord
<1>2. frame.item \in Nat /\ frame.exchange \in Nat
  BY DEF Frame
<1>3. shown \in SUBSET Nat /\ shown \subseteq k.shown \cup {frame.exchange}
  BY <1>2, CallTypes
<1>4. newStage \in Stages
  BY CallTypes DEF Stages
<1>5. complete \in BOOLEAN
  BY Zenon
<1> HIDE DEF shown, newStage, complete
<1>6. h \in CallRecord
  BY <1>2, <1>3, <1>4, <1>5 DEF CallRecord
<1>7. /\ h.stage = newStage /\ h.shown = shown /\ h.reply = frame.item /\ h.input = k.input
      /\ h.chained = k.chained /\ h.previous = k.previous /\ h.exchange = k.exchange
      /\ h.socket = k.socket
  BY DEF CallRecord
<1>8. (h.complete <=> complete) /\ (h.aborted <=> k.aborted)
  BY DEF CallRecord
<1> HIDE DEF h
<1> QED
  BY <1>1, <1>3, <1>6, <1>7, <1>8, Zenon DEF newStage, complete

LEMMA DeliverKeeps ==
  ASSUME SocketInv, NEW c \in ModelCalls, Deliver(c)
  PROVE  SocketInv'
<1> DEFINE frame == Head(wire)
           n == Len(wire)
           ends == frame.kind \in {"completed", "incomplete"}
<1>1. active = c /\ wire # << >>
      /\ UNCHANGED <<transcript, items, sockets, exchanges, chain>>
  BY DEF Deliver
<1>2. SocketTypes /\ CallsFit /\ c # NoModelCall /\ call[c].stage = "waiting"
  BY <1>1, SocketBounds DEF SocketInv, WireFits
<1>3. wire \in Seq(Frame)
  BY <1>2 DEF SocketTypes
<1>4. /\ Tail(wire) \in Seq(Frame) /\ Len(Tail(wire)) = n - 1 /\ n \in Nat \ {0}
      /\ \A i \in 1..(n - 1) : Tail(wire)[i] = wire[i + 1]
      /\ frame = wire[1] /\ (Tail(wire) # << >> => n # 1)
  BY <1>1, <1>3, TailIs
<1>5. \A i \in 1..n : FrameFits(wire[i], i = n, call[c], cache, items)
  BY <1>1 DEF SocketInv, WireFits
<1>6. FrameFits(frame, 1 = n, call[c], cache, items) /\ frame \in Frame
  <2> HIDE DEF frame, n
  <2>1. 1 \in 1..n
    BY <1>4
  <2>2. FrameFits(wire[1], 1 = n, call[c], cache, items)
    BY <1>5, <2>1
  <2>3. wire[1] \in Frame
    BY <1>2, <2>1, FrameTypes DEF n
  <2> QED
    BY <1>4, <2>2, <2>3
<1>7. /\ call[c] \in CallRecord /\ active = current /\ ~call[c].aborted /\ failures < 2
      /\ RequestFits(call[c], items, exchanges, sockets) /\ Remembered(call[c], cache)
  BY <1>1, <1>2, ActiveIs
<1>8. CASE frame.kind \in {"rejected", "failed"}
  <2>1. Error(c, frame.kind = "rejected")
    BY <1>8, Zenon DEF Deliver
  <2>2. (frame.kind = "rejected") \in BOOLEAN
    BY Zenon
  <2>3. CASE frame.kind = "failed"
    <3>1. Returned
      BY <2>3, Zenon DEF Deliver
    <3>2. failures' \in 0..2 /\ (frame.kind = "rejected" => failures' = failures)
      <4> HIDE DEF frame
      <4> QED
        BY <1>2, <2>3, <3>1 DEF SocketTypes, Returned
    <3> QED
      BY <1>1, <2>1, <2>2, <3>2, ErrorKeeps, Zenon
  <2>4. CASE frame.kind = "rejected"
    <3>1. failures' = failures
      BY <2>4, Zenon DEF Deliver
    <3>2. failures' \in 0..2 /\ (frame.kind = "rejected" => failures' = failures)
      BY <1>2, <3>1 DEF SocketTypes
    <3> QED
      BY <1>1, <2>1, <2>2, <3>2, ErrorKeeps, Zenon
  <2> QED
    BY <1>8, <2>3, <2>4
<1>9. CASE frame.kind \notin {"rejected", "failed"}
  <2> DEFINE k == AfterFrame(call[c], frame)
  <2>1. /\ wire' = Tail(wire) /\ call' = [call EXCEPT ![c] = k]
        /\ active' = IF ends THEN NoModelCall ELSE active
        /\ UNCHANGED <<current, socket, inbox, cache>> /\ failures' = failures
    BY <1>9, Zenon DEF Deliver
  <2>2. /\ k \in CallRecord
        /\ k.stage = (IF ends THEN "finishing" ELSE call[c].stage)
        /\ k.shown \subseteq call[c].shown \cup {frame.exchange}
        /\ k.reply = frame.item
        /\ k.complete <=> frame.kind = "completed"
        /\ k.aborted <=> call[c].aborted
        /\ k.input = call[c].input /\ k.chained = call[c].chained
        /\ k.previous = call[c].previous /\ k.exchange = call[c].exchange
        /\ k.socket = call[c].socket
    BY <1>6, <1>7, HeardIs, Zenon
  <2> HIDE DEF frame, k, n
  <2>3. ends \/ n # 1
    BY <1>6, <1>9 DEF FrameFits, EndsOf
  <2>4. ends => n = 1
    BY <1>6 DEF FrameFits, EndsOf
  <2>5. frame.item <= items /\ frame.item \in Nat /\ (ends => frame.item # 0)
        /\ frame.exchange = call[c].exchange
    BY <1>6 DEF FrameFits, Frame
  <2> HIDE DEF ends
  <2>6. call' \in [ModelCalls -> CallRecord] /\ call'[c] = k
        /\ \A d \in ModelCalls : d # c => call'[d] = call[d]
    BY <1>2, <2>1, <2>2 DEF SocketTypes
  <2>7. SocketTypes'
    <3>1. active' \in ModelCalls \cup {NoModelCall}
      BY <1>1, <2>1
    <3> QED
      BY <1>1, <1>2, <1>4, <2>1, <2>6, <3>1 DEF SocketTypes
  <2>8. ActiveFits'
    BY <1>1, <1>2, <1>7, <2>1, <2>2, <2>6 DEF ActiveFits
  <2>9. inbox = NoRequest
    BY <1>1 DEF SocketInv, InboxFits
  <2>10. InboxFits' /\ ChainFits'
    BY <1>1, <2>1, <2>9 DEF SocketInv, InboxFits, ChainFits
  <2>11. WireFits'
    <3> SUFFICES ASSUME wire' # << >>
                 PROVE  /\ active' # NoModelCall /\ call'[active'].stage = "waiting"
                        /\ \A i \in 1..Len(wire') :
                             FrameFits(wire'[i], i = Len(wire'), call'[active'], cache', items')
      BY DEF WireFits
    <3>1. n # 1
      BY <1>4, <2>1
    <3>2. ~ends /\ active' = c /\ call'[active'] = k /\ k.stage = "waiting"
      BY <1>1, <1>2, <2>1, <2>2, <2>4, <2>6, <3>1
    <3>3. ASSUME NEW i \in 1..Len(wire')
          PROVE  FrameFits(wire'[i], i = Len(wire'), k, cache', items')
      <4>1. Len(wire') = n - 1 /\ wire'[i] = wire[i + 1] /\ i + 1 \in 1..n
        BY <1>4, <2>1
      <4>2. FrameFits(wire[i + 1], i + 1 = n, call[c], cache, items)
        BY <1>5, <4>1
      <4>3. (i + 1 = n) <=> (i = Len(wire'))
        BY <1>4, <4>1
      <4> QED
        BY <1>1, <2>1, <2>2, <4>1, <4>2, <4>3 DEF FrameFits
    <3> QED
      BY <1>2, <3>2, <3>3
  <2>12. CallsFit'
    <3>1. items' \in Nat /\ exchanges' \in Nat /\ sockets' \in Nat /\ items <= items'
          /\ exchanges <= exchanges' /\ sockets <= sockets'
      BY <1>1, NumbersStay
    <3>2. CacheGrows
      BY <2>1 DEF CacheGrows
    <3>3. RequestFits(k, items, exchanges, sockets)
      <4>1. k.shown \subseteq {k.exchange} \ {0}
        <5>1. call[c].exchange # 0 /\ call[c].shown \subseteq {call[c].exchange} \ {0}
          BY <1>2, <1>7 DEF RequestFits
        <5> QED
          BY <2>2, <2>5, <5>1
      <4>2. k.stage \in {"waiting", "finishing"}
        BY <1>2, <2>2
      <4>3. k.stage = "finishing" => k.reply \in 1..items
        <5>1. k.stage = "finishing" => ends
          BY <1>2, <2>2
        <5> QED
          BY <1>2, <2>2, <2>5, <5>1, SocketNumbers
      <4>4. k.chained <= Len(k.input) /\ (k.chained # 0 => k.previous # 0) /\ k.previous <= items
            /\ k.exchange <= exchanges /\ k.socket \in 1..sockets /\ k.exchange # 0
        BY <1>2, <1>7, <2>2 DEF RequestFits
      <4> QED
        BY <4>1, <4>2, <4>3, <4>4 DEF RequestFits
    <3>4. Remembered(k, cache)
      <4>1. ends /\ k.complete => cache.context = Append(k.input, k.reply)
        BY <1>6, <2>2 DEF FrameFits
      <4> QED
        BY <1>2, <1>7, <2>2, <4>1 DEF Remembered
    <3>5. Waited(k, c = current', failures')
      BY <1>1, <1>2, <1>7, <2>1, <2>2 DEF Waited
    <3>6. \A d \in ModelCalls : d # c /\ Waited(call[d], d = current, failures)
                                => Waited(call[d], d = current', failures')
      BY <1>1, <2>1
    <3> QED
      BY <1>1, <1>2, <2>1, <2>6, <3>1, <3>2, <3>3, <3>4, <3>5, <3>6, CallsFitAgain
  <2> QED
    BY <2>7, <2>8, <2>10, <2>11, <2>12 DEF SocketInv
<1> QED
  BY <1>8, <1>9

LEMMA FinishKeeps ==
  ASSUME SocketInv, NEW c \in ModelCalls, Finish(c)
  PROVE  SocketInv'
<1>1. /\ call[c].stage = "finishing" /\ Return(c) /\ failures' \in {failures, 0}
      /\ transcript' \in {transcript, Append(call[c].input, call[c].reply)}
      /\ UNCHANGED <<items, active, socket, sockets, exchanges, inbox, cache, wire>>
  BY DEF Finish, Returned, service
<1>2. /\ call[c] \in CallRecord /\ RequestFits(call[c], items, exchanges, sockets)
      /\ Remembered(call[c], cache)
  BY CallIs
<1>3. SocketTypes /\ CallsFit /\ active # c
  BY <1>1, ActiveIs, SocketBounds DEF SocketInv
<1>4. /\ items' \in Nat /\ exchanges' \in Nat /\ sockets' \in Nat
      /\ items <= items' /\ exchanges <= exchanges' /\ sockets <= sockets'
  BY <1>1, NumbersStay
<1> DEFINE whole == Append(call[c].input, call[c].reply)
<1>5. call[c].reply \in 1..items /\ call[c].reply \in Items /\ call[c].socket \in 1..sockets
  <2>1. call[c].reply \in 1..items /\ call[c].socket \in 1..sockets
    BY <1>1, <1>2 DEF RequestFits
  <2> QED
    BY <1>3, <2>1, SocketBounds DEF SocketTypes, Items
<1>6. whole \in Inputs /\ whole # << >>
  BY <1>2, <1>5, AppendItem, CallTypes
<1>7. call[c].complete /\ cache.response = call[c].reply => cache.context = whole
  BY <1>1, <1>2 DEF Remembered
<1>8. transcript' \in Inputs
  BY <1>1, <1>3, <1>6 DEF SocketTypes
<1>9. \/ chain' = chain
      \/ /\ call[c].complete /\ call[c].socket = socket
         /\ chain' = [baseline |-> whole, response |-> call[c].reply, socket |-> socket]
  BY Zenon DEF Finish
<1> HIDE DEF whole
<1>10. /\ call' \in [ModelCalls -> CallRecord]
       /\ \A d \in ModelCalls : d # c => call'[d] = call[d] /\ (d = current' <=> d = current)
       /\ current' \in ModelCalls \cup {NoModelCall}
  BY <1>1, <1>3, ReturnIs
<1>11. active # NoModelCall => active \in ModelCalls /\ call'[active] = call[active]
  BY <1>3, <1>10 DEF SocketTypes
<1>12. /\ CacheGrows /\ ActiveFits' /\ InboxFits' /\ WireFits'
  <2>1. CacheGrows
    BY <1>1 DEF CacheGrows
  <2>2. ActiveFits'
    BY <1>1, <1>3, <1>10, <1>11 DEF SocketInv, ActiveFits
  <2>3. InboxFits'
    BY <1>1, <1>11 DEF SocketInv, InboxFits, SentFits
  <2>4. WireFits'
    BY <1>1, <1>11 DEF SocketInv, WireFits
  <2> QED
    BY <2>1, <2>2, <2>3, <2>4
<1>13. CallsFit'
  BY <1>1, <1>3, <1>4, <1>12, ReturnedFits
<1>14. chain' # NoChain => /\ chain' \in ChainRecord /\ chain'.response \in 1..items
                           /\ chain'.socket \in 1..sockets /\ chain'.baseline # << >>
                           /\ cache.response = chain'.response
                              => cache.context = chain'.baseline
  <2>1. CASE chain' = chain
    BY <1>3, <2>1 DEF SocketInv, SocketTypes, ChainFits
  <2>2. CASE /\ call[c].complete /\ call[c].socket = socket
             /\ chain' = [baseline |-> whole, response |-> call[c].reply, socket |-> socket]
    <3>1. call[c].reply \in Nat /\ socket \in Nat
      BY <1>2, <1>3, CallTypes, SocketNumbers
    <3> QED
      BY <1>5, <1>6, <1>7, <2>2, <3>1 DEF ChainRecord
  <2> QED
    BY <1>9, <2>1, <2>2
<1>15. SocketTypes'
  BY <1>1, <1>3, <1>8, <1>10, <1>14 DEF SocketTypes
<1>16. ChainFits'
  BY <1>1, <1>14 DEF ChainFits
<1> QED
  BY <1>12, <1>13, <1>15, <1>16 DEF SocketInv

LEMMA SocketBegins ==
  SocketInit => SocketInv
<1> SUFFICES ASSUME SocketInit PROVE SocketInv
  OBVIOUS
<1>1. /\ transcript = << >> /\ items = 0 /\ current = NoModelCall
      /\ call = [c \in ModelCalls |-> NotCalling] /\ active = NoModelCall
      /\ socket = 0 /\ sockets = 0 /\ exchanges = 0 /\ chain = NoChain
      /\ inbox = NoRequest /\ cache = NoResponse /\ wire = << >> /\ failures = 0
  BY DEF SocketInit
<1>2. SocketTypes
  <2>1. call \in [ModelCalls -> CallRecord] /\ transcript \in Inputs
    BY <1>1, NotCallingIs DEF Inputs
  <2>2. items \in 0..MaxItems /\ sockets \in 0..MaxSockets /\ exchanges \in 0..MaxExchanges
        /\ socket \in 0..sockets /\ failures \in 0..2
    BY <1>1, SocketBounds
  <2> QED
    BY <1>1, <2>1, <2>2, NothingServed DEF SocketTypes
<1>3. ActiveFits /\ InboxFits /\ WireFits /\ ChainFits
  BY <1>1 DEF ActiveFits, InboxFits, WireFits, ChainFits
<1>4. ASSUME NEW c \in ModelCalls
      PROVE  /\ RequestFits(call[c], items, exchanges, sockets)
             /\ Remembered(call[c], cache) /\ Waited(call[c], c = current, failures)
  <2>1. call[c] = NotCalling /\ ~(c = current)
    BY <1>1, SocketBounds
  <2>2. /\ RequestFits(NotCalling, items, exchanges, sockets)
        /\ Remembered(NotCalling, cache) /\ Waited(NotCalling, FALSE, failures)
    BY <1>1, NotCallingFits
  <2> QED
    BY <2>1, <2>2 DEF Waited
<1>5. CallsFit
  BY <1>4 DEF CallsFit
<1> QED
  BY <1>2, <1>3, <1>5 DEF SocketInv

LEMMA SocketKept ==
  SocketInv /\ [SocketNext]_socketVars => SocketInv'
<1>1. ASSUME SocketInv, SocketNext PROVE SocketInv'
  <2>1. ASSUME NEW c \in ModelCalls,
               \/ StartCall(c) \/ AbortCall(c) \/ HttpEnds(c) \/ Built(c) \/ Replay(c)
               \/ Connected(c) \/ Deliver(c) \/ Finish(c) \/ FirstEventTimesOut(c)
               \/ TransportFails(c)
        PROVE  SocketInv'
    BY <1>1, <2>1, StartCallKeeps, AbortCallKeeps, HttpEndsKeeps, BuiltKeeps, ReplayKeeps,
       ConnectedKeeps, DeliverKeeps, FinishKeeps, FirstEventTimesOutKeeps,
       TransportFailsKeeps, Zenon
  <2>2. ASSUME Say \/ Serve \/ IdleCloses PROVE SocketInv'
    BY <1>1, <2>2, SayKeeps, ServeKeeps, IdleClosesKeeps, Zenon
  <2> QED
    BY <1>1, <2>1, <2>2, Zenon DEF SocketNext
<1>2. ASSUME SocketInv, UNCHANGED socketVars PROVE SocketInv'
  <2>1. UNCHANGED <<transcript, items, current, call, active, socket, sockets, exchanges, chain,
                    inbox, cache, wire, failures>>
    BY <1>2 DEF socketVars
  <2>2. SocketTypes'
    BY <1>2, <2>1 DEF SocketInv, SocketTypes
  <2>3. CallsFit'
    BY <1>2, <2>1 DEF SocketInv, CallsFit
  <2>4. ActiveFits' /\ InboxFits' /\ WireFits' /\ ChainFits'
    BY <1>2, <2>1 DEF SocketInv, ActiveFits, InboxFits, SentFits, WireFits, ChainFits
  <2> QED
    BY <2>2, <2>3, <2>4 DEF SocketInv
<1> QED
  BY <1>1, <1>2

LEMMA SocketFits == SocketSpec => []SocketInv
BY SocketBegins, SocketKept, PTL DEF SocketSpec

\* The session, its calls and the service have their types.
THEOREM SocketTyped == SocketSpec => []SocketTypeOK
<1>1. ASSUME SocketInv PROVE SocketTypeOK
  <2>1. SocketTypes /\ items \in Nat /\ exchanges \in Nat
    BY <1>1, SocketNumbers DEF SocketInv
  <2>2. ASSUME NEW c \in ModelCalls
        PROVE  /\ call[c].stage \in {"none", "building", "http", "connecting", "waiting",
                                     "replaying", "finishing"}
               /\ call[c].shown \subseteq 1..exchanges
               /\ call[c].chained \in 0..Len(call[c].input)
    <3> DEFINE k == call[c]
    <3>1. k \in CallRecord /\ RequestFits(k, items, exchanges, sockets)
      BY <1>1, CallIs
    <3> HIDE DEF k
    <3>2. k.stage \in Stages /\ k.chained \in Nat /\ k.exchange \in Nat /\ Len(k.input) \in Nat
      BY <3>1, CallTypes
    <3>3. k.chained \in 0..Len(k.input) /\ k.shown \subseteq 1..exchanges
      BY <2>1, <3>1, <3>2 DEF RequestFits
    <3> QED
      BY <3>2, <3>3 DEF Stages, k
  <2>3. chain # NoChain => chain.response \in 1..items /\ chain.socket \in 1..sockets
    BY <2>1 DEF SocketTypes
  <2>4. cache.response \in 0..items /\ inbox.previous \in 0..items
    BY <2>1 DEF SocketTypes
  <2>5. transcript \in Seq(1..MaxItems)
    BY <2>1 DEF SocketTypes, Inputs, Items
  <2> QED
    BY <2>1, <2>2, <2>3, <2>4, <2>5 DEF SocketTypes, SocketTypeOK
<1>2. SocketInv => SocketTypeOK
  BY <1>1
<1> QED
  BY <1>2, SocketFits, PTL

\* With what the service remembers, what it is sent is the whole input of the call that waits
\* for it; what a call shows is of its last exchange; and the call the conversation waits for
\* is never refused because of another one's exchange.
THEOREM ModelReadsTheInput == SocketSpec => []ModelIsAsked
<1>1. SocketInv => WholeInput
  BY InputIsWhole
<1>2. SocketInv => OneExchange
  <2> SUFFICES ASSUME SocketInv, NEW c \in ModelCalls
               PROVE  call[c].shown \subseteq {call[c].exchange}
    BY DEF OneExchange
  <2> QED
    BY CallIs DEF RequestFits
<1>3. SocketInv => NotRefused
  <2> SUFFICES ASSUME SocketInv, NEW c \in ModelCalls, c = current, active # NoModelCall,
                      call[c].stage \in {"building", "replaying"}
               PROVE  FALSE
    BY DEF NotRefused
  <2> QED
    BY ActiveIs
<1>4. SocketInv => ModelIsAsked
  BY <1>1, <1>2, <1>3 DEF ModelIsAsked
<1> QED
  BY <1>4, SocketFits, PTL

-----------------------------------------------------------------------------
\* Connections to MCP servers

\* How far an operation is says which client it has.
StagesFit ==
  \A o \in Operations :
    \/ operation[o] = NoOperation
    \/ /\ operation[o].stage = "closing" /\ operation[o].client = 0
       /\ operation[o].kind \in {"sync", "login", "logout"}
       /\ operation[o].kind = "login" => operation[o].config \in Configs
    \/ /\ operation[o].stage = "awaiting" /\ operation[o].kind = "sync"
       /\ operation[o].client = 0
    \/ /\ operation[o].stage = "later" /\ operation[o].kind = "sync"
       /\ operation[o].client \in Connections
       /\ client[operation[o].client].config # operation[o].config
    \/ /\ operation[o].stage = "connecting" /\ operation[o].kind = "sync"
       /\ operation[o].config \in Configs /\ operation[o].client = 0
       /\ attempts[operation[o].config] # 0
    \/ /\ operation[o].stage = "asking" /\ operation[o].kind = "login"
       /\ operation[o].config \in Configs /\ operation[o].client \in Connections
       /\ client[operation[o].client].state = "opening"

\* A client is being connected for its sign-in alone, or for those that share the attempt.
ClientsAreOwned ==
  /\ \A o \in Operations :
       operation[o].stage = "asking" =>
         /\ \A p \in Operations :
              operation[p].stage = "asking" /\ operation[p].client = operation[o].client => p = o
         /\ \A config \in Configs : attempts[config] # operation[o].client
  /\ \A config \in Configs :
       attempts[config] # 0 =>
         /\ Trying(attempts[config]) /\ client[attempts[config]].config = config
         /\ \E o \in Operations : operation[o].stage = "connecting" /\ operation[o].config = config
  /\ \A id \in Connections :
       Trying(id) => \/ \E o \in Operations :
                          operation[o].stage = "asking" /\ operation[o].client = id
                     \/ \E config \in Configs : attempts[config] = id

\* Numbers of clients that are not made are new.
NumbersAreNew ==
  /\ connection <= made
  /\ \A config \in Configs : attempts[config] <= made
  /\ \A o \in Operations : operation[o].client <= made
  /\ \A id \in Connections :
       IF id <= made THEN client[id].config \in Configs ELSE client[id] = NoClient

\* What runs at once wants the same, and then one thing happens at a time.
WantsAgree ==
  \A o, p \in Operations :
    InProgress(o) /\ InProgress(p) =>
      /\ operation[o].config = operation[p].config
      /\ o # p => operation[o].kind = "sync" /\ operation[p].kind = "sync"

OneAtATime ==
  /\ \A id \in Connections : client[id].state = "open" => id = connection
  /\ \A id \in Connections : Trying(id) => connection = 0
  /\ \A o \in Operations :
       /\ InProgress(o)
       /\ \/ operation[o].kind # "sync"
          \/ operation[o].config = Absent /\ operation[o].stage # "later"
       => connection = 0

\* Who finds nothing to close here, and wants nothing, leaves the status alone.
Reports(o) == InProgress(o) /\ ~(operation[o].stage = "awaiting" /\ operation[o].config = Absent)
StatusFits ==
  /\ connection # 0 => lastStatus = "connected"
  /\ connection = 0 /\ lastStatus = "connected" => \E o \in Operations : Reports(o)

\* What is configured is connected from the first time on, and nobody wants anything else.
ServedFits ==
  served # "no" =>
    /\ served = "once" /\ connection # 0 /\ client[connection].config = configured
    /\ \A o \in Operations :
         InProgress(o) => operation[o].config = configured /\ operation[o].kind = "sync"

Facts == StagesFit /\ ClientsAreOwned /\ NumbersAreNew /\ NotClosed
Alone == WantsAgree /\ OneAtATime /\ StatusFits
McpInv == McpTypeOK /\ Facts /\ (~crossed => Alone) /\ (~crossed /\ ~behind => ServedFits)
McpAfter == Facts' /\ (~crossed' => Alone') /\ (~crossed' /\ ~behind' => ServedFits')

-----------------------------------------------------------------------------
\* What the helpers of the actions change.

LEMMA DoneIs ==
  ASSUME McpTypeOK, NEW o \in Operations, Done(o)
  PROVE  operation' = [operation EXCEPT ![o] = NoOperation]
         /\ operation'[o] = NoOperation
         /\ \A p \in Operations : p # o => operation'[p] = operation[p]
BY DEF McpTypeOK, Done

LEMMA WithIs ==
  ASSUME McpTypeOK, NEW o \in Operations, NEW kind, NEW at, NEW config, NEW id,
         With(o, kind, at, config, id)
  PROVE  /\ operation'[o].kind = kind /\ operation'[o].stage = at
         /\ operation'[o].config = config /\ operation'[o].client = id
         /\ \A p \in Operations : p # o => operation'[p] = operation[p]
BY DEF With, McpTypeOK

LEMMA MakeIs ==
  ASSUME McpTypeOK, NEW config \in Configs, Make(config)
  PROVE  /\ made + 1 \in Connections /\ made' = made + 1 /\ made' \in 0..MaxConnections
         /\ client'[made + 1] = [config |-> config, state |-> "opening"]
         /\ client'[made + 1].config = config /\ client'[made + 1].state = "opening"
         /\ \A id \in Connections : id # made + 1 => client'[id] = client[id]
BY McpConstants DEF McpTypeOK, Make, Connections

LEMMA BecomesIs ==
  ASSUME McpTypeOK, NEW id \in Connections, NEW state, Becomes(id, state)
  PROVE  /\ client'[id].state = state /\ client'[id].config = client[id].config
         /\ \A i \in Connections : i # id => client'[i] = client[i]
BY DEF Becomes, McpTypeOK

\* Fields of an operation and of a client.
LEMMA Fields ==
  ASSUME McpTypeOK
  PROVE  /\ NoOperation.kind = "none" /\ NoOperation.stage = "none"
         /\ NoOperation.config = Absent /\ NoOperation.client = 0
         /\ NoClient.config = Absent /\ NoClient.state = "none"
         /\ connection \in Nat /\ made \in Nat
         /\ \A id \in Connections : id \in Nat /\ id # 0
         /\ \A config \in Configs : attempts[config] \in Nat
                                    /\ (attempts[config] # 0 => attempts[config] \in Connections)
         /\ \A o \in Operations : operation[o].client \in Nat
BY McpConstants DEF McpTypeOK, NoOperation, NoClient, Connections

-----------------------------------------------------------------------------
\* Types

LEMMA TypeStep ==
  ASSUME McpTypeOK, [McpNext]_mcpVars
  PROVE  McpTypeOK'
<1>. DEFINE Record == [kind : {"none", "sync", "login", "logout"},
                       stage : {"none", "awaiting", "later", "closing", "connecting", "asking"},
                       config : Wanted, client : {0} \cup Connections]
            Clients == [Connections -> [config : Wanted, state : ClientStates]]
<1>1. ASSUME NEW o \in Operations, NEW kind \in {"none", "sync", "login", "logout"},
             NEW at \in {"none", "awaiting", "later", "closing", "connecting", "asking"},
             NEW config \in Wanted, NEW id \in {0} \cup Connections,
             With(o, kind, at, config, id)
      PROVE  operation' \in [Operations -> Record]
  BY <1>1 DEF McpTypeOK, With
<1>2. ASSUME NEW o \in Operations, Done(o)
      PROVE  operation' \in [Operations -> Record]
  BY <1>2 DEF McpTypeOK, Done, NoOperation, Wanted
<1>20. ASSUME made < MaxConnections, made' = made + 1
       PROVE  made + 1 \in Connections /\ made' \in 0..MaxConnections
  BY <1>20, McpConstants DEF McpTypeOK, Connections
<1>3. ASSUME NEW config \in Wanted, Make(config)
      PROVE  client' \in Clients /\ made + 1 \in Connections /\ made' \in 0..MaxConnections
  <2>1. made + 1 \in Connections /\ made' \in 0..MaxConnections
    BY <1>3, <1>20 DEF Make
  <2>2. [config |-> config, state |-> "opening"] \in [config : Wanted, state : ClientStates]
    BY DEF ClientStates
  <2>. QED
    BY <1>3, <2>1, <2>2 DEF McpTypeOK, Make
<1>4. ASSUME NEW id, NEW state \in ClientStates, Becomes(id, state)
      PROVE  client' \in Clients
  <2>1. client \in Clients
    BY DEF McpTypeOK
  <2>2. client' = [client EXCEPT ![id].state = state]
    BY <1>4, Zenon DEF Becomes
  <2>3. \A c \in Connections : [client[c] EXCEPT !.state = state]
                               \in [config : Wanted, state : ClientStates]
    BY <2>1, <1>4
  <2>. QED
    BY <2>1, <2>2, <2>3
<1>5. ASSUME NEW o \in Operations, NEW config \in Wanted, ConnectShared(o, config)
      PROVE  /\ operation' \in [Operations -> Record] /\ client' \in Clients
             /\ made' \in 0..MaxConnections /\ attempts' \in [Configs -> {0} \cup Connections]
             /\ lastStatus' \in {"unknown", "connected", "error"}
  <2>1. CASE Done(o) /\ UNCHANGED <<client, made, attempts>>
    BY <1>2, <1>5, <2>1 DEF ConnectShared, McpTypeOK
  <2>2. CASE With(o, "sync", "connecting", config, 0) /\ UNCHANGED lastStatus
             /\ UNCHANGED <<client, made, attempts>>
    BY <1>1, <2>2 DEF McpTypeOK
  <2>3. CASE /\ With(o, "sync", "connecting", config, 0) /\ UNCHANGED lastStatus
             /\ Make(config) /\ attempts' = [attempts EXCEPT ![config] = made + 1]
    BY <1>1, <1>3, <2>3 DEF McpTypeOK
  <2>. QED
    BY <1>5, <2>1, <2>2, <2>3 DEF ConnectShared
<1>6. ASSUME NEW o \in Operations, BeginSync(o)
      PROVE  McpTypeOK'
  <2>0. configured \in Wanted /\ crossed' \in BOOLEAN /\ connection \in {0} \cup Connections
        /\ UNCHANGED <<configured, changes, behind, served>>
    BY <1>6 DEF BeginSync, McpTypeOK, Crosses
  <2>1. CASE ConnectShared(o, configured) /\ UNCHANGED connection
    BY <1>5, <2>0, <2>1 DEF McpTypeOK
  <2>2. CASE /\ Dispose /\ With(o, "sync", "closing", configured, 0)
             /\ UNCHANGED <<made, attempts, lastStatus>>
    <3>1. operation' \in [Operations -> Record]
      BY <2>0, <2>2, <1>1
    <3>2. client' \in Clients /\ connection' = 0
      BY <2>2, <1>4 DEF Dispose, ClientStates
    <3>. QED
      BY <2>0, <2>2, <3>1, <3>2 DEF McpTypeOK
  <2>3. CASE /\ \/ With(o, "sync", "awaiting", configured, 0)
                \/ With(o, "sync", "later", configured, connection)
             /\ UNCHANGED <<connection, client, made, attempts, lastStatus>>
    <3>1. operation' \in [Operations -> Record]
      BY <2>0, <2>3, <1>1
    <3>. QED
      BY <2>0, <2>3, <3>1 DEF McpTypeOK
  <2>. QED
    BY <1>6, <2>1, <2>2, <2>3 DEF BeginSync
<1>7. ASSUME NEW o \in Operations, GoOn(o)
      PROVE  McpTypeOK'
  BY <1>7, <1>5 DEF GoOn, McpTypeOK, histories
<1>8. ASSUME NEW o \in Operations, CloseLater(o)
      PROVE  McpTypeOK'
  <2>0. operation[o].config \in Wanted /\ behind' \in BOOLEAN
        /\ UNCHANGED <<configured, changes, crossed, served>>
    BY <1>8 DEF CloseLater, McpTypeOK
  <2>1. CASE ConnectShared(o, operation[o].config) /\ UNCHANGED connection
    BY <1>5, <2>0, <2>1 DEF McpTypeOK
  <2>2. CASE /\ Dispose /\ With(o, "sync", "closing", operation[o].config, 0)
             /\ UNCHANGED <<made, attempts, lastStatus>>
    <3>1. operation' \in [Operations -> Record]
      BY <2>0, <2>2, <1>1
    <3>2. client' \in Clients /\ connection' = 0
      BY <2>2, <1>4 DEF Dispose, ClientStates
    <3>. QED
      BY <2>0, <2>2, <3>1, <3>2 DEF McpTypeOK
  <2>. QED
    BY <1>8, <2>1, <2>2 DEF CloseLater
<1>9. ASSUME NEW config \in Configs, Opened(config) \/ OpenFails(config)
      PROVE  McpTypeOK'
  <2>1. EndAttempt(config) /\ attempts[config] \in Connections
    BY <1>9 DEF Opened, OpenFails, EndAttempt, McpTypeOK
  <2>2. /\ attempts' \in [Configs -> {0} \cup Connections]
        /\ operation' \in [Operations -> Record]
        /\ UNCHANGED <<configured, changes, made, crossed, behind>>
    BY <2>1 DEF EndAttempt, McpTypeOK, NoOperation, Wanted
  <2>3. client' \in Clients
    BY <1>9, <1>4 DEF Opened, OpenFails, ClientStates
  <2>4. connection' \in {0} \cup Connections /\ served' \in {"no", "once", "again"}
        /\ lastStatus' \in {"unknown", "connected", "error"}
    BY <1>9, <2>1 DEF Opened, OpenFails, McpTypeOK
  <2>. QED
    BY <2>2, <2>3, <2>4 DEF McpTypeOK
<1>10. ASSUME NEW config \in Configs, Refuse(config)
       PROVE  McpTypeOK'
  <2>1. client' \in Clients
    BY <1>10, <1>4 DEF Refuse, ClientStates
  <2>. QED
    BY <1>10, <2>1 DEF Refuse, McpTypeOK, histories
<1>11. ASSUME NEW config \in Configs, OpenAgain(config)
       PROVE  McpTypeOK'
  <2>1. made + 1 \in Connections /\ made' \in 0..MaxConnections
    BY <1>11, <1>20 DEF OpenAgain
  <2>2. PICK state \in {"closed", "left"} :
          client' = [client EXCEPT ![attempts[config]].state = state,
                                   ![made + 1] = [config |-> config, state |-> "retrying"]]
    BY <1>11 DEF OpenAgain
  <2>3. [config |-> config, state |-> "retrying"] \in [config : Wanted, state : ClientStates]
    BY DEF Wanted, ClientStates
  <2>4. client \in Clients
    BY DEF McpTypeOK
  <2>5. \A c \in Connections : [client[c] EXCEPT !.state = state]
                               \in [config : Wanted, state : ClientStates]
    BY <2>4 DEF ClientStates
  <2>6. [client EXCEPT ![attempts[config]].state = state] \in Clients
    BY <2>4, <2>5
  <2>7. client' \in Clients
    BY <2>1, <2>2, <2>3, <2>6
  <2>8. attempts' \in [Configs -> {0} \cup Connections]
    BY <1>11, <2>1 DEF OpenAgain, McpTypeOK
  <2>. QED
    BY <1>11, <2>1, <2>7, <2>8 DEF OpenAgain, McpTypeOK, histories
<1>12. ASSUME NEW o \in Operations, NEW kind \in {"login", "logout"}, BeginOther(o, kind)
       PROVE  McpTypeOK'
  <2>1. operation' \in [Operations -> Record] /\ crossed' \in BOOLEAN
    BY <1>12, <1>1 DEF BeginOther, McpTypeOK, Crosses
  <2>2. client' \in Clients
    BY <1>12, <1>4 DEF BeginOther, Dispose, McpTypeOK, ClientStates
  <2>. QED
    BY <1>12, <2>1, <2>2 DEF BeginOther, Dispose, McpTypeOK
<1>13. ASSUME NEW o \in Operations, AskUser(o)
       PROVE  McpTypeOK'
  <2>1. operation[o].config \in Wanted
    BY DEF McpTypeOK
  <2>2. operation' \in [Operations -> Record]
    BY <1>13, <2>1, <1>1, <1>3 DEF AskUser
  <2>. QED
    BY <1>13, <2>1, <2>2, <1>3 DEF AskUser, McpTypeOK, histories
<1>14. ASSUME NEW o \in Operations, LoggedIn(o) \/ LoginFails(o) \/ LoggedOut(o)
       PROVE  McpTypeOK'
  <2>1. operation' \in [Operations -> Record]
    BY <1>14, <1>2 DEF LoggedIn, LoginFails, LoggedOut
  <2>2. client' \in Clients
    BY <1>14, <1>4 DEF LoggedIn, LoginFails, LoggedOut, McpTypeOK, ClientStates
  <2>. QED
    BY <1>14, <2>1, <2>2 DEF LoggedIn, LoginFails, LoggedOut, McpTypeOK, histories
<1>15. ASSUME NEW config \in Wanted, Configure(config)
       PROVE  McpTypeOK'
  BY <1>15, McpConstants DEF Configure, McpTypeOK
<1>16. CASE ServerEnds
  BY <1>16, <1>4 DEF ServerEnds, McpTypeOK, histories, ClientStates
<1>17. CASE UNCHANGED mcpVars
  BY <1>17 DEF mcpVars, histories, McpTypeOK
<1>. QED
  BY <1>6, <1>7, <1>8, <1>9, <1>10, <1>11, <1>12, <1>13, <1>14, <1>15, <1>16, <1>17 DEF McpNext

LEMMA McpInitTyped ==
  ASSUME McpInit
  PROVE  McpTypeOK
<1>1. 0 \in 0..MaxChanges /\ 0 \in 0..MaxConnections
  BY McpConstants
<1>2. NoClient \in [config : Wanted, state : ClientStates]
  BY DEF NoClient, Wanted, ClientStates
<1>3. NoOperation \in [kind : {"none", "sync", "login", "logout"},
                       stage : {"none", "awaiting", "later", "closing", "connecting", "asking"},
                       config : Wanted, client : {0} \cup Connections]
  BY DEF NoOperation, Wanted
<1>4. behind \in BOOLEAN /\ crossed \in BOOLEAN /\ served \in {"no", "once", "again"}
  BY DEF McpInit
<1>. QED
  BY <1>1, <1>2, <1>3, <1>4 DEF McpInit, McpTypeOK, Wanted

\* The manager's state is typed.
THEOREM McpTyped == McpSpec => []McpTypeOK
<1>1. ASSUME McpInit
      PROVE  McpTypeOK
  BY <1>1, McpInitTyped
<1>2. McpTypeOK /\ [McpNext]_mcpVars => McpTypeOK'
  BY TypeStep
<1>. QED
  BY <1>1, <1>2, PTL DEF McpSpec

-----------------------------------------------------------------------------
\* The invariant, action by action.

\* Which client an operation has, by its stage; and who is not in progress has none.
LEMMA ClientsOf ==
  ASSUME McpTypeOK, StagesFit, NEW o \in Operations
  PROVE  /\ operation[o].stage \in {"none", "awaiting", "closing", "connecting"} =>
              operation[o].client = 0
         /\ operation[o].stage = "none" => operation[o] = NoOperation
         /\ InProgress(o) <=> operation[o].stage # "none"
         /\ ~InProgress(o) => operation[o] = NoOperation
BY Fields DEF StagesFit, InProgress

\* Connecting anew, or sharing what is there.
LEMMA ConnectSharedStep ==
  ASSUME McpTypeOK, Facts, NEW o \in Operations, NEW config \in Wanted,
         operation[o].stage \in {"none", "awaiting", "later", "closing"},
         operation[o].stage = "awaiting" => operation[o].config = config,
         ConnectShared(o, config), UNCHANGED <<connection, configured, served>>,
         ~crossed' => /\ Alone
                      /\ config = Absent => connection = 0
                      /\ \A p \in Operations : p # o /\ InProgress(p) =>
                           operation[p].config = config /\ operation[p].kind = "sync",
         ~crossed' /\ ~behind' => ServedFits /\ (served # "no" => config = configured)
  PROVE  McpAfter
<1>. USE Fields DEF Facts, Alone, McpAfter
<1>1. CASE Done(o) /\ UNCHANGED <<client, made, attempts>>
           /\ \/ lastStatus' = "connected" /\ connection # 0
              \/ /\ config = Absent
                 /\ lastStatus' = IF operation[o].stage \in {"later", "closing"} THEN "unknown"
                                  ELSE lastStatus
  <2>1. operation'[o] = NoOperation /\ \A p \in Operations : p # o => operation'[p] = operation[p]
    BY <1>1, DoneIs
  <2>2. StagesFit'
    BY <1>1, <2>1 DEF StagesFit
  <2>3. ClientsAreOwned'
    BY <1>1, <2>1 DEF ClientsAreOwned, Trying
  <2>4. NumbersAreNew' /\ NotClosed'
    BY <1>1, <2>1 DEF NumbersAreNew, NotClosed
  <2>5. ASSUME ~crossed'
        PROVE  Alone'
    <3>1. WantsAgree'
      BY <1>1, <2>1, <2>5 DEF WantsAgree, InProgress
    <3>2. OneAtATime'
      BY <1>1, <2>1, <2>5 DEF OneAtATime, InProgress, Trying
    <3>3. ASSUME connection = 0, lastStatus' = "connected"
          PROVE  \E p \in Operations : Reports(p)'
      <4>1. config = Absent /\ lastStatus = "connected" /\ operation[o].stage \in {"none", "awaiting"}
        BY <1>1, <3>3
      <4>2. PICK p \in Operations : Reports(p)
        BY <2>5, <3>3, <4>1 DEF StatusFits
      <4>3. p # o
        BY <4>1, <4>2, ClientsOf DEF Reports
      <4>. QED
        BY <2>1, <4>2, <4>3 DEF Reports, InProgress
    <3>4. connection # 0 => lastStatus' = "connected"
      BY <1>1, <2>5
    <3>5. StatusFits'
      BY <3>3, <3>4 DEF StatusFits
    <3>. QED
      BY <3>1, <3>2, <3>5
  <2>6. ASSUME ~crossed', ~behind'
        PROVE  ServedFits'
    BY <1>1, <2>1, <2>6 DEF ServedFits, InProgress
  <2>. QED
    BY <2>2, <2>3, <2>4, <2>5, <2>6
<1>2. CASE /\ config \in Configs /\ connection = 0 /\ With(o, "sync", "connecting", config, 0)
           /\ attempts'[config] # 0 /\ UNCHANGED lastStatus
           /\ \A id \in Connections : id <= made => client'[id] = client[id]
           /\ \A c \in Configs : c # config => attempts'[c] = attempts[c]
           /\ NumbersAreNew' /\ ClientsAreOwned'
           /\ \A id \in Connections : client'[id].state = "open" => client[id].state = "open"
  <2>1. /\ operation'[o].kind = "sync" /\ operation'[o].stage = "connecting"
        /\ operation'[o].config = config /\ operation'[o].client = 0
        /\ \A p \in Operations : p # o => operation'[p] = operation[p]
    BY <1>2, WithIs
  <2>2. StagesFit'
    <3>1. ASSUME NEW p \in Operations, p # o
          PROVE  /\ operation[p].client \in Connections =>
                      client'[operation[p].client] = client[operation[p].client]
                 /\ operation[p].config \in Configs /\ attempts[operation[p].config] # 0 =>
                      attempts'[operation[p].config] # 0
      BY <1>2 DEF NumbersAreNew
    <3>. QED
      BY <1>2, <2>1, <3>1 DEF StagesFit
  <2>3. NotClosed'
    BY <1>2 DEF NotClosed
  <2>4. ASSUME ~crossed'
        PROVE  Alone'
    <3>1. config # Absent
      BY <1>2, McpConstants
    <3>2. WantsAgree'
      BY <2>1, <2>4 DEF WantsAgree, InProgress
    <3>3. OneAtATime'
      BY <1>2, <2>1, <2>4, <3>1 DEF OneAtATime, InProgress, Trying
    <3>4. Reports(o)'
      BY <2>1 DEF Reports, InProgress
    <3>5. StatusFits'
      BY <1>2, <3>4 DEF StatusFits
    <3>. QED
      BY <3>2, <3>3, <3>5
  <2>5. ASSUME ~crossed', ~behind'
        PROVE  ServedFits'
    BY <1>2, <2>5 DEF ServedFits
  <2>. QED
    BY <1>2, <2>2, <2>3, <2>4, <2>5
<1>3. CASE /\ config \in Configs /\ connection = 0 /\ With(o, "sync", "connecting", config, 0)
           /\ Shared(config) /\ UNCHANGED <<client, made, attempts, lastStatus>>
  <2>1. /\ operation'[o].stage = "connecting"
        /\ operation'[o].config = config /\ operation'[o].client = 0
        /\ \A p \in Operations : p # o => operation'[p] = operation[p]
    BY <1>3, WithIs
  <2>2. NumbersAreNew'
    BY <1>3, <2>1 DEF NumbersAreNew
  <2>3. ClientsAreOwned'
    BY <1>3, <2>1 DEF ClientsAreOwned, Trying
  <2>4. attempts'[config] # 0
    BY <1>3 DEF Shared
  <2>. QED
    BY <1>2, <1>3, <2>2, <2>3, <2>4
<1>4. CASE /\ config \in Configs /\ connection = 0 /\ With(o, "sync", "connecting", config, 0)
           /\ ~Shared(config) /\ Make(config)
           /\ attempts' = [attempts EXCEPT ![config] = made + 1] /\ UNCHANGED lastStatus
  <2>1. /\ operation'[o].stage = "connecting"
        /\ operation'[o].config = config /\ operation'[o].client = 0
        /\ \A p \in Operations : p # o => operation'[p] = operation[p]
    BY <1>4, WithIs
  <2>2. /\ made + 1 \in Connections /\ made' = made + 1
        /\ client'[made + 1].config = config /\ client'[made + 1].state = "opening"
        /\ \A id \in Connections : id # made + 1 => client'[id] = client[id]
    BY <1>4, MakeIs
  <2>3. /\ attempts'[config] = made + 1
        /\ \A c \in Configs : c # config => attempts'[c] = attempts[c]
    BY <1>4 DEF McpTypeOK
  <2>4. attempts[config] = 0
    BY <1>4 DEF Shared
  <2>5. NumbersAreNew'
    BY <1>4, <2>1, <2>2, <2>3 DEF NumbersAreNew
  <2>6. ClientsAreOwned'
    <3>1. \A c \in Configs : attempts[c] # made + 1
      BY DEF NumbersAreNew
    <3>2. \A p \in Operations : operation'[p].stage = "asking" =>
            p # o /\ operation[p].stage = "asking" /\ operation'[p] = operation[p]
            /\ operation[p].client # made + 1
      BY <2>1 DEF NumbersAreNew
    <3>3. \A p \in Operations :
            operation'[p].stage = "asking" =>
              /\ \A q \in Operations : operation'[q].stage = "asking"
                   /\ operation'[q].client = operation'[p].client => q = p
              /\ \A c \in Configs : attempts'[c] # operation'[p].client
      BY <2>3, <3>2 DEF ClientsAreOwned
    <3>4. ASSUME NEW c \in Configs, attempts'[c] # 0
          PROVE  /\ client'[attempts'[c]].state \in {"opening", "refused", "retrying"}
                 /\ client'[attempts'[c]].config = c
                 /\ \E p \in Operations : operation'[p].stage = "connecting"
                                          /\ operation'[p].config = c
      <4>1. CASE c = config
        BY <2>1, <2>2, <2>3, <4>1 DEF Trying
      <4>2. CASE c # config
        <5>1. attempts'[c] = attempts[c] /\ attempts[c] \in Connections
              /\ client'[attempts[c]] = client[attempts[c]]
          BY <2>2, <2>3, <3>1, <3>4, <4>2
        <5>2. PICK p \in Operations : operation[p].stage = "connecting" /\ operation[p].config = c
          BY <3>4, <5>1 DEF ClientsAreOwned
        <5>3. operation'[p] = operation[p]
          BY <2>1, <5>2
        <5>. QED
          BY <3>4, <5>1, <5>2, <5>3 DEF ClientsAreOwned, Trying
      <4>. QED
        BY <4>1, <4>2
    <3>5. ASSUME NEW id \in Connections, Trying(id)'
          PROVE  \/ \E p \in Operations :
                      operation'[p].stage = "asking" /\ operation'[p].client = id
                 \/ \E c \in Configs : attempts'[c] = id
      <4>1. CASE id = made + 1
        BY <2>3, <4>1, <1>4
      <4>2. CASE id # made + 1
        <5>1. Trying(id)
          BY <2>2, <3>5, <4>2 DEF Trying
        <5>2. CASE \E c \in Configs : attempts[c] = id
          BY <2>3, <2>4, <5>2
        <5>3. CASE \E p \in Operations : operation[p].stage = "asking" /\ operation[p].client = id
          BY <2>1, <5>3
        <5>. QED
          BY <5>1, <5>2, <5>3 DEF ClientsAreOwned
      <4>. QED
        BY <4>1, <4>2
    <3>. QED
      BY <3>3, <3>4, <3>5 DEF ClientsAreOwned, Trying
  <2>7. \A id \in Connections : id <= made => client'[id] = client[id]
    BY <2>2
  <2>8. \A id \in Connections : client'[id].state = "open" => client[id].state = "open"
    BY <2>2
  <2>9. attempts'[config] # 0
    BY <2>3
  <2>. QED
    BY <1>2, <1>4, <2>3, <2>5, <2>6, <2>7, <2>8, <2>9
<1>5. config = Absent \/ config \in Configs
  BY DEF Wanted
<1>. QED
  BY <1>1, <1>3, <1>4, <1>5, McpConstants DEF ConnectShared

\* What differs is disposed of, and awaited while it closes.
LEMMA ClosingStep ==
  ASSUME McpTypeOK, Facts, NEW o \in Operations, operation[o].stage \in {"none", "later"},
         NEW kind \in {"sync", "login", "logout"}, NEW config \in Wanted,
         kind = "login" => config # Absent, With(o, kind, "closing", config, 0),
         connection' = 0, connection # 0 => Becomes(connection, "closed"),
         connection = 0 => UNCHANGED client, UNCHANGED <<made, attempts, lastStatus>>,
         ~crossed' => /\ Alone
                      /\ \A p \in Operations : p # o /\ InProgress(p) =>
                           operation[p].config = config /\ operation[p].kind = "sync"
                           /\ kind = "sync",
         ~crossed' /\ ~behind' => served' = "no"
  PROVE  McpAfter
<1>. USE Fields DEF Facts, McpAfter
<1>1. /\ operation'[o].kind = kind /\ operation'[o].stage = "closing"
      /\ operation'[o].config = config /\ operation'[o].client = 0
      /\ \A p \in Operations : p # o => operation'[p] = operation[p]
  BY WithIs
<1>2. \A id \in Connections :
        /\ client'[id].config = client[id].config
        /\ client'[id].state # client[id].state => ~Trying(id) /\ ~Trying(id)'
        /\ client'[id].state = "open" => client[id].state = "open" /\ id # connection
        /\ id # connection => client'[id] = client[id]
  <2>1. CASE connection = 0
    BY <2>1
  <2>2. CASE connection # 0
    <3>1. connection \in Connections
      BY <2>2 DEF McpTypeOK
    <3>2. /\ client'[connection].state = "closed"
          /\ client'[connection].config = client[connection].config
          /\ \A i \in Connections : i # connection => client'[i] = client[i]
      BY <2>2, <3>1, BecomesIs
    <3>. QED
      BY <2>2, <3>1, <3>2 DEF NotClosed, Trying
  <2>. QED
    BY <2>1, <2>2
<1>3. \A id \in Connections : Trying(id)' <=> Trying(id)
  BY <1>2 DEF Trying
<1>4. StagesFit'
  <2>1. kind = "login" => config \in Configs
    BY DEF McpTypeOK, Wanted
  <2>2. ASSUME NEW p \in Operations, operation[p].stage = "asking"
        PROVE  /\ operation[p].client \in Connections
               /\ client'[operation[p].client].state = client[operation[p].client].state
    BY <1>2, <2>2 DEF StagesFit, Trying
  <2>. QED
    BY <1>1, <1>2, <2>1, <2>2 DEF StagesFit
<1>5. ClientsAreOwned'
  <2>1. \A p \in Operations : /\ operation'[p].stage = "asking" => operation'[p] = operation[p]
                              /\ operation[p].stage \in {"asking", "connecting"} =>
                                   operation'[p] = operation[p]
    BY <1>1
  <2>2. \A c \in Configs : attempts[c] # 0 =>
          client'[attempts[c]].config = c
          /\ client'[attempts[c]].state \in {"opening", "refused", "retrying"}
    BY <1>2, <1>3 DEF ClientsAreOwned, Trying
  <2>3. \A c \in Configs : attempts[c] # 0 =>
          \E p \in Operations : operation'[p].stage = "connecting" /\ operation'[p].config = c
    BY <2>1 DEF ClientsAreOwned
  <2>4. \A p \in Operations :
          operation'[p].stage = "asking" =>
            /\ \A q \in Operations : operation'[q].stage = "asking"
                 /\ operation'[q].client = operation'[p].client => q = p
            /\ \A c \in Configs : attempts[c] # operation'[p].client
    BY <2>1 DEF ClientsAreOwned
  <2>5. ASSUME NEW id \in Connections, Trying(id)'
        PROVE  \/ \E p \in Operations :
                    operation'[p].stage = "asking" /\ operation'[p].client = id
               \/ \E c \in Configs : attempts[c] = id
    <3>1. \/ \E p \in Operations : operation[p].stage = "asking" /\ operation[p].client = id
          \/ \E c \in Configs : attempts[c] = id
      BY <1>3, <2>5 DEF ClientsAreOwned
    <3>. QED
      BY <2>1, <3>1
  <2>6. attempts' = attempts
    OBVIOUS
  <2>. QED
    BY <2>2, <2>3, <2>4, <2>5, <2>6 DEF ClientsAreOwned, Trying
<1>6. NumbersAreNew'
  <2>1. \A id \in Connections : ~(id <= made) => id # connection
    BY DEF NumbersAreNew
  <2>. QED
    BY <1>1, <1>2, <2>1 DEF NumbersAreNew
<1>7. NotClosed'
  BY DEF NotClosed
<1>8. ASSUME ~crossed'
      PROVE  Alone'
  <2>1. Alone /\ \A p \in Operations : p # o /\ InProgress(p) =>
          operation[p].config = config /\ operation[p].kind = "sync" /\ kind = "sync"
    BY <1>8
  <2>2. WantsAgree'
    BY <1>1, <2>1 DEF WantsAgree, InProgress
  <2>3. OneAtATime'
    BY <1>2, <2>1 DEF OneAtATime, Alone
  <2>4. Reports(o)'
    BY <1>1 DEF Reports, InProgress
  <2>5. StatusFits'
    BY <2>4 DEF StatusFits
  <2>. QED
    BY <2>2, <2>3, <2>5 DEF Alone
<1>9. ASSUME ~crossed', ~behind'
      PROVE  ServedFits'
  BY <1>9 DEF ServedFits
<1>. QED
  BY <1>4, <1>5, <1>6, <1>7, <1>8, <1>9

\* A sync that looks, and awaits what is closed elsewhere first.
LEMMA AwaitStep ==
  ASSUME McpTypeOK, Facts, NEW o \in Operations, ~InProgress(o),
         NEW at \in {"awaiting", "later"}, NEW id \in {0} \cup Connections,
         With(o, "sync", at, configured, id),
         IF at = "awaiting" THEN id = 0 /\ AsConfigured(configured)
                            ELSE id = connection /\ ~AsConfigured(configured),
         UNCHANGED <<configured, connection, client, made, attempts, lastStatus, served>>,
         ~crossed' => /\ Alone
                      /\ \A p \in Operations : InProgress(p) =>
                           operation[p].config = configured /\ operation[p].kind = "sync",
         ~crossed' /\ ~behind' => ServedFits
  PROVE  McpAfter
<1>. USE Fields DEF Facts, McpAfter
<1>1. /\ operation'[o].kind = "sync" /\ operation'[o].stage = at
      /\ operation'[o].config = configured /\ operation'[o].client = id
      /\ \A p \in Operations : p # o => operation'[p] = operation[p]
  BY WithIs
<1>2. operation[o] = NoOperation
  BY ClientsOf
<1>3. at = "later" => id \in Connections /\ client[id].config # configured
  BY DEF AsConfigured, McpTypeOK
<1>4. at = "awaiting" /\ configured = Absent => connection = 0
  BY McpConstants DEF AsConfigured, NumbersAreNew
<1>5. StagesFit'
  BY <1>1, <1>3 DEF StagesFit
<1>6. ClientsAreOwned'
  BY <1>1, <1>2 DEF ClientsAreOwned, Trying
<1>7. NumbersAreNew' /\ NotClosed'
  BY <1>1 DEF NumbersAreNew, NotClosed
<1>8. ASSUME ~crossed'
      PROVE  Alone'
  <2>1. WantsAgree'
    BY <1>1, <1>8 DEF WantsAgree, InProgress
  <2>2. OneAtATime'
    BY <1>1, <1>4, <1>8 DEF Alone, OneAtATime, InProgress, Trying
  <2>3. \A p \in Operations : Reports(p) => Reports(p)'
    BY <1>1, <1>2 DEF Reports, InProgress
  <2>4. StatusFits'
    BY <1>8, <2>3 DEF StatusFits, Alone
  <2>. QED
    BY <2>1, <2>2, <2>4 DEF Alone
<1>9. ASSUME ~crossed', ~behind'
      PROVE  ServedFits'
  BY <1>1, <1>9 DEF ServedFits, InProgress
<1>. QED
  BY <1>5, <1>6, <1>7, <1>8, <1>9

LEMMA BeginSyncStep ==
  ASSUME McpInv, NEW o \in Operations, BeginSync(o)
  PROVE  McpAfter
<1>. USE DEF McpInv
<1>1. /\ ~InProgress(o) /\ crossed' = (crossed \/ Crosses("sync", configured))
      /\ configured \in Wanted /\ UNCHANGED <<configured, changes, behind, served>>
      /\ connection \in {0} \cup Connections
  BY DEF BeginSync, McpTypeOK
<1>2. operation[o].stage = "none"
  BY <1>1, ClientsOf, Fields DEF Facts
<1>3. ~crossed' => /\ Alone
                   /\ \A p \in Operations : InProgress(p) =>
                        operation[p].config = configured /\ operation[p].kind = "sync"
  BY <1>1 DEF Crosses
<1>4. ~crossed' /\ ~behind' => ServedFits
  BY <1>1
<1>5. CASE AsConfigured(configured) /\ ConnectShared(o, configured) /\ UNCHANGED connection
  <2>1. configured = Absent => connection = 0
    BY <1>5, McpConstants, Fields DEF AsConfigured, Facts, NumbersAreNew
  <2>2. operation[o].stage \in {"none", "awaiting", "later", "closing"}
        /\ (operation[o].stage = "awaiting" => operation[o].config = configured)
    BY <1>2
  <2>3. UNCHANGED <<connection, configured, served>>
    BY <1>1, <1>5
  <2>4. ~crossed' => /\ Alone
                     /\ configured = Absent => connection = 0
                     /\ \A p \in Operations : p # o /\ InProgress(p) =>
                          operation[p].config = configured /\ operation[p].kind = "sync"
    BY <1>3, <2>1
  <2>5. ~crossed' /\ ~behind' => ServedFits /\ (served # "no" => configured = configured)
    BY <1>4
  <2>. QED
    BY <1>1, <1>5, <2>2, <2>3, <2>4, <2>5, ConnectSharedStep, Zenon
<1>6. CASE /\ ~AsConfigured(configured) /\ Dispose /\ With(o, "sync", "closing", configured, 0)
           /\ UNCHANGED <<made, attempts, lastStatus>>
  <2>1. connection # 0
    BY <1>6 DEF AsConfigured
  <2>2. connection' = 0 /\ Becomes(connection, "closed")
    BY <1>6 DEF Dispose
  <2>3. ~crossed' /\ ~behind' => served' = "no"
    BY <1>1, <1>4, <1>6 DEF ServedFits, AsConfigured
  <2>4. operation[o].stage \in {"none", "later"}
    BY <1>2
  <2>5. ~crossed' => /\ Alone
                     /\ \A p \in Operations : p # o /\ InProgress(p) =>
                          operation[p].config = configured /\ operation[p].kind = "sync"
                          /\ "sync" = "sync"
    BY <1>3
  <2>6. "sync" \in {"sync", "login", "logout"} /\ "sync" # "login"
    OBVIOUS
  <2>. QED
    BY <1>1, <1>6, <2>1, <2>2, <2>3, <2>4, <2>5, <2>6, ClosingStep, Zenon
<1>7. CASE /\ \/ AsConfigured(configured) /\ With(o, "sync", "awaiting", configured, 0)
              \/ ~AsConfigured(configured) /\ With(o, "sync", "later", configured, connection)
           /\ UNCHANGED <<connection, client, made, attempts, lastStatus>>
  <2>1. UNCHANGED <<configured, connection, client, made, attempts, lastStatus, served>>
    BY <1>1, <1>7
  <2>2. CASE AsConfigured(configured) /\ With(o, "sync", "awaiting", configured, 0)
    <3>1. "awaiting" \in {"awaiting", "later"} /\ 0 \in {0} \cup Connections
      OBVIOUS
    <3>. QED
      BY <1>1, <1>3, <1>4, <2>1, <2>2, <3>1, AwaitStep
  <2>3. CASE ~AsConfigured(configured) /\ With(o, "sync", "later", configured, connection)
    <3>1. "later" \in {"awaiting", "later"} /\ "later" # "awaiting"
      OBVIOUS
    <3>. QED
      BY <1>1, <1>3, <1>4, <2>1, <2>3, <3>1, AwaitStep
  <2>. QED
    BY <1>7, <2>2, <2>3
<1>. QED
  BY <1>5, <1>6, <1>7 DEF BeginSync

\* Who looked closes what is connected by now, whatever it is.
LEMMA CloseLaterStep ==
  ASSUME McpInv, NEW o \in Operations, CloseLater(o)
  PROVE  McpAfter
<1>. USE DEF McpInv
<1>. DEFINE config == operation[o].config
<1>1. /\ operation[o].stage = "later" /\ config \in Wanted
      /\ behind' = (behind \/ connection \notin {0, operation[o].client})
      /\ UNCHANGED <<configured, changes, crossed, served>>
  BY DEF CloseLater, McpTypeOK
<1>2. operation[o].kind = "sync" /\ client[operation[o].client].config # config
      /\ InProgress(o)
  BY <1>1, Fields DEF Facts, StagesFit, InProgress
<1>3. ~crossed' =>
        /\ Alone
        /\ \A p \in Operations : p # o /\ InProgress(p) =>
             operation[p].config = config /\ operation[p].kind = "sync"
  BY <1>1, <1>2 DEF Alone, WantsAgree
<1>4. ~crossed' /\ ~behind' => ServedFits /\ (served # "no" => config = configured)
  BY <1>1, <1>2 DEF ServedFits
<1>. HIDE DEF config
<1>5. CASE connection = 0
  <2>1. ConnectShared(o, config) /\ UNCHANGED connection
    BY <1>5 DEF CloseLater, config
  <2>2. UNCHANGED <<connection, configured, served>>
    BY <1>1, <2>1
  <2>3. operation[o].stage \in {"none", "awaiting", "later", "closing"}
        /\ (operation[o].stage = "awaiting" => operation[o].config = config)
    BY <1>1
  <2>4. ~crossed' => /\ Alone
                     /\ config = Absent => connection = 0
                     /\ \A p \in Operations : p # o /\ InProgress(p) =>
                          operation[p].config = config /\ operation[p].kind = "sync"
    BY <1>3, <1>5
  <2>. QED
    BY <1>1, <1>4, <2>1, <2>2, <2>3, <2>4, ConnectSharedStep, Zenon
<1>6. CASE connection # 0
  <2>1. /\ Dispose /\ With(o, "sync", "closing", config, 0)
        /\ UNCHANGED <<made, attempts, lastStatus>>
    BY <1>6 DEF CloseLater, config
  <2>2. connection' = 0 /\ Becomes(connection, "closed")
    BY <2>1 DEF Dispose
  <2>3. ~crossed' /\ ~behind' => served' = "no"
    BY <1>1, <1>2, <1>4, <1>6 DEF ServedFits, config
  <2>4. operation[o].stage \in {"none", "later"}
    BY <1>1
  <2>5. ~crossed' => /\ Alone
                     /\ \A p \in Operations : p # o /\ InProgress(p) =>
                          operation[p].config = config /\ operation[p].kind = "sync"
                          /\ "sync" = "sync"
    BY <1>3
  <2>6. "sync" \in {"sync", "login", "logout"} /\ "sync" # "login"
    OBVIOUS
  <2>. QED
    BY <1>1, <1>6, <2>1, <2>2, <2>3, <2>4, <2>5, <2>6, ClosingStep, Zenon
<1>. QED
  BY <1>5, <1>6

LEMMA GoOnStep ==
  ASSUME McpInv, NEW o \in Operations, GoOn(o)
  PROVE  McpAfter
<1>. USE DEF McpInv
<1>. DEFINE config == operation[o].config
<1>1. /\ operation[o].kind = "sync" /\ operation[o].stage \in {"awaiting", "closing"}
      /\ ConnectShared(o, config) /\ config \in Wanted
      /\ UNCHANGED <<connection, configured, served>>
      /\ UNCHANGED <<crossed, behind>>
  BY DEF GoOn, McpTypeOK, histories
<1>2. ~crossed' =>
        /\ Alone /\ (config = Absent => connection = 0)
        /\ \A p \in Operations : p # o /\ InProgress(p) =>
             operation[p].config = config /\ operation[p].kind = "sync"
  BY <1>1 DEF Alone, WantsAgree, OneAtATime, InProgress
<1>3. ~crossed' /\ ~behind' => ServedFits /\ (served # "no" => config = configured)
  BY <1>1 DEF ServedFits, InProgress
<1>4. operation[o].stage \in {"none", "awaiting", "later", "closing"}
      /\ (operation[o].stage = "awaiting" => operation[o].config = config)
  BY <1>1
<1>. HIDE DEF config
<1>. QED
  BY <1>1, <1>2, <1>3, <1>4, ConnectSharedStep, Zenon

LEMMA BeginOtherStep ==
  ASSUME McpInv, NEW o \in Operations, NEW kind \in {"login", "logout"}, BeginOther(o, kind)
  PROVE  McpAfter
<1>. USE DEF McpInv
<1>1. /\ ~InProgress(o) /\ configured \in Wanted
      /\ kind = "login" => configured # Absent
      /\ With(o, kind, "closing", configured, 0) /\ UNCHANGED <<made, attempts, lastStatus>>
      /\ crossed' = (crossed \/ Crosses(kind, configured)) /\ served' = "no"
  BY DEF BeginOther, McpTypeOK
<1>2. /\ connection' = 0
      /\ connection # 0 => Becomes(connection, "closed")
      /\ connection = 0 => UNCHANGED client
  BY DEF BeginOther, Dispose
<1>3. operation[o].stage \in {"none", "later"}
  BY <1>1, ClientsOf, Fields DEF Facts
<1>4. ~crossed' => Alone /\ \A p \in Operations : ~InProgress(p)
  BY <1>1 DEF Crosses
<1>5. ~crossed' => /\ Alone
                   /\ \A p \in Operations : p # o /\ InProgress(p) =>
                        operation[p].config = configured /\ operation[p].kind = "sync"
                        /\ kind = "sync"
  BY <1>4
<1>6. kind \in {"sync", "login", "logout"} /\ (~crossed' /\ ~behind' => served' = "no")
  BY <1>1
<1>. QED
  BY <1>1, <1>2, <1>3, <1>5, <1>6, ClosingStep, Zenon

\* A sign-in has a client of its own.
LEMMA AskUserStep ==
  ASSUME McpInv, NEW o \in Operations, AskUser(o)
  PROVE  McpAfter
<1>. USE Fields DEF Facts, McpInv, McpAfter
<1>1. operation[o].config \in Configs /\ operation[o].client = 0
      /\ operation[o].kind = "login" /\ operation[o].stage = "closing"
  BY DEF AskUser, StagesFit
<1>2. /\ operation'[o].kind = "login" /\ operation'[o].stage = "asking"
      /\ operation'[o].config = operation[o].config /\ operation'[o].client = made + 1
      /\ \A p \in Operations : p # o => operation'[p] = operation[p]
  BY WithIs DEF AskUser
<1>3. /\ made + 1 \in Connections /\ made' = made + 1
      /\ client'[made + 1].config = operation[o].config /\ client'[made + 1].state = "opening"
      /\ \A id \in Connections : id # made + 1 => client'[id] = client[id]
  BY <1>1, MakeIs DEF AskUser
<1>4. /\ \A p \in Operations : operation[p].client # made + 1
      /\ \A config \in Configs : attempts[config] # made + 1
      /\ connection # made + 1
  BY DEF NumbersAreNew
<1>5. UNCHANGED <<configured, connection, attempts, lastStatus, crossed, behind, served>>
  BY DEF AskUser, histories
<1>6. StagesFit'
  BY <1>1, <1>2, <1>3, <1>4, <1>5 DEF StagesFit
<1>7. ClientsAreOwned'
  <2>1. \A p \in Operations :
          operation'[p].stage = "asking" =>
            /\ \A q \in Operations : operation'[q].stage = "asking"
                 /\ operation'[q].client = operation'[p].client => q = p
            /\ \A c \in Configs : attempts'[c] # operation'[p].client
    BY <1>2, <1>4, <1>5 DEF ClientsAreOwned
  <2>2. \A c \in Configs :
          attempts'[c] # 0 =>
            /\ client'[attempts'[c]].state \in {"opening", "refused", "retrying"}
            /\ client'[attempts'[c]].config = c
            /\ \E p \in Operations : operation'[p].stage = "connecting" /\ operation'[p].config = c
    BY <1>1, <1>2, <1>3, <1>4, <1>5 DEF ClientsAreOwned, Trying
  <2>3. ASSUME NEW id \in Connections, Trying(id)'
        PROVE  \/ \E p \in Operations :
                    operation'[p].stage = "asking" /\ operation'[p].client = id
               \/ \E c \in Configs : attempts'[c] = id
    <3>1. CASE id = made + 1
      BY <1>2, <3>1
    <3>2. CASE id # made + 1
      BY <1>1, <1>2, <1>3, <1>5, <2>3, <3>2 DEF ClientsAreOwned, Trying
    <3>. QED
      BY <3>1, <3>2
  <2>. QED
    BY <2>1, <2>2, <2>3 DEF ClientsAreOwned, Trying
<1>8. NumbersAreNew'
  BY <1>1, <1>2, <1>3, <1>5 DEF NumbersAreNew
<1>9. NotClosed'
  BY <1>3, <1>4, <1>5 DEF NotClosed, McpTypeOK
<1>10. ASSUME ~crossed'
       PROVE  Alone'
  <2>1. Alone /\ connection = 0
    BY <1>1, <1>5, <1>10 DEF Alone, OneAtATime, InProgress
  <2>2. WantsAgree'
    BY <1>1, <1>2, <1>5, <2>1 DEF WantsAgree, InProgress, Alone
  <2>3. OneAtATime'
    BY <1>3, <1>5, <2>1 DEF OneAtATime, Alone
  <2>4. Reports(o)'
    BY <1>2 DEF Reports, InProgress
  <2>5. StatusFits'
    BY <1>5, <2>1, <2>4 DEF StatusFits
  <2>. QED
    BY <2>2, <2>3, <2>5 DEF Alone
<1>11. ASSUME ~crossed', ~behind'
       PROVE  ServedFits'
  BY <1>1, <1>5, <1>11 DEF ServedFits, InProgress
<1>. QED
  BY <1>6, <1>7, <1>8, <1>9, <1>10, <1>11

\* A sign-in ends, well or not: its client was its own.
LEMMA LoginEndsStep ==
  ASSUME McpInv, NEW o \in Operations, LoggedIn(o) \/ LoginFails(o)
  PROVE  McpAfter
<1>. USE Fields DEF Facts, McpInv, McpAfter
<1>. DEFINE id == operation[o].client
<1>1. /\ operation[o].stage = "asking" /\ operation[o].kind = "login" /\ id \in Connections
      /\ client[id].state = "opening" /\ \A config \in Configs : attempts[config] # id
      /\ \A p \in Operations : p # o /\ operation[p].stage = "asking" => operation[p].client # id
  BY DEF LoggedIn, LoginFails, StagesFit, ClientsAreOwned
<1>2. /\ operation'[o] = NoOperation
      /\ \A p \in Operations : p # o => operation'[p] = operation[p]
  BY DoneIs DEF LoggedIn, LoginFails
<1>3. /\ client'[id].state \in {"open", "closed"} /\ client'[id].config = client[id].config
      /\ \A i \in Connections : i # id => client'[i] = client[i]
      /\ \/ client'[id].state = "open" /\ connection' = id /\ lastStatus' = "connected"
         \/ client'[id].state = "closed" /\ connection' = connection /\ lastStatus' = "error"
      /\ UNCHANGED <<configured, made, attempts, crossed, behind, served>>
  BY <1>1, BecomesIs DEF LoggedIn, LoginFails, histories
<1>4. StagesFit'
  <2>1. ASSUME NEW p \in Operations, operation[p].client \in Connections
        PROVE  client'[operation[p].client].config = client[operation[p].client].config
    BY <1>3, <2>1
  <2>2. ASSUME NEW p \in Operations, p # o, operation[p].stage = "asking"
        PROVE  operation[p].client # id
    BY <1>1, <2>2
  <2>. QED
    BY <1>1, <1>2, <1>3, <2>1, <2>2 DEF StagesFit
<1>5. ClientsAreOwned'
  <2>1. \A p \in Operations : operation'[p].stage = "asking" =>
          p # o /\ operation[p].stage = "asking" /\ operation'[p] = operation[p]
    BY <1>2
  <2>2. \A p \in Operations :
          operation'[p].stage = "asking" =>
            /\ \A q \in Operations : operation'[q].stage = "asking"
                 /\ operation'[q].client = operation'[p].client => q = p
            /\ \A c \in Configs : attempts'[c] # operation'[p].client
    BY <1>3, <2>1 DEF ClientsAreOwned
  <2>3. \A c \in Configs :
          attempts'[c] # 0 =>
            /\ client'[attempts'[c]].state \in {"opening", "refused", "retrying"}
            /\ client'[attempts'[c]].config = c
            /\ \E p \in Operations : operation'[p].stage = "connecting" /\ operation'[p].config = c
    BY <1>1, <1>2, <1>3 DEF ClientsAreOwned, Trying
  <2>4. ASSUME NEW i \in Connections, Trying(i)'
        PROVE  \/ \E p \in Operations :
                    operation'[p].stage = "asking" /\ operation'[p].client = i
               \/ \E c \in Configs : attempts'[c] = i
    <3>1. i # id /\ Trying(i)
      BY <1>3, <2>4 DEF Trying
    <3>. QED
      BY <1>2, <1>3, <3>1 DEF ClientsAreOwned
  <2>. QED
    BY <2>2, <2>3, <2>4 DEF ClientsAreOwned, Trying
<1>6. NumbersAreNew'
  <2>1. id <= made
    BY DEF NumbersAreNew
  <2>. QED
    BY <1>1, <1>2, <1>3, <2>1 DEF NumbersAreNew
<1>7. NotClosed'
  BY <1>1, <1>3 DEF NotClosed, McpTypeOK
<1>8. ASSUME ~crossed'
      PROVE  Alone'
  <2>1. Alone /\ connection = 0 /\ \A p \in Operations : p # o => ~InProgress(p)
    BY <1>1, <1>3, <1>8 DEF Alone, OneAtATime, WantsAgree, InProgress
  <2>2. \A p \in Operations : operation'[p] = NoOperation
    BY <1>2, <2>1, ClientsOf
  <2>3. WantsAgree'
    BY <2>2 DEF WantsAgree, InProgress
  <2>4. \A c \in Configs : attempts'[c] = 0
    BY <1>5, <2>2 DEF ClientsAreOwned
  <2>5. \A i \in Connections : ~Trying(i)'
    BY <1>5, <2>2, <2>4 DEF ClientsAreOwned
  <2>6. OneAtATime'
    BY <1>3, <2>1, <2>2, <2>5 DEF OneAtATime, InProgress, Alone
  <2>7. StatusFits'
    BY <1>1, <1>3, <2>1 DEF StatusFits
  <2>. QED
    BY <2>3, <2>6, <2>7 DEF Alone
<1>9. ASSUME ~crossed', ~behind'
      PROVE  ServedFits'
  BY <1>1, <1>3, <1>9 DEF ServedFits, InProgress
<1>. QED
  BY <1>4, <1>5, <1>6, <1>7, <1>8, <1>9

LEMMA LoggedOutStep ==
  ASSUME McpInv, NEW o \in Operations, LoggedOut(o)
  PROVE  McpAfter
<1>. USE Fields DEF Facts, McpInv, McpAfter
<1>1. /\ operation[o].kind = "logout" /\ lastStatus' # "connected"
      /\ UNCHANGED <<configured, connection, client, made, attempts, crossed, behind, served>>
  BY DEF LoggedOut, histories
<1>2. operation[o].stage = "closing" /\ operation[o].client = 0
  BY <1>1 DEF StagesFit
<1>3. /\ operation'[o] = NoOperation
      /\ \A p \in Operations : p # o => operation'[p] = operation[p]
  BY DoneIs DEF LoggedOut
<1>4. StagesFit'
  BY <1>1, <1>3 DEF StagesFit
<1>5. ClientsAreOwned'
  BY <1>1, <1>2, <1>3 DEF ClientsAreOwned, Trying
<1>6. NumbersAreNew' /\ NotClosed'
  BY <1>1, <1>3 DEF NumbersAreNew, NotClosed
<1>7. ASSUME ~crossed'
      PROVE  Alone'
  <2>1. Alone /\ connection = 0
    BY <1>1, <1>7 DEF Alone, OneAtATime, InProgress
  <2>2. WantsAgree' /\ OneAtATime'
    BY <1>1, <1>3, <2>1 DEF WantsAgree, OneAtATime, InProgress, Trying, Alone
  <2>3. StatusFits'
    BY <1>1, <2>1 DEF StatusFits
  <2>. QED
    BY <2>2, <2>3 DEF Alone
<1>8. ASSUME ~crossed', ~behind'
      PROVE  ServedFits'
  BY <1>1, <1>8 DEF ServedFits, InProgress
<1>. QED
  BY <1>4, <1>5, <1>6, <1>7, <1>8

\* An attempt ends, well or not, for all that wait for it and for nobody else.
LEMMA AttemptEndsStep ==
  ASSUME McpInv, NEW config \in Configs, Opened(config) \/ OpenFails(config)
  PROVE  McpAfter
<1>. USE Fields DEF Facts, McpInv, McpAfter
<1>. DEFINE id == attempts[config]
<1>1. EndAttempt(config) /\ id # 0 /\ id \in Connections
  BY DEF Opened, OpenFails, EndAttempt
<1>2. Trying(id) /\ client[id].config = config
  BY <1>1 DEF ClientsAreOwned
<1>3. /\ attempts'[config] = 0
      /\ \A c \in Configs : c # config => attempts'[c] = attempts[c] /\ attempts[c] # id
  BY <1>1 DEF EndAttempt, McpTypeOK, ClientsAreOwned
<1>4. /\ \A p \in Operations :
           \/ operation'[p] = NoOperation
           \/ operation'[p] = operation[p]
              /\ ~(operation[p].stage = "connecting" /\ operation[p].config = config)
      /\ \A p \in Operations :
           ~(operation[p].stage = "connecting" /\ operation[p].config = config) =>
             operation'[p] = operation[p]
  BY <1>1 DEF EndAttempt
<1>5. /\ client'[id].config = client[id].config /\ client'[id].state \in {"open", "closed", "left"}
      /\ \A i \in Connections : i # id => client'[i] = client[i]
      /\ \/ /\ client'[id].state = "open" /\ connection' = id /\ lastStatus' = "connected"
            /\ served' = IF config # configured THEN served
                         ELSE IF served = "no" THEN "once" ELSE "again"
         \/ /\ client'[id].state \in {"closed", "left"} /\ connection' = connection
            /\ lastStatus' = "error" /\ served' = served
  BY <1>1, BecomesIs DEF Opened, OpenFails
<1>6. UNCHANGED <<configured, made, crossed, behind>>
  BY <1>1 DEF EndAttempt
<1>7. PICK o \in Operations : operation[o].stage = "connecting" /\ operation[o].config = config
  BY <1>1 DEF ClientsAreOwned
<1>8. operation[o].kind = "sync" /\ InProgress(o)
  BY <1>7 DEF StagesFit, InProgress
<1>9. \A i \in Connections : Trying(i)' <=> Trying(i) /\ i # id
  BY <1>1, <1>5 DEF Trying
<1>. HIDE DEF id
<1>10. StagesFit'
  <2>1. \A i \in Connections : client'[i].config = client[i].config
    BY <1>5
  <2>2. \A p \in Operations : operation[p].stage = "asking" => operation[p].client # id
    BY <1>1 DEF ClientsAreOwned, id
  <2>3. \A p \in Operations : operation'[p] = operation[p] /\ operation[p].stage = "asking" =>
          client'[operation[p].client] = client[operation[p].client]
    BY <1>5, <2>2 DEF StagesFit
  <2>4. \A p \in Operations : operation'[p] = operation[p] /\ operation[p].stage = "connecting" =>
          attempts'[operation[p].config] = attempts[operation[p].config]
    BY <1>3, <1>4 DEF StagesFit
  <2>. QED
    BY <1>4, <2>1, <2>3, <2>4 DEF StagesFit
<1>11. ClientsAreOwned'
  <2>1. \A p \in Operations : operation'[p].stage = "asking" =>
          operation[p].stage = "asking" /\ operation'[p] = operation[p]
    BY <1>4
  <2>2. \A p \in Operations :
          operation'[p].stage = "asking" =>
            /\ \A q \in Operations : operation'[q].stage = "asking"
                 /\ operation'[q].client = operation'[p].client => q = p
            /\ \A c \in Configs : attempts'[c] # operation'[p].client
    <3>1. ASSUME NEW p \in Operations, operation'[p].stage = "asking", NEW c \in Configs
          PROVE  attempts'[c] # operation'[p].client
      <4>1. operation[p].client # 0 /\ attempts[c] # operation[p].client
        BY <2>1, <3>1 DEF ClientsAreOwned, StagesFit
      <4>. QED
        BY <1>3, <2>1, <3>1, <4>1
    <3>. QED
      BY <2>1, <3>1 DEF ClientsAreOwned
  <2>3. \A c \in Configs :
          attempts'[c] # 0 =>
            /\ client'[attempts'[c]].state \in {"opening", "refused", "retrying"}
            /\ client'[attempts'[c]].config = c
            /\ \E p \in Operations : operation'[p].stage = "connecting" /\ operation'[p].config = c
    BY <1>3, <1>4, <1>5 DEF ClientsAreOwned, Trying
  <2>4. ASSUME NEW i \in Connections, Trying(i)'
        PROVE  \/ \E p \in Operations :
                    operation'[p].stage = "asking" /\ operation'[p].client = i
               \/ \E c \in Configs : attempts'[c] = i
    <3>1. Trying(i) /\ i # id
      BY <1>9, <2>4
    <3>2. CASE \E c \in Configs : attempts[c] = i
      BY <1>3, <3>1, <3>2 DEF id
    <3>3. CASE \E p \in Operations : operation[p].stage = "asking" /\ operation[p].client = i
      BY <1>4, <3>3
    <3>. QED
      BY <3>1, <3>2, <3>3 DEF ClientsAreOwned
  <2>. QED
    BY <2>2, <2>3, <2>4 DEF ClientsAreOwned, Trying
<1>12. NumbersAreNew'
  <2>1. id <= made
    BY DEF NumbersAreNew, id
  <2>. QED
    BY <1>1, <1>3, <1>4, <1>5, <1>6, <2>1 DEF NumbersAreNew
<1>13. NotClosed'
  BY <1>1, <1>2, <1>5 DEF NotClosed, McpTypeOK, Trying
<1>14. ASSUME ~crossed'
       PROVE  Alone'
  <2>1. Alone /\ connection = 0
    BY <1>1, <1>2, <1>6, <1>14 DEF Alone, OneAtATime
  <2>2. \A p \in Operations : InProgress(p) =>
          operation[p].kind = "sync" /\ operation[p].config = config
    BY <1>7, <1>8, <2>1 DEF Alone, WantsAgree
  <2>3. WantsAgree'
    BY <1>4, <2>1 DEF WantsAgree, InProgress, Alone
  <2>4. \A i \in Connections : ~Trying(i)'
    <3>1. ASSUME NEW i \in Connections, Trying(i)'
          PROVE  FALSE
      <4>1. Trying(i) /\ i # id
        BY <1>9, <3>1
      <4>2. CASE \E p \in Operations : operation[p].stage = "asking"
        BY <2>2, <4>2 DEF StagesFit, InProgress
      <4>3. CASE \E c \in Configs : attempts[c] = i
        <5>1. PICK c \in Configs : attempts[c] = i
          BY <4>3
        <5>2. attempts[c] # 0
          BY <5>1
        <5>3. PICK p \in Operations : operation[p].stage = "connecting" /\ operation[p].config = c
          BY <5>2 DEF ClientsAreOwned
        <5>4. c = config
          BY <2>2, <5>3, ClientsOf
        <5>. QED
          BY <4>1, <5>1, <5>4 DEF id
      <4>. QED
        BY <4>1, <4>2, <4>3 DEF ClientsAreOwned
    <3>. QED
      BY <3>1
  <2>5. OneAtATime'
    <3>1. \A i \in Connections : client'[i].state = "open" => i = connection'
      BY <1>5, <2>1 DEF Alone, OneAtATime
    <3>2. \A p \in Operations : operation'[p].kind # "none" =>
            operation'[p].kind = "sync" /\ operation'[p].config # Absent
      BY <1>4, <2>2, McpConstants DEF InProgress
    <3>. QED
      BY <2>4, <3>1, <3>2 DEF OneAtATime, InProgress
  <2>6. StatusFits'
    BY <1>1, <1>5, <2>1 DEF StatusFits
  <2>. QED
    BY <2>3, <2>5, <2>6 DEF Alone
<1>15. ASSUME ~crossed', ~behind'
       PROVE  ServedFits'
  <2>1. ServedFits /\ Alone /\ connection = 0
    BY <1>1, <1>2, <1>6, <1>15 DEF Alone, OneAtATime
  <2>2. served = "no"
    BY <2>1 DEF ServedFits
  <2>3. CASE served' = "no"
    BY <2>3 DEF ServedFits
  <2>4. CASE served' # "no"
    <3>1. config = configured /\ served' = "once" /\ connection' = id
      BY <1>5, <2>2, <2>4
    <3>2. \A p \in Operations : InProgress(p) =>
            operation[p].kind = "sync" /\ operation[p].config = config
      BY <1>7, <1>8, <2>1 DEF Alone, WantsAgree
    <3>3. \A p \in Operations : InProgress(p)' => operation'[p] = operation[p] /\ InProgress(p)
      BY <1>4 DEF InProgress
    <3>4. client'[id].config = configured /\ id # 0
      BY <1>1, <1>2, <1>5, <3>1 DEF id
    <3>. QED
      BY <1>6, <3>1, <3>2, <3>3, <3>4 DEF ServedFits
  <2>. QED
    BY <2>3, <2>4
<1>. QED
  BY <1>10, <1>11, <1>12, <1>13, <1>14, <1>15

\* The client of an attempt is refused, and waits for new tokens.
LEMMA RefuseStep ==
  ASSUME McpInv, NEW config \in Configs, Refuse(config)
  PROVE  McpAfter
<1>. USE Fields DEF Facts, McpInv, McpAfter
<1>. DEFINE id == attempts[config]
<1>1. /\ id \in Connections /\ client[id].state = "opening"
      /\ UNCHANGED <<configured, connection, made, attempts, operation, lastStatus, crossed,
                     behind, served>>
  BY DEF Refuse, histories
<1>2. /\ client'[id].state = "refused" /\ client'[id].config = client[id].config
      /\ \A i \in Connections : i # id => client'[i] = client[i]
  BY <1>1, BecomesIs DEF Refuse
<1>3. /\ \A i \in Connections : client'[i].config = client[i].config
      /\ \A i \in Connections : Trying(i)' <=> Trying(i)
      /\ \A i \in Connections : client'[i].state = "open" <=> client[i].state = "open"
  BY <1>1, <1>2 DEF Trying
<1>4. \A p \in Operations : operation[p].stage = "asking" => operation[p].client # id
  BY DEF ClientsAreOwned
<1>. HIDE DEF id
<1>5. StagesFit'
  BY <1>1, <1>2, <1>3, <1>4 DEF StagesFit
<1>6. ClientsAreOwned'
  <2>1. \A c \in Configs : attempts[c] # 0 =>
          client'[attempts[c]].config = c
          /\ client'[attempts[c]].state \in {"opening", "refused", "retrying"}
    BY <1>3 DEF ClientsAreOwned, Trying
  <2>. QED
    BY <1>1, <1>3, <2>1 DEF ClientsAreOwned, Trying
<1>7. NumbersAreNew'
  <2>1. id <= made
    BY DEF NumbersAreNew, id
  <2>. QED
    BY <1>1, <1>2, <1>3, <2>1 DEF NumbersAreNew
<1>8. NotClosed'
  BY <1>1, <1>2 DEF NotClosed, McpTypeOK
<1>9. Alone => Alone'
  <2>1. WantsAgree => WantsAgree'
    BY <1>1 DEF WantsAgree, InProgress
  <2>2. OneAtATime => OneAtATime'
    BY <1>1, <1>3 DEF OneAtATime, InProgress
  <2>3. StatusFits => StatusFits'
    BY <1>1 DEF StatusFits, InProgress, Reports
  <2>. QED
    BY <2>1, <2>2, <2>3 DEF Alone
<1>10. ServedFits => ServedFits'
  BY <1>1, <1>3 DEF ServedFits, InProgress, McpTypeOK
<1>. QED
  BY <1>1, <1>5, <1>6, <1>7, <1>8, <1>9, <1>10

\* Another client takes its place in the attempt.
LEMMA OpenAgainStep ==
  ASSUME McpInv, NEW config \in Configs, OpenAgain(config)
  PROVE  McpAfter
<1>. USE Fields DEF Facts, McpInv, McpAfter
<1>. DEFINE id == attempts[config]
<1>1. /\ id \in Connections /\ id # 0 /\ client[id].state = "refused"
      /\ UNCHANGED <<configured, connection, operation, lastStatus, crossed, behind, served>>
  BY DEF OpenAgain, histories
<1>2. made + 1 \in Connections /\ made' = made + 1 /\ id # made + 1
  BY McpConstants DEF OpenAgain, McpTypeOK, Connections, NumbersAreNew
<1>3. PICK state \in {"closed", "left"} :
        client' = [client EXCEPT ![attempts[config]].state = state,
                                 ![made + 1] = [config |-> config, state |-> "retrying"]]
  BY DEF OpenAgain
<1>4. client \in [Connections -> [config : Wanted, state : ClientStates]]
  BY DEF McpTypeOK
<1>5. /\ client'[id].state \in {"closed", "left"} /\ client'[id].config = client[id].config
      /\ client'[made + 1].config = config /\ client'[made + 1].state = "retrying"
      /\ \A i \in Connections : i \notin {id, made + 1} => client'[i] = client[i]
  BY <1>1, <1>2, <1>3, <1>4
<1>6. /\ attempts'[config] = made + 1
      /\ \A c \in Configs : c # config => attempts'[c] = attempts[c]
  BY DEF OpenAgain, McpTypeOK
<1>7. /\ \A p \in Operations : operation[p].client # made + 1
      /\ \A c \in Configs : attempts[c] # made + 1
      /\ connection # made + 1
  BY <1>2 DEF NumbersAreNew
<1>8. \A c \in Configs : c # config => attempts[c] # id
  BY <1>1 DEF ClientsAreOwned
<1>9. \A p \in Operations : operation[p].stage = "asking" => operation[p].client # id
  BY DEF ClientsAreOwned
<1>10. PICK o \in Operations : operation[o].stage = "connecting" /\ operation[o].config = config
  BY <1>1 DEF ClientsAreOwned
<1>11. Trying(id) /\ client[id].config = config
  BY <1>1 DEF ClientsAreOwned
<1>. HIDE DEF id
<1>12. StagesFit'
  <2>1. \A p \in Operations : operation[p].client \in Connections =>
          client'[operation[p].client].config = client[operation[p].client].config
    BY <1>5, <1>7
  <2>2. \A p \in Operations : operation[p].stage = "asking" =>
          client'[operation[p].client] = client[operation[p].client]
    BY <1>5, <1>7, <1>9 DEF StagesFit
  <2>3. \A c \in Configs : attempts[c] # 0 => attempts'[c] # 0
    BY <1>6
  <2>. QED
    BY <1>1, <2>1, <2>2, <2>3 DEF StagesFit
<1>13. ClientsAreOwned'
  <2>1. \A p \in Operations : operation[p].stage = "asking" =>
          \A c \in Configs : attempts'[c] # operation[p].client
    BY <1>6, <1>7 DEF ClientsAreOwned
  <2>2. ASSUME NEW c \in Configs, attempts'[c] # 0
        PROVE  /\ client'[attempts'[c]].state \in {"opening", "refused", "retrying"}
               /\ client'[attempts'[c]].config = c
               /\ \E p \in Operations :
                    operation[p].stage = "connecting" /\ operation[p].config = c
    <3>1. CASE c = config
      BY <1>5, <1>6, <1>10, <3>1
    <3>2. CASE c # config
      <4>1. attempts'[c] = attempts[c] /\ client'[attempts[c]] = client[attempts[c]]
        BY <1>5, <1>6, <1>7, <1>8, <2>2, <3>2
      <4>. QED
        BY <2>2, <4>1 DEF ClientsAreOwned, Trying
    <3>. QED
      BY <3>1, <3>2
  <2>3. ASSUME NEW i \in Connections, Trying(i)'
        PROVE  \/ \E p \in Operations : operation[p].stage = "asking" /\ operation[p].client = i
               \/ \E c \in Configs : attempts'[c] = i
    <3>1. CASE i = made + 1
      BY <1>6, <3>1
    <3>2. CASE i # made + 1
      <4>1. i # id /\ Trying(i)
        BY <1>5, <2>3, <3>2 DEF Trying
      <4>2. CASE \E c \in Configs : attempts[c] = i
        BY <1>6, <4>1, <4>2 DEF id
      <4>3. CASE \E p \in Operations : operation[p].stage = "asking" /\ operation[p].client = i
        BY <4>3
      <4>. QED
        BY <4>1, <4>2, <4>3 DEF ClientsAreOwned
    <3>. QED
      BY <3>1, <3>2
  <2>. QED
    BY <1>1, <2>1, <2>2, <2>3 DEF ClientsAreOwned, Trying
<1>14. NumbersAreNew'
  <2>1. id <= made
    BY DEF NumbersAreNew, id
  <2>. QED
    BY <1>1, <1>2, <1>5, <1>6, <2>1 DEF NumbersAreNew
<1>15. NotClosed'
  BY <1>1, <1>5, <1>7 DEF NotClosed, McpTypeOK
<1>16. ASSUME ~crossed'
       PROVE  Alone'
  <2>1. Alone /\ connection = 0
    BY <1>1, <1>11, <1>16 DEF Alone, OneAtATime
  <2>2. WantsAgree'
    BY <1>1, <2>1 DEF WantsAgree, InProgress, Alone
  <2>3. \A i \in Connections : client'[i].state # "open"
    BY <1>5, <2>1 DEF OneAtATime, Alone
  <2>4. OneAtATime'
    BY <1>1, <2>1, <2>3 DEF OneAtATime, Alone
  <2>5. \A p \in Operations : Reports(p) => Reports(p)'
    BY <1>1 DEF Reports, InProgress
  <2>6. StatusFits'
    BY <1>1, <2>1, <2>5 DEF StatusFits, Alone
  <2>. QED
    BY <2>2, <2>4, <2>6 DEF Alone
<1>17. ASSUME ~crossed', ~behind'
       PROVE  ServedFits'
  <2>1. ServedFits /\ connection = 0
    BY <1>1, <1>11, <1>17 DEF Alone, OneAtATime
  <2>. QED
    BY <1>1, <2>1 DEF ServedFits
<1>. QED
  BY <1>12, <1>13, <1>14, <1>15, <1>16, <1>17

LEMMA ServerEndsStep ==
  ASSUME McpInv, ServerEnds
  PROVE  McpAfter
<1>. USE Fields DEF Facts, McpInv, McpAfter, Alone
<1>1. /\ connection \in Connections /\ client[connection].state = "open"
      /\ UNCHANGED <<configured, connection, made, attempts, operation, lastStatus, crossed,
                     behind, served>>
  BY DEF ServerEnds, McpTypeOK, histories
<1>2. /\ client'[connection].state = "dead"
      /\ client'[connection].config = client[connection].config
      /\ \A i \in Connections : i # connection => client'[i] = client[i]
  BY <1>1, BecomesIs DEF ServerEnds
<1>3. StagesFit'
  BY <1>1, <1>2 DEF StagesFit
<1>4. ClientsAreOwned'
  BY <1>1, <1>2 DEF ClientsAreOwned, Trying
<1>5. NumbersAreNew' /\ NotClosed'
  BY <1>1, <1>2 DEF NumbersAreNew, NotClosed
<1>6. Alone => Alone'
  BY <1>1, <1>2 DEF WantsAgree, OneAtATime, StatusFits, InProgress, Reports, Trying
<1>7. ServedFits => ServedFits'
  BY <1>1, <1>2 DEF ServedFits, InProgress
<1>. QED
  BY <1>1, <1>3, <1>4, <1>5, <1>6, <1>7

-----------------------------------------------------------------------------
LEMMA McpBegins ==
  ASSUME McpInit
  PROVE  McpInv
<1>1. McpTypeOK
  BY McpInitTyped
<1>. USE <1>1, Fields DEF McpInit
<1>2. StagesFit /\ ClientsAreOwned
  BY DEF StagesFit, ClientsAreOwned, Trying
<1>3. NumbersAreNew /\ NotClosed
  BY DEF NumbersAreNew, NotClosed
<1>4. WantsAgree /\ OneAtATime /\ StatusFits /\ ServedFits
  BY DEF WantsAgree, OneAtATime, StatusFits, ServedFits, InProgress, Trying
<1>. QED
  BY <1>2, <1>3, <1>4 DEF McpInv, Facts, Alone

LEMMA McpKept ==
  ASSUME McpInv, [McpNext]_mcpVars
  PROVE  McpInv'
<1>1. McpTypeOK'
  BY TypeStep DEF McpInv
<1>2. McpAfter => McpInv'
  BY <1>1 DEF McpAfter, McpInv
<1>3. CASE /\ UNCHANGED <<connection, client, made, attempts, operation, lastStatus, crossed,
                          behind>>
           /\ served' = "no" \/ UNCHANGED <<configured, served>>
  BY <1>2, <1>3 DEF McpInv, McpAfter, Facts, Alone, StagesFit, ClientsAreOwned, NumbersAreNew,
     NotClosed, WantsAgree, OneAtATime, StatusFits, ServedFits, InProgress, Reports, Trying
<1>4. CASE \E o \in Operations :
             \/ BeginSync(o) \/ CloseLater(o) \/ GoOn(o) \/ AskUser(o) \/ LoggedIn(o)
             \/ LoginFails(o) \/ LoggedOut(o) \/ \E kind \in {"login", "logout"} : BeginOther(o, kind)
  BY <1>2, <1>4, BeginSyncStep, CloseLaterStep, GoOnStep, AskUserStep, LoginEndsStep,
     LoggedOutStep, BeginOtherStep
<1>5. CASE \E config \in Configs :
             Opened(config) \/ OpenFails(config) \/ Refuse(config) \/ OpenAgain(config)
  BY <1>2, <1>5, AttemptEndsStep, RefuseStep, OpenAgainStep
<1>6. CASE ServerEnds
  BY <1>2, <1>6, ServerEndsStep
<1>7. CASE \E config \in Wanted : Configure(config)
  BY <1>3, <1>7 DEF Configure
<1>8. CASE UNCHANGED mcpVars
  BY <1>3, <1>8 DEF mcpVars, histories
<1>. QED
  BY <1>4, <1>5, <1>6, <1>7, <1>8 DEF McpNext

\* Two clients are not opened for what runs at once and wants the same.
LEMMA McpGives ==
  ASSUME McpInv
  PROVE  ConnectionsAreKept
<1>. USE Fields DEF McpInv, Facts, Alone
<1>1. ASSUME ~crossed, NEW o \in Operations, operation[o].stage = "asking",
             NEW p \in Operations, operation[p].stage \in {"asking", "connecting"}
      PROVE  o = p
  <2>1. InProgress(o) /\ InProgress(p) /\ operation[o].kind = "login"
    BY <1>1 DEF StagesFit, InProgress
  <2>. QED
    BY <1>1, <2>1 DEF WantsAgree
<1>2. ASSUME ~crossed, NEW i \in Connections, NEW j \in Connections, Trying(i), Trying(j)
      PROVE  i = j
  <2>1. ASSUME NEW c \in Configs, attempts[c] # 0
        PROVE  \E p \in Operations : operation[p].stage = "connecting" /\ operation[p].config = c
               /\ InProgress(p)
    BY <2>1, ClientsOf DEF ClientsAreOwned
  <2>2. ASSUME NEW o \in Operations, operation[o].stage = "asking", NEW c \in Configs,
               attempts[c] # 0
        PROVE  FALSE
    BY <1>1, <1>2, <2>1, <2>2
  <2>3. ASSUME NEW c \in Configs, NEW d \in Configs, attempts[c] # 0, attempts[d] # 0
        PROVE  c = d
    BY <1>2, <2>1, <2>3 DEF WantsAgree
  <2>4. /\ \/ \E o \in Operations : operation[o].stage = "asking" /\ operation[o].client = i
           \/ \E c \in Configs : attempts[c] = i
        /\ \/ \E o \in Operations : operation[o].stage = "asking" /\ operation[o].client = j
           \/ \E c \in Configs : attempts[c] = j
        /\ i # 0 /\ j # 0
    BY <1>2 DEF ClientsAreOwned
  <2>. QED
    BY <1>1, <1>2, <2>2, <2>3, <2>4
<1>3. ~crossed /\ Quiet => (lastStatus = "connected") = (connection # 0)
  BY DEF StatusFits, Quiet, Reports
<1>4. Reused
  BY DEF Reused, ServedFits
<1>. QED
  BY <1>2, <1>3, <1>4 DEF ConnectionsAreKept, OneConnection, OneAtATime

\* Whatever syncs, sign-ins and sign-outs overlap, what is connected was not closed; and as
\* long as those that overlap want the same, they share one connection, whose state is listed,
\* and it is reused, unless one closes what another connected after it had looked.
THEOREM ConnectionsKept == McpSpec => []ConnectionsAreKept
<1>1. McpInit => McpInv
  BY McpBegins
<1>2. McpInv /\ [McpNext]_mcpVars => McpInv'
  BY McpKept
<1>3. McpInv => ConnectionsAreKept
  BY McpGives
<1>. QED
  BY <1>1, <1>2, <1>3, PTL DEF McpSpec

-----------------------------------------------------------------------------
\* Credentials

UpdateRecord == [stage : {"none", "saving", "between", "removing"}, copy : Store]
RefreshRecord == [stage : {"none", "asking", "granted", "refused", "loading", "saving"},
                  tokens : Tokens \cup {NoTokens}, copy : Store]

CredentialTypes ==
  /\ server \in [SignIns -> 0..MaxRotations] /\ keyring \in Store /\ authFile \in Store
  /\ hasKey \in BOOLEAN /\ tokens \in Tokens \cup {NoTokens} /\ binding \in SignIns \cup {0}
  /\ running \in {"down", "starting", "up"} /\ signIns \in 0..MaxSignIns
  /\ update \in [Writers -> UpdateRecord] /\ refresh \in [Refreshes -> RefreshRecord]
  /\ \A r \in Refreshes :
       /\ refresh[r].stage # "none" => refresh[r].tokens \in Tokens
       /\ refresh[r].stage = "asking" => MayBeDue(refresh[r].tokens)
  /\ Saving("signIn") => signIns \in SignIns
  /\ signedIn \in SignIns \cup {0} /\ lost \subseteq SignIns

Refreshing(r) == refresh[r].stage # "none"
Of(r) == refresh[r].tokens.signIn
Keeping(r) == refresh[r].stage \in {"loading", "saving"}
Forgetting == update["forget"].stage # "none"

\* The server takes the refresh token, unless what it rotated it to was lost.
Expected(t) == server[t.signIn] = t.rotation \/ t.signIn \in lost

\* There is one refresh of a sign-in, which has the tokens the server expects next; once
\* they have come the binding has them.
RefreshesFit ==
  /\ \A r \in Refreshes : Refreshing(r) => Expected(refresh[r].tokens)
  /\ \A r, q \in Refreshes : Refreshing(r) /\ Refreshing(q) /\ Of(r) = Of(q) => r = q
  /\ \A r \in Refreshes : Keeping(r) /\ Of(r) = binding => tokens = refresh[r].tokens

BindingFits ==
  binding # 0 =>
    /\ tokens \in Tokens /\ tokens.signIn = binding
    /\ \/ Expected(tokens)
       \/ \E r \in Refreshes : refresh[r].stage = "granted" /\ Of(r) = binding

StoreFits ==
  running # "down" =>
    /\ Stored.key = hasKey
    /\ binding = 0 /\ ~Forgetting => Stored.tokens = NoTokens
    /\ binding # 0 => /\ Stored.tokens # NoTokens /\ Stored.tokens.signIn = binding
                      /\ \/ Stored.tokens = tokens \/ binding \in lost
                         \/ \E r \in Refreshes : Keeping(r) /\ Of(r) = binding

\* A process that is not there has nothing in progress, and leaves tokens of the last
\* sign-in that can be refreshed.
DownFits ==
  running = "down" =>
    /\ binding = 0
    /\ \A r \in Refreshes : refresh[r] = NoRefresh
    /\ \A w \in Writers : update[w] = Idle
    /\ Stored.tokens # NoTokens => Expected(Stored.tokens)
    /\ signedIn = IF Stored.tokens = NoTokens THEN 0 ELSE Stored.tokens.signIn

\* A process that starts refreshes its binding or forgets it, and does nothing else.
StartingFits ==
  /\ Forgetting => /\ running = "starting" /\ binding = 0
                   /\ \A r \in Refreshes : ~Refreshing(r)
                   /\ Stored.tokens # NoTokens /\ Expected(Stored.tokens)
                   /\ Stored.tokens.signIn = signedIn
  /\ running = "starting" =>
       /\ \A w \in Writers : w # "forget" => update[w] = Idle
       /\ \A r \in Refreshes : Refreshing(r) => Of(r) = binding
  /\ running # "down" /\ ~Forgetting => binding = signedIn

\* The sign-in whose tokens are being saved is not used yet.
Used(s) == s <= signIns /\ (Saving("signIn") => s < signIns)
SignInsFit ==
  /\ Stored.tokens # NoTokens => Used(Stored.tokens.signIn)
  /\ tokens # NoTokens => Used(tokens.signIn)
  /\ \A r \in Refreshes : Refreshing(r) => Used(Of(r))
  /\ \A s \in SignIns : ~Used(s) => server[s] = 0

Sound == RefreshesFit /\ BindingFits /\ StoreFits /\ DownFits /\ StartingFits /\ SignInsFit
CredentialsInv == CredentialTypes /\ (mishap = {} => Sound)

LEMMA StoreTypes ==
  /\ Empty \in Store
  /\ NoTokens \notin Tokens
  /\ \A s \in Store : s.key \in BOOLEAN /\ s.tokens \in Tokens \cup {NoTokens}
  /\ \A s \in Store, t \in Tokens \cup {NoTokens} :
       /\ [s EXCEPT !.tokens = t] \in Store
       /\ [s EXCEPT !.tokens = t].key = s.key /\ [s EXCEPT !.tokens = t].tokens = t
  /\ \A s \in Store : /\ [s EXCEPT !.key = TRUE] \in Store
                      /\ [s EXCEPT !.key = TRUE].key = TRUE
                      /\ [s EXCEPT !.key = TRUE].tokens = s.tokens
<1>1. Empty \in Store
  BY Zenon DEF Empty, Store
<1>2. NoTokens \notin Tokens
  BY CredentialsConstants
<1>3. \A s \in Store : s.key \in BOOLEAN /\ s.tokens \in Tokens \cup {NoTokens}
  BY Zenon DEF Store
<1>4. \A s \in Store, t \in Tokens \cup {NoTokens} :
        /\ [s EXCEPT !.tokens = t] \in Store
        /\ [s EXCEPT !.tokens = t].key = s.key /\ [s EXCEPT !.tokens = t].tokens = t
  BY DEF Store
<1>5. \A s \in Store : /\ [s EXCEPT !.key = TRUE] \in Store
                       /\ [s EXCEPT !.key = TRUE].key = TRUE
                       /\ [s EXCEPT !.key = TRUE].tokens = s.tokens
  BY DEF Store
<1> QED
  BY <1>1, <1>2, <1>3, <1>4, <1>5

LEMMA StoredTypes ==
  ASSUME CredentialTypes
  PROVE  Stored \in Store /\ Loads \subseteq Store
<1>1. keyring \in Store /\ authFile \in Store
  BY DEF CredentialTypes
<1>2. (authFile.key \/ keyring.key) \in BOOLEAN
  BY Zenon
<1>3. (IF keyring.tokens = NoTokens THEN authFile.tokens ELSE keyring.tokens)
      \in Tokens \cup {NoTokens}
  BY <1>1, StoreTypes
<1>4. Stored \in Store
  BY <1>2, <1>3, Zenon DEF Stored, Merged, Store
<1> QED
  BY <1>1, <1>4 DEF Loads

\* What is saved without a mishap is what is stored.
LEMMA SaveIs ==
  ASSUME CredentialTypes, NEW copy \in Store, NEW changed \in Store, NEW others,
         mishap = {}, SaveStore(copy, changed, others)
  PROVE  /\ keyring' \in Store /\ authFile' \in Store
         /\ mishap' = {} => copy = Stored /\ Stored' = changed /\ others = {}
<1>1. keyring' \in Store /\ authFile' \in Store
  BY StoreTypes DEF CredentialTypes, SaveStore
<1>2. ASSUME mishap' = {}
      PROVE  copy = Stored /\ Stored' = changed /\ others = {}
  <2>1. mishap' = mishap \cup others \cup (IF copy = Stored THEN {} ELSE {"overwritten"})
                      \cup (IF Stored' = changed THEN {} ELSE {"hidden"})
    BY Zenon DEF SaveStore
  <2> QED
    BY <1>2, <2>1
<1> QED
  BY <1>1, <1>2

LEMMA StoredStays ==
  ASSUME UNCHANGED storeVars
  PROVE  keyring' = keyring /\ authFile' = authFile /\ Stored' = Stored
BY DEF storeVars, Stored

LEMMA UpdateTypes ==
  /\ Idle \in UpdateRecord /\ Idle.stage = "none"
  /\ \A s \in {"none", "saving", "between", "removing"}, c \in Store :
       [stage |-> s, copy |-> c] \in UpdateRecord
  /\ \A u \in UpdateRecord : /\ u.copy \in Store
                             /\ u.stage \in {"none", "saving", "between", "removing"}
BY StoreTypes DEF Idle, UpdateRecord

LEMMA RefreshTypes ==
  /\ NoRefresh \in RefreshRecord /\ NoRefresh.stage = "none"
  /\ \A f \in RefreshRecord :
       /\ f.stage \in {"none", "asking", "granted", "refused", "loading", "saving"}
       /\ f.tokens \in Tokens \cup {NoTokens} /\ f.copy \in Store
BY StoreTypes DEF NoRefresh, RefreshRecord

LEMMA TokenTypes ==
  \A t \in Tokens :
    /\ t.signIn \in SignIns /\ t.rotation \in 0..MaxRotations
    /\ t.signIn \in Nat \ {0} /\ t.rotation \in Nat
    /\ MayBeDue(t) => /\ Rotated(t) \in Tokens /\ Rotated(t).signIn = t.signIn
                      /\ Rotated(t).rotation = t.rotation + 1
                      /\ t.rotation + 1 \in 0..MaxRotations
BY CredentialsConstants DEF Tokens, SignIns, MayBeDue, Rotated

LEMMA BeginIs ==
  ASSUME CredentialTypes, NEW w \in Writers, Begin(w)
  PROVE  /\ update' \in [Writers -> UpdateRecord]
         /\ update'[w].stage = "saving"
         /\ \A v \in Writers : v # w => update'[v] = update[v]
<1>1. update \in [Writers -> UpdateRecord]
  BY DEF CredentialTypes
<1>2. PICK copy \in Loads : update' = [update EXCEPT ![w] = [stage |-> "saving", copy |-> copy]]
  BY Zenon DEF Begin
<1>3. copy \in Store
  BY <1>2, StoredTypes
<1>4. [stage |-> "saving", copy |-> copy] \in UpdateRecord
  BY <1>3, UpdateTypes
<1> QED
  BY <1>1, <1>2, <1>4

LEMMA EndIs ==
  ASSUME CredentialTypes, NEW w \in Writers, End(w)
  PROVE  /\ update' \in [Writers -> UpdateRecord]
         /\ update'[w] = Idle /\ update'[w].stage = "none"
         /\ \A v \in Writers : v # w => update'[v] = update[v]
BY UpdateTypes DEF CredentialTypes, End

FitBefore == CredentialTypes /\ Sound /\ mishap = {}
FitAfter == CredentialTypes' /\ (mishap' = {} => Sound')

LEMMA EnsureFreshKeeps ==
  ASSUME FitBefore, NEW r \in Refreshes, EnsureFresh(r)
  PROVE  FitAfter
<1> DEFINE f == [NoRefresh EXCEPT !.stage = "asking", !.tokens = tokens]
<1>1. /\ refresh' = [refresh EXCEPT ![r] = f] /\ refresh[r] = NoRefresh
      /\ running = "up" /\ binding # 0 /\ MayBeDue(tokens)
      /\ ~Locked(binding)
  BY DEF EnsureFresh
<1>2. UNCHANGED <<server, hasKey, binding, running, update, signIns, tokens, mishap,
                  signedIn, lost>>
      /\ UNCHANGED storeVars
  BY DEF EnsureFresh, RefreshVars
<1>3. tokens \in Tokens /\ tokens.signIn = binding
  BY <1>1 DEF FitBefore, Sound, BindingFits
<1>4. f \in RefreshRecord /\ f.stage = "asking" /\ f.tokens = tokens
  BY <1>3, StoreTypes DEF NoRefresh, RefreshRecord
<1>5. refresh \in [Refreshes -> RefreshRecord]
  BY DEF FitBefore, CredentialTypes
<1> HIDE DEF f
<1>6. /\ refresh' \in [Refreshes -> RefreshRecord] /\ refresh'[r] = f
      /\ \A q \in Refreshes : q # r => refresh'[q] = refresh[q]
  BY <1>1, <1>4, <1>5
<1>7. keyring' = keyring /\ authFile' = authFile /\ Stored' = Stored
  BY <1>2, StoredStays
<1>8. CredentialTypes'
  BY <1>1, <1>2, <1>3, <1>4, <1>6, <1>7 DEF FitBefore, CredentialTypes, MayBeDue, Saving
<1>9. \A q \in Refreshes : refresh[q].stage # "granted" \/ Of(q) # binding
  BY <1>1 DEF Locked, Of
<1>10. Expected(tokens)
  BY <1>1, <1>9 DEF FitBefore, Sound, BindingFits
<1>11. \A q \in Refreshes : Refreshing(q) => Of(q) # binding
  BY <1>1 DEF Locked, Of, Refreshing
<1>12. RefreshesFit'
  BY <1>2, <1>3, <1>4, <1>6, <1>10, <1>11
     DEF FitBefore, Sound, RefreshesFit, Refreshing, Keeping, Of, Expected
<1>13. BindingFits'
  BY <1>2, <1>3, <1>10 DEF BindingFits, Expected
<1>14. StoreFits'
  BY <1>1, <1>2, <1>6, <1>7, <1>11
     DEF FitBefore, Sound, StoreFits, Of, Refreshing, Keeping, Forgetting
<1>15. DownFits'
  BY <1>1, <1>2 DEF DownFits
<1>16. StartingFits'
  BY <1>1, <1>2 DEF FitBefore, Sound, StartingFits, Forgetting
<1>17. SignInsFit'
  BY <1>2, <1>3, <1>4, <1>6, <1>7, StoreTypes
     DEF FitBefore, Sound, SignInsFit, Refreshing, Of, Used, Saving
<1> QED
  BY <1>8, <1>12, <1>13, <1>14, <1>15, <1>16, <1>17 DEF FitAfter, Sound

LEMMA RotateKeeps ==
  ASSUME FitBefore, NEW r \in Refreshes, Rotate(r)
  PROVE  FitAfter
<1> DEFINE t == refresh[r].tokens
<1>1. refresh[r].stage = "asking" /\ Refreshing(r)
  BY DEF Rotate, Refreshing
<1>2. t \in Tokens /\ MayBeDue(t)
  BY <1>1 DEF FitBefore, CredentialTypes
<1>3. UNCHANGED <<hasKey, tokens, binding, running, update, signIns, mishap, signedIn, lost>>
      /\ UNCHANGED storeVars
  BY DEF Rotate
<1>4. refresh \in [Refreshes -> RefreshRecord] /\ refresh[r] \in RefreshRecord
      /\ server \in [SignIns -> 0..MaxRotations]
  BY DEF FitBefore, CredentialTypes
<1>5. /\ Rotated(t) \in Tokens /\ Rotated(t).signIn = t.signIn
      /\ Rotated(t).rotation = t.rotation + 1 /\ t.rotation + 1 \in 0..MaxRotations
      /\ t.signIn \in SignIns /\ t.rotation \in Nat
  BY <1>2, TokenTypes
\* The token is spent, or the refresh is refused.
<1>6. PICK f \in RefreshRecord :
        /\ refresh' = [refresh EXCEPT ![r] = f]
        /\ \/ /\ server[t.signIn] = t.rotation /\ server' = [server EXCEPT ![t.signIn] = @ + 1]
              /\ f.stage = "granted" /\ f.tokens = Rotated(t)
           \/ server' = server /\ f.stage = "refused" /\ f.tokens = t
  <2>1. CASE /\ server[t.signIn] = t.rotation /\ server' = [server EXCEPT ![t.signIn] = @ + 1]
             /\ refresh' = [refresh EXCEPT ![r].stage = "granted", ![r].tokens = Rotated(t)]
    <3> DEFINE g == [refresh[r] EXCEPT !.stage = "granted", !.tokens = Rotated(t)]
    <3>1. g \in RefreshRecord /\ g.stage = "granted" /\ g.tokens = Rotated(t)
      BY <1>4, <1>5 DEF RefreshRecord
    <3>2. refresh' = [refresh EXCEPT ![r] = g]
      BY <1>4, <2>1 DEF RefreshRecord
    <3> QED
      BY <2>1, <3>1, <3>2
  <2>2. CASE server' = server /\ refresh' = [refresh EXCEPT ![r].stage = "refused"]
    <3> DEFINE g == [refresh[r] EXCEPT !.stage = "refused"]
    <3>1. g \in RefreshRecord /\ g.stage = "refused" /\ g.tokens = t
      BY <1>4 DEF RefreshRecord
    <3>2. refresh' = [refresh EXCEPT ![r] = g]
      BY <2>2
    <3> QED
      BY <2>2, <3>1, <3>2
  <2> QED
    BY <2>1, <2>2 DEF Rotate
<1> HIDE DEF t
<1>7. /\ refresh' \in [Refreshes -> RefreshRecord] /\ refresh'[r] = f
      /\ \A q \in Refreshes : q # r => refresh'[q] = refresh[q]
  BY <1>4, <1>6
<1>8. /\ server' \in [SignIns -> 0..MaxRotations]
      /\ \A s \in SignIns : s # t.signIn => server'[s] = server[s]
  <2>1. t.signIn \in SignIns
    BY <1>5
  <2>2. CASE server' = server
    BY <1>4, <2>2
  <2>3. CASE server[t.signIn] = t.rotation /\ server' = [server EXCEPT ![t.signIn] = @ + 1]
    BY <1>4, <1>5, <2>3
  <2> QED
    BY <1>6, <2>2, <2>3
\* What the refresh has now fits as before.
<1>9. f.tokens \in Tokens /\ f.tokens.signIn = t.signIn
      /\ (server'[f.tokens.signIn] = f.tokens.rotation \/ f.tokens.signIn \in lost)
  <2>1. Expected(t)
    BY <1>1 DEF FitBefore, Sound, RefreshesFit, t
  <2>2. CASE server' = server /\ f.tokens = t
    BY <1>2, <2>1, <2>2 DEF Expected
  <2>3. CASE /\ server[t.signIn] = t.rotation /\ server' = [server EXCEPT ![t.signIn] = @ + 1]
             /\ f.tokens = Rotated(t)
    BY <1>4, <1>5, <2>3
  <2> QED
    BY <1>6, <2>2, <2>3
<1>10. keyring' = keyring /\ authFile' = authFile /\ Stored' = Stored
  BY <1>3, StoredStays
<1>11. CredentialTypes'
  BY <1>3, <1>6, <1>7, <1>8, <1>9, <1>10 DEF FitBefore, CredentialTypes, MayBeDue, Saving
<1>12. \A q \in Refreshes : Refreshing(q) /\ q # r => Of(q) # t.signIn
  BY <1>1 DEF FitBefore, Sound, RefreshesFit, Of, t
<1>13. \A q \in Refreshes : Refreshing(q) => Of(q) \in SignIns
  BY TokenTypes DEF FitBefore, CredentialTypes, Refreshing, Of
<1>14. \A q \in Refreshes : /\ q # r => refresh'[q] = refresh[q]
                            /\ Of(q)' = Of(q) /\ Refreshing(q)' = Refreshing(q)
                            /\ Keeping(q)' = Keeping(q)
  BY <1>1, <1>6, <1>7, <1>9 DEF Of, Refreshing, Keeping, t
<1>15. \A q \in Refreshes : Refreshing(q) => Expected(refresh[q].tokens)'
  <2> SUFFICES ASSUME NEW q \in Refreshes, Refreshing(q) PROVE Expected(refresh[q].tokens)'
    OBVIOUS
  <2>1. CASE q = r
    BY <1>3, <1>7, <1>9, <2>1 DEF Expected
  <2>2. CASE q # r
    BY <1>3, <1>7, <1>8, <1>12, <1>13, <2>2
       DEF FitBefore, Sound, RefreshesFit, Expected, Of
  <2> QED
    BY <2>1, <2>2
<1>16. \A q \in Refreshes : Keeping(q) => q # r
  BY <1>1 DEF Keeping
<1>17. RefreshesFit'
  <2>1. \A q \in Refreshes : Refreshing(q)' => Expected(refresh[q].tokens)'
    BY <1>14, <1>15
  <2>2. \A p, q \in Refreshes : Refreshing(p)' /\ Refreshing(q)' /\ Of(p)' = Of(q)' => p = q
    BY <1>14 DEF FitBefore, Sound, RefreshesFit
  <2>3. \A q \in Refreshes : Keeping(q)' /\ Of(q)' = binding' => tokens' = refresh'[q].tokens
    BY <1>3, <1>7, <1>14, <1>16 DEF FitBefore, Sound, RefreshesFit
  <2> QED
    BY <2>1, <2>2, <2>3 DEF RefreshesFit
<1>18. BindingFits'
  <2> SUFFICES ASSUME binding # 0 PROVE BindingFits'
    BY <1>3 DEF BindingFits
  <2>1. tokens \in Tokens /\ tokens.signIn = binding /\ binding \in SignIns
    BY TokenTypes DEF FitBefore, Sound, BindingFits
  <2>2. CASE f.stage = "granted" /\ binding = t.signIn
    BY <1>3, <1>7, <1>9, <2>1, <2>2 DEF BindingFits, Of
  <2>3. CASE server' = server
    <3>1. CASE Expected(tokens)
      BY <1>3, <2>1, <2>3, <3>1 DEF BindingFits, Expected
    <3>2. CASE ~Expected(tokens)
      <4>1. PICK q \in Refreshes : refresh[q].stage = "granted" /\ Of(q) = binding
        BY <3>2 DEF FitBefore, Sound, BindingFits
      <4>2. q # r
        BY <1>1, <4>1
      <4>3. refresh'[q].stage = "granted" /\ Of(q)' = binding'
        BY <1>3, <1>7, <4>1, <4>2 DEF Of
      <4> QED
        BY <1>3, <2>1, <4>3 DEF BindingFits
    <3> QED
      BY <3>1, <3>2
  <2>4. CASE binding # t.signIn
    <3>1. server'[binding] = server[binding]
      BY <1>8, <2>1, <2>4
    <3>2. CASE Expected(tokens)
      BY <1>3, <2>1, <3>1, <3>2 DEF BindingFits, Expected
    <3>3. CASE ~Expected(tokens)
      <4>1. PICK q \in Refreshes : refresh[q].stage = "granted" /\ Of(q) = binding
        BY <3>3 DEF FitBefore, Sound, BindingFits
      <4>2. q # r
        BY <1>1, <4>1
      <4>3. refresh'[q].stage = "granted" /\ Of(q)' = binding'
        BY <1>3, <1>7, <4>1, <4>2 DEF Of
      <4> QED
        BY <1>3, <2>1, <4>3 DEF BindingFits
    <3> QED
      BY <3>2, <3>3
  <2> QED
    BY <1>6, <2>2, <2>3, <2>4
<1>19. Forgetting' = Forgetting
  BY <1>3 DEF Forgetting
<1>20. StoreFits'
  BY <1>3, <1>10, <1>14, <1>19 DEF FitBefore, Sound, StoreFits
<1>21. running # "down"
  BY <1>1, RefreshTypes DEF FitBefore, Sound, DownFits
<1>22. DownFits'
  BY <1>3, <1>21 DEF DownFits
<1>23. StartingFits'
  <2>1. ~Forgetting
    BY <1>1 DEF FitBefore, Sound, StartingFits
  <2> QED
    BY <1>3, <1>14, <1>19, <2>1 DEF FitBefore, Sound, StartingFits
<1>24. SignInsFit'
  <2>1. \A s : Used(s)' <=> Used(s)
    BY <1>3 DEF Used, Saving
  <2>2. \A s \in SignIns : ~Used(s) => server'[s] = 0
    BY <1>1, <1>8 DEF FitBefore, Sound, SignInsFit, Of, t
  <2>3. \A q \in Refreshes : Refreshing(q)' => Used(Of(q)')
    BY <1>14 DEF FitBefore, Sound, SignInsFit
  <2> QED
    BY <1>3, <1>10, <2>1, <2>2, <2>3 DEF FitBefore, Sound, SignInsFit
<1> QED
  BY <1>11, <1>17, <1>18, <1>20, <1>22, <1>23, <1>24 DEF FitAfter, Sound

LEMMA GrantedKeeps ==
  ASSUME FitBefore, NEW r \in Refreshes, Granted(r)
  PROVE  FitAfter
<1>1. refresh[r].stage = "granted" /\ Refreshing(r)
  BY DEF Granted, Refreshing
<1>2. /\ tokens' = IF tokens.signIn = refresh[r].tokens.signIn THEN refresh[r].tokens ELSE tokens
      /\ refresh' = [refresh EXCEPT ![r].stage = "loading"]
      /\ UNCHANGED <<server, hasKey, binding, running, update, signIns, mishap, signedIn, lost>>
      /\ UNCHANGED storeVars
  BY DEF Granted, RefreshVars
<1>3. refresh \in [Refreshes -> RefreshRecord] /\ refresh[r] \in RefreshRecord
      /\ refresh[r].tokens \in Tokens
  BY <1>1 DEF FitBefore, CredentialTypes
<1> DEFINE f == [refresh[r] EXCEPT !.stage = "loading"]
<1>4. f \in RefreshRecord /\ f.stage = "loading" /\ f.tokens = refresh[r].tokens
  BY <1>3 DEF RefreshRecord
<1>5. refresh' = [refresh EXCEPT ![r] = f]
  BY <1>2
<1> HIDE DEF f
<1>6. /\ refresh' \in [Refreshes -> RefreshRecord] /\ refresh'[r] = f
      /\ \A q \in Refreshes : q # r => refresh'[q] = refresh[q]
  BY <1>3, <1>4, <1>5
<1>7. keyring' = keyring /\ authFile' = authFile /\ Stored' = Stored
  BY <1>2, StoredStays
<1>8. CredentialTypes'
  BY <1>2, <1>3, <1>4, <1>6, <1>7 DEF FitBefore, CredentialTypes, MayBeDue, Saving
<1>9. \A q \in Refreshes : Of(q)' = Of(q) /\ Refreshing(q)' = Refreshing(q)
                           /\ refresh'[q].tokens = refresh[q].tokens
  BY <1>1, <1>4, <1>6 DEF Of, Refreshing
<1>10. \A q \in Refreshes : Refreshing(q) /\ Of(q) = Of(r) => q = r
  BY <1>1 DEF FitBefore, Sound, RefreshesFit
<1>11. Expected(refresh[r].tokens)
  BY <1>1 DEF FitBefore, Sound, RefreshesFit
<1>12. binding # 0 => tokens \in Tokens /\ tokens.signIn = binding
  BY DEF FitBefore, Sound, BindingFits
<1>13. \A q \in Refreshes : q # r => Keeping(q)' = Keeping(q)
  BY <1>6 DEF Keeping
<1>14. Of(r) \in SignIns /\ Of(r) # 0
  BY <1>3, TokenTypes DEF Of
<1>15. \A t : Expected(t)' <=> Expected(t)
  BY <1>2 DEF Expected
<1>16. RefreshesFit'
  <2>1. ASSUME NEW q \in Refreshes, Keeping(q)', Of(q)' = binding'
        PROVE  tokens' = refresh'[q].tokens
    <3>1. Of(q) = binding /\ Refreshing(q) /\ refresh'[q].tokens = refresh[q].tokens
      BY <1>2, <1>9, <2>1 DEF Keeping, Refreshing
    <3>2. CASE q = r
      BY <1>2, <1>12, <1>14, <3>1, <3>2 DEF Of
    <3>3. CASE q # r
      <4>1. tokens' = tokens
        <5>1. tokens.signIn # refresh[r].tokens.signIn
          BY <1>10, <1>12, <3>1, <3>3, TokenTypes
             DEF FitBefore, CredentialTypes, Refreshing, Of
        <5> QED
          BY <1>2, <5>1
      <4> QED
        BY <1>13, <2>1, <3>1, <3>3, <4>1 DEF FitBefore, Sound, RefreshesFit
    <3> QED
      BY <3>2, <3>3
  <2>2. \A q \in Refreshes : Refreshing(q)' => Expected(refresh[q].tokens)'
    BY <1>9, <1>15 DEF FitBefore, Sound, RefreshesFit
  <2>3. \A p, q \in Refreshes : Refreshing(p)' /\ Refreshing(q)' /\ Of(p)' = Of(q)' => p = q
    BY <1>9 DEF FitBefore, Sound, RefreshesFit
  <2> QED
    BY <2>1, <2>2, <2>3 DEF RefreshesFit
<1>17. BindingFits'
  <2> SUFFICES ASSUME binding # 0 PROVE BindingFits'
    BY <1>2 DEF BindingFits
  <2>1. tokens \in Tokens /\ tokens.signIn = binding
    BY <1>12
  <2>2. CASE binding = Of(r)
    <3>1. tokens' = refresh[r].tokens
      BY <1>2, <2>1, <2>2 DEF Of
    <3> QED
      BY <1>2, <1>3, <1>11, <1>15, <2>2, <3>1 DEF BindingFits, Of
  <2>3. CASE binding # Of(r)
    <3>1. tokens' = tokens
      BY <1>2, <2>1, <2>3 DEF Of
    <3> QED
      BY <1>2, <1>6, <1>9, <1>15, <2>1, <2>3, <3>1 DEF FitBefore, Sound, BindingFits
  <2> QED
    BY <2>2, <2>3
<1>18. Keeping(r)' /\ Forgetting' = Forgetting
  BY <1>2, <1>4, <1>6 DEF Keeping, Forgetting
<1>19. StoreFits'
  <2>1. CASE binding = Of(r)
    BY <1>2, <1>7, <1>9, <1>14, <1>18, <2>1 DEF FitBefore, Sound, StoreFits
  <2>2. CASE binding # Of(r) /\ binding # 0
    <3>1. tokens' = tokens
      BY <1>2, <1>12, <2>2 DEF Of
    <3> QED
      BY <1>2, <1>7, <1>9, <1>13, <1>18, <2>2, <3>1 DEF FitBefore, Sound, StoreFits
  <2>3. CASE binding = 0
    BY <1>2, <1>7, <1>18, <2>3 DEF FitBefore, Sound, StoreFits
  <2> QED
    BY <2>1, <2>2, <2>3
<1>20. running # "down"
  BY <1>1, RefreshTypes DEF FitBefore, Sound, DownFits
<1>21. DownFits'
  BY <1>2, <1>20 DEF DownFits
<1>22. StartingFits'
  BY <1>1, <1>2, <1>9, <1>18 DEF FitBefore, Sound, StartingFits
<1>23. SignInsFit'
  <2>1. \A s : Used(s)' <=> Used(s)
    BY <1>2 DEF Used, Saving
  <2>2. tokens' # NoTokens => Used(tokens'.signIn)
    BY <1>1, <1>2 DEF FitBefore, Sound, SignInsFit, Of
  <2> QED
    BY <1>2, <1>7, <1>9, <2>1, <2>2 DEF FitBefore, Sound, SignInsFit
<1> QED
  BY <1>8, <1>16, <1>17, <1>19, <1>21, <1>22, <1>23 DEF FitAfter, Sound

LEMMA WriterNames ==
  /\ "set" \in Writers /\ "signIn" \in Writers /\ "signOut" \in Writers /\ "forget" \in Writers
  /\ \A w \in Writers : w \in {"set", "signIn", "signOut", "forget"}
BY DEF Writers

LEMMA ForgetOrNot ==
  ASSUME FitBefore, Begin("forget") \/ update' = update
  PROVE  /\ update' \in [Writers -> UpdateRecord]
         /\ \A w \in Writers : w # "forget" => update'[w] = update[w]
<1>1. update \in [Writers -> UpdateRecord]
  BY DEF FitBefore, CredentialTypes
<1>2. CredentialTypes
  BY DEF FitBefore
<1> QED
  BY <1>1, <1>2, WriterNames, BeginIs

LEMMA FailedKeeps ==
  ASSUME FitBefore, NEW r \in Refreshes, Failed(r)
  PROVE  FitAfter
<1>1. refresh[r].stage \in {"granted", "refused"} /\ Refreshing(r)
  BY DEF Failed, Refreshing
<1>2. /\ refresh' = [refresh EXCEPT ![r] = NoRefresh]
      /\ lost' = IF refresh[r].stage = "granted" THEN lost \cup {Of(r)} ELSE lost
      /\ UNCHANGED <<server, hasKey, tokens, running, signIns, mishap, signedIn>>
      /\ UNCHANGED storeVars
  BY DEF Failed, Of
<1>3. \/ running = "starting" /\ binding' = 0 /\ Begin("forget")
      \/ running # "starting" /\ binding' = binding /\ update' = update
  BY DEF Failed, Forgets
<1>4. /\ update' \in [Writers -> UpdateRecord]
      /\ \A w \in Writers : w # "forget" => update'[w] = update[w]
      /\ update'["signIn"] = update["signIn"]
  BY <1>3, ForgetOrNot, WriterNames
<1>5. refresh \in [Refreshes -> RefreshRecord] /\ refresh[r].tokens \in Tokens
  BY <1>1 DEF FitBefore, CredentialTypes, Refreshing
<1>6. /\ refresh' \in [Refreshes -> RefreshRecord]
      /\ \A q \in Refreshes : Refreshing(q)' => /\ Refreshing(q) /\ q # r
                                                /\ refresh'[q] = refresh[q] /\ Of(q)' = Of(q)
      /\ \A q \in Refreshes : q # r => refresh'[q] = refresh[q] /\ Of(q)' = Of(q)
  BY <1>2, <1>5, RefreshTypes DEF Refreshing, Of
<1>7. keyring' = keyring /\ authFile' = authFile /\ Stored' = Stored
  BY <1>2, StoredStays
<1>8. Of(r) \in SignIns
  BY <1>5, TokenTypes DEF Of
<1>9. lost' \subseteq SignIns /\ lost \subseteq lost'
  BY <1>2, <1>8 DEF FitBefore, CredentialTypes
<1>10. CredentialTypes'
  <2>1. binding' \in SignIns \cup {0}
    BY <1>3 DEF FitBefore, CredentialTypes
  <2>2. \A q \in Refreshes :
          /\ refresh'[q].stage # "none" => refresh'[q].tokens \in Tokens
          /\ refresh'[q].stage = "asking" => MayBeDue(refresh'[q].tokens)
    BY <1>6 DEF FitBefore, CredentialTypes, Refreshing
  <2> QED
    BY <1>2, <1>4, <1>6, <1>7, <1>9, <2>1, <2>2
       DEF FitBefore, CredentialTypes, MayBeDue, Saving
<1>11. \A t : Expected(t) => Expected(t)'
  BY <1>2, <1>9 DEF Expected
\* Tokens that were granted and did not come are lost.
<1>12. refresh[r].stage = "granted" => Of(r) \in lost'
  BY <1>2
<1>13. RefreshesFit'
  <2>1. \A q \in Refreshes : Refreshing(q)' => Expected(refresh[q].tokens)'
    BY <1>6, <1>11 DEF FitBefore, Sound, RefreshesFit
  <2>2. \A p, q \in Refreshes : Refreshing(p)' /\ Refreshing(q)' /\ Of(p)' = Of(q)' => p = q
    BY <1>6 DEF FitBefore, Sound, RefreshesFit
  <2>3. ASSUME NEW q \in Refreshes, Keeping(q)', Of(q)' = binding'
        PROVE  tokens' = refresh'[q].tokens
    <3>1. Refreshing(q)'
      BY <2>3 DEF Keeping, Refreshing
    <3>2. refresh'[q] = refresh[q] /\ Of(q)' = Of(q) /\ Keeping(q)
      BY <1>6, <2>3, <3>1 DEF Keeping
    <3>3. Of(q) # 0
      BY <1>6, <3>1, TokenTypes DEF FitBefore, CredentialTypes, Refreshing, Of
    <3>4. binding' = binding
      BY <1>3, <2>3, <3>2, <3>3
    <3> QED
      BY <1>2, <2>3, <3>2, <3>4 DEF FitBefore, Sound, RefreshesFit
  <2> QED
    BY <2>1, <2>2, <2>3 DEF RefreshesFit
<1>14. BindingFits'
  <2> SUFFICES ASSUME binding' # 0 PROVE BindingFits'
    BY DEF BindingFits
  <2>1. binding' = binding /\ tokens' = tokens /\ tokens \in Tokens /\ tokens.signIn = binding
    BY <1>2, <1>3 DEF FitBefore, Sound, BindingFits
  <2>2. CASE Expected(tokens)
    BY <1>11, <2>1, <2>2 DEF BindingFits
  <2>3. CASE \E q \in Refreshes : refresh[q].stage = "granted" /\ Of(q) = binding
    <3>1. PICK q \in Refreshes : refresh[q].stage = "granted" /\ Of(q) = binding
      BY <2>3
    <3>2. CASE q = r
      <4>1. Expected(tokens)'
        BY <1>12, <2>1, <3>1, <3>2 DEF Expected
      <4> QED
        BY <2>1, <4>1 DEF BindingFits
    <3>3. CASE q # r
      BY <1>6, <2>1, <3>1, <3>3 DEF BindingFits
    <3> QED
      BY <3>2, <3>3
  <2> QED
    BY <2>1, <2>2, <2>3 DEF FitBefore, Sound, BindingFits
<1>15. running # "down"
  BY <1>1, RefreshTypes DEF FitBefore, Sound, DownFits, Refreshing
<1>16. DownFits'
  BY <1>2, <1>15 DEF DownFits
<1>17. ~Forgetting
  BY <1>1 DEF FitBefore, Sound, StartingFits
<1>18. ~Keeping(r)
  BY <1>1 DEF Keeping
<1>19. SignInsFit'
  <2>1. \A s : Used(s)' <=> Used(s)
    BY <1>2, <1>4 DEF Used, Saving
  <2> QED
    BY <1>2, <1>6, <1>7, <2>1 DEF FitBefore, Sound, SignInsFit
<1>20. CASE running # "starting"
  <2>1. binding' = binding /\ update' = update /\ Forgetting' = Forgetting
    BY <1>3, <1>20 DEF Forgetting
  <2>2. \A q \in Refreshes : Keeping(q) => Keeping(q)' /\ Of(q)' = Of(q)
    BY <1>6, <1>18 DEF Keeping
  <2>3. StoreFits'
    <3>1. binding' # 0 =>
            \/ Stored'.tokens = tokens' \/ binding' \in lost'
            \/ \E q \in Refreshes : Keeping(q)' /\ Of(q)' = binding'
      BY <1>2, <1>7, <1>9, <1>15, <2>1, <2>2 DEF FitBefore, Sound, StoreFits
    <3> QED
      BY <1>2, <1>7, <1>15, <2>1, <3>1 DEF FitBefore, Sound, StoreFits
  <2>4. StartingFits'
    BY <1>2, <1>15, <1>17, <1>20, <2>1 DEF FitBefore, Sound, StartingFits
  <2> QED
    BY <1>10, <1>13, <1>14, <1>16, <1>19, <2>3, <2>4 DEF FitAfter, Sound
<1>21. CASE running = "starting"
  <2>1. binding' = 0 /\ Begin("forget")
    BY <1>3, <1>21
  <2>2. Forgetting'
    BY <2>1, BeginIs, WriterNames DEF FitBefore, Forgetting
  <2>3. \A q \in Refreshes : Refreshing(q) => Of(q) = binding
    BY <1>21 DEF FitBefore, Sound, StartingFits
  <2>4. \A q \in Refreshes : Refreshing(q) => q = r
    BY <1>1, <2>3 DEF FitBefore, Sound, RefreshesFit
  <2>5. \A q \in Refreshes : ~Refreshing(q)'
    BY <1>6, <2>4
  <2>6. Of(r) = binding /\ binding # 0
    BY <1>1, <1>5, <2>3, TokenTypes DEF Of
  <2>7. Stored.tokens # NoTokens /\ Stored.tokens.signIn = binding /\ Stored.key = hasKey
        /\ (Stored.tokens = tokens \/ binding \in lost)
    BY <1>15, <1>18, <2>4, <2>6 DEF FitBefore, Sound, StoreFits, Keeping, Refreshing
  <2>8. Expected(Stored.tokens)'
    <3>1. CASE binding \in lost'
      BY <1>7, <2>7, <3>1 DEF Expected
    <3>2. CASE Stored.tokens = tokens /\ refresh[r].stage # "granted"
      <4>1. Expected(tokens)
        BY <2>4, <2>6, <3>2 DEF FitBefore, Sound, BindingFits, Refreshing
      <4> QED
        BY <1>7, <1>11, <3>2, <4>1
    <3> QED
      BY <1>9, <1>12, <2>6, <2>7, <3>1, <3>2
  <2>9. signedIn = binding
    BY <1>15, <1>17 DEF FitBefore, Sound, StartingFits
  <2>10. StartingFits'
    BY <1>2, <1>4, <1>7, <1>21, <2>1, <2>2, <2>5, <2>7, <2>8, <2>9
       DEF FitBefore, Sound, StartingFits
  <2>11. StoreFits'
    BY <1>2, <1>7, <2>1, <2>2, <2>7 DEF StoreFits
  <2> QED
    BY <1>10, <1>13, <1>14, <1>16, <1>19, <2>10, <2>11 DEF FitAfter, Sound
<1> QED
  BY <1>20, <1>21

LEMMA LoadForRefreshKeeps ==
  ASSUME FitBefore, NEW r \in Refreshes, LoadForRefresh(r)
  PROVE  FitAfter
<1>1. refresh[r].stage = "loading" /\ Refreshing(r)
  BY DEF LoadForRefresh, Refreshing
<1>2. UNCHANGED <<server, hasKey, binding, running, update, signIns, tokens, mishap,
                  signedIn, lost>>
      /\ UNCHANGED storeVars
  BY DEF LoadForRefresh, RefreshVars
<1>3. PICK copy \in Loads :
        refresh' = [refresh EXCEPT ![r].stage = "saving", ![r].copy = copy]
  BY DEF LoadForRefresh
<1>4. copy \in Store
  BY <1>3, StoredTypes DEF FitBefore
<1>5. refresh \in [Refreshes -> RefreshRecord] /\ refresh[r] \in RefreshRecord
      /\ refresh[r].tokens \in Tokens
  BY <1>1 DEF FitBefore, CredentialTypes
<1> DEFINE f == [refresh[r] EXCEPT !.stage = "saving", !.copy = copy]
<1>6. f \in RefreshRecord /\ f.stage = "saving" /\ f.tokens = refresh[r].tokens
  BY <1>4, <1>5 DEF RefreshRecord
<1>7. refresh' = [refresh EXCEPT ![r] = f]
  BY <1>3, <1>5 DEF RefreshRecord
<1> HIDE DEF f
<1>8. /\ refresh' \in [Refreshes -> RefreshRecord] /\ refresh'[r] = f
      /\ \A q \in Refreshes : q # r => refresh'[q] = refresh[q]
  BY <1>5, <1>6, <1>7
<1>9. keyring' = keyring /\ authFile' = authFile /\ Stored' = Stored
  BY <1>2, StoredStays
<1>10. CredentialTypes'
  BY <1>2, <1>5, <1>6, <1>8, <1>9 DEF FitBefore, CredentialTypes, MayBeDue, Saving
<1>11. \A q \in Refreshes : Of(q)' = Of(q) /\ Refreshing(q)' = Refreshing(q)
                            /\ refresh'[q].tokens = refresh[q].tokens
  BY <1>1, <1>6, <1>8 DEF Of, Refreshing
<1>12. \A q \in Refreshes : /\ Keeping(q)' = Keeping(q)
                            /\ refresh'[q].stage = "granted" <=> refresh[q].stage = "granted"
  BY <1>1, <1>6, <1>8 DEF Keeping
<1>13. \A t : Expected(t)' <=> Expected(t)
  BY <1>2 DEF Expected
<1>14. Forgetting' = Forgetting
  BY <1>2 DEF Forgetting
<1>15. RefreshesFit'
  BY <1>2, <1>11, <1>12, <1>13 DEF FitBefore, Sound, RefreshesFit
<1>16. BindingFits'
  BY <1>2, <1>11, <1>12, <1>13 DEF FitBefore, Sound, BindingFits
<1>17. StoreFits'
  BY <1>2, <1>9, <1>11, <1>12, <1>14 DEF FitBefore, Sound, StoreFits
<1>18. running # "down"
  BY <1>1, RefreshTypes DEF FitBefore, Sound, DownFits
<1>19. DownFits'
  BY <1>2, <1>18 DEF DownFits
<1>20. StartingFits'
  BY <1>1, <1>2, <1>9, <1>11, <1>14 DEF FitBefore, Sound, StartingFits
<1>21. SignInsFit'
  BY <1>2, <1>9, <1>11 DEF FitBefore, Sound, SignInsFit, Used, Saving
<1> QED
  BY <1>10, <1>15, <1>16, <1>17, <1>19, <1>20, <1>21 DEF FitAfter, Sound

LEMMA RefreshedTypes ==
  ASSUME FitBefore, NEW r \in Refreshes, Refreshed(r), keyring' \in Store, authFile' \in Store,
         lost' \subseteq SignIns
  PROVE  /\ CredentialTypes'
         /\ refresh'[r] = NoRefresh /\ \A q \in Refreshes : q # r => refresh'[q] = refresh[q]
<1>1. /\ refresh' = [refresh EXCEPT ![r] = NoRefresh] /\ running' = "up"
      /\ UNCHANGED <<server, hasKey, tokens, binding, update, signIns, signedIn>>
  BY DEF Refreshed
<1>2. refresh \in [Refreshes -> RefreshRecord]
  BY DEF FitBefore, CredentialTypes
<1>3. /\ refresh' \in [Refreshes -> RefreshRecord] /\ refresh'[r] = NoRefresh
      /\ \A q \in Refreshes : q # r => refresh'[q] = refresh[q]
  BY <1>1, <1>2, RefreshTypes
<1>4. CredentialTypes'
  BY <1>1, <1>3, RefreshTypes DEF FitBefore, CredentialTypes, MayBeDue, Saving
<1> QED
  BY <1>3, <1>4

LEMMA SaveRefreshedKeeps ==
  ASSUME FitBefore, NEW r \in Refreshes, SaveRefreshed(r)
  PROVE  FitAfter
<1> DEFINE copy == refresh[r].copy
           t == refresh[r].tokens
           changed == [copy EXCEPT !.tokens = t]
           others == IF t.signIn = binding THEN {} ELSE {"late"}
<1>1. refresh[r].stage = "saving" /\ Refreshing(r) /\ Keeping(r)
      /\ SaveStore(copy, changed, others) /\ Refreshed(r) /\ lost' = lost
  BY DEF SaveRefreshed, Refreshing, Keeping
<1>2. refresh[r] \in RefreshRecord /\ t \in Tokens /\ CredentialTypes /\ mishap = {}
      /\ lost \subseteq SignIns
  BY <1>1 DEF FitBefore, CredentialTypes, Refreshing
<1>3. copy \in Store
  BY <1>2, RefreshTypes
<1>4. changed \in Store /\ changed.key = copy.key /\ changed.tokens = t
  BY <1>2, <1>3, StoreTypes
<1>5. keyring' \in Store /\ authFile' \in Store
      /\ (mishap' = {} => copy = Stored /\ Stored' = changed /\ others = {})
  BY <1>1, <1>2, <1>3, <1>4, SaveIs
<1>6. /\ CredentialTypes' /\ refresh'[r] = NoRefresh
      /\ \A q \in Refreshes : q # r => refresh'[q] = refresh[q]
  BY <1>1, <1>2, <1>5, RefreshedTypes
<1> SUFFICES ASSUME mishap' = {} PROVE Sound'
  BY <1>6 DEF FitAfter
<1>7. t.signIn = binding /\ Of(r) = binding
  BY <1>5 DEF Of
<1>8. Stored'.key = Stored.key /\ Stored'.tokens = t
  BY <1>4, <1>5
<1>9. tokens = t /\ Expected(tokens)
  BY <1>1, <1>7 DEF FitBefore, Sound, RefreshesFit
<1>10. binding # 0 /\ binding \in SignIns /\ t # NoTokens
  BY <1>2, <1>7, TokenTypes, StoreTypes
<1>11. UNCHANGED <<server, hasKey, tokens, binding, update, signIns, signedIn>> /\ running' = "up"
  BY <1>1 DEF Refreshed
<1> HIDE DEF t, copy, changed, others
<1>12. \A q \in Refreshes : Refreshing(q)' => /\ Refreshing(q) /\ q # r
                                              /\ refresh'[q] = refresh[q] /\ Of(q)' = Of(q)
  BY <1>6, RefreshTypes DEF Refreshing, Of
<1>13. \A q \in Refreshes : Keeping(q)' => Keeping(q) /\ Refreshing(q)'
  BY <1>6, RefreshTypes DEF Refreshing, Keeping
<1>14. \A u : Expected(u)' <=> Expected(u)
  BY <1>1, <1>11 DEF Expected
<1>15. RefreshesFit'
  BY <1>11, <1>12, <1>13, <1>14 DEF FitBefore, Sound, RefreshesFit
<1>16. BindingFits'
  BY <1>2, <1>7, <1>9, <1>11, <1>14 DEF BindingFits
<1>17. running # "down" /\ ~Forgetting
  BY <1>1, RefreshTypes DEF FitBefore, Sound, DownFits, StartingFits, Refreshing
<1>18. StoreFits'
  BY <1>7, <1>8, <1>9, <1>10, <1>11, <1>17 DEF FitBefore, Sound, StoreFits
<1>19. DownFits'
  BY <1>11 DEF DownFits
<1>20. StartingFits'
  BY <1>11, <1>17 DEF FitBefore, Sound, StartingFits, Forgetting
<1>21. Used(t.signIn)
  BY <1>1, <1>7 DEF FitBefore, Sound, SignInsFit
<1>22. SignInsFit'
  BY <1>8, <1>11, <1>12, <1>21 DEF FitBefore, Sound, SignInsFit, Used, Saving
<1> QED
  BY <1>15, <1>16, <1>18, <1>19, <1>20, <1>22 DEF Sound

LEMMA SaveRefreshedFailsKeeps ==
  ASSUME FitBefore, NEW r \in Refreshes, SaveRefreshedFails(r)
  PROVE  FitAfter
<1>1. refresh[r].stage = "saving" /\ Refreshing(r) /\ Keeping(r)
      /\ Refreshed(r) /\ lost' = lost \cup {Of(r)}
      /\ UNCHANGED mishap /\ UNCHANGED storeVars
  BY DEF SaveRefreshedFails, Refreshing, Keeping, Of
<1>2. keyring' = keyring /\ authFile' = authFile /\ Stored' = Stored
      /\ keyring' \in Store /\ authFile' \in Store
  BY <1>1, StoredStays DEF FitBefore, CredentialTypes
<1>3. Of(r) \in SignIns /\ lost \subseteq lost' /\ lost' \subseteq SignIns
  BY <1>1, TokenTypes DEF FitBefore, CredentialTypes, Refreshing, Of
<1>4. /\ CredentialTypes' /\ refresh'[r] = NoRefresh
      /\ \A q \in Refreshes : q # r => refresh'[q] = refresh[q]
  BY <1>1, <1>2, <1>3, RefreshedTypes
<1>5. UNCHANGED <<server, hasKey, tokens, binding, update, signIns, signedIn>> /\ running' = "up"
  BY <1>1 DEF Refreshed
<1>6. \A q \in Refreshes : Refreshing(q)' => /\ Refreshing(q) /\ q # r
                                             /\ refresh'[q] = refresh[q] /\ Of(q)' = Of(q)
  BY <1>4, RefreshTypes DEF Refreshing, Of
<1>7. \A q \in Refreshes : Keeping(q)' => Keeping(q) /\ Refreshing(q)'
  BY <1>4, RefreshTypes DEF Refreshing, Keeping
<1>8. \A t : Expected(t) => Expected(t)'
  BY <1>1, <1>5 DEF Expected
<1>9. RefreshesFit'
  BY <1>5, <1>6, <1>7, <1>8 DEF FitBefore, Sound, RefreshesFit
<1>10. \A q \in Refreshes : q # r => refresh'[q] = refresh[q] /\ Of(q)' = Of(q)
                                     /\ (Keeping(q) => Keeping(q)')
  BY <1>4 DEF Of, Keeping
<1>11. BindingFits'
  <2> SUFFICES ASSUME binding # 0 PROVE BindingFits'
    BY <1>5 DEF BindingFits
  <2>1. tokens \in Tokens /\ tokens.signIn = binding
    BY DEF FitBefore, Sound, BindingFits
  <2>2. CASE Expected(tokens)
    BY <1>5, <1>8, <2>1, <2>2 DEF BindingFits
  <2>3. CASE ~Expected(tokens)
    <3>1. PICK q \in Refreshes : refresh[q].stage = "granted" /\ Of(q) = binding
      BY <2>3 DEF FitBefore, Sound, BindingFits
    <3> QED
      BY <1>1, <1>5, <1>10, <2>1, <3>1 DEF BindingFits
  <2> QED
    BY <2>2, <2>3
<1>12. running # "down" /\ ~Forgetting
  BY <1>1, RefreshTypes DEF FitBefore, Sound, DownFits, StartingFits, Refreshing
<1>13. StoreFits'
  <2>1. binding # 0 =>
          \/ Stored.tokens = tokens \/ binding \in lost'
          \/ \E q \in Refreshes : Keeping(q)' /\ Of(q)' = binding
    BY <1>1, <1>3, <1>10, <1>12 DEF FitBefore, Sound, StoreFits
  <2> QED
    BY <1>2, <1>5, <1>12, <2>1 DEF FitBefore, Sound, StoreFits
<1>14. DownFits'
  BY <1>5 DEF DownFits
<1>15. StartingFits'
  BY <1>5, <1>12 DEF FitBefore, Sound, StartingFits, Forgetting
<1>16. SignInsFit'
  BY <1>2, <1>5, <1>6 DEF FitBefore, Sound, SignInsFit, Used, Saving
<1> QED
  BY <1>4, <1>9, <1>11, <1>13, <1>14, <1>15, <1>16 DEF FitAfter, Sound

\* A request leaves what the server expects and the refreshes alone.
LEMMA RequestKeeps ==
  ASSUME FitBefore, running = "up", UNCHANGED UpdateVars, CredentialTypes',
         \A s \in SignIns : Used(s) => Used(s)',
         update'["forget"] = update["forget"],
         mishap' = {} => /\ BindingFits' /\ StoreFits' /\ binding' = signedIn'
                         /\ \A r \in Refreshes :
                              Keeping(r) /\ Of(r) = binding' => tokens' = refresh[r].tokens
                         /\ Stored'.tokens # NoTokens => Used(Stored.tokens.signIn)'
                         /\ tokens' # NoTokens => Used(tokens.signIn)'
  PROVE  FitAfter
<1>1. UNCHANGED <<server, running, refresh, lost>>
  BY DEF UpdateVars
<1> SUFFICES ASSUME mishap' = {} PROVE Sound'
  BY DEF FitAfter
<1>2. RefreshesFit'
  BY <1>1 DEF FitBefore, Sound, RefreshesFit, Refreshing, Keeping, Of, Expected
<1>3. DownFits'
  BY <1>1 DEF DownFits
<1>4. \A r \in Refreshes : Refreshing(r) => Of(r) \in SignIns
  BY TokenTypes DEF FitBefore, CredentialTypes, Refreshing, Of
<1>5. \A r \in Refreshes : Refreshing(r)' => Used(Of(r))'
  <2> SUFFICES ASSUME NEW r \in Refreshes, Refreshing(r)' PROVE Used(Of(r))'
    OBVIOUS
  <2>1. Refreshing(r) /\ Of(r)' = Of(r)
    BY <1>1 DEF Refreshing, Of
  <2>2. Used(Of(r)) /\ Of(r) \in SignIns
    BY <1>4, <2>1 DEF FitBefore, Sound, SignInsFit
  <2>3. Used(Of(r))' <=> (Of(r)' <= signIns' /\ (Saving("signIn")' => Of(r)' < signIns'))
    BY DEF Used
  <2>4. Of(r) <= signIns' /\ (Saving("signIn")' => Of(r) < signIns')
    BY <2>2 DEF Used
  <2> QED
    BY <2>1, <2>3, <2>4
<1>6. \A s \in SignIns : ~Used(s)' => server'[s] = 0
  BY <1>1 DEF FitBefore, Sound, SignInsFit
<1>7. SignInsFit'
  BY <1>5, <1>6 DEF SignInsFit
<1>8. StartingFits'
  BY <1>1 DEF FitBefore, Sound, StartingFits, Forgetting
<1> QED
  BY <1>2, <1>3, <1>7, <1>8 DEF Sound

\* What begins or goes on changes neither what is used nor what is stored.
LEMMA QuietRequestKeeps ==
  ASSUME FitBefore, running = "up", UNCHANGED UpdateVars, UNCHANGED storeVars,
         UNCHANGED <<hasKey, tokens, binding, mishap, signedIn>>,
         signIns' \in 0..MaxSignIns, update' \in [Writers -> UpdateRecord],
         Saving("signIn")' => signIns' \in SignIns,
         \A s \in SignIns : Used(s) => Used(s)',
         update'["forget"] = update["forget"]
  PROVE  FitAfter
<1>1. UNCHANGED <<server, running, refresh, lost>>
  BY DEF UpdateVars
<1>2. keyring' = keyring /\ authFile' = authFile /\ Stored' = Stored
  BY StoredStays
<1>3. CredentialTypes'
  BY <1>1, <1>2 DEF FitBefore, CredentialTypes, MayBeDue
<1>4. BindingFits'
  BY <1>1 DEF FitBefore, Sound, BindingFits, Of, Expected
<1>5. StoreFits'
  BY <1>1, <1>2 DEF FitBefore, Sound, StoreFits, Of, Keeping, Forgetting
<1>6. Stored.tokens # NoTokens => Stored.tokens.signIn \in SignIns
  BY StoredTypes, StoreTypes, TokenTypes DEF FitBefore
<1>7. tokens # NoTokens => tokens.signIn \in SignIns
  BY TokenTypes DEF FitBefore, CredentialTypes
<1>8. ASSUME Stored'.tokens # NoTokens PROVE Used(Stored.tokens.signIn)'
  <2>1. Used(Stored.tokens.signIn)' <=>
          (Stored'.tokens.signIn <= signIns'
           /\ (Saving("signIn")' => Stored'.tokens.signIn < signIns'))
    BY DEF Used
  <2>2. Used(Stored.tokens.signIn) /\ Stored.tokens.signIn \in SignIns
    BY <1>2, <1>6, <1>8 DEF FitBefore, Sound, SignInsFit
  <2>3. Stored.tokens.signIn <= signIns'
        /\ (Saving("signIn")' => Stored.tokens.signIn < signIns')
    BY <2>2 DEF Used
  <2> QED
    BY <1>2, <2>1, <2>3
<1>9. ASSUME tokens' # NoTokens PROVE Used(tokens.signIn)'
  <2>1. Used(tokens.signIn)' <=>
          (tokens'.signIn <= signIns' /\ (Saving("signIn")' => tokens'.signIn < signIns'))
    BY DEF Used
  <2>2. Used(tokens.signIn) /\ tokens.signIn \in SignIns
    BY <1>7, <1>9 DEF FitBefore, Sound, SignInsFit
  <2>3. tokens.signIn <= signIns' /\ (Saving("signIn")' => tokens.signIn < signIns')
    BY <2>2 DEF Used
  <2> QED
    BY <2>1, <2>3
<1>10. binding' = signedIn'
       /\ \A r \in Refreshes :
            Keeping(r) /\ Of(r) = binding' => tokens' = refresh[r].tokens
  BY DEF FitBefore, Sound, RefreshesFit, StartingFits
<1> QED
  BY <1>3, <1>4, <1>5, <1>8, <1>9, <1>10, RequestKeeps

LEMMA SetKeyKeeps ==
  ASSUME FitBefore, SetKey
  PROVE  FitAfter
<1>1. running = "up" /\ Begin("set") /\ UNCHANGED UpdateVars /\ UNCHANGED storeVars
      /\ UNCHANGED <<hasKey, tokens, binding, signIns, mishap, signedIn>>
  BY DEF SetKey
<1>2. update' \in [Writers -> UpdateRecord] /\ update'["signIn"] = update["signIn"]
      /\ update'["forget"] = update["forget"]
  BY <1>1, BeginIs, WriterNames DEF FitBefore
<1>3. \A s \in SignIns : Used(s) => Used(s)'
  BY <1>1, <1>2 DEF Used, Saving
<1>4. signIns' \in 0..MaxSignIns /\ (Saving("signIn")' => signIns' \in SignIns)
  BY <1>1, <1>2 DEF FitBefore, CredentialTypes, Saving
<1> QED
  BY <1>1, <1>2, <1>3, <1>4, QuietRequestKeeps

LEMMA SignInKeeps ==
  ASSUME FitBefore, SignIn
  PROVE  FitAfter
<1>1. running = "up" /\ Begin("signIn") /\ UNCHANGED UpdateVars /\ UNCHANGED storeVars
      /\ UNCHANGED <<hasKey, tokens, binding, mishap, signedIn>>
      /\ update["signIn"] = Idle /\ signIns < MaxSignIns /\ signIns' = signIns + 1
  BY DEF SignIn
<1>2. update' \in [Writers -> UpdateRecord] /\ update'["forget"] = update["forget"]
  BY <1>1, BeginIs, WriterNames DEF FitBefore
<1>3. signIns \in 0..MaxSignIns
  BY DEF FitBefore, CredentialTypes
<1>4. signIns' \in 0..MaxSignIns /\ signIns' \in SignIns
  BY <1>1, <1>3, CredentialsConstants DEF SignIns
<1>5. \A s \in SignIns : Used(s) => Used(s)'
  BY <1>1, <1>3, CredentialsConstants DEF Used, SignIns
<1> QED
  BY <1>1, <1>2, <1>4, <1>5, QuietRequestKeeps

LEMMA SignOutKeeps ==
  ASSUME FitBefore, SignOut
  PROVE  FitAfter
<1>1. running = "up" /\ Begin("signOut") /\ UNCHANGED UpdateVars /\ UNCHANGED storeVars
      /\ UNCHANGED <<hasKey, tokens, binding, signIns, mishap, signedIn>>
  BY DEF SignOut
<1>2. update' \in [Writers -> UpdateRecord] /\ update'["signIn"] = update["signIn"]
      /\ update'["forget"] = update["forget"]
  BY <1>1, BeginIs, WriterNames DEF FitBefore
<1>3. \A s \in SignIns : Used(s) => Used(s)'
  BY <1>1, <1>2 DEF Used, Saving
<1>4. signIns' \in 0..MaxSignIns /\ (Saving("signIn")' => signIns' \in SignIns)
  BY <1>1, <1>2 DEF FitBefore, CredentialTypes, Saving
<1> QED
  BY <1>1, <1>2, <1>3, <1>4, QuietRequestKeeps

\* A request is in progress only in a process that runs.
LEMMA RequestsRun ==
  ASSUME FitBefore, NEW w \in Writers, w # "forget", update[w].stage # "none"
  PROVE  running = "up"
<1>1. update[w] # Idle
  BY UpdateTypes
<1>2. running # "down" /\ running # "starting"
  BY <1>1 DEF FitBefore, Sound, DownFits, StartingFits
<1> QED
  BY <1>2 DEF FitBefore, CredentialTypes

LEMMA RemoveTokensKeeps ==
  ASSUME FitBefore, RemoveTokens
  PROVE  FitAfter
<1>1. update["signOut"].stage = "between" /\ UNCHANGED UpdateVars /\ UNCHANGED storeVars
      /\ UNCHANGED <<hasKey, tokens, binding, signIns, mishap, signedIn>>
  BY DEF RemoveTokens
<1>2. PICK copy \in Loads :
        update' = [update EXCEPT !["signOut"] = [stage |-> "removing", copy |-> copy]]
  BY DEF RemoveTokens
<1>3. copy \in Store
  BY <1>2, StoredTypes DEF FitBefore
<1>4. [stage |-> "removing", copy |-> copy] \in UpdateRecord
  BY <1>3, UpdateTypes
<1>5. update' \in [Writers -> UpdateRecord] /\ update'["signIn"] = update["signIn"]
      /\ update'["forget"] = update["forget"]
  BY <1>2, <1>4, WriterNames DEF FitBefore, CredentialTypes
<1>6. \A s \in SignIns : Used(s) => Used(s)'
  BY <1>1, <1>5 DEF Used, Saving
<1>7. signIns' \in 0..MaxSignIns /\ (Saving("signIn")' => signIns' \in SignIns)
  BY <1>1, <1>5 DEF FitBefore, CredentialTypes, Saving
<1>8. running = "up"
  BY <1>1, RequestsRun, WriterNames
<1> QED
  BY <1>1, <1>5, <1>6, <1>7, <1>8, QuietRequestKeeps

LEMMA SaveFailsKeeps ==
  ASSUME FitBefore, NEW w \in Writers, SaveFails(w)
  PROVE  FitAfter
<1>1. update[w].stage \in {"saving", "removing"} /\ w # "forget" /\ End(w)
      /\ UNCHANGED UpdateVars /\ UNCHANGED storeVars
      /\ UNCHANGED <<hasKey, tokens, binding, signIns, mishap, signedIn>>
  BY DEF SaveFails
<1>2. update' \in [Writers -> UpdateRecord] /\ update'["forget"] = update["forget"]
      /\ (update'["signIn"] = update["signIn"] \/ update'["signIn"].stage = "none")
  BY <1>1, EndIs, WriterNames DEF FitBefore
<1>3. Saving("signIn")' => Saving("signIn")
  BY <1>2 DEF Saving
<1>4. \A s \in SignIns : Used(s) => Used(s)'
  BY <1>1, <1>3 DEF Used
<1>5. signIns' \in 0..MaxSignIns /\ (Saving("signIn")' => signIns' \in SignIns)
  BY <1>1, <1>3 DEF FitBefore, CredentialTypes
<1>6. running = "up"
  BY <1>1, RequestsRun
<1> QED
  BY <1>1, <1>2, <1>4, <1>5, <1>6, QuietRequestKeeps

LEMMA CopyTypes ==
  ASSUME FitBefore, NEW w \in Writers
  PROVE  update[w].copy \in Store
BY UpdateTypes DEF FitBefore, CredentialTypes

LEMMA KeySavedKeeps ==
  ASSUME FitBefore, KeySaved
  PROVE  FitAfter
<1> DEFINE copy == update["set"].copy
           changed == [copy EXCEPT !.key = TRUE]
<1>1. Saving("set") /\ End("set") /\ SaveStore(copy, changed, {}) /\ hasKey' = TRUE
      /\ UNCHANGED UpdateVars /\ UNCHANGED <<tokens, binding, signIns, signedIn>>
  BY DEF KeySaved
<1>2. copy \in Store /\ changed \in Store /\ changed.key = TRUE /\ changed.tokens = copy.tokens
  BY CopyTypes, WriterNames, StoreTypes
<1> HIDE DEF copy, changed
<1>3. keyring' \in Store /\ authFile' \in Store
      /\ (mishap' = {} => copy = Stored /\ Stored' = changed)
  BY <1>1, <1>2, SaveIs DEF FitBefore
<1>4. update' \in [Writers -> UpdateRecord] /\ update'["forget"] = update["forget"]
      /\ update'["signIn"] = update["signIn"]
  BY <1>1, EndIs, WriterNames DEF FitBefore
<1>5. UNCHANGED <<server, running, refresh, lost>>
  BY <1>1 DEF UpdateVars
<1>6. Saving("signIn")' = Saving("signIn")
  BY <1>4 DEF Saving
<1>7. CredentialTypes'
  BY <1>1, <1>3, <1>4, <1>5, <1>6 DEF FitBefore, CredentialTypes, MayBeDue
<1>8. \A s \in SignIns : Used(s) => Used(s)'
  BY <1>1, <1>6 DEF Used
<1>9. running = "up"
  BY <1>1, RequestsRun, WriterNames DEF Saving
<1>10. ASSUME mishap' = {}
       PROVE  /\ BindingFits' /\ StoreFits' /\ binding' = signedIn'
              /\ \A r \in Refreshes :
                   Keeping(r) /\ Of(r) = binding' => tokens' = refresh[r].tokens
              /\ Stored'.tokens # NoTokens => Used(Stored.tokens.signIn)'
              /\ tokens' # NoTokens => Used(tokens.signIn)'
  <2>1. Stored'.tokens = Stored.tokens /\ Stored'.key = TRUE
    BY <1>2, <1>3, <1>10
  <2>2. BindingFits'
    BY <1>1, <1>5 DEF FitBefore, Sound, BindingFits, Of, Expected
  <2>3. StoreFits'
    BY <1>1, <1>4, <1>5, <1>9, <2>1
       DEF FitBefore, Sound, StoreFits, Of, Keeping, Forgetting
  <2>4. Stored'.tokens # NoTokens => Used(Stored.tokens.signIn)'
    BY <1>1, <1>6, <2>1 DEF FitBefore, Sound, SignInsFit, Used
  <2>5. tokens' # NoTokens => Used(tokens.signIn)'
    BY <1>1, <1>6 DEF FitBefore, Sound, SignInsFit, Used
  <2>6. binding' = signedIn'
        /\ \A r \in Refreshes :
             Keeping(r) /\ Of(r) = binding' => tokens' = refresh[r].tokens
    BY <1>1, <1>9 DEF FitBefore, Sound, RefreshesFit, StartingFits, Forgetting
  <2> QED
    BY <2>2, <2>3, <2>4, <2>5, <2>6
<1> QED
  BY <1>1, <1>4, <1>7, <1>8, <1>9, <1>10, RequestKeeps

LEMMA SignedInKeeps ==
  ASSUME FitBefore, SignedIn
  PROVE  FitAfter
<1> DEFINE copy == update["signIn"].copy
           new == [signIn |-> signIns, rotation |-> 0]
           changed == [copy EXCEPT !.tokens = new]
<1>1. Saving("signIn") /\ End("signIn") /\ SaveStore(copy, changed, {})
      /\ tokens' = new /\ binding' = signIns /\ signedIn' = signIns
      /\ UNCHANGED UpdateVars /\ UNCHANGED <<hasKey, signIns>>
  BY DEF SignedIn
<1>2. signIns \in SignIns /\ signIns \in Nat
  BY <1>1 DEF FitBefore, CredentialTypes, SignIns
<1>3. new \in Tokens /\ new.signIn = signIns /\ new.rotation = 0
  BY <1>2, CredentialsConstants DEF Tokens
<1>4. copy \in Store /\ changed \in Store /\ changed.key = copy.key /\ changed.tokens = new
  BY <1>3, CopyTypes, WriterNames, StoreTypes
<1> HIDE DEF copy, changed, new
<1>5. keyring' \in Store /\ authFile' \in Store
      /\ (mishap' = {} => copy = Stored /\ Stored' = changed)
  BY <1>1, <1>4, SaveIs DEF FitBefore
<1>6. update' \in [Writers -> UpdateRecord] /\ update'["forget"] = update["forget"]
      /\ ~Saving("signIn")'
  BY <1>1, EndIs, WriterNames DEF FitBefore, Saving
<1>7. UNCHANGED <<server, running, refresh, lost>>
  BY <1>1 DEF UpdateVars
<1>8. CredentialTypes'
  BY <1>1, <1>2, <1>3, <1>5, <1>6, <1>7 DEF FitBefore, CredentialTypes, MayBeDue
<1>9. \A s \in SignIns : Used(s) => Used(s)'
  BY <1>1, <1>6 DEF Used
<1>10. running = "up"
  BY <1>1, RequestsRun, WriterNames DEF Saving
<1>11. server[signIns] = 0
  BY <1>1, <1>2 DEF FitBefore, Sound, SignInsFit, Used
<1>12. ASSUME mishap' = {}
       PROVE  /\ BindingFits' /\ StoreFits' /\ binding' = signedIn'
              /\ \A r \in Refreshes :
                   Keeping(r) /\ Of(r) = binding' => tokens' = refresh[r].tokens
              /\ Stored'.tokens # NoTokens => Used(Stored.tokens.signIn)'
              /\ tokens' # NoTokens => Used(tokens.signIn)'
  <2>1. Stored'.tokens = new /\ Stored'.key = Stored.key
    BY <1>4, <1>5, <1>12
  <2>2. BindingFits'
    BY <1>1, <1>2, <1>3, <1>7, <1>11 DEF BindingFits, Expected
  <2>3. StoreFits'
    BY <1>1, <1>2, <1>3, <1>7, <1>10, <2>1, StoreTypes DEF FitBefore, Sound, StoreFits, SignIns
  <2>4. Used(Stored.tokens.signIn)' /\ Used(tokens.signIn)'
    BY <1>1, <1>2, <1>3, <1>6, <2>1 DEF Used
  <2>5. \A r \in Refreshes : Keeping(r) => Of(r) # binding'
    <3>1. \A r \in Refreshes : Refreshing(r) => Of(r) < signIns
      BY <1>1 DEF FitBefore, Sound, SignInsFit, Used
    <3>2. \A r \in Refreshes : Keeping(r) => Refreshing(r)
      BY DEF Keeping, Refreshing
    <3>3. \A r \in Refreshes : Keeping(r) => Of(r) \in Nat
      BY <3>2, TokenTypes DEF FitBefore, CredentialTypes, Refreshing, Of
    <3> QED
      BY <1>1, <1>2, <3>1, <3>2, <3>3
  <2> QED
    BY <1>1, <2>2, <2>3, <2>4, <2>5
<1> QED
  BY <1>1, <1>6, <1>8, <1>9, <1>10, <1>12, RequestKeeps

LEMMA KeyRemovedKeeps ==
  ASSUME FitBefore, KeyRemoved
  PROVE  FitAfter
<1> DEFINE copy == update["signOut"].copy
<1>1. Saving("signOut") /\ SaveStore(copy, copy, {})
      /\ update' = [update EXCEPT !["signOut"].stage = "between"]
      /\ UNCHANGED UpdateVars /\ UNCHANGED <<hasKey, tokens, binding, signIns, signedIn>>
  BY DEF KeyRemoved
<1>2. copy \in Store
  BY CopyTypes, WriterNames
<1>3. update \in [Writers -> UpdateRecord] /\ update["signOut"] \in UpdateRecord
  BY WriterNames DEF FitBefore, CredentialTypes
<1> DEFINE u == [update["signOut"] EXCEPT !.stage = "between"]
<1>4. u \in UpdateRecord
  BY <1>3 DEF UpdateRecord
<1>5. update' = [update EXCEPT !["signOut"] = u]
  BY <1>1
<1> HIDE DEF copy, u
<1>6. update' \in [Writers -> UpdateRecord] /\ update'["forget"] = update["forget"]
      /\ update'["signIn"] = update["signIn"]
  BY <1>3, <1>4, <1>5, WriterNames
<1>7. keyring' \in Store /\ authFile' \in Store
      /\ (mishap' = {} => copy = Stored /\ Stored' = copy)
  BY <1>1, <1>2, SaveIs DEF FitBefore
<1>8. UNCHANGED <<server, running, refresh, lost>>
  BY <1>1 DEF UpdateVars
<1>9. Saving("signIn")' = Saving("signIn")
  BY <1>6 DEF Saving
<1>10. CredentialTypes'
  BY <1>1, <1>6, <1>7, <1>8, <1>9 DEF FitBefore, CredentialTypes, MayBeDue
<1>11. \A s \in SignIns : Used(s) => Used(s)'
  BY <1>1, <1>9 DEF Used
<1>12. running = "up"
  BY <1>1, RequestsRun, WriterNames DEF Saving
<1>13. ASSUME mishap' = {}
       PROVE  /\ BindingFits' /\ StoreFits' /\ binding' = signedIn'
              /\ \A r \in Refreshes :
                   Keeping(r) /\ Of(r) = binding' => tokens' = refresh[r].tokens
              /\ Stored'.tokens # NoTokens => Used(Stored.tokens.signIn)'
              /\ tokens' # NoTokens => Used(tokens.signIn)'
  <2>1. Stored' = Stored
    BY <1>7, <1>13
  <2>2. BindingFits'
    BY <1>1, <1>8 DEF FitBefore, Sound, BindingFits, Of, Expected
  <2>3. StoreFits'
    BY <1>1, <1>6, <1>8, <1>12, <2>1
       DEF FitBefore, Sound, StoreFits, Of, Keeping, Forgetting
  <2>4. Stored'.tokens # NoTokens => Used(Stored.tokens.signIn)'
    BY <1>1, <1>9, <2>1 DEF FitBefore, Sound, SignInsFit, Used
  <2>5. tokens' # NoTokens => Used(tokens.signIn)'
    BY <1>1, <1>9 DEF FitBefore, Sound, SignInsFit, Used
  <2>6. binding' = signedIn'
        /\ \A r \in Refreshes :
             Keeping(r) /\ Of(r) = binding' => tokens' = refresh[r].tokens
    BY <1>1, <1>12 DEF FitBefore, Sound, RefreshesFit, StartingFits, Forgetting
  <2> QED
    BY <2>2, <2>3, <2>4, <2>5, <2>6
<1> QED
  BY <1>1, <1>6, <1>10, <1>11, <1>12, <1>13, RequestKeeps

LEMMA SignedOutKeeps ==
  ASSUME FitBefore, SignedOut
  PROVE  FitAfter
<1> DEFINE copy == update["signOut"].copy
           changed == [copy EXCEPT !.tokens = NoTokens]
<1>1. update["signOut"].stage = "removing" /\ End("signOut")
      /\ SaveStore(copy, changed, {}) /\ binding' = 0 /\ signedIn' = 0
      /\ UNCHANGED UpdateVars /\ UNCHANGED <<hasKey, tokens, signIns>>
  BY DEF SignedOut
<1>2. copy \in Store /\ changed \in Store /\ changed.key = copy.key
      /\ changed.tokens = NoTokens
  BY CopyTypes, WriterNames, StoreTypes
<1> HIDE DEF copy, changed
<1>3. keyring' \in Store /\ authFile' \in Store
      /\ (mishap' = {} => copy = Stored /\ Stored' = changed)
  BY <1>1, <1>2, SaveIs DEF FitBefore
<1>4. update' \in [Writers -> UpdateRecord] /\ update'["forget"] = update["forget"]
      /\ update'["signIn"] = update["signIn"]
  BY <1>1, EndIs, WriterNames DEF FitBefore
<1>5. UNCHANGED <<server, running, refresh, lost>>
  BY <1>1 DEF UpdateVars
<1>6. Saving("signIn")' = Saving("signIn")
  BY <1>4 DEF Saving
<1>7. CredentialTypes'
  BY <1>1, <1>3, <1>4, <1>5, <1>6 DEF FitBefore, CredentialTypes, MayBeDue
<1>8. \A s \in SignIns : Used(s) => Used(s)'
  BY <1>1, <1>6 DEF Used
<1>9. running = "up"
  BY <1>1, RequestsRun, WriterNames
<1>10. ASSUME mishap' = {}
       PROVE  /\ BindingFits' /\ StoreFits' /\ binding' = signedIn'
              /\ \A r \in Refreshes :
                   Keeping(r) /\ Of(r) = binding' => tokens' = refresh[r].tokens
              /\ Stored'.tokens # NoTokens => Used(Stored.tokens.signIn)'
              /\ tokens' # NoTokens => Used(tokens.signIn)'
  <2>1. Stored'.tokens = NoTokens /\ Stored'.key = Stored.key
    BY <1>2, <1>3, <1>10
  <2>2. BindingFits'
    BY <1>1 DEF BindingFits
  <2>3. StoreFits'
    BY <1>1, <1>9, <2>1 DEF FitBefore, Sound, StoreFits
  <2>4. tokens' # NoTokens => Used(tokens.signIn)'
    BY <1>1, <1>6 DEF FitBefore, Sound, SignInsFit, Used
  <2>5. \A r \in Refreshes : Keeping(r) => Of(r) # 0
    <3>1. \A r \in Refreshes : Keeping(r) => refresh[r].tokens \in Tokens
      BY DEF FitBefore, CredentialTypes, Keeping
    <3> QED
      BY <3>1, TokenTypes DEF Of
  <2> QED
    BY <1>1, <2>1, <2>2, <2>3, <2>4, <2>5
<1> QED
  BY <1>1, <1>4, <1>7, <1>8, <1>9, <1>10, RequestKeeps

LEMMA ExitKeeps ==
  ASSUME FitBefore, Exit
  PROVE  FitAfter
<1>1. /\ running' = "down" /\ hasKey' = FALSE /\ binding' = 0 /\ running # "down"
      /\ update' = [w \in Writers |-> Idle] /\ refresh' = [r \in Refreshes |-> NoRefresh]
      /\ lost' = lost \cup {refresh[r].tokens.signIn : r \in Unsaved}
      /\ UNCHANGED <<server, tokens, signIns, mishap, signedIn>> /\ UNCHANGED storeVars
  BY DEF Exit
<1>2. keyring' = keyring /\ authFile' = authFile /\ Stored' = Stored
  BY <1>1, StoredStays
<1>3. /\ \A w \in Writers : update'[w] = Idle
      /\ \A r \in Refreshes : refresh'[r] = NoRefresh /\ refresh'[r].stage = "none"
      /\ update' \in [Writers -> UpdateRecord] /\ refresh' \in [Refreshes -> RefreshRecord]
  BY <1>1, UpdateTypes, RefreshTypes
<1>4. ~Saving("signIn")' /\ ~Forgetting'
  BY <1>3, WriterNames, UpdateTypes DEF Saving, Forgetting
<1>5. hasKey' \in BOOLEAN
  BY <1>1, Zenon
\* Of what is not saved the sign-in is lost.
<1>6. \A r \in Refreshes :
        (refresh[r].stage = "granted" \/ Keeping(r)) => Of(r) \in lost' /\ Of(r) \in SignIns
  <2>1. \A r \in Refreshes :
          (refresh[r].stage = "granted" \/ Keeping(r)) <=> r \in Unsaved
    BY DEF Unsaved, Keeping
  <2>2. \A r \in Refreshes :
          (refresh[r].stage = "granted" \/ Keeping(r)) => refresh[r].tokens \in Tokens
    BY DEF FitBefore, CredentialTypes, Keeping
  <2> QED
    BY <1>1, <2>1, <2>2, TokenTypes DEF Of
<1>7. lost \subseteq lost' /\ lost' \subseteq SignIns
  <2>1. lost \subseteq SignIns
    BY DEF FitBefore, CredentialTypes
  <2>2. \A r \in Unsaved : r \in Refreshes /\ Of(r) \in SignIns
    BY <1>6 DEF Unsaved, Keeping
  <2> QED
    BY <1>1, <2>1, <2>2 DEF Of
<1>8. CredentialTypes'
  BY <1>1, <1>2, <1>3, <1>4, <1>5, <1>7 DEF FitBefore, CredentialTypes, MayBeDue
<1>9. \A t : Expected(t) => Expected(t)'
  BY <1>1, <1>7 DEF Expected
<1>10. ASSUME Stored.tokens # NoTokens PROVE Expected(Stored.tokens)'
  <2>1. CASE Forgetting
    BY <1>2, <1>9, <2>1 DEF FitBefore, Sound, StartingFits
  <2>2. CASE ~Forgetting
    <3>1. binding # 0 /\ Stored.tokens.signIn = binding
          /\ \/ Stored.tokens = tokens \/ binding \in lost
             \/ \E r \in Refreshes : Keeping(r) /\ Of(r) = binding
      BY <1>1, <1>10, <2>2 DEF FitBefore, Sound, StoreFits
    <3>2. CASE binding \in lost'
      BY <1>2, <3>1, <3>2 DEF Expected
    <3>3. CASE Stored.tokens = tokens /\ binding \notin lost'
      <4>1. Expected(tokens)
        BY <1>6, <3>1, <3>3 DEF FitBefore, Sound, BindingFits
      <4> QED
        BY <1>2, <1>9, <3>3, <4>1
    <3> QED
      BY <1>6, <1>7, <3>1, <3>2, <3>3
  <2> QED
    BY <2>1, <2>2
<1>11. signedIn = IF Stored.tokens = NoTokens THEN 0 ELSE Stored.tokens.signIn
  BY <1>1 DEF FitBefore, Sound, StoreFits, StartingFits
<1>12. RefreshesFit'
  BY <1>3 DEF RefreshesFit, Refreshing, Keeping
<1>13. BindingFits' /\ StoreFits'
  BY <1>1 DEF BindingFits, StoreFits
<1>14. DownFits'
  BY <1>1, <1>2, <1>3, <1>10, <1>11 DEF DownFits
<1>15. StartingFits'
  BY <1>1, <1>4 DEF StartingFits
<1>16. \A s : Used(s) => Used(s)'
  BY <1>1, <1>4 DEF Used
<1>17. Stored'.tokens # NoTokens => Used(Stored.tokens.signIn)'
  BY <1>1, <1>2, <1>4 DEF FitBefore, Sound, SignInsFit, Used
<1>18. tokens' # NoTokens => Used(tokens.signIn)'
  BY <1>1, <1>4 DEF FitBefore, Sound, SignInsFit, Used
<1>19. \A s \in SignIns : ~Used(s)' => server'[s] = 0
  BY <1>1, <1>16 DEF FitBefore, Sound, SignInsFit
<1>20. SignInsFit'
  BY <1>3, <1>17, <1>18, <1>19 DEF SignInsFit, Refreshing
<1> QED
  BY <1>8, <1>12, <1>13, <1>14, <1>15, <1>20 DEF FitAfter, Sound

LEMMA ForgetSignInKeeps ==
  ASSUME FitBefore, ForgetSignIn
  PROVE  FitAfter
<1> DEFINE copy == update["forget"].copy
           changed == [copy EXCEPT !.tokens = NoTokens]
<1>1. /\ Saving("forget") /\ End("forget") /\ running' = "up" /\ signedIn' = 0
      /\ UNCHANGED <<server, hasKey, tokens, binding, refresh, signIns, lost>>
      /\ \/ SaveStore(copy, changed, {})
         \/ mishap' = mishap \cup {"unremoved"} /\ UNCHANGED storeVars
  BY DEF ForgetSignIn
<1>2. copy \in Store /\ changed \in Store /\ changed.key = copy.key
      /\ changed.tokens = NoTokens
  BY CopyTypes, WriterNames, StoreTypes
<1> HIDE DEF copy, changed
<1>3. keyring' \in Store /\ authFile' \in Store
      /\ (mishap' = {} => copy = Stored /\ Stored' = changed)
  <2>1. CASE SaveStore(copy, changed, {})
    BY <1>2, <2>1, SaveIs DEF FitBefore
  <2>2. CASE mishap' = mishap \cup {"unremoved"} /\ UNCHANGED storeVars
    BY <2>2, StoredStays DEF FitBefore, CredentialTypes
  <2> QED
    BY <1>1, <2>1, <2>2
<1>4. /\ update' \in [Writers -> UpdateRecord] /\ ~Forgetting'
      /\ update'["signIn"] = update["signIn"]
  BY <1>1, EndIs, WriterNames DEF FitBefore, Forgetting
<1>5. Saving("signIn")' = Saving("signIn")
  BY <1>4 DEF Saving
<1>6. CredentialTypes'
  BY <1>1, <1>3, <1>4, <1>5 DEF FitBefore, CredentialTypes, MayBeDue
<1> SUFFICES ASSUME mishap' = {} PROVE Sound'
  BY <1>6 DEF FitAfter
<1>7. Forgetting
  BY <1>1 DEF Saving, Forgetting
<1>8. running # "down" /\ binding = 0 /\ \A r \in Refreshes : ~Refreshing(r)
  BY <1>7 DEF FitBefore, Sound, StartingFits
<1>9. Stored'.tokens = NoTokens /\ Stored'.key = hasKey
  BY <1>2, <1>3, <1>8 DEF FitBefore, Sound, StoreFits
<1>10. \A r \in Refreshes : ~Refreshing(r)' /\ ~Keeping(r)'
  BY <1>1, <1>8 DEF Refreshing, Keeping
<1>11. RefreshesFit'
  BY <1>10 DEF RefreshesFit
<1>12. BindingFits' /\ StoreFits' /\ DownFits'
  BY <1>1, <1>8, <1>9 DEF BindingFits, StoreFits, DownFits
<1>13. StartingFits'
  BY <1>1, <1>4, <1>8 DEF StartingFits
<1>14. SignInsFit'
  BY <1>1, <1>5, <1>9, <1>10 DEF FitBefore, Sound, SignInsFit, Used
<1> QED
  BY <1>11, <1>12, <1>13, <1>14 DEF Sound

LEMMA StartKeeps ==
  ASSUME FitBefore, Start
  PROVE  FitAfter
<1>1. running = "down" /\ UNCHANGED <<server, update, signIns, signedIn, lost>> /\ UNCHANGED storeVars
  BY Zenon DEF Start
<1>2. PICK store \in Loads :
       /\ hasKey' = store.key
       /\ mishap' = IF store = Stored THEN mishap ELSE mishap \cup {"unread"}
       /\ IF store.tokens = NoTokens
          THEN UNCHANGED <<tokens, binding, refresh>> /\ running' = "up"
          ELSE /\ tokens' = store.tokens /\ binding' = store.tokens.signIn
               /\ \/ running' = "up" /\ UNCHANGED refresh
                  \/ /\ running' = "starting" /\ MayBeDue(store.tokens)
                     /\ refresh' = [refresh EXCEPT
                                      ![Unused] = [NoRefresh EXCEPT !.stage = "asking",
                                                                    !.tokens = store.tokens]]
  BY Zenon DEF Start
<1>3. store \in Store /\ store.key \in BOOLEAN /\ store.tokens \in Tokens \cup {NoTokens}
  BY <1>2, StoredTypes, StoreTypes DEF FitBefore
<1>4. keyring' = keyring /\ authFile' = authFile /\ Stored' = Stored
  BY <1>1, StoredStays
<1>5. /\ binding = 0 /\ \A r \in Refreshes : refresh[r] = NoRefresh
      /\ \A w \in Writers : update[w] = Idle
      /\ Stored.tokens # NoTokens => Expected(Stored.tokens)
      /\ signedIn = IF Stored.tokens = NoTokens THEN 0 ELSE Stored.tokens.signIn
  BY <1>1 DEF FitBefore, Sound, DownFits
<1> DEFINE f == [NoRefresh EXCEPT !.stage = "asking", !.tokens = store.tokens]
<1>6. refresh \in [Refreshes -> RefreshRecord]
  BY DEF FitBefore, CredentialTypes
\* Of the refreshes one at most has begun, with the tokens that were loaded.
<1>7. /\ refresh' \in [Refreshes -> RefreshRecord]
      /\ \A r \in Refreshes :
           refresh'[r].stage # "none" =>
             /\ store.tokens # NoTokens /\ refresh'[r].tokens = store.tokens
             /\ refresh'[r].stage = "asking" /\ MayBeDue(store.tokens)
      /\ \A r, q \in Refreshes :
           refresh'[r].stage # "none" /\ refresh'[q].stage # "none" => r = q
  <2>1. CASE refresh' = refresh
    BY <1>5, <1>6, <2>1, RefreshTypes
  <2>2. CASE /\ store.tokens # NoTokens /\ MayBeDue(store.tokens)
             /\ refresh' = [refresh EXCEPT ![Unused] = f]
    <3>1. f \in RefreshRecord /\ f.stage = "asking" /\ f.tokens = store.tokens
      BY <1>3, StoreTypes DEF NoRefresh, RefreshRecord
    <3> HIDE DEF f
    <3>2. \A r \in Refreshes : refresh'[r] = IF r = Unused THEN f ELSE refresh[r]
      BY <1>6, <2>2
    <3>3. refresh' \in [Refreshes -> RefreshRecord]
      BY <1>6, <2>2, <3>1
    <3> QED
      BY <1>5, <2>2, <3>1, <3>2, <3>3, RefreshTypes
  <2> QED
    BY <1>2, <2>1, <2>2
<1>8. ~Saving("signIn")' /\ ~Forgetting' /\ ~Saving("signIn")
  BY <1>1, <1>5, WriterNames, UpdateTypes DEF Saving, Forgetting
<1>9. /\ tokens' \in Tokens \cup {NoTokens} /\ binding' \in SignIns \cup {0}
      /\ store.tokens # NoTokens => /\ tokens' = store.tokens /\ tokens' \in Tokens
                                    /\ binding' = tokens'.signIn /\ binding' \in SignIns
      /\ store.tokens = NoTokens => tokens' = tokens /\ binding' = 0
      /\ running' \in {"starting", "up"}
  BY <1>2, <1>3, <1>5, TokenTypes DEF FitBefore, CredentialTypes
<1>10. CredentialTypes'
  BY <1>1, <1>2, <1>3, <1>4, <1>7, <1>8, <1>9 DEF FitBefore, CredentialTypes, MayBeDue
<1> SUFFICES ASSUME mishap' = {} PROVE Sound'
  BY <1>10 DEF FitAfter
<1>11. store = Stored
  BY <1>2
<1>12. RefreshesFit'
  BY <1>1, <1>5, <1>7, <1>11 DEF RefreshesFit, Refreshing, Keeping, Of, Expected
<1>13. BindingFits'
  BY <1>1, <1>5, <1>9, <1>11 DEF BindingFits, Expected
<1>14. StoreFits'
  BY <1>2, <1>4, <1>9, <1>11, TokenTypes, CredentialsConstants DEF StoreFits, SignIns
<1>24. StartingFits'
  <2>1. \A r \in Refreshes : Refreshing(r)' => Of(r)' = binding'
    BY <1>7, <1>9 DEF Refreshing, Of
  <2>2. binding' = signedIn'
    BY <1>1, <1>5, <1>9, <1>11
  <2> QED
    BY <1>1, <1>5, <1>8, <2>1, <2>2 DEF StartingFits
<1>15. DownFits'
  BY <1>9 DEF DownFits
<1>16. \A s : Used(s)' <=> s <= signIns
  BY <1>1, <1>8 DEF Used
<1>17. Stored.tokens # NoTokens => Stored.tokens.signIn <= signIns
  BY DEF FitBefore, Sound, SignInsFit, Used
<1>18. tokens' # NoTokens => tokens'.signIn <= signIns
  BY <1>9, <1>11, <1>17 DEF FitBefore, Sound, SignInsFit, Used
<1>19. Stored'.tokens # NoTokens => Used(Stored.tokens.signIn)'
  BY <1>1, <1>4, <1>8, <1>17 DEF Used
<1>20. tokens' # NoTokens => Used(tokens.signIn)'
  BY <1>1, <1>8, <1>18 DEF Used
<1>21. \A r \in Refreshes : Refreshing(r)' => Used(Of(r))'
  BY <1>1, <1>7, <1>8, <1>11, <1>17 DEF Refreshing, Of, Used
<1>22. \A s \in SignIns : ~Used(s)' => server'[s] = 0
  BY <1>1, <1>8 DEF FitBefore, Sound, SignInsFit, Used
<1>23. SignInsFit'
  BY <1>19, <1>20, <1>21, <1>22 DEF SignInsFit
<1> QED
  BY <1>12, <1>13, <1>14, <1>15, <1>23, <1>24 DEF Sound

LEMMA CredentialsBegins ==
  CredentialsInit => CredentialsInv
<1> SUFFICES ASSUME CredentialsInit PROVE CredentialsInv
  OBVIOUS
<1>1. /\ server = [s \in SignIns |-> 0] /\ keyring = Empty /\ authFile = Empty
      /\ hasKey = FALSE /\ tokens = NoTokens /\ binding = 0
      /\ running = "down" /\ update = [w \in Writers |-> Idle]
      /\ refresh = [r \in Refreshes |-> NoRefresh] /\ signIns = 0 /\ mishap = {}
      /\ signedIn = 0 /\ lost = {}
  BY DEF CredentialsInit
<1>2. Stored.tokens = NoTokens
  BY <1>1 DEF Stored, Merged, Empty
<1>3. /\ update \in [Writers -> UpdateRecord] /\ \A w \in Writers : update[w] = Idle
      /\ refresh \in [Refreshes -> RefreshRecord]
      /\ \A r \in Refreshes : refresh[r] = NoRefresh /\ refresh[r].stage = "none"
  BY <1>1, UpdateTypes, RefreshTypes
<1>4. ~Saving("signIn") /\ ~Forgetting
  BY <1>3, WriterNames, UpdateTypes DEF Saving, Forgetting
<1>5. server \in [SignIns -> 0..MaxRotations] /\ \A s \in SignIns : server[s] = 0
  BY <1>1, CredentialsConstants
<1>6. hasKey \in BOOLEAN /\ signIns \in 0..MaxSignIns
  <2>1. hasKey \in BOOLEAN
    BY <1>1, Zenon
  <2>2. signIns \in 0..MaxSignIns
    BY <1>1, CredentialsConstants
  <2> QED
    BY <2>1, <2>2
<1>7. CredentialTypes
  BY <1>1, <1>3, <1>4, <1>5, <1>6, StoreTypes DEF CredentialTypes
<1>8. RefreshesFit /\ BindingFits /\ StoreFits /\ DownFits /\ StartingFits
  BY <1>1, <1>2, <1>3, <1>4
     DEF RefreshesFit, BindingFits, StoreFits, DownFits, StartingFits, Refreshing, Keeping
<1>9. SignInsFit
  BY <1>1, <1>2, <1>3, <1>5 DEF SignInsFit, Refreshing
<1> QED
  BY <1>7, <1>8, <1>9 DEF CredentialsInv, Sound

LEMMA CredentialsKept ==
  CredentialsInv /\ [CredentialsNext]_credentialVars => CredentialsInv'
<1>1. ASSUME CredentialsInv, CredentialsNext PROVE CredentialsInv'
  <2>1. FitBefore
    BY <1>1 DEF CredentialsInv, CredentialsNext, FitBefore
  <2>2. CredentialsStep
    BY <1>1 DEF CredentialsNext
  <2>3. ASSUME NEW r \in Refreshes,
               \/ EnsureFresh(r) \/ Rotate(r) \/ Granted(r) \/ Failed(r)
               \/ LoadForRefresh(r) \/ SaveRefreshed(r) \/ SaveRefreshedFails(r)
        PROVE  FitAfter
    BY <2>1, <2>3, EnsureFreshKeeps, RotateKeeps, GrantedKeeps, FailedKeeps,
       LoadForRefreshKeeps, SaveRefreshedKeeps, SaveRefreshedFailsKeeps, Zenon
  <2>4. ASSUME \/ SetKey \/ KeySaved \/ SignIn \/ SignedIn
               \/ SignOut \/ KeyRemoved \/ RemoveTokens \/ SignedOut
        PROVE  FitAfter
    BY <2>1, <2>4, SetKeyKeeps, KeySavedKeeps, SignInKeeps, SignedInKeeps, SignOutKeeps,
       KeyRemovedKeeps, RemoveTokensKeeps, SignedOutKeeps, Zenon
  <2>5. ASSUME (\E w \in Writers : SaveFails(w)) \/ Start \/ ForgetSignIn \/ Exit
        PROVE  FitAfter
    BY <2>1, <2>5, SaveFailsKeeps, StartKeeps, ForgetSignInKeeps, ExitKeeps, Zenon
  <2>6. FitAfter
    BY <2>2, <2>3, <2>4, <2>5, Zenon DEF CredentialsStep
  <2> QED
    BY <2>6 DEF FitAfter, CredentialsInv
<1>2. ASSUME CredentialsInv, UNCHANGED credentialVars PROVE CredentialsInv'
  <2>1. /\ UNCHANGED <<server, hasKey, tokens, binding, running, update, refresh,
                       signIns, mishap, signedIn, lost>>
        /\ UNCHANGED storeVars
    BY <1>2 DEF credentialVars
  <2>2. keyring' = keyring /\ authFile' = authFile /\ Stored' = Stored
    BY <2>1, StoredStays
  <2>3. CredentialTypes'
    BY <1>2, <2>1, <2>2 DEF CredentialsInv, CredentialTypes, MayBeDue, Saving
  <2>4. ASSUME mishap = {} PROVE Sound'
    <3>1. RefreshesFit' /\ BindingFits' /\ StoreFits'
      BY <1>2, <2>1, <2>2, <2>4
         DEF CredentialsInv, Sound, RefreshesFit, BindingFits, StoreFits, Refreshing, Of,
             Keeping, Expected, Forgetting
    <3>2. DownFits' /\ StartingFits' /\ SignInsFit'
      BY <1>2, <2>1, <2>2, <2>4
         DEF CredentialsInv, Sound, DownFits, StartingFits, SignInsFit, Refreshing, Of, Used,
             Saving, Expected, Forgetting
    <3> QED
      BY <3>1, <3>2 DEF Sound
  <2> QED
    BY <2>1, <2>3, <2>4 DEF CredentialsInv
<1> QED
  BY <1>1, <1>2

LEMMA CredentialsFit == CredentialsSpec => []CredentialsInv
BY CredentialsBegins, CredentialsKept, PTL DEF CredentialsSpec

\* The store, the process and what is in progress have their types.
THEOREM CredentialsTyped == CredentialsSpec => []CredentialsTypeOK
<1>1. CredentialsInv => CredentialsTypeOK
  <2> SUFFICES ASSUME CredentialTypes PROVE CredentialsTypeOK
    BY DEF CredentialsInv
  <2>1. \A w \in Writers : update[w].copy \in Store
                           /\ update[w].stage \in {"none", "saving", "between", "removing"}
    BY UpdateTypes DEF CredentialTypes
  <2>2. \A r \in Refreshes :
          /\ refresh[r].copy \in Store /\ refresh[r].tokens \in Tokens \cup {NoTokens}
          /\ refresh[r].stage \in {"none", "asking", "granted", "refused", "loading", "saving"}
    <3>1. \A r \in Refreshes : refresh[r] \in RefreshRecord
      BY Zenon DEF CredentialTypes
    <3> QED
      BY <3>1, RefreshTypes, Zenon
  <2>3. {keyring, authFile} \subseteq Store
    BY DEF CredentialTypes
  <2> QED
    BY <2>1, <2>2, <2>3, Zenon DEF CredentialTypes, CredentialsTypeOK
<1> QED
  BY <1>1, CredentialsFit, PTL

\* Who signed in stays signed in, unless a start could not refresh tokens that were due,
\* and can be refreshed, unless rotated tokens were lost; the next process knows it.
THEOREM SignInsAreKept == CredentialsSpec => []SignInIsKept
<1>1. CredentialsInv => TokensCanBeRefreshed
  BY DEF CredentialsInv, Sound, BindingFits, Expected, TokensCanBeRefreshed
<1>2. CredentialsInv => NextProcessKnows
  <2> SUFFICES ASSUME CredentialsInv, running = "up", mishap = {},
                      \A w \in Writers : update[w] = Idle,
                      \A r \in Refreshes : refresh[r].stage \in {"none", "asking", "refused"}
               PROVE  /\ Stored.key = hasKey
                      /\ IF binding = 0 THEN Stored.tokens = NoTokens
                         ELSE /\ Stored.tokens # NoTokens /\ Stored.tokens.signIn = binding
                              /\ Stored.tokens = tokens \/ binding \in lost
    BY DEF NextProcessKnows
  <2>1. ~Forgetting
    BY WriterNames, UpdateTypes DEF Forgetting
  <2>2. \A r \in Refreshes : ~Keeping(r)
    BY DEF Keeping
  <2> QED
    BY <2>1, <2>2 DEF CredentialsInv, Sound, StoreFits
<1>3. CredentialsInv => StaysSignedIn
  BY DEF CredentialsInv, Sound, StartingFits, StaysSignedIn
<1>4. CredentialsInv => SignInIsKept
  BY <1>1, <1>2, <1>3 DEF SignInIsKept
<1> QED
  BY <1>4, CredentialsFit, PTL

=============================================================================
