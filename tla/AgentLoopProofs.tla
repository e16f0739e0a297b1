---- MODULE AgentLoopProofs ----
(***************************************************************************)
(* What is proved of AgentLoop for every value of its bounds, and of the   *)
(* inbox that its queue of steering messages implements.                   *)
(***************************************************************************)
EXTENDS AgentLoop, SequenceTheorems, TLAPS

-----------------------------------------------------------------------------
(* The turn number, and what freshUserIndex points at: in the first turn the *)
(* prompt is followed by steering and notes only.  The index is not adjusted *)
(* by the compaction after an overflow, which happens once in a turn.        *)

PlainFrom(conv, i) ==
  \A j \in i..Len(conv) : conv[j].role \in {"prompt", "steer", "note"}

FirstTurn ==
  /\ pc \in {"stream", "overflow", "restream", "tools"} => turnNumber >= 1
  /\ pc = "compact" => turnNumber >= 2
  /\ turnNumber = 1 /\ pc \in {"stream", "overflow"} =>
       /\ freshUserIndex \in 1..Len(conversation)
       /\ PlainFrom(conversation, freshUserIndex)

-----------------------------------------------------------------------------
(* Messages and batches stay in their types.                               *)

LEMMA MessagesTyped ==
  /\ \A c \in Nat : Prompt(c) \in Message /\ Assistant(c) \in Message
  /\ Summary \in Message
  /\ Notes \subseteq Seq(Message) /\ Warnings \subseteq Seq(Message)
  /\ \A ids \in Seq(Nat) : Steers(ids) \in Seq(Message) /\ Results(ids) \in Seq(Message)
<1>1. /\ \A c \in Nat : /\ Prompt(c) \in Message /\ Assistant(c) \in Message
                        /\ Steer(c) \in Message /\ Result(c) \in Message
      /\ Summary \in Message /\ Note \in Message /\ Warning \in Message
  BY DEF Message, Roles, Prompt, Assistant, Steer, Result, Summary, Note, Warning
<1>2. Notes \subseteq Seq(Message) /\ Warnings \subseteq Seq(Message)
  <2>1. << >> \in Seq(Message)
    OBVIOUS
  <2>2. <<Note>> \in Seq(Message) /\ <<Warning>> \in Seq(Message)
    BY <1>1
  <2>3. Notes \subseteq Seq(Message)
    BY <2>1, <2>2, Zenon DEF Notes
  <2>4. Warnings \subseteq Seq(Message)
    BY <2>1, <2>2, Zenon DEF Warnings
  <2>. QED
    BY <2>3, <2>4
<1>3. ASSUME NEW ids \in Seq(Nat)
      PROVE  Steers(ids) \in Seq(Message) /\ Results(ids) \in Seq(Message)
  <2>1. \A j \in 1..Len(ids) : ids[j] \in Nat
    OBVIOUS
  <2>2. /\ Steers(ids) \in [1..Len(ids) -> Message]
        /\ Results(ids) \in [1..Len(ids) -> Message]
    BY <1>1, <2>1 DEF Steers, Results
  <2>3. Len(ids) \in Nat
    OBVIOUS
  <2>4. ASSUME NEW m \in Nat, NEW f \in [1..m -> Message] PROVE f \in Seq(Message)
    BY SeqDef
  <2>. QED
    BY <2>2, <2>3, <2>4, Zenon
<1>. QED
  BY <1>1, <1>2, <1>3

LEMMA FillAbortedTyped ==
  ASSUME NEW b \in Batches PROVE FillAborted(b) \in Batches
<1>. DEFINE n == b.calls - Len(b.executions)
            fill == [j \in 1..n |-> Len(b.executions) + j]
<1>1. b.executions \in Seq(Nat) /\ Len(b.executions) \in Nat /\ b.calls \in Nat
  BY DEF Batches
<1>2. fill \in Seq(Nat)
  <2>1. CASE n \in Nat
    <3>1. fill \in [1..n -> Nat]
      BY <1>1
    <3>. QED
      BY <2>1, <3>1, SeqDef
  <2>2. CASE n \notin Nat
    <3>1. 1..n = 1..0
      BY <1>1, <2>2
    <3>2. fill \in [1..0 -> Nat]
      BY <1>1, <3>1
    <3>. HIDE DEF fill, n
    <3>3. \E m \in Nat : fill \in [1..m -> Nat]
      BY <3>2
    <3>. QED
      BY <3>3, SeqDef
  <2>. QED
    BY <2>1, <2>2
<1>3. b.executions \o fill \in Seq(Nat)
  BY <1>1, <1>2
<1>4. "over" \in States
  BY DEF States
<1>. QED
  BY <1>3, <1>4, Zenon DEF FillAborted, Batches

LEMMA StateAfterTyped == \A last \in BOOLEAN : StateAfter(last) \in States
  BY DEF StateAfter, States

LEMMA BeginBatchTyped ==
  ASSUME NEW calls \in Nat, NEW mode \in Modes, NEW aborted \in BOOLEAN
  PROVE  BeginBatch(calls, mode, aborted) \in Batches
<1>. DEFINE state == StateAfter(calls = 0)
            b == [NoBatch EXCEPT !.calls = calls, !.mode = mode, !.state = state]
<1>1. state \in States
  <2>1. (calls = 0) \in BOOLEAN
    BY Zenon
  <2>. QED
    BY <2>1, StateAfterTyped, Zenon
<1>2. NoBatch \in Batches
  BY DEF NoBatch, Batches, Modes, States
<1>3. b \in Batches
  <2>. HIDE DEF state
  <2>. QED
    BY <1>1, <1>2, Zenon DEF Batches
<1>. QED
  BY <1>3, FillAbortedTyped DEF BeginBatch

LEMMA SettleTyped ==
  ASSUME NEW b \in Batches, NEW k \in Nat, NEW endTurn \in BOOLEAN,
         NEW aborted \in BOOLEAN
  PROVE  Settle(b, k, endTurn, aborted) \in Batches
<1>. DEFINE c == [b EXCEPT !.settled = @ \cup {k},
                           !.ended = IF endTurn THEN @ \cup {k} ELSE @]
            state == StateAfter(k = b.calls)
            d == [c EXCEPT !.executions = Append(@, k), !.state = state]
            e == [c EXCEPT !.executions = <<1>>, !.ended = @ \cap {1}]
            f == [c EXCEPT !.executions = [j \in 1..b.calls |-> j],
                           !.state = "over"]
<1>1. c \in Batches
  <2>1. /\ b.settled \cup {k} \in SUBSET Nat
        /\ (IF endTurn THEN b.ended \cup {k} ELSE b.ended) \in SUBSET Nat
    BY DEF Batches
  <2>. QED
    BY <2>1, Zenon DEF Batches
<1>2. d \in Batches
  <2>. HIDE DEF c
  <2>1. Append(c.executions, k) \in Seq(Nat)
    BY <1>1 DEF Batches
  <2>2. state \in States
    <3>1. (k = b.calls) \in BOOLEAN
      BY Zenon
    <3>. QED
      BY <3>1, StateAfterTyped, Zenon
  <2>. HIDE DEF state
  <2>. QED
    BY <1>1, <2>1, <2>2, Zenon DEF Batches
<1>3. e \in Batches
  <2>. HIDE DEF c
  <2>1. <<1>> \in Seq(Nat) /\ c.ended \cap {1} \in SUBSET Nat
    BY <1>1 DEF Batches
  <2>. QED
    BY <1>1, <2>1, Zenon DEF Batches
<1>4. f \in Batches
  <2>. HIDE DEF c
  <2>1. [j \in 1..b.calls |-> j] \in Seq(Nat)
    <3>1. b.calls \in Nat /\ [j \in 1..b.calls |-> j] \in [1..b.calls -> Nat]
      BY DEF Batches
    <3>. QED
      BY <3>1, SeqDef
  <2>2. "over" \in States
    BY DEF States
  <2>. QED
    BY <1>1, <2>1, <2>2, Zenon DEF Batches
<1>5. Settle(b, k, endTurn, aborted) \in {c, d, f, FillAborted(d), FillAborted(e)}
  <2>1. CASE b.mode = "sequential"
    BY <2>1, Zenon DEF Settle
  <2>2. CASE b.mode # "sequential"
    BY <2>2, Zenon DEF Settle
  <2>. QED
    BY <2>1, <2>2
<1>. HIDE DEF c, d, e, f
<1>. QED
  BY <1>1, <1>2, <1>3, <1>4, <1>5, FillAbortedTyped

-----------------------------------------------------------------------------
(* Type correctness.                                                       *)

LEMMA EnterTurnTyped ==
  ASSUME TypeOK, NEW conv \in Seq(Message), EnterTurn(conv)
  PROVE  /\ pc' \in PCs /\ conversation' \in Seq(Message)
         /\ delivered' \in Seq(Nat) /\ pendingSteering' \in Seq(Nat)
         /\ toolInterruptRequested' \in BOOLEAN /\ interrupted' \in BOOLEAN
<1>1. PICK note \in Notes :
        conversation' = conv \o Steers(pendingSteering) \o note
  BY DEF EnterTurn
<1>2. note \in Seq(Message) /\ Steers(pendingSteering) \in Seq(Message)
  BY MessagesTyped DEF TypeOK
<1>3. conversation' \in Seq(Message)
  BY <1>1, <1>2
<1>4. delivered' \in Seq(Nat)
  BY DEF EnterTurn, TypeOK
<1>5. pc' \in PCs
  BY Zenon DEF EnterTurn, PCs
<1>6. << >> \in Seq(Nat) /\ FALSE \in BOOLEAN
  OBVIOUS
<1>. QED
  BY <1>3, <1>4, <1>5, <1>6, Zenon DEF EnterTurn, InterruptAfterDrain

LEMMA ThrowTyped ==
  ASSUME TypeOK, Throw
  PROVE  /\ pc' \in PCs /\ conversation' \in Seq(Message)
         /\ stopReason' \in {"completed", "failed", "interrupted"}
  BY DEF TypeOK, Throw, PCs

LEMMA StartFirstTurnTyped ==
  ASSUME TypeOK, NEW conv \in Seq(Message), StartFirstTurn(conv)
  PROVE  /\ pc' \in PCs /\ conversation' \in Seq(Message)
         /\ delivered' \in Seq(Nat) /\ pendingSteering' \in Seq(Nat)
         /\ toolInterruptRequested' \in BOOLEAN /\ interrupted' \in BOOLEAN
         /\ freshUserIndex' \in Nat /\ turnNumber' \in Nat
         /\ stopReason' = stopReason
<1>1. /\ freshUserIndex' \in Nat
      /\ stopReason' = stopReason
  BY DEF StartFirstTurn
<1>2. CASE /\ Aborted
           /\ LeaveLoop(conv)
           /\ UNCHANGED <<turnNumber, pendingSteering, toolInterruptRequested,
                          delivered, interrupted>>
  <2>1. pc' \in PCs /\ conversation' \in Seq(Message)
    BY <1>2 DEF LeaveLoop, PCs
  <2>. QED
    BY <1>1, <1>2, <2>1 DEF TypeOK
<1>3. CASE ~Aborted /\ turnNumber' = 1 /\ EnterTurn(conv)
  BY <1>1, <1>3, EnterTurnTyped
<1>. QED
  BY <1>2, <1>3 DEF StartFirstTurn

LEMMA TypeInductive == TypeOK /\ FirstTurn /\ [Next]_vars => TypeOK'
<1>. SUFFICES ASSUME TypeOK, FirstTurn, [Next]_vars PROVE TypeOK'
  OBVIOUS
<1>. USE DEF agentVars, loopVars, historyVars
<1>1. CASE SteerAgent
  <2>1. /\ nextSteeringId' \in Nat
        /\ pendingSteering' \in Seq(Nat) /\ late' \subseteq Nat
    BY <1>1 DEF SteerAgent, Enqueued, TypeOK
  <2>. QED
    BY <1>1, <2>1 DEF SteerAgent, TypeOK
<1>2. CASE CancelPending
  <2>1. PICK k \in 1..Len(pendingSteering) :
          pendingSteering' = SubSeq(pendingSteering, 1, k - 1)
                     \o SubSeq(pendingSteering, k + 1, Len(pendingSteering))
    BY <1>2 DEF CancelPending
  <2>2. pendingSteering' \in Seq(Nat)
    BY <2>1 DEF TypeOK
  <2>. QED
    BY <1>2, <2>2 DEF CancelPending, TypeOK
<1>3. CASE InterruptTools
  BY <1>3 DEF InterruptTools, TypeOK
<1>4. CASE UserAbort
  BY <1>4 DEF UserAbort, TypeOK
<1>5. CASE WorkSettles
  BY <1>5 DEF WorkSettles, Untracked, TypeOK
<1>6. CASE PromptAgent
  BY <1>6 DEF PromptAgent, TypeOK, PCs
<1>7. CASE CompactBeforePrompt
  <2>1. /\ Append(conversation, Prompt(run)) \in Seq(Message)
        /\ <<Summary, Prompt(run)>> \in Seq(Message)
    BY MessagesTyped DEF TypeOK
  <2>2. CASE \E failed \in BOOLEAN :
               /\ StartFirstTurn(Append(conversation, Prompt(run)))
               /\ proactiveCompactionFailed' = failed
    BY <1>7, <2>1, <2>2, StartFirstTurnTyped DEF CompactBeforePrompt, TypeOK
  <2>3. CASE /\ StartFirstTurn(<<Summary, Prompt(run)>>)
             /\ UNCHANGED proactiveCompactionFailed
    BY <1>7, <2>1, <2>3, StartFirstTurnTyped DEF CompactBeforePrompt, TypeOK
  <2>4. CASE /\ Throw
             /\ UNCHANGED <<proactiveCompactionFailed, freshUserIndex,
                            turnNumber, pendingSteering, toolInterruptRequested,
                            delivered, interrupted>>
    BY <1>7, <2>4, ThrowTyped DEF CompactBeforePrompt, TypeOK
  <2>. QED
    BY <1>7, <2>2, <2>3, <2>4 DEF CompactBeforePrompt
<1>8. CASE CompactBeforeTurn
  <2>1. <<Summary>> \in Seq(Message)
    BY MessagesTyped
  <2>2. CASE \E conv \in {conversation, <<Summary>>} :
               /\ EnterTurn(conv)
               /\ proactiveCompactionFailed' \in {proactiveCompactionFailed, TRUE}
               /\ UNCHANGED stopReason
    BY <1>8, <2>1, <2>2, EnterTurnTyped DEF CompactBeforeTurn, TypeOK
  <2>3. CASE /\ Throw
             /\ UNCHANGED <<proactiveCompactionFailed, pendingSteering,
                            toolInterruptRequested, delivered, interrupted>>
    BY <1>8, <2>3, ThrowTyped DEF CompactBeforeTurn, TypeOK
  <2>. QED
    BY <1>8, <2>2, <2>3 DEF CompactBeforeTurn
<1>9. CASE StreamDone
  <2>1. PICK calls \in 0..MaxCalls, mode \in Modes :
          /\ conversation' = Append(conversation, Assistant(calls))
          /\ batch' = BeginBatch(calls, mode, Aborted \/ toolInterruptRequested)
    BY <1>9 DEF StreamDone
  <2>2. calls \in Nat
    OBVIOUS
  <2>3. conversation' \in Seq(Message)
    BY <2>1, <2>2, MessagesTyped DEF TypeOK
  <2>4. (Aborted \/ toolInterruptRequested) \in BOOLEAN
    BY Zenon DEF Aborted
  <2>5. batch' \in Batches
    BY <2>1, <2>2, <2>4, BeginBatchTyped, Zenon
  <2>. QED
    BY <1>9, <2>3, <2>5 DEF StreamDone, TypeOK, PCs
<1>10. CASE StreamFails
  BY <1>10, ThrowTyped DEF StreamFails, TypeOK
<1>11. CASE StreamOverflows
  BY <1>11 DEF StreamOverflows, TypeOK, PCs
<1>12. CASE CompactAfterOverflow
  <2>1. CASE /\ conversation' = <<Summary>> \o PreservedTail
             /\ pc' = "restream" /\ UNCHANGED stopReason
    <3>1. PreservedTail \in Seq(Message)
      <4>1. CASE turnNumber # 1
        BY <4>1 DEF PreservedTail
      <4>2. CASE turnNumber = 1
        <5>1. freshUserIndex \in 1..Len(conversation)
          BY <1>12, <4>2 DEF FirstTurn, CompactAfterOverflow
        <5>. QED
          BY <4>2, <5>1 DEF PreservedTail, TypeOK
      <4>. QED
        BY <4>1, <4>2
    <3>2. conversation' \in Seq(Message)
      BY <2>1, <3>1, MessagesTyped
    <3>. QED
      BY <1>12, <2>1, <3>2 DEF CompactAfterOverflow, TypeOK, PCs
  <2>2. CASE Throw
    BY <1>12, <2>2, ThrowTyped DEF CompactAfterOverflow, TypeOK
  <2>. QED
    BY <1>12, <2>1, <2>2 DEF CompactAfterOverflow
<1>13. CASE ToolSettles
  <2>1. PICK k \in 1..batch.calls, abort \in BOOLEAN, endTurn \in BOOLEAN,
             yields \in BOOLEAN :
          /\ tracked' = IF yields THEN tracked + 1 ELSE tracked
          /\ toolAborted' = (toolAborted \/ abort)
          /\ batch' = Settle(batch, k, endTurn, BatchSignal \/ abort)
    BY <1>13 DEF ToolSettles, CallSettles
  <2>2. (BatchSignal \/ abort) \in BOOLEAN
    BY Zenon DEF BatchSignal
  <2>3. k \in Nat /\ batch \in Batches
    BY DEF TypeOK, Batches
  <2>4. batch' \in Batches
    BY <2>1, <2>2, <2>3, SettleTyped, Zenon
  <2>5. tracked' \in Nat /\ toolAborted' \in BOOLEAN
    BY <2>1 DEF TypeOK
  <2>. QED
    BY <1>13, <2>4, <2>5 DEF ToolSettles, CallSettles, TypeOK
<1>14. CASE EndToolBatch
  <2>1. PICK warning \in Warnings :
          LET conv == conversation \o Results(batch.executions) \o warning
          IN  /\ conversation' = conv
              /\ \/ pc' = "closing" /\ UNCHANGED turnNumber
                 \/ pc' = "compact" /\ turnNumber' = turnNumber + 1
    BY <1>14 DEF EndToolBatch, LeaveLoop
  <2>2. /\ warning \in Seq(Message)
        /\ Results(batch.executions) \in Seq(Message)
    <3>1. batch.executions \in Seq(Nat)
      BY DEF TypeOK, Batches
    <3>. QED
      BY <3>1, MessagesTyped
  <2>3. conversation' \in Seq(Message)
    BY <2>1, <2>2 DEF TypeOK
  <2>4. NoBatch \in Batches
    BY DEF NoBatch, Batches, Modes, States
  <2>5. pc' \in PCs /\ turnNumber' \in Nat
    BY <2>1 DEF TypeOK, PCs
  <2>6. batch' \in Batches
    BY <1>14, <2>4, Zenon DEF EndToolBatch
  <2>. QED
    BY <1>14, <2>3, <2>5, <2>6 DEF EndToolBatch, TypeOK
<1>15. CASE FinishRun
  <2>1. /\ stopReason' \in {"completed", "failed", "interrupted"}
        /\ messages' \in Seq(Message)
        /\ lost' \subseteq Nat
    BY <1>15 DEF FinishRun, TypeOK
  <2>2. /\ pendingSteering' \in Seq(Nat) /\ conversation' \in Seq(Message)
        /\ pc' \in PCs /\ turnNumber' \in Nat /\ freshUserIndex' \in Nat
    BY <1>15 DEF FinishRun, PCs
  <2>. QED
    BY <1>15, <2>1, <2>2 DEF FinishRun, TypeOK
<1>16. CASE StartManualCompaction
  <2>1. pc' \in PCs /\ run' \in Nat
    BY <1>16 DEF StartManualCompaction, TypeOK, PCs
  <2>. QED
    BY <1>16, <2>1 DEF StartManualCompaction, TypeOK
<1>17. CASE EndManualCompaction
  <2>1. <<Summary>> \in Seq(Message)
    BY MessagesTyped
  <2>2. messages' \in Seq(Message)
    BY <1>17, <2>1 DEF EndManualCompaction, TypeOK
  <2>. QED
    BY <1>17, <2>2 DEF EndManualCompaction, TypeOK, PCs
<1>18. CASE UNCHANGED vars
  BY <1>18 DEF vars, TypeOK
<1>. QED
  BY <1>1, <1>2, <1>3, <1>4, <1>5, <1>6, <1>7, <1>8, <1>9, <1>10, <1>11, <1>12,
     <1>13, <1>14, <1>15, <1>16, <1>17, <1>18 DEF Next, LoopStep, Environment

LEMMA EnterTurnPlain ==
  ASSUME TypeOK, NEW conv \in Seq(Message), EnterTurn(conv)
  PROVE  /\ Len(conversation') >= Len(conv)
         /\ \A j \in 1..Len(conv) : conversation'[j] = conv[j]
         /\ PlainFrom(conversation', Len(conv) + 1)
<1>1. PICK note \in Notes :
        conversation' = conv \o Steers(pendingSteering) \o note
  BY DEF EnterTurn
<1>. DEFINE steers == Steers(pendingSteering)
<1>2. note \in Seq(Message) /\ steers \in Seq(Message)
  BY MessagesTyped DEF TypeOK
<1>3. \A j \in 1..Len(steers) : steers[j].role = "steer"
  BY DEF Steers, Steer, TypeOK
<1>4. \A j \in 1..Len(note) : note[j].role = "note"
  <2>1. note = << >> \/ note = <<Note>>
    BY DEF Notes
  <2>. QED
    BY <2>1 DEF Note
<1>. HIDE DEF steers
<1>5. conversation' = (conv \o steers) \o note
  BY <1>1 DEF steers
<1>6. /\ Len(conversation') = Len(conv) + Len(steers) + Len(note)
      /\ \A j \in 1..Len(conversation') :
           conversation'[j] =
             IF j <= Len(conv) THEN conv[j]
             ELSE IF j <= Len(conv) + Len(steers) THEN steers[j - Len(conv)]
             ELSE note[j - Len(conv) - Len(steers)]
  BY <1>2, <1>5
<1>7. Len(conv) \in Nat /\ Len(steers) \in Nat /\ Len(note) \in Nat
  BY <1>2
<1>8. ASSUME NEW j \in (Len(conv) + 1)..Len(conversation')
      PROVE  conversation'[j].role \in {"prompt", "steer", "note"}
  <2>1. CASE j <= Len(conv) + Len(steers)
    <3>1. j - Len(conv) \in 1..Len(steers)
      BY <1>7, <2>1
    <3>2. conversation'[j] = steers[j - Len(conv)]
      BY <1>6, <1>7, <2>1
    <3>. QED
      BY <1>3, <3>1, <3>2
  <2>2. CASE ~(j <= Len(conv) + Len(steers))
    <3>1. j - Len(conv) - Len(steers) \in 1..Len(note)
      BY <1>6, <1>7, <2>2
    <3>2. conversation'[j] = note[j - Len(conv) - Len(steers)]
      BY <1>6, <1>7, <2>2
    <3>. QED
      BY <1>4, <3>1, <3>2
  <2>. QED
    BY <2>1, <2>2
<1>. QED
  BY <1>6, <1>7, <1>8 DEF PlainFrom

LEMMA FirstTurnInductive == TypeOK /\ FirstTurn /\ [Next]_vars => FirstTurn'
<1>. SUFFICES ASSUME TypeOK, FirstTurn, [Next]_vars PROVE FirstTurn'
  OBVIOUS
<1>. USE DEF agentVars, loopVars, historyVars
<1>1. CASE \/ SteerAgent \/ CancelPending \/ InterruptTools \/ UserAbort
           \/ WorkSettles \/ ToolSettles \/ UNCHANGED vars
  <2>1. UNCHANGED <<pc, turnNumber, conversation, freshUserIndex>>
    BY <1>1, Zenon DEF SteerAgent, CancelPending, InterruptTools, UserAbort,
       WorkSettles, ToolSettles, CallSettles, vars
  <2>. QED
    BY <2>1 DEF FirstTurn
<1>2. CASE PromptAgent \/ FinishRun \/ StartManualCompaction
           \/ EndManualCompaction \/ StreamFails
  <2>1. pc' \in {"prompt", "idle", "manual", "closing"}
    BY <1>2 DEF PromptAgent, FinishRun, StartManualCompaction,
       EndManualCompaction, StreamFails, Throw
  <2>. QED
    BY <2>1 DEF FirstTurn
<1>3. CASE CompactBeforePrompt
  <2>1. CASE pc' = "closing"
    BY <2>1 DEF FirstTurn
  <2>2. CASE \E conv \in Seq(Message) :
               /\ Len(conv) >= 1 /\ conv[Len(conv)] = Prompt(run)
               /\ freshUserIndex' = Len(conv)
               /\ turnNumber' = 1 /\ EnterTurn(conv)
    <3>1. PICK conv \in Seq(Message) :
               /\ Len(conv) >= 1 /\ conv[Len(conv)] = Prompt(run)
               /\ freshUserIndex' = Len(conv)
               /\ turnNumber' = 1 /\ EnterTurn(conv)
      BY <2>2
    <3>2. /\ Len(conversation') >= Len(conv)
          /\ conversation'[Len(conv)] = Prompt(run)
          /\ PlainFrom(conversation', Len(conv) + 1)
      BY <3>1, EnterTurnPlain
    <3>3. Prompt(run).role = "prompt"
      BY DEF Prompt
    <3>4. /\ Len(conv) \in Nat /\ Len(conversation') \in Nat
          /\ conversation' \in Seq(Message)
      BY <3>1, EnterTurnTyped
    <3>5. PlainFrom(conversation', Len(conv))
      BY <3>2, <3>3, <3>4 DEF PlainFrom
    <3>6. pc' = "stream"
      BY <3>1 DEF EnterTurn
    <3>. QED
      BY <3>1, <3>2, <3>4, <3>5, <3>6 DEF FirstTurn
  <2>3. ASSUME NEW conv \in Seq(Message), Len(conv) >= 1,
               conv[Len(conv)] = Prompt(run), StartFirstTurn(conv)
        PROVE  FirstTurn'
    BY <2>1, <2>2, <2>3 DEF StartFirstTurn, LeaveLoop
  <2>4. CASE StartFirstTurn(Append(conversation, Prompt(run)))
    <3>. DEFINE conv == Append(conversation, Prompt(run))
    <3>1. conv \in Seq(Message) /\ Len(conv) >= 1 /\ conv[Len(conv)] = Prompt(run)
      BY MessagesTyped DEF TypeOK
    <3>. QED
      BY <2>3, <2>4, <3>1
  <2>5. CASE StartFirstTurn(<<Summary, Prompt(run)>>)
    <3>. DEFINE conv == <<Summary, Prompt(run)>>
    <3>1. conv \in Seq(Message) /\ Len(conv) >= 1 /\ conv[Len(conv)] = Prompt(run)
      BY MessagesTyped DEF TypeOK
    <3>. QED
      BY <2>3, <2>5, <3>1
  <2>6. CASE Throw
    BY <2>1, <2>6 DEF Throw
  <2>. QED
    BY <1>3, <2>4, <2>5, <2>6 DEF CompactBeforePrompt
<1>4. CASE CompactBeforeTurn
  BY <1>4 DEF CompactBeforeTurn, EnterTurn, Throw, FirstTurn, TypeOK
<1>5. CASE StreamDone \/ CompactAfterOverflow
  <2>1. /\ pc' \in {"tools", "restream", "closing"} /\ turnNumber' = turnNumber
        /\ pc \in {"stream", "restream", "overflow"}
    BY <1>5 DEF StreamDone, CompactAfterOverflow, Throw
  <2>. QED
    BY <2>1 DEF FirstTurn
<1>6. CASE StreamOverflows
  BY <1>6 DEF StreamOverflows, FirstTurn
<1>7. CASE EndToolBatch
  <2>1. /\ pc = "tools"
        /\ pc' = "closing" \/ (pc' = "compact" /\ turnNumber' = turnNumber + 1)
    BY <1>7 DEF EndToolBatch, LeaveLoop
  <2>. QED
    BY <2>1 DEF FirstTurn, TypeOK
<1>. QED
  BY <1>1, <1>2, <1>3, <1>4, <1>5, <1>6, <1>7 DEF Next, LoopStep, Environment

LEMMA TypedInitially == Init => TypeOK /\ FirstTurn
<1>. SUFFICES ASSUME Init PROVE TypeOK /\ FirstTurn
  OBVIOUS
<1>1. NoBatch \in Batches
  BY DEF NoBatch, Batches, Modes, States
<1>2. << >> \in Seq(Message) /\ << >> \in Seq(Nat)
  OBVIOUS
<1>3. TypeOK
  BY <1>1, <1>2 DEF Init, TypeOK, PCs
<1>4. FirstTurn
  BY DEF Init, FirstTurn
<1>. QED
  BY <1>3, <1>4

\* Every variable keeps its type, whatever the bounds: in particular the tail
\* that an overflow compaction cuts off is a sequence of messages, because
\* freshUserIndex still points into the conversation then.
THEOREM TypeCorrect == Spec => [](TypeOK /\ FirstTurn)
  BY TypedInitially, TypeInductive, FirstTurnInductive, PTL DEF Spec

-----------------------------------------------------------------------------
(* What the first turn reads.                                              *)

\* The prompt stands at i, and the steering the run has read follows it.
FreshAt(i) ==
  /\ i \in 1..Len(conversation) /\ conversation[i] = Prompt(run)
  /\ \A j \in (runStart + 1)..Len(delivered) :
       /\ i + j - runStart <= Len(conversation)
       /\ conversation[i + j - runStart] = Steer(delivered[j])

\* The index of the prompt is kept until the tail is cut, where it is the second message.
FreshInv ==
  /\ pc = "prompt" => runStart = Len(delivered)
  /\ turnNumber = 1 /\ pc \in {"stream", "overflow"} => FreshAt(freshUserIndex)
  /\ turnNumber = 1 /\ pc = "restream" => FreshAt(2)

LEMMA ThreeParts ==
  ASSUME NEW a \in Seq(Message), NEW b \in Seq(Message), NEW c \in Seq(Message)
  PROVE  /\ Len((a \o b) \o c) = Len(a) + Len(b) + Len(c)
         /\ \A k \in 1..Len(a) : ((a \o b) \o c)[k] = a[k]
         /\ \A k \in 1..Len(b) : ((a \o b) \o c)[Len(a) + k] = b[k]
OBVIOUS

LEMMA EnterTurnFresh ==
  ASSUME TypeOK, NEW conv \in Seq(Message), Len(conv) >= 1, conv[Len(conv)] = Prompt(run),
         EnterTurn(conv), runStart = Len(delivered), UNCHANGED <<run, runStart>>,
         freshUserIndex' = Len(conv)
  PROVE  FreshAt(freshUserIndex)'
<1>1. PICK note \in Notes :
        conversation' = conv \o Steers(pendingSteering) \o note
  BY DEF EnterTurn
<1>. DEFINE steers == Steers(pendingSteering)
<1>2. /\ note \in Seq(Message) /\ steers \in Seq(Message)
      /\ pendingSteering \in Seq(Nat) /\ delivered \in Seq(Nat)
  BY MessagesTyped DEF TypeOK
<1>3. /\ Len(steers) = Len(pendingSteering)
      /\ \A j \in 1..Len(pendingSteering) : steers[j] = Steer(pendingSteering[j])
  BY <1>2 DEF Steers
<1>. HIDE DEF steers
<1>4. conversation' = (conv \o steers) \o note
  BY <1>1 DEF steers
<1>5. /\ Len(conversation') = Len(conv) + Len(steers) + Len(note)
      /\ \A k \in 1..Len(conv) : conversation'[k] = conv[k]
      /\ \A k \in 1..Len(steers) : conversation'[Len(conv) + k] = steers[k]
  BY <1>2, <1>4, ThreeParts, Zenon
<1>6. /\ Len(delivered') = Len(delivered) + Len(pendingSteering)
      /\ \A k \in 1..Len(pendingSteering) : delivered'[Len(delivered) + k] = pendingSteering[k]
  <2>1. delivered' = delivered \o pendingSteering
    BY DEF EnterTurn
  <2>2. ASSUME NEW s \in Seq(Nat), NEW t \in Seq(Nat)
        PROVE  /\ Len(s \o t) = Len(s) + Len(t)
               /\ \A k \in 1..Len(t) : (s \o t)[Len(s) + k] = t[k]
    OBVIOUS
  <2>. QED
    BY <1>2, <2>1, <2>2, Zenon
<1>7. /\ Len(conv) \in Nat /\ Len(steers) \in Nat /\ Len(note) \in Nat
      /\ Len(delivered) \in Nat /\ Len(pendingSteering) \in Nat
  BY <1>2
<1>8. ASSUME NEW j \in (runStart' + 1)..Len(delivered')
      PROVE  /\ Len(conv) + j - runStart' <= Len(conversation')
             /\ conversation'[Len(conv) + j - runStart'] = Steer(delivered'[j])
  <2>. DEFINE k == j - Len(delivered)
  <2>1. k \in 1..Len(pendingSteering) /\ j = Len(delivered) + k
    BY <1>6, <1>7
  <2>2. conversation'[Len(conv) + k] = Steer(delivered'[j])
    BY <1>3, <1>5, <1>6, <2>1
  <2>3. Len(conv) + j - runStart' = Len(conv) + k
    BY <1>7, <2>1
  <2>. QED
    BY <1>3, <1>5, <1>7, <2>1, <2>2, <2>3
<1>9. Len(conv) \in 1..Len(conversation') /\ conversation'[Len(conv)] = Prompt(run)
  BY <1>5, <1>7
<1>. QED
  BY <1>8, <1>9 DEF FreshAt, Prompt, Steer

\* A summary ahead of what a message begins.
LEMMA CutTail ==
  ASSUME NEW conv \in Seq(Message), NEW f \in 1..Len(conv), NEW out,
         out = <<Summary>> \o SubSeq(conv, f, Len(conv))
  PROVE  /\ Len(out) = Len(conv) - f + 2
         /\ \A k \in 1..(Len(conv) - f + 1) : out[k + 1] = conv[f + k - 1]
<1>. DEFINE tail == SubSeq(conv, f, Len(conv))
<1>1. /\ tail \in Seq(Message) /\ Len(tail) = Len(conv) - f + 1
      /\ \A k \in 1..Len(tail) : tail[k] = conv[f + k - 1]
  BY SubSeqProperties
<1>2. <<Summary>> \in Seq(Message) /\ Len(<<Summary>>) = 1
  BY MessagesTyped
<1>. HIDE DEF tail
<1>3. out = <<Summary>> \o tail
  BY DEF tail
<1>4. Len(out) = 1 + Len(tail) /\ \A k \in 1..Len(tail) : out[1 + k] = tail[k]
  BY <1>1, <1>2, <1>3
<1>. QED
  BY <1>1, <1>4

LEMMA FreshInductive == TypeOK /\ FirstTurn /\ FreshInv /\ [Next]_vars => FreshInv'
<1>. SUFFICES ASSUME TypeOK, FirstTurn, FreshInv, [Next]_vars PROVE FreshInv'
  OBVIOUS
<1>. USE DEF agentVars, loopVars, historyVars
<1>1. CASE \/ SteerAgent \/ CancelPending \/ InterruptTools \/ UserAbort
           \/ WorkSettles \/ ToolSettles \/ UNCHANGED vars
  <2>1. UNCHANGED <<pc, turnNumber, conversation, freshUserIndex, run, delivered, runStart>>
    BY <1>1, Zenon DEF SteerAgent, CancelPending, InterruptTools, UserAbort,
       WorkSettles, ToolSettles, CallSettles, vars
  <2>. QED
    BY <2>1 DEF FreshInv, FreshAt, Prompt, Steer
<1>2. CASE PromptAgent
  BY <1>2 DEF PromptAgent, FreshInv
<1>3. CASE \/ FinishRun \/ StartManualCompaction \/ EndManualCompaction
           \/ StreamFails \/ StreamDone \/ EndToolBatch
  <2>1. pc' \in {"idle", "manual", "closing", "tools", "compact"}
    BY <1>3 DEF FinishRun, StartManualCompaction, EndManualCompaction, StreamFails,
       StreamDone, EndToolBatch, LeaveLoop, Throw
  <2>. QED
    BY <2>1 DEF FreshInv
<1>4. CASE CompactBeforePrompt
  <2>1. CASE pc' = "closing"
    BY <2>1 DEF FreshInv
  <2>2. ASSUME NEW conv \in Seq(Message), Len(conv) >= 1,
               conv[Len(conv)] = Prompt(run), StartFirstTurn(conv)
        PROVE  FreshInv'
    <3>1. CASE Aborted
      BY <2>1, <2>2, <3>1 DEF StartFirstTurn, LeaveLoop
    <3>2. CASE ~Aborted
      <4>1. EnterTurn(conv) /\ freshUserIndex' = Len(conv) /\ pc' = "stream"
        BY <2>2, <3>2 DEF StartFirstTurn, EnterTurn
      <4>2. runStart = Len(delivered) /\ UNCHANGED <<run, runStart>>
        BY <1>4 DEF CompactBeforePrompt, FreshInv
      <4>. QED
        BY <2>2, <4>1, <4>2, EnterTurnFresh DEF FreshInv
    <3>. QED
      BY <3>1, <3>2
  <2>3. CASE StartFirstTurn(Append(conversation, Prompt(run)))
    <3>. DEFINE conv == Append(conversation, Prompt(run))
    <3>1. conv \in Seq(Message) /\ Len(conv) >= 1 /\ conv[Len(conv)] = Prompt(run)
      BY MessagesTyped DEF TypeOK
    <3>. QED
      BY <2>2, <2>3, <3>1
  <2>4. CASE StartFirstTurn(<<Summary, Prompt(run)>>)
    <3>. DEFINE conv == <<Summary, Prompt(run)>>
    <3>1. conv \in Seq(Message) /\ Len(conv) >= 1 /\ conv[Len(conv)] = Prompt(run)
      BY MessagesTyped DEF TypeOK
    <3>. QED
      BY <2>2, <2>4, <3>1
  <2>5. CASE Throw
    BY <2>1, <2>5 DEF Throw
  <2>. QED
    BY <1>4, <2>3, <2>4, <2>5 DEF CompactBeforePrompt
<1>5. CASE CompactBeforeTurn
  <2>1. turnNumber' # 1 /\ pc' # "prompt"
    BY <1>5 DEF CompactBeforeTurn, EnterTurn, Throw, FirstTurn, TypeOK
  <2>. QED
    BY <2>1 DEF FreshInv
<1>6. CASE StreamOverflows
  <2>1. /\ pc = "stream" /\ pc' = "overflow"
        /\ UNCHANGED <<turnNumber, conversation, freshUserIndex, run, delivered, runStart>>
    BY <1>6 DEF StreamOverflows
  <2>. QED
    BY <2>1 DEF FreshInv, FreshAt, Prompt, Steer
<1>7. CASE CompactAfterOverflow
  <2>1. CASE pc' = "closing"
    BY <2>1 DEF FreshInv
  <2>2. CASE turnNumber = 1 /\ pc' = "restream" /\ conversation' = <<Summary>> \o PreservedTail
    <3>. DEFINE f == freshUserIndex
                n == Len(conversation)
    <3>1. /\ FreshAt(f) /\ pc = "overflow" /\ UNCHANGED <<turnNumber, run, delivered, runStart>>
      BY <1>7, <2>2 DEF CompactAfterOverflow, FreshInv
    <3>2. f \in 1..n /\ n \in Nat /\ conversation \in Seq(Message) /\ runStart \in Nat
          /\ Len(delivered) \in Nat
      BY <3>1 DEF FreshAt, TypeOK
    <3>3. PreservedTail = SubSeq(conversation, f, n)
      BY <2>2 DEF PreservedTail
    <3>4. conversation' = <<Summary>> \o SubSeq(conversation, f, n)
      BY <2>2, <3>3
    <3>5. /\ Len(conversation') = n - f + 2
          /\ \A k \in 1..(n - f + 1) : conversation'[k + 1] = conversation[f + k - 1]
      BY <3>2, <3>4, CutTail
    <3>6. conversation'[2] = Prompt(run) /\ 2 \in 1..Len(conversation')
      <4>1. 1 \in 1..(n - f + 1) /\ f + 1 - 1 = f
        BY <3>2
      <4>2. conversation'[1 + 1] = conversation[f]
        BY <3>5, <4>1
      <4>. QED
        BY <3>1, <3>2, <3>5, <4>2 DEF FreshAt
    <3>7. ASSUME NEW j \in (runStart + 1)..Len(delivered)
          PROVE  /\ 2 + j - runStart <= Len(conversation')
                 /\ conversation'[2 + j - runStart] = Steer(delivered[j])
      <4>. DEFINE k == j - runStart + 1
      <4>1. /\ f + j - runStart <= n /\ conversation[f + j - runStart] = Steer(delivered[j])
        BY <3>1 DEF FreshAt
      <4>2. k \in 1..(n - f + 1) /\ f + k - 1 = f + j - runStart /\ k + 1 = 2 + j - runStart
        BY <3>2, <4>1
      <4>3. conversation'[k + 1] = conversation[f + k - 1]
        BY <3>5, <4>2
      <4>. QED
        BY <3>2, <3>5, <4>1, <4>2, <4>3
    <3>8. FreshAt(2)'
      BY <3>1, <3>6, <3>7 DEF FreshAt, Prompt, Steer
    <3>. QED
      BY <2>2, <3>8 DEF FreshInv
  <2>3. CASE turnNumber # 1
    <3>1. turnNumber' # 1 /\ pc' # "prompt"
      BY <1>7, <2>3 DEF CompactAfterOverflow, Throw
    <3>. QED
      BY <3>1 DEF FreshInv
  <2>. QED
    BY <1>7, <2>1, <2>2, <2>3 DEF CompactAfterOverflow, Throw
<1>. QED
  BY <1>1, <1>2, <1>3, <1>4, <1>5, <1>6, <1>7 DEF Next, LoopStep, Environment

\* In the first turn the model reads the prompt and after it the steering of the run, also
\* when the request is repeated after an overflow compaction (loop.ts:357).
THEOREM FreshCorrect == Spec => []FreshContextSurvives
<1>1. Init => FreshInv
  BY DEF Init, FreshInv
<1>2. FreshInv => FreshContextSurvives
  BY DEF FreshInv, FreshAt, FreshContextSurvives
<1>. QED
  BY <1>1, <1>2, FreshInductive, TypedInitially, TypeInductive, FirstTurnInductive, PTL
     DEF Spec

-----------------------------------------------------------------------------
(* Every tool call is paired with its result.                              *)

Plain(conv) ==
  \A j \in 1..Len(conv) : conv[j].role \in {"prompt", "steer", "note", "summary"}

LEMMA MessageFields ==
  \A s \in Seq(Message) : \A i \in 1..Len(s) : s[i] \in Message /\ s[i].n \in Nat
<1>1. \A m \in Message : m.n \in Nat
  BY DEF Message
<1>. QED
  BY <1>1

\* Plain messages after a paired conversation leave it paired.
LEMMA PairedThenPlain ==
  ASSUME NEW s \in Seq(Message), NEW t \in Seq(Message), Paired(s), Plain(t)
  PROVE  Paired(s \o t)
<1>. DEFINE c == s \o t
<1>1. /\ c \in Seq(Message) /\ Len(s) \in Nat /\ Len(t) \in Nat
      /\ Len(c) = Len(s) + Len(t)
      /\ \A i \in 1..Len(s) : c[i] = s[i]
      /\ \A i \in (Len(s) + 1)..Len(c) : c[i] = t[i - Len(s)]
  OBVIOUS
<1>. HIDE DEF c
<1>2. SUFFICES ASSUME NEW i \in 1..Len(c)
      PROVE  /\ c[i].role = "assistant" =>
                  \A k \in 1..c[i].n : i + k <= Len(c) /\ c[i + k] = Result(k)
             /\ c[i].role = "result" =>
                  /\ c[i].n < i /\ c[i - c[i].n].role = "assistant"
                  /\ c[i].n <= c[i - c[i].n].n
  BY DEF Paired, c
<1>3. CASE i \in 1..Len(s)
  <2>1. c[i] = s[i] /\ s[i].n \in Nat
    BY <1>1, <1>3, MessageFields
  <2>2. ASSUME s[i].role = "assistant", NEW k \in 1..s[i].n
        PROVE  i + k <= Len(c) /\ c[i + k] = Result(k)
    <3>1. i + k <= Len(s) /\ s[i + k] = Result(k)
      BY <1>3, <2>2 DEF Paired
    <3>2. i + k \in 1..Len(s)
      BY <1>1, <1>3, <2>1, <3>1
    <3>. QED
      BY <1>1, <3>1, <3>2
  <2>3. ASSUME s[i].role = "result"
        PROVE  /\ s[i].n < i /\ c[i - s[i].n].role = "assistant"
               /\ s[i].n <= c[i - s[i].n].n
    <3>1. /\ s[i].n < i /\ s[i - s[i].n].role = "assistant"
          /\ s[i].n <= s[i - s[i].n].n
      BY <1>3, <2>3 DEF Paired
    <3>2. i - s[i].n \in 1..Len(s)
      BY <1>1, <1>3, <2>1, <3>1
    <3>. QED
      BY <1>1, <3>1, <3>2
  <2>. QED
    BY <2>1, <2>2, <2>3
<1>4. CASE i \notin 1..Len(s)
  <2>1. i \in (Len(s) + 1)..Len(c) /\ i - Len(s) \in 1..Len(t)
    BY <1>1, <1>4
  <2>2. c[i].role \in {"prompt", "steer", "note", "summary"}
    BY <1>1, <2>1 DEF Plain
  <2>. QED
    BY <2>2
<1>. QED
  BY <1>3, <1>4

\* So do an assistant message and the results of all its calls, in order.
LEMMA PairedThenBatch ==
  ASSUME NEW s \in Seq(Message), NEW n \in Nat, NEW e \in Seq(Nat), Paired(s),
         Len(e) = n, \A j \in 1..n : e[j] = j
  PROVE  Paired(Append(s, Assistant(n)) \o Results(e))
<1>. DEFINE r == Results(e)
            c == Append(s, Assistant(n)) \o r
            l == Len(s)
<1>1. /\ Assistant(n) \in Message /\ Assistant(n).role = "assistant"
      /\ Assistant(n).n = n
  BY DEF Assistant, Message, Roles
<1>2. /\ r \in Seq(Message) /\ Len(r) = n
      /\ \A j \in 1..n : r[j] = Result(j)
  <2>1. r \in Seq(Message)
    BY MessagesTyped
  <2>2. Len(r) = n
    BY DEF Results
  <2>3. \A j \in 1..n : r[j] = Result(e[j])
    BY DEF Results
  <2>. QED
    BY <2>1, <2>2, <2>3
<1>. HIDE DEF r
<1>3. /\ l \in Nat /\ c \in Seq(Message) /\ Len(c) = l + 1 + n
      /\ \A i \in 1..l : c[i] = s[i]
      /\ c[l + 1] = Assistant(n)
      /\ \A i \in (l + 2)..(l + 1 + n) : c[i] = r[i - l - 1]
  <2>. DEFINE d == Append(s, Assistant(n))
  <2>1. /\ d \in Seq(Message) /\ Len(d) = l + 1
        /\ \A i \in 1..l : d[i] = s[i]
        /\ d[l + 1] = Assistant(n)
    BY <1>1, AppendProperties
  <2>2. l \in Nat
    OBVIOUS
  <2>. HIDE DEF d, l
  <2>3. /\ d \o r \in Seq(Message) /\ Len(d \o r) = Len(d) + Len(r)
        /\ \A i \in 1..Len(d) + Len(r) :
             (d \o r)[i] = IF i <= Len(d) THEN d[i] ELSE r[i - Len(d)]
    BY <1>2, <2>1, ConcatProperties
  <2>4. c = d \o r
    BY DEF c, d
  <2>. HIDE DEF c
  <2>5. Len(c) = l + 1 + n
    BY <1>2, <2>1, <2>2, <2>3, <2>4
  <2>6. \A i \in 1..(l + 1) : c[i] = d[i]
    BY <1>2, <2>1, <2>2, <2>3, <2>4
  <2>7. \A i \in (l + 2)..(l + 1 + n) : c[i] = r[i - l - 1]
    <3>1. ASSUME NEW i \in (l + 2)..(l + 1 + n)
          PROVE  /\ i \in 1..(l + 1) + n /\ ~(i <= l + 1)
                 /\ i - (l + 1) = i - l - 1
      BY <2>2
    <3>. QED
      BY <1>2, <2>1, <2>3, <2>4, <3>1
  <2>. QED
    BY <2>1, <2>2, <2>3, <2>4, <2>5, <2>6, <2>7
<1>8. l \in Nat
  BY <1>3
<1>. HIDE DEF c, l
<1>4. SUFFICES ASSUME NEW i \in 1..Len(c)
      PROVE  /\ c[i].role = "assistant" =>
                  \A k \in 1..c[i].n : i + k <= Len(c) /\ c[i + k] = Result(k)
             /\ c[i].role = "result" =>
                  /\ c[i].n < i /\ c[i - c[i].n].role = "assistant"
                  /\ c[i].n <= c[i - c[i].n].n
  BY DEF Paired, c, r
<1>5. CASE i \in 1..l
  <2>1. c[i] = s[i] /\ s[i].n \in Nat
    BY <1>3, <1>5, MessageFields DEF l
  <2>2. ASSUME s[i].role = "assistant", NEW k \in 1..s[i].n
        PROVE  i + k <= Len(c) /\ c[i + k] = Result(k)
    <3>1. i + k <= l /\ s[i + k] = Result(k)
      BY <1>5, <2>2 DEF Paired, l
    <3>2. i + k \in 1..l
      BY <1>5, <1>8, <2>1, <2>2, <3>1
    <3>. QED
      BY <1>3, <3>1, <3>2
  <2>3. ASSUME s[i].role = "result"
        PROVE  /\ s[i].n < i /\ c[i - s[i].n].role = "assistant"
               /\ s[i].n <= c[i - s[i].n].n
    <3>1. /\ s[i].n < i /\ s[i - s[i].n].role = "assistant"
          /\ s[i].n <= s[i - s[i].n].n
      BY <1>5, <2>3 DEF Paired, l
    <3>2. i - s[i].n \in 1..l
      BY <1>5, <1>8, <2>1, <3>1
    <3>. QED
      BY <1>3, <3>1, <3>2
  <2>. QED
    BY <2>1, <2>2, <2>3
<1>6. CASE i = l + 1
  <2>1. c[i].role = "assistant" /\ c[i].n = n
    BY <1>1, <1>3, <1>6
  <2>2. ASSUME NEW k \in 1..n
        PROVE  i + k <= Len(c) /\ c[i + k] = Result(k)
    <3>1. i + k \in (l + 2)..(l + 1 + n) /\ (i + k) - l - 1 = k
      BY <1>6, <1>8
    <3>. QED
      BY <1>2, <1>3, <3>1
  <2>. QED
    BY <2>1, <2>2
<1>7. CASE i \in (l + 2)..(l + 1 + n)
  <2>1. i - l - 1 \in 1..n
    BY <1>3, <1>7
  <2>2. c[i] = Result(i - l - 1)
    BY <1>2, <1>3, <1>7, <2>1
  <2>3. c[i].role = "result" /\ c[i].n = i - l - 1
    BY <2>1, <2>2 DEF Result
  <2>4. i - c[i].n = l + 1
    BY <1>3, <1>7, <2>3
  <2>. QED
    BY <1>1, <1>3, <2>1, <2>3, <2>4
<1>. QED
  BY <1>3, <1>5, <1>6, <1>7

\* The executions recorded are those of the first calls, and of all of them
\* once the batch is over.
InCallOrder(b) ==
  /\ Len(b.executions) <= b.calls
  /\ \A j \in 1..Len(b.executions) : b.executions[j] = j

BatchInv(b) ==
  /\ InCallOrder(b)
  /\ b.state = "over" => Len(b.executions) = b.calls

LEMMA FillAbortedComplete ==
  ASSUME NEW b \in Batches, InCallOrder(b)
  PROVE  BatchInv(FillAborted(b)) /\ FillAborted(b).calls = b.calls
<1>. DEFINE e == b.executions
            fill == [j \in 1..(b.calls - Len(e)) |-> Len(e) + j]
<1>1. b.calls \in Nat /\ e \in Seq(Nat) /\ Len(e) \in Nat
  BY DEF Batches
<1>2. b.calls - Len(e) \in Nat
  BY <1>1 DEF InCallOrder
<1>3. fill \in [1..(b.calls - Len(e)) -> Nat]
  BY <1>1
<1>4. fill \in Seq(Nat)
  BY <1>2, <1>3, SeqDef
<1>5. Len(fill) = b.calls - Len(e)
  BY <1>2, <1>3, <1>4
<1>6. \A j \in 1..Len(fill) : fill[j] = Len(e) + j
  BY <1>5
<1>7. \A j \in 1..Len(e) : e[j] = j
  BY DEF InCallOrder
<1>. HIDE DEF fill, e
<1>8. /\ Len(e \o fill) = b.calls
      /\ \A j \in 1..b.calls : (e \o fill)[j] = j
  <2>1. Len(e \o fill) = b.calls
    BY <1>1, <1>4, <1>5
  <2>2. ASSUME NEW j \in 1..b.calls PROVE (e \o fill)[j] = j
    <3>1. CASE j <= Len(e)
      BY <1>1, <1>4, <1>5, <1>7, <3>1
    <3>2. CASE ~(j <= Len(e))
      <4>1. j - Len(e) \in 1..Len(fill)
        BY <1>1, <1>5, <3>2
      <4>2. (e \o fill)[j] = fill[j - Len(e)]
        BY <1>1, <1>4, <1>5, <3>2
      <4>. QED
        BY <1>1, <1>6, <4>1, <4>2
    <3>. QED
      BY <3>1, <3>2
  <2>. QED
    BY <2>1, <2>2
<1>9. /\ FillAborted(b).executions = e \o fill
      /\ FillAborted(b).calls = b.calls
  BY Zenon DEF FillAborted, Batches, e, fill
<1>. QED
  BY <1>1, <1>8, <1>9 DEF BatchInv, InCallOrder

LEMMA BeginBatchInv ==
  ASSUME NEW calls \in Nat, NEW mode \in Modes, NEW aborted \in BOOLEAN
  PROVE  LET b == BeginBatch(calls, mode, aborted)
         IN  BatchInv(b) /\ b.calls = calls
<1>. DEFINE b == [NoBatch EXCEPT !.calls = calls, !.mode = mode,
                                 !.state = StateAfter(calls = 0)]
<1>1. b \in Batches
  <2>1. b = BeginBatch(calls, mode, FALSE)
    BY Zenon DEF BeginBatch
  <2>. QED
    BY <2>1, BeginBatchTyped
<1>2. b.executions = << >> /\ b.calls = calls
  BY DEF NoBatch
<1>3. b.state = "over" => calls = 0
  BY DEF NoBatch, StateAfter
<1>. HIDE DEF b
<1>4. InCallOrder(b) /\ BatchInv(b)
  BY <1>2, <1>3 DEF InCallOrder, BatchInv
<1>5. BeginBatch(calls, mode, aborted) = IF aborted THEN FillAborted(b) ELSE b
  BY Zenon DEF BeginBatch, b
<1>. QED
  BY <1>1, <1>2, <1>4, <1>5, FillAbortedComplete

LEMMA SettleInv ==
  ASSUME NEW b \in Batches, NEW k \in 1..b.calls, NEW endTurn \in BOOLEAN,
         NEW aborted \in BOOLEAN, BatchInv(b), InFlight(b, k)
  PROVE  LET s == Settle(b, k, endTurn, aborted)
         IN  BatchInv(s) /\ s.calls = b.calls
<1>. DEFINE c == [b EXCEPT !.settled = @ \cup {k},
                           !.ended = IF endTurn THEN @ \cup {k} ELSE @]
            d == [c EXCEPT !.executions = Append(@, k),
                           !.state = StateAfter(k = b.calls)]
            e == [c EXCEPT !.executions = <<1>>, !.ended = @ \cap {1}]
            f == [c EXCEPT !.executions = [j \in 1..b.calls |-> j],
                           !.state = "over"]
<1>1. b.calls \in Nat /\ b.executions \in Seq(Nat) /\ k \in Nat
  BY DEF Batches
<1>2. c.calls = b.calls /\ c.executions = b.executions /\ c.state = b.state
  BY DEF Batches
<1>3. BatchInv(c)
  BY <1>2 DEF BatchInv, InCallOrder
<1>4. c \in Batches
  <2>1. /\ b.settled \cup {k} \in SUBSET Nat
        /\ (IF endTurn THEN b.ended \cup {k} ELSE b.ended) \in SUBSET Nat
    BY <1>1 DEF Batches
  <2>. QED
    BY <2>1, Zenon DEF Batches
<1>. HIDE DEF c
<1>5. CASE b.mode = "sequential"
  <2>1. k = Len(b.executions) + 1
    BY <1>5 DEF InFlight
  <2>2. d.calls = b.calls /\ d.executions = Append(b.executions, k)
    BY <1>2, <1>4, Zenon DEF Batches
  <2>3. d.state = "over" => k = b.calls
    BY <1>4 DEF Batches, StateAfter
  <2>4. d \in Batches
    <3>1. Append(c.executions, k) \in Seq(Nat)
      BY <1>1, <1>2
    <3>. DEFINE state == StateAfter(k = b.calls)
    <3>2. state \in States
      <4>1. (k = b.calls) \in BOOLEAN
        BY Zenon
      <4>. QED
        BY <4>1, StateAfterTyped, Zenon
    <3>. HIDE DEF state
    <3>. QED
      BY <1>4, <3>1, <3>2, Zenon DEF Batches, state
  <2>5. Settle(b, k, endTurn, aborted) = IF aborted THEN FillAborted(d) ELSE d
    BY <1>5, Zenon DEF Settle, c
  <2>. HIDE DEF d
  <2>6. /\ Len(d.executions) = k
        /\ \A j \in 1..k : d.executions[j] = j
    BY <1>1, <2>1, <2>2 DEF BatchInv, InCallOrder
  <2>7. InCallOrder(d) /\ BatchInv(d)
    BY <1>1, <2>2, <2>3, <2>6 DEF BatchInv, InCallOrder
  <2>. QED
    BY <2>2, <2>4, <2>5, <2>7, FillAbortedComplete
<1>6. CASE b.mode # "sequential" /\ c.settled # 1..b.calls
  <2>1. Settle(b, k, endTurn, aborted) = c
    BY <1>6, Zenon DEF Settle, c
  <2>. QED
    BY <1>2, <1>3, <2>1
<1>7. CASE b.mode # "sequential" /\ c.settled = 1..b.calls /\ aborted
  <2>1. Settle(b, k, endTurn, aborted) = FillAborted(e)
    BY <1>7, Zenon DEF Settle, c
  <2>2. e.calls = b.calls /\ e.executions = <<1>>
    BY <1>2, <1>4, Zenon DEF Batches
  <2>3. e \in Batches
    <3>1. <<1>> \in Seq(Nat) /\ c.ended \cap {1} \in SUBSET Nat
      BY <1>4 DEF Batches
    <3>. QED
      BY <1>4, <3>1, Zenon DEF Batches
  <2>. HIDE DEF e
  <2>4. InCallOrder(e)
    BY <1>1, <2>2 DEF InCallOrder
  <2>. QED
    BY <2>1, <2>2, <2>3, <2>4, FillAbortedComplete
<1>8. CASE b.mode # "sequential" /\ c.settled = 1..b.calls /\ ~aborted
  <2>1. Settle(b, k, endTurn, aborted) = f
    BY <1>8, Zenon DEF Settle, c
  <2>. DEFINE all == [j \in 1..b.calls |-> j]
  <2>2. f.calls = b.calls /\ f.executions = all
    BY <1>2, <1>4, Zenon DEF Batches
  <2>3. all \in [1..b.calls -> Nat]
    BY <1>1
  <2>4. all \in Seq(Nat)
    BY <1>1, <2>3, SeqDef
  <2>5. Len(all) = b.calls /\ \A j \in 1..b.calls : all[j] = j
    BY <1>1, <2>3, <2>4
  <2>. HIDE DEF f, all
  <2>. QED
    BY <1>1, <2>1, <2>2, <2>5 DEF BatchInv, InCallOrder
<1>. QED
  BY <1>5, <1>6, <1>7, <1>8

\* The inductive form of ToolUsePaired: the conversation is paired wherever the
\* loop waits, but for the batch it is running.
PairedInv ==
  /\ Paired(messages)
  /\ pc \in {"prompt", "compact", "stream", "overflow", "restream", "closing"} =>
       Paired(conversation)
  /\ pc = "tools" =>
       /\ BatchInv(batch)
       /\ \E s \in Seq(Message) :
            Paired(s) /\ conversation = Append(s, Assistant(batch.calls))

LEMMA EmptyPaired == Paired(<< >>)
  BY DEF Paired

LEMMA PlainPaired ==
  ASSUME NEW t \in Seq(Message), Plain(t) PROVE Paired(t)
<1>1. << >> \o t = t /\ << >> \in Seq(Message)
  OBVIOUS
<1>. QED
  BY <1>1, EmptyPaired, PairedThenPlain

LEMMA NotesPlain ==
  \A note \in Notes \cup Warnings : note \in Seq(Message) /\ Plain(note)
<1>1. Plain(<< >>) /\ Plain(<<Note>>) /\ Plain(<<Warning>>)
  BY DEF Plain, Note, Warning
<1>. QED
  BY <1>1, MessagesTyped DEF Notes, Warnings

LEMMA EnterTurnPaired ==
  ASSUME TypeOK, NEW conv \in Seq(Message), Paired(conv), EnterTurn(conv)
  PROVE  Paired(conversation')
<1>1. PICK note \in Notes :
        conversation' = (conv \o Steers(pendingSteering)) \o note
  BY DEF EnterTurn
<1>2. Steers(pendingSteering) \in Seq(Message) /\ note \in Seq(Message)
  BY MessagesTyped DEF TypeOK
<1>3. Plain(Steers(pendingSteering))
  BY DEF Plain, Steers, Steer, TypeOK
<1>4. /\ conv \o Steers(pendingSteering) \in Seq(Message)
      /\ Paired(conv \o Steers(pendingSteering))
  BY <1>2, <1>3, PairedThenPlain
<1>5. Paired((conv \o Steers(pendingSteering)) \o note)
  BY <1>2, <1>4, NotesPlain, PairedThenPlain
<1>. QED
  BY <1>1, <1>5

LEMMA PairedInductive ==
  TypeOK /\ FirstTurn /\ PairedInv /\ [Next]_vars => PairedInv'
<1>. SUFFICES ASSUME TypeOK, FirstTurn, PairedInv, [Next]_vars PROVE PairedInv'
  OBVIOUS
<1>. USE DEF agentVars, loopVars, historyVars
<1>1. CASE \/ SteerAgent \/ CancelPending \/ InterruptTools \/ UserAbort
           \/ WorkSettles \/ StreamOverflows \/ UNCHANGED vars
  <2>1. /\ UNCHANGED <<messages, conversation, batch>>
        /\ pc' = pc \/ (pc = "stream" /\ pc' = "overflow")
    BY <1>1 DEF SteerAgent, CancelPending, InterruptTools, UserAbort,
       WorkSettles, StreamOverflows, vars
  <2>. QED
    BY <2>1 DEF PairedInv
<1>2. CASE PromptAgent
  BY <1>2 DEF PromptAgent, PairedInv
<1>3. CASE FinishRun
  <2>1. /\ pc' = "idle"
        /\ messages' = messages \/ messages' = conversation
        /\ pc = "closing"
    BY <1>3 DEF FinishRun
  <2>. QED
    BY <2>1 DEF PairedInv
<1>4. CASE StartManualCompaction
  BY <1>4 DEF StartManualCompaction, PairedInv
<1>5. CASE EndManualCompaction
  <2>1. Plain(<<Summary>>) /\ <<Summary>> \in Seq(Message)
    BY MessagesTyped DEF Plain, Summary
  <2>2. Paired(<<Summary>>)
    BY <2>1, PlainPaired
  <2>3. pc' = "idle" /\ (messages' = <<Summary>> \/ messages' = messages)
    BY <1>5 DEF EndManualCompaction
  <2>. QED
    BY <2>2, <2>3 DEF PairedInv
<1>6. CASE StreamFails
  <2>1. pc' = "closing" /\ UNCHANGED <<messages, conversation>>
        /\ pc \in {"stream", "restream"}
    BY <1>6 DEF StreamFails, Throw
  <2>. QED
    BY <2>1 DEF PairedInv
<1>7. CASE CompactBeforePrompt
  <2>1. ASSUME NEW conv \in Seq(Message), Paired(conv), StartFirstTurn(conv)
        PROVE  Paired(conversation') /\ pc' \in {"stream", "closing"}
    <3>1. CASE LeaveLoop(conv)
      BY <2>1, <3>1 DEF LeaveLoop
    <3>2. CASE EnterTurn(conv)
      <4>1. pc' = "stream"
        BY <3>2 DEF EnterTurn
      <4>. QED
        BY <2>1, <3>2, <4>1, EnterTurnPaired
    <3>. QED
      BY <2>1, <3>1, <3>2 DEF StartFirstTurn
  <2>2. Paired(conversation) /\ UNCHANGED messages
    BY <1>7 DEF CompactBeforePrompt, PairedInv
  <2>3. Prompt(run) \in Message /\ Summary \in Message
    BY MessagesTyped DEF TypeOK
  <2>4. Plain(<<Prompt(run)>>) /\ Plain(<<Summary, Prompt(run)>>)
    BY DEF Plain, Prompt, Summary
  <2>5. CASE StartFirstTurn(Append(conversation, Prompt(run)))
    <3>1. /\ Append(conversation, Prompt(run)) = conversation \o <<Prompt(run)>>
          /\ Append(conversation, Prompt(run)) \in Seq(Message)
          /\ <<Prompt(run)>> \in Seq(Message) /\ conversation \in Seq(Message)
      BY <2>3 DEF TypeOK
    <3>2. Paired(Append(conversation, Prompt(run)))
      BY <2>2, <2>4, <3>1, PairedThenPlain
    <3>. QED
      BY <2>1, <2>2, <2>5, <3>1, <3>2 DEF PairedInv
  <2>6. CASE StartFirstTurn(<<Summary, Prompt(run)>>)
    <3>1. <<Summary, Prompt(run)>> \in Seq(Message)
      BY <2>3
    <3>2. Paired(<<Summary, Prompt(run)>>)
      BY <2>4, <3>1, PlainPaired
    <3>. QED
      BY <2>1, <2>2, <2>6, <3>1, <3>2 DEF PairedInv
  <2>7. CASE Throw
    BY <2>2, <2>7 DEF Throw, PairedInv
  <2>. QED
    BY <1>7, <2>5, <2>6, <2>7 DEF CompactBeforePrompt
<1>8. CASE CompactBeforeTurn
  <2>1. Paired(conversation) /\ conversation \in Seq(Message) /\ UNCHANGED messages
    BY <1>8 DEF CompactBeforeTurn, PairedInv, TypeOK
  <2>2. <<Summary>> \in Seq(Message) /\ Plain(<<Summary>>)
    BY MessagesTyped DEF Plain, Summary
  <2>3. Paired(<<Summary>>)
    BY <2>2, PlainPaired
  <2>4. CASE EnterTurn(conversation) \/ EnterTurn(<<Summary>>)
    <3>1. Paired(conversation')
      BY <2>1, <2>2, <2>3, <2>4, EnterTurnPaired
    <3>2. pc' = "stream"
      BY <2>4 DEF EnterTurn
    <3>. QED
      BY <2>1, <3>1, <3>2 DEF PairedInv
  <2>5. CASE Throw
    BY <2>1, <2>5 DEF Throw, PairedInv
  <2>. QED
    BY <1>8, <2>4, <2>5 DEF CompactBeforeTurn
<1>9. CASE StreamDone
  <2>1. PICK calls \in 0..MaxCalls, mode \in Modes :
          /\ conversation' = Append(conversation, Assistant(calls))
          /\ batch' = BeginBatch(calls, mode, Aborted \/ toolInterruptRequested)
    BY <1>9 DEF StreamDone
  <2>2. (Aborted \/ toolInterruptRequested) \in BOOLEAN /\ calls \in Nat
    BY DEF Aborted
  <2>3. BatchInv(batch') /\ batch'.calls = calls
    BY <2>1, <2>2, BeginBatchInv, Zenon
  <2>4. /\ pc' = "tools" /\ UNCHANGED messages /\ pc \in {"stream", "restream"}
    BY <1>9 DEF StreamDone
  <2>5. Paired(conversation) /\ conversation \in Seq(Message)
    BY <2>4 DEF PairedInv, TypeOK
  <2>. QED
    BY <2>1, <2>3, <2>4, <2>5 DEF PairedInv
<1>10. CASE CompactAfterOverflow
  <2>1. CASE /\ conversation' = <<Summary>> \o PreservedTail
             /\ pc' = "restream"
    <3>1. PreservedTail \in Seq(Message) /\ Plain(PreservedTail)
      <4>1. CASE turnNumber # 1
        BY <4>1 DEF PreservedTail, Plain
      <4>2. CASE turnNumber = 1
        <5>1. /\ freshUserIndex \in 1..Len(conversation)
              /\ PlainFrom(conversation, freshUserIndex)
              /\ conversation \in Seq(Message)
          BY <1>10, <4>2 DEF FirstTurn, CompactAfterOverflow, TypeOK
        <5>2. PreservedTail = SubSeq(conversation, freshUserIndex, Len(conversation))
          BY <4>2 DEF PreservedTail
        <5>3. PreservedTail \in Seq(Message)
          BY <5>1, <5>2
        <5>4. /\ Len(PreservedTail) = Len(conversation) - freshUserIndex + 1
              /\ \A j \in 1..Len(PreservedTail) :
                   PreservedTail[j] = conversation[freshUserIndex + j - 1]
          BY <5>1, <5>2
        <5>5. ASSUME NEW j \in 1..Len(PreservedTail)
              PROVE  PreservedTail[j].role \in {"prompt", "steer", "note", "summary"}
          <6>1. /\ Len(conversation) \in Nat
                /\ freshUserIndex + j - 1 \in freshUserIndex..Len(conversation)
            BY <5>1, <5>4
          <6>2. PreservedTail[j] = conversation[freshUserIndex + j - 1]
            BY <5>4
          <6>. QED
            BY <5>1, <6>1, <6>2 DEF PlainFrom
        <5>. QED
          BY <5>3, <5>5 DEF Plain
      <4>. QED
        BY <4>1, <4>2
    <3>2. <<Summary>> \in Seq(Message) /\ Plain(<<Summary>>)
      BY MessagesTyped DEF Plain, Summary
    <3>3. Paired(<<Summary>> \o PreservedTail)
      BY <3>1, <3>2, PlainPaired, PairedThenPlain
    <3>4. UNCHANGED messages
      BY <1>10 DEF CompactAfterOverflow
    <3>. QED
      BY <2>1, <3>3, <3>4 DEF PairedInv
  <2>2. CASE Throw
    BY <1>10, <2>2 DEF CompactAfterOverflow, Throw, PairedInv
  <2>. QED
    BY <1>10, <2>1, <2>2 DEF CompactAfterOverflow
<1>11. CASE ToolSettles
  <2>1. PICK k \in 1..batch.calls, abort \in BOOLEAN, endTurn \in BOOLEAN :
          /\ InFlight(batch, k)
          /\ batch' = Settle(batch, k, endTurn, BatchSignal \/ abort)
    BY <1>11 DEF ToolSettles, CallSettles
  <2>2. (BatchSignal \/ abort) \in BOOLEAN
    BY Zenon DEF BatchSignal
  <2>3. batch \in Batches /\ BatchInv(batch)
    BY <1>11 DEF TypeOK, PairedInv, ToolSettles, CallSettles
  <2>4. BatchInv(batch') /\ batch'.calls = batch.calls
    BY <2>1, <2>2, <2>3, SettleInv, Zenon
  <2>5. pc = "tools" /\ UNCHANGED <<pc, conversation, messages>>
    BY <1>11 DEF ToolSettles, CallSettles
  <2>. QED
    BY <2>4, <2>5 DEF PairedInv
<1>12. CASE EndToolBatch
  <2>1. PICK warning \in Warnings :
          conversation' = (conversation \o Results(batch.executions)) \o warning
    BY <1>12 DEF EndToolBatch, LeaveLoop
  <2>2. /\ pc = "tools" /\ batch.state = "over" /\ UNCHANGED messages
        /\ pc' \in {"closing", "compact"}
    BY <1>12 DEF EndToolBatch, LeaveLoop
  <2>3. PICK s \in Seq(Message) :
          Paired(s) /\ conversation = Append(s, Assistant(batch.calls))
    BY <2>2 DEF PairedInv
  <2>4. /\ batch.executions \in Seq(Nat) /\ batch.calls \in Nat
        /\ Len(batch.executions) = batch.calls
        /\ \A j \in 1..batch.calls : batch.executions[j] = j
    BY <2>2 DEF PairedInv, BatchInv, InCallOrder, TypeOK, Batches
  <2>5. /\ Paired(conversation \o Results(batch.executions))
        /\ conversation \o Results(batch.executions) \in Seq(Message)
    <3>1. Paired(Append(s, Assistant(batch.calls)) \o Results(batch.executions))
      BY <2>3, <2>4, PairedThenBatch
    <3>2. Results(batch.executions) \in Seq(Message)
      BY <2>4, MessagesTyped
    <3>3. conversation \in Seq(Message)
      BY DEF TypeOK
    <3>. QED
      BY <2>3, <3>1, <3>2, <3>3
  <2>6. Paired(conversation')
    BY <2>1, <2>5, NotesPlain, PairedThenPlain
  <2>. QED
    BY <2>2, <2>6 DEF PairedInv
<1>. QED
  BY <1>1, <1>2, <1>3, <1>4, <1>5, <1>6, <1>7, <1>8, <1>9, <1>10, <1>11, <1>12
     DEF Next, LoopStep, Environment

\* Whatever is aborted, interrupted, compacted or retried, every conversation
\* sent to a provider and every committed history pairs its tool calls with
\* their results (loop.ts:203-206).
THEOREM PairingCorrect == Spec => []ToolUsePaired
<1>1. Init => PairedInv
  BY EmptyPaired DEF Init, PairedInv
<1>2. PairedInv => ToolUsePaired
  BY DEF PairedInv, ToolUsePaired
<1>. QED
  BY <1>1, <1>2, PairedInductive, TypedInitially, TypeInductive,
     FirstTurnInductive, PTL DEF Spec

-----------------------------------------------------------------------------
(* Interrupts, left-over work and dropped steering.                        *)

LEMMA InterruptInductive ==
  TypeOK /\ InterruptStaysInItsTurn /\ [Next]_vars => InterruptStaysInItsTurn'
<1>. SUFFICES ASSUME TypeOK, InterruptStaysInItsTurn, [Next]_vars
     PROVE  InterruptStaysInItsTurn'
  OBVIOUS
<1>. USE DEF agentVars, loopVars, historyVars, InterruptStaysInItsTurn
<1>1. CASE \/ SteerAgent \/ CancelPending \/ UserAbort \/ WorkSettles
           \/ PromptAgent \/ StreamOverflows \/ ToolSettles
           \/ StartManualCompaction \/ EndManualCompaction \/ UNCHANGED vars
  <2>1. /\ UNCHANGED <<toolInterruptRequested, interrupted, batchAborted>>
        /\ pc' = "tools" => pc = "tools"
    BY <1>1 DEF SteerAgent, CancelPending, UserAbort, WorkSettles, PromptAgent,
       StreamOverflows, ToolSettles, CallSettles, StartManualCompaction, EndManualCompaction,
       vars
  <2>. QED
    BY <2>1
<1>2. CASE InterruptTools
  BY <1>2 DEF InterruptTools
<1>3. ASSUME NEW conv, EnterTurn(conv) PROVE InterruptStaysInItsTurn'
  BY <1>3 DEF EnterTurn, InterruptAfterDrain
<1>4. ASSUME pc' = "closing", UNCHANGED <<toolInterruptRequested, interrupted>>
      PROVE  InterruptStaysInItsTurn'
  BY <1>4
<1>5. CASE CompactBeforePrompt
  <2>1. ASSUME NEW conv, StartFirstTurn(conv) PROVE InterruptStaysInItsTurn'
    <3>1. \/ EnterTurn(conv)
          \/ LeaveLoop(conv) /\ UNCHANGED <<toolInterruptRequested, interrupted>>
      BY <2>1 DEF StartFirstTurn
    <3>. QED
      BY <1>3, <1>4, <3>1 DEF LeaveLoop
  <2>2. CASE Throw /\ UNCHANGED <<toolInterruptRequested, interrupted>>
    BY <1>4, <2>2 DEF Throw
  <2>. QED
    BY <1>5, <2>1, <2>2 DEF CompactBeforePrompt
<1>6. CASE CompactBeforeTurn
  <2>1. \/ EnterTurn(conversation) \/ EnterTurn(<<Summary>>)
        \/ Throw /\ UNCHANGED <<toolInterruptRequested, interrupted>>
    BY <1>6 DEF CompactBeforeTurn
  <2>. QED
    BY <1>3, <1>4, <2>1 DEF Throw
<1>7. CASE StreamDone
  BY <1>7 DEF StreamDone
<1>8. CASE StreamFails \/ CompactAfterOverflow \/ EndToolBatch
  <2>1. /\ UNCHANGED <<toolInterruptRequested, interrupted>>
        /\ pc' # "tools"
    BY <1>8 DEF StreamFails, CompactAfterOverflow, EndToolBatch, Throw, LeaveLoop
  <2>. QED
    BY <2>1
<1>9. CASE FinishRun
  BY <1>9 DEF FinishRun
<1>. QED
  BY <1>1, <1>2, <1>5, <1>6, <1>7, <1>8, <1>9 DEF Next, LoopStep, Environment

\* An interrupt is spent on the turn it was made for: it neither skips the
\* batch of a later turn, once its steering was read, nor one of a later run.
THEOREM InterruptCorrect == Spec => []InterruptStaysInItsTurn
<1>1. Init => InterruptStaysInItsTurn
  BY DEF Init, InterruptStaysInItsTurn
<1>. QED
  BY <1>1, InterruptInductive, TypedInitially, TypeInductive,
     FirstTurnInductive, PTL DEF Spec

LEMMA WorkInductive ==
  TypeOK /\ NoWorkOutlivesTheRun /\ [Next]_vars => NoWorkOutlivesTheRun'
<1>. SUFFICES ASSUME TypeOK, NoWorkOutlivesTheRun, [Next]_vars
     PROVE  NoWorkOutlivesTheRun'
  OBVIOUS
<1>. USE DEF agentVars, loopVars, historyVars, NoWorkOutlivesTheRun, Running
<1>1. CASE \/ SteerAgent \/ CancelPending \/ UserAbort \/ InterruptTools
           \/ UNCHANGED vars
  BY <1>1 DEF SteerAgent, CancelPending, UserAbort, InterruptTools, vars
<1>2. CASE WorkSettles
  BY <1>2 DEF WorkSettles
<1>3. CASE FinishRun
  BY <1>3 DEF FinishRun, RunClosed
<1>4. CASE StartManualCompaction \/ EndManualCompaction
  BY <1>4 DEF StartManualCompaction, EndManualCompaction
<1>5. CASE \/ PromptAgent \/ CompactBeforePrompt \/ CompactBeforeTurn
           \/ StreamDone \/ StreamFails \/ StreamOverflows
           \/ CompactAfterOverflow \/ ToolSettles \/ EndToolBatch
  <2>1. pc' \notin {"idle", "manual"}
    BY <1>5 DEF PromptAgent, CompactBeforePrompt, CompactBeforeTurn,
       StartFirstTurn, EnterTurn, LeaveLoop, Throw, StreamDone, StreamFails,
       StreamOverflows, CompactAfterOverflow, ToolSettles, CallSettles, EndToolBatch
  <2>. QED
    BY <2>1
<1>. QED
  BY <1>1, <1>2, <1>3, <1>4, <1>5 DEF Next, LoopStep, Environment

\* No tool's left-over work runs while the agent is idle (loop.ts:250-251).
THEOREM WorkCorrect == Spec => []NoWorkOutlivesTheRun
<1>1. Init => NoWorkOutlivesTheRun
  BY DEF Init, NoWorkOutlivesTheRun
<1>. QED
  BY <1>1, WorkInductive, TypedInitially, TypeInductive, FirstTurnInductive,
     PTL DEF Spec

\* The inductive form of OnlyLateSteeringIsLost: what is queued in a run that
\* closes without an error or an abort came late.
LateInv ==
  /\ lost \subseteq late
  /\ pc = "closing" /\ stopReason = "completed" /\ ~Aborted =>
       \A j \in 1..Len(pendingSteering) : pendingSteering[j] \in late

LEMMA LateInductive == TypeOK /\ LateInv /\ [Next]_vars => LateInv'
<1>. SUFFICES ASSUME TypeOK, LateInv, [Next]_vars PROVE LateInv'
  OBVIOUS
<1>. USE DEF agentVars, loopVars, historyVars
<1>1. CASE SteerAgent
  <2>1. /\ lost' = lost /\ late \subseteq late'
        /\ pendingSteering' = Append(pendingSteering, nextSteeringId')
        /\ pc = "closing" => nextSteeringId' \in late'
        /\ UNCHANGED <<pc, stopReason, userAborted, toolAborted>>
    BY <1>1 DEF SteerAgent, Enqueued
  <2>2. pendingSteering \in Seq(Nat)
    BY DEF TypeOK
  <2>3. ASSUME pc = "closing", stopReason = "completed", ~Aborted,
               NEW j \in 1..Len(pendingSteering')
        PROVE  pendingSteering'[j] \in late'
    <3>1. CASE j \in 1..Len(pendingSteering)
      BY <2>1, <2>2, <2>3, <3>1 DEF LateInv
    <3>2. CASE j = Len(pendingSteering) + 1
      BY <2>1, <2>2, <2>3, <3>2
    <3>. QED
      BY <2>1, <2>2, <3>1, <3>2
  <2>. QED
    BY <2>1, <2>3 DEF LateInv, Aborted
<1>2. CASE CancelPending
  <2>1. PICK k \in 1..Len(pendingSteering) :
          pendingSteering' = SubSeq(pendingSteering, 1, k - 1)
                     \o SubSeq(pendingSteering, k + 1, Len(pendingSteering))
    BY <1>2 DEF CancelPending
  <2>. DEFINE a == SubSeq(pendingSteering, 1, k - 1)
              b == SubSeq(pendingSteering, k + 1, Len(pendingSteering))
  <2>2. pendingSteering \in Seq(Nat) /\ Len(pendingSteering) \in Nat
    BY DEF TypeOK
  <2>3. /\ a \in Seq(Nat) /\ Len(a) = k - 1
        /\ \A j \in 1..Len(a) : a[j] = pendingSteering[j]
    BY <2>2
  <2>4. /\ b \in Seq(Nat) /\ Len(b) = Len(pendingSteering) - k
        /\ \A j \in 1..Len(b) : b[j] = pendingSteering[k + j]
    BY <2>2
  <2>5. ASSUME NEW j \in 1..Len(pendingSteering')
        PROVE  \E i \in 1..Len(pendingSteering) :
                 pendingSteering'[j] = pendingSteering[i]
    <3>. HIDE DEF a, b
    <3>0. pendingSteering' = a \o b
      BY <2>1 DEF a, b
    <3>1. CASE j <= Len(a)
      <4>1. pendingSteering'[j] = a[j] /\ j \in 1..Len(a) /\ j \in 1..Len(pendingSteering)
        BY <2>2, <2>3, <2>4, <3>0, <3>1
      <4>. QED
        BY <2>3, <4>1
    <3>2. CASE ~(j <= Len(a))
      <4>0. Len(pendingSteering') = Len(a) + Len(b)
        <5>1. a \in Seq(Nat) /\ b \in Seq(Nat)
          BY <2>3, <2>4
        <5>. QED
          BY <3>0, <5>1
      <4>1. /\ j - Len(a) \in 1..Len(b)
            /\ k + (j - Len(a)) \in 1..Len(pendingSteering)
        <5>1. Len(a) = k - 1 /\ Len(b) = Len(pendingSteering) - k
          BY <2>3, <2>4
        <5>. QED
          BY <2>2, <3>2, <4>0, <5>1
      <4>2. pendingSteering'[j] = b[j - Len(a)]
        BY <2>3, <2>4, <3>0, <3>2
      <4>. QED
        BY <2>4, <4>1, <4>2
    <3>. QED
      BY <3>1, <3>2
  <2>6. UNCHANGED <<pc, stopReason, userAborted, toolAborted, late, lost>>
    BY <1>2 DEF CancelPending
  <2>. QED
    BY <2>5, <2>6 DEF LateInv, Aborted
<1>3. CASE FinishRun
  <2>1. pc' = "idle" /\ late' = late /\ pc = "closing"
    BY <1>3 DEF FinishRun
  <2>2. lost' \subseteq late
    <3>1. CASE stopReason' = "completed"
      <4>1. stopReason = "completed" /\ ~Aborted
        BY <1>3, <3>1 DEF FinishRun
      <4>. QED
        BY <1>3, <2>1, <3>1, <4>1 DEF FinishRun, LateInv
    <3>2. CASE stopReason' # "completed"
      BY <1>3, <3>2 DEF FinishRun, LateInv
    <3>. QED
      BY <3>1, <3>2
  <2>. QED
    BY <2>1, <2>2 DEF LateInv
<1>4. CASE UserAbort \/ WorkSettles \/ ToolSettles
  <2>1. UNCHANGED <<pc, stopReason, late, lost, pendingSteering>>
    BY <1>4 DEF UserAbort, WorkSettles, ToolSettles, CallSettles
  <2>2. Aborted => Aborted'
    <3>1. CASE UserAbort
      BY <3>1, Zenon DEF UserAbort, Aborted
    <3>2. CASE WorkSettles
      BY <3>2, Zenon DEF WorkSettles, Aborted
    <3>3. CASE ToolSettles
      <4>1. PICK k \in 1..batch.calls : CallSettles(k)
        BY <3>3 DEF ToolSettles
      <4>. QED
        BY <4>1 DEF CallSettles, Aborted
    <3>. QED
      BY <1>4, <3>1, <3>2, <3>3
  <2>. QED
    BY <2>1, <2>2 DEF LateInv
<1>5. CASE EndToolBatch
  <2>1. /\ UNCHANGED <<stopReason, late, lost, pendingSteering>> /\ Aborted' = Aborted
        /\ pc' = "closing" => Aborted \/ pendingSteering = << >>
    BY <1>5 DEF EndToolBatch, LeaveLoop, LoopEnds, Aborted
  <2>. QED
    BY <2>1 DEF LateInv
<1>6. CASE CompactBeforePrompt
  <2>1. lost' = lost /\ late' = late /\ Aborted' = Aborted
    BY <1>6 DEF CompactBeforePrompt, Aborted
  <2>2. pc' = "closing" => Aborted \/ stopReason' # "completed"
    <3>1. ASSUME NEW conv, StartFirstTurn(conv)
          PROVE  pc' = "closing" => Aborted
      BY <3>1 DEF StartFirstTurn, EnterTurn
    <3>. QED
      BY <1>6, <3>1 DEF CompactBeforePrompt
  <2>. QED
    BY <2>1, <2>2 DEF LateInv
<1>7. CASE CompactBeforeTurn \/ StreamFails \/ CompactAfterOverflow
  <2>1. /\ lost' = lost /\ late' = late
        /\ pc' = "closing" => stopReason' # "completed"
    BY <1>7 DEF CompactBeforeTurn, StreamFails, CompactAfterOverflow, Throw,
       EnterTurn
  <2>. QED
    BY <2>1 DEF LateInv
<1>8. CASE \/ PromptAgent \/ StreamDone \/ StreamOverflows
           \/ StartManualCompaction \/ EndManualCompaction
  <2>1. lost' = lost /\ late' = late /\ pc' # "closing"
    BY <1>8 DEF PromptAgent, StreamDone, StreamOverflows,
       StartManualCompaction, EndManualCompaction
  <2>. QED
    BY <2>1 DEF LateInv
<1>9. CASE InterruptTools \/ UNCHANGED vars
  <2>1. UNCHANGED <<pc, stopReason, late, lost, pendingSteering, userAborted,
                    toolAborted>>
    BY <1>9 DEF InterruptTools, vars
  <2>. QED
    BY <2>1 DEF LateInv, Aborted
<1>. QED
  BY <1>1, <1>2, <1>3, <1>4, <1>5, <1>6, <1>7, <1>8, <1>9
     DEF Next, LoopStep, Environment

\* A run that completed dropped no steering but what came while it was closing.
THEOREM LateCorrect == Spec => []OnlyLateSteeringIsLost
<1>1. Init => LateInv
  BY DEF Init, LateInv
<1>2. LateInv => OnlyLateSteeringIsLost
  BY DEF LateInv, OnlyLateSteeringIsLost
<1>. QED
  BY <1>1, <1>2, LateInductive, TypedInitially, TypeInductive,
     FirstTurnInductive, PTL DEF Spec

-----------------------------------------------------------------------------
(* The queue of steering messages implements SteeringInbox.                *)

LEMMA InboxStep == TypeOK /\ [Next]_vars => [Inbox!Next]_(Inbox!vars)
<1>. SUFFICES ASSUME TypeOK, [Next]_vars PROVE [Inbox!Next]_(Inbox!vars)
  OBVIOUS
<1>. USE DEF agentVars, loopVars, historyVars
<1>1. CASE SteerAgent
  BY <1>1 DEF SteerAgent, Enqueued, Inbox!Next, Inbox!Accept
<1>2. CASE CancelPending
  BY <1>2 DEF CancelPending, Inbox!Next, Inbox!Withdraw
<1>3. ASSUME NEW conv, EnterTurn(conv), UNCHANGED nextSteeringId
      PROVE  Inbox!Next
  BY <1>3 DEF EnterTurn, Inbox!Next, Inbox!Read
<1>4. CASE CompactBeforePrompt
  <2>1. CASE UNCHANGED <<pendingSteering, delivered, nextSteeringId>>
    BY <2>1 DEF Inbox!vars
  <2>2. UNCHANGED nextSteeringId
    BY <1>4 DEF CompactBeforePrompt
  <2>3. ASSUME NEW conv, StartFirstTurn(conv) PROVE [Inbox!Next]_(Inbox!vars)
    BY <1>3, <2>1, <2>2, <2>3 DEF StartFirstTurn
  <2>. QED
    BY <1>4, <2>1, <2>2, <2>3 DEF CompactBeforePrompt
<1>5. CASE CompactBeforeTurn
  <2>1. UNCHANGED nextSteeringId
    BY <1>5 DEF CompactBeforeTurn
  <2>2. \/ EnterTurn(conversation) \/ EnterTurn(<<Summary>>)
        \/ UNCHANGED <<pendingSteering, delivered>>
    BY <1>5 DEF CompactBeforeTurn
  <2>. QED
    BY <1>3, <2>1, <2>2 DEF Inbox!vars
<1>6. CASE FinishRun
  BY <1>6 DEF FinishRun, Inbox!Next, Inbox!Discard
<1>7. CASE \/ InterruptTools \/ UserAbort \/ WorkSettles \/ PromptAgent
           \/ StreamDone \/ StreamFails \/ StreamOverflows
           \/ CompactAfterOverflow \/ ToolSettles \/ EndToolBatch
           \/ StartManualCompaction \/ EndManualCompaction \/ UNCHANGED vars
  <2>1. UNCHANGED <<pendingSteering, delivered, nextSteeringId>>
    BY <1>7 DEF InterruptTools, UserAbort, WorkSettles, PromptAgent, StreamDone,
       StreamFails, StreamOverflows, CompactAfterOverflow, ToolSettles, CallSettles,
       EndToolBatch, StartManualCompaction, EndManualCompaction, vars
  <2>. QED
    BY <2>1 DEF Inbox!vars
<1>. QED
  BY <1>1, <1>2, <1>4, <1>5, <1>6, <1>7 DEF Next, LoopStep, Environment

\* The agent's queue keeps the promises of SteeringInbox: the model reads it
\* whole and in order, and what left it never comes back.
THEOREM InboxRefinement == Spec => InboxSpec
<1>1. Init => Inbox!Init
  BY DEF Init, Inbox!Init
<1>. QED
  BY <1>1, InboxStep, TypedInitially, TypeInductive, FirstTurnInductive, PTL
     DEF Spec, InboxSpec, Inbox!Spec

-----------------------------------------------------------------------------
(* An inbox is first in, first out, and delivers no message twice.          *)

\* The types of the queue, and that it is in the order of the ids.
InboxTyped ==
  /\ pendingSteering \in Seq(Nat) /\ delivered \in Seq(Nat)
  /\ nextSteeringId \in Nat

InboxInv == InboxTyped /\ Inbox!InOrder

Without(t, k) == SubSeq(t, 1, k - 1) \o SubSeq(t, k + 1, Len(t))

\* What the sequence without its k-th element is.
LEMMA WithoutElements ==
  ASSUME NEW t \in Seq(Nat), NEW k \in 1..Len(t)
  PROVE  /\ Without(t, k) \in Seq(Nat)
         /\ Len(Without(t, k)) = Len(t) - 1
         /\ \A j \in 1..(Len(t) - 1) :
              Without(t, k)[j] = t[IF j < k THEN j ELSE j + 1]
<1>. DEFINE a == SubSeq(t, 1, k - 1)
            b == SubSeq(t, k + 1, Len(t))
<1>1. Len(t) \in Nat /\ k \in Nat /\ k <= Len(t) /\ 1 <= k
  OBVIOUS
<1>2. /\ a \in Seq(Nat) /\ Len(a) = k - 1
      /\ \A j \in 1..(k - 1) : a[j] = t[j]
  BY <1>1
<1>3. /\ b \in Seq(Nat) /\ Len(b) = Len(t) - k
      /\ \A j \in 1..(Len(t) - k) : b[j] = t[k + j]
  BY <1>1
<1>. HIDE DEF a, b
<1>4. /\ a \o b \in Seq(Nat) /\ Len(a \o b) = Len(a) + Len(b)
      /\ \A i \in 1..Len(a) + Len(b) :
           (a \o b)[i] = IF i <= Len(a) THEN a[i] ELSE b[i - Len(a)]
  BY <1>2, <1>3, ConcatProperties
<1>5. ASSUME NEW j \in 1..(Len(t) - 1)
      PROVE  (a \o b)[j] = t[IF j < k THEN j ELSE j + 1]
  <2>1. j \in 1..Len(a) + Len(b)
    BY <1>1, <1>2, <1>3
  <2>2. CASE j < k
    <3>1. j \in 1..(k - 1) /\ j <= Len(a)
      BY <1>1, <1>2, <2>2
    <3>. QED
      BY <1>2, <1>4, <2>1, <2>2, <3>1
  <2>3. CASE ~(j < k)
    <3>1. /\ j - Len(a) \in 1..(Len(t) - k) /\ ~(j <= Len(a))
          /\ k + (j - Len(a)) = j + 1
      BY <1>1, <1>2, <2>3
    <3>2. (a \o b)[j] = b[j - Len(a)]
      BY <1>4, <2>1, <3>1
    <3>. QED
      BY <1>3, <2>3, <3>1, <3>2
  <2>. QED
    BY <2>2, <2>3
<1>6. Without(t, k) = a \o b
  BY DEF Without, a, b
<1>7. Len(a) + Len(b) = Len(t) - 1
  BY <1>1, <1>2, <1>3
<1>. QED
  BY <1>4, <1>5, <1>6, <1>7

\* Removing one element keeps a sequence increasing and within bounds.
LEMMA WithdrawInOrder ==
  ASSUME NEW s \in Seq(Nat), NEW t \in Seq(Nat), NEW k \in 1..Len(t), NEW n \in Nat,
         Inbox!Increasing(s \o t), \A i \in 1..Len(s \o t) : (s \o t)[i] \in 1..n
  PROVE  LET u == Without(t, k)
         IN  /\ u \in Seq(Nat) /\ Inbox!Increasing(s \o u)
             /\ \A i \in 1..Len(s \o u) : (s \o u)[i] \in 1..n
<1>. DEFINE u == Without(t, k)
            old(i) == IF i < Len(s) + k THEN i ELSE i + 1
<1>1. /\ u \in Seq(Nat) /\ Len(u) = Len(t) - 1
      /\ \A j \in 1..(Len(t) - 1) : u[j] = t[IF j < k THEN j ELSE j + 1]
  BY WithoutElements
<1>. HIDE DEF u
<1>2. Len(s) \in Nat /\ Len(t) \in Nat /\ k \in Nat /\ 1 <= k /\ k <= Len(t)
  OBVIOUS
<1>3. /\ Len(s \o u) = Len(s) + (Len(t) - 1)
      /\ \A i \in 1..Len(s) + (Len(t) - 1) :
           (s \o u)[i] = IF i <= Len(s) THEN s[i] ELSE u[i - Len(s)]
  <2>1. /\ Len(s \o u) = Len(s) + Len(u)
        /\ \A i \in 1..Len(s) + Len(u) :
             (s \o u)[i] = IF i <= Len(s) THEN s[i] ELSE u[i - Len(s)]
    BY <1>1, ConcatProperties, Zenon
  <2>2. Len(u) = Len(t) - 1
    BY <1>1
  <2>. QED
    BY <2>1, <2>2, Zenon
<1>4. /\ Len(s \o t) = Len(s) + Len(t)
      /\ \A i \in 1..Len(s) + Len(t) :
           (s \o t)[i] = IF i <= Len(s) THEN s[i] ELSE t[i - Len(s)]
  BY ConcatProperties
<1>5. ASSUME NEW i \in 1..Len(s \o u)
      PROVE  (s \o u)[i] = (s \o t)[old(i)] /\ old(i) \in 1..Len(s \o t)
  <2>1. i \in 1..Len(s) + (Len(t) - 1)
    BY <1>3
  <2>2. old(i) \in 1..Len(s) + Len(t)
    BY <1>2, <2>1
  <2>3. CASE i <= Len(s)
    <3>1. old(i) = i
      BY <1>2, <2>1, <2>3
    <3>. QED
      BY <1>3, <1>4, <2>1, <2>2, <2>3, <3>1
  <2>4. CASE ~(i <= Len(s))
    <3>. DEFINE j == i - Len(s)
    <3>1. /\ j \in 1..(Len(t) - 1) /\ ~(old(i) <= Len(s))
          /\ old(i) - Len(s) = IF j < k THEN j ELSE j + 1
      BY <1>2, <2>1, <2>4
    <3>2. (s \o u)[i] = t[IF j < k THEN j ELSE j + 1]
      BY <1>1, <1>3, <2>1, <2>4, <3>1
    <3>3. (s \o t)[old(i)] = t[old(i) - Len(s)]
      BY <1>4, <2>2, <3>1
    <3>. QED
      BY <1>4, <2>2, <3>1, <3>2, <3>3
  <2>. QED
    BY <2>3, <2>4
<1>6. ASSUME NEW i \in 1..Len(s \o u), NEW j \in 1..Len(s \o u), i < j
      PROVE  old(i) < old(j)
  <2>1. i \in Nat /\ j \in Nat
    BY <1>2, <1>3
  <2>. QED
    BY <1>2, <1>6, <2>1
<1>. HIDE DEF old
<1>7. Inbox!Increasing(s \o u)
  BY <1>5, <1>6 DEF Inbox!Increasing
<1>. QED
  BY <1>1, <1>5, <1>7 DEF u

LEMMA InboxInductive == InboxInv /\ [Inbox!Next]_(Inbox!vars) => InboxInv'
<1>. SUFFICES ASSUME InboxInv, [Inbox!Next]_(Inbox!vars) PROVE InboxInv'
  OBVIOUS
<1>. DEFINE s == delivered \o pendingSteering
<1>0. /\ pendingSteering \in Seq(Nat) /\ delivered \in Seq(Nat) /\ nextSteeringId \in Nat
      /\ s \in Seq(Nat) /\ Inbox!Increasing(s) /\ \A i \in 1..Len(s) : s[i] \in 1..nextSteeringId
  BY DEF InboxInv, InboxTyped, Inbox!InOrder
<1>1. CASE Inbox!Accept
  <2>1. /\ nextSteeringId' = nextSteeringId + 1 /\ delivered' = delivered
        /\ pendingSteering' = Append(pendingSteering, nextSteeringId') /\ nextSteeringId' \in Nat
    BY <1>0, <1>1 DEF Inbox!Accept
  <2>2. pendingSteering' \in Seq(Nat) /\ delivered' \o pendingSteering' = Append(s, nextSteeringId')
    BY <1>0, <2>1
  <2>. DEFINE r == Append(s, nextSteeringId')
  <2>3. /\ Len(r) = Len(s) + 1 /\ r[Len(s) + 1] = nextSteeringId + 1
        /\ \A i \in 1..Len(s) : r[i] = s[i]
        /\ Len(s) \in Nat
    BY <1>0, <2>1
  <2>. HIDE DEF r, s
  <2>4. ASSUME NEW i \in 1..Len(r) PROVE r[i] \in 1..nextSteeringId'
    <3>1. CASE i \in 1..Len(s)
      <4>1. r[i] = s[i] /\ s[i] \in 1..nextSteeringId
        BY <1>0, <2>3, <3>1
      <4>. QED
        BY <1>0, <2>1, <4>1
    <3>2. CASE i = Len(s) + 1
      BY <1>0, <2>1, <2>3, <3>2
    <3>. QED
      BY <2>3, <3>1, <3>2
  <2>5. ASSUME NEW i \in 1..Len(r), NEW j \in 1..Len(r), i < j
        PROVE  r[i] < r[j]
    <3>1. i \in 1..Len(s)
      BY <2>3, <2>5
    <3>2. CASE j \in 1..Len(s)
      BY <1>0, <2>3, <2>5, <3>1, <3>2 DEF Inbox!Increasing
    <3>3. CASE j = Len(s) + 1
      <4>1. s[i] \in 1..nextSteeringId
        BY <1>0, <3>1
      <4>. QED
        BY <1>0, <2>3, <3>1, <3>3, <4>1
    <3>. QED
      BY <2>3, <3>2, <3>3
  <2>6. Inbox!Increasing(r)
    BY <2>5 DEF Inbox!Increasing
  <2>. QED
    BY <1>0, <2>1, <2>2, <2>4, <2>6 DEF InboxInv, InboxTyped, Inbox!InOrder, r
<1>2. CASE Inbox!Withdraw
  BY <1>0, <1>2, WithdrawInOrder DEF Inbox!Withdraw, Without, InboxInv, InboxTyped, Inbox!InOrder
<1>3. CASE Inbox!Read
  <2>1. delivered' = s /\ pendingSteering' = << >> /\ nextSteeringId' = nextSteeringId
    BY <1>3 DEF Inbox!Read
  <2>. HIDE DEF s
  <2>2. delivered' \o pendingSteering' = s
    BY <1>0, <2>1
  <2>. QED
    BY <1>0, <2>1, <2>2 DEF InboxInv, InboxTyped, Inbox!InOrder
<1>4. CASE Inbox!Discard
  <2>1. pendingSteering' = << >> /\ UNCHANGED <<delivered, nextSteeringId>>
    BY <1>4 DEF Inbox!Discard
  <2>2. delivered' \o pendingSteering' = delivered
    BY <1>0, <2>1
  <2>3. /\ Len(delivered) <= Len(s) /\ Len(delivered) \in Nat /\ Len(s) \in Nat
        /\ \A i \in 1..Len(delivered) : delivered[i] = s[i]
    BY <1>0
  <2>. HIDE DEF s
  <2>4. \A i \in 1..Len(delivered) : i \in 1..Len(s)
    BY <2>3
  <2>5. \A i \in 1..Len(delivered) : delivered[i] \in 1..nextSteeringId
    BY <1>0, <2>3, <2>4
  <2>6. Inbox!Increasing(delivered)
    BY <1>0, <2>3, <2>4 DEF Inbox!Increasing
  <2>. QED
    BY <1>0, <2>1, <2>2, <2>5, <2>6 DEF InboxInv, InboxTyped, Inbox!InOrder
<1>5. CASE UNCHANGED Inbox!vars
  BY <1>5 DEF Inbox!vars, InboxInv, InboxTyped, Inbox!InOrder
<1>. QED
  BY <1>1, <1>2, <1>3, <1>4, <1>5 DEF Inbox!Next

\* The promise of an inbox: what was read, followed by what is queued, is in the
\* order of the ids and repeats none of them.
THEOREM FirstInFirstOut == InboxSpec => []Inbox!InOrder
<1>1. Inbox!Init => InboxInv
  BY DEF Inbox!Init, InboxInv, InboxTyped, Inbox!InOrder, Inbox!Increasing
<1>2. InboxInv => Inbox!InOrder
  BY DEF InboxInv
<1>. QED
  BY <1>1, <1>2, InboxInductive, PTL DEF InboxSpec, Inbox!Spec

\* So the agent keeps it: whatever is withdrawn, interrupted, aborted or late, no
\* steering message reaches the model twice or before one that was sent earlier.
THEOREM SteeringIsInOrder == Spec => []Inbox!InOrder
BY InboxRefinement, FirstInFirstOut, PTL
====
