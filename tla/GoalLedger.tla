----------------------------- MODULE GoalLedger -----------------------------
(***************************************************************************)
(* The goal of a thread between memory and disk.  GoalController           *)
(* (goals/controller.ts) changes the goal at once and queues a record;     *)
(* GoalStore (goals/store.ts) appends the records one by one to a ledger   *)
(* and applies them to a copy of its own; the next process replays the     *)
(* ledger.  Appends fail, wholly or in the middle of a line, and the       *)
(* process dies at any moment.                                             *)
(*                                                                         *)
(* Epochs, runs and budgets are in GoalThread.  Here a goal is active,     *)
(* stopped (paused, blocked or limited) or complete, every sample costs    *)
(* one token, and whether it exhausts the budget is left open.             *)
(***************************************************************************)
EXTENDS Naturals, Sequences, SequencesExt

CONSTANTS Goals,        \* identifiers of goals
          Samples,      \* usage reports, by their key
          Readers,      \* requests that read the goal (goal/get, thread/read)
          NoGoal, Unreadable,
          MaxRevision,  \* bound: revisions of the goal
          MaxFaults     \* bound: failed appends and crashes

Statuses == {"active", "stopped", "complete"}
Goal == [id : Goals, status : Statuses, revision : Nat, tokens : Nat]

ASSUME LedgerConstants ==
  /\ MaxRevision \in Nat /\ MaxFaults \in Nat /\ NoGoal \notin Goal
  /\ IsFiniteSet(Readers)

VARIABLES
  goal, revision, counted, failure, clearing,   \* GoalController
  stored, queue,                                \* GoalStore: its copy, its appends
  lines, torn,                                  \* the ledger, and a line begun in it
  phase,      \* the controller: "closed", "opening", "open" or "unusable"
  caller,     \* what change() of a clear, and of another request, awaits
  reading,    \* the writes each snapshot() awaits
  spending,   \* goals whose runs this process has seen
  minted, faults,
  acknowledged,  \* the newest revision a request was told is saved
  lateFailure    \* an append failed with a recovery queued behind it

memory == <<goal, revision, counted, failure, clearing>>
ledgerVars == <<memory, stored, queue, lines, torn, phase, caller, reading,
                spending, minted, faults, acknowledged, lateFailure>>

Requests == {"clear", "change"}
NoCall == [stage |-> "none", left |-> 0, revision |-> 0]

-----------------------------------------------------------------------------
\* The ledger.

Blank == [goal |-> NoGoal, sequence |-> 0, revision |-> 0, keys |-> {}]

Charged(g, id) ==
  IF g # NoGoal /\ g.id = id THEN [g EXCEPT !.tokens = @ + 1] ELSE g

\* The store refuses a snapshot older than its own copy; none ever comes to it.
Obsolete(s, entry) == entry.type = "snapshot" /\ entry.revision < s.revision

Apply(s, line) ==
  LET entry == line.entry
      n == [s EXCEPT !.sequence = line.sequence]
  IN CASE entry.type = "snapshot" -> [n EXCEPT !.goal = entry.goal, !.revision = entry.revision]
       [] entry.type = "usage" /\ entry.sample \in s.keys -> n
       [] OTHER -> [n EXCEPT !.keys = @ \cup {entry.sample}, !.goal = Charged(@, entry.id)]

\* The ledger can be opened; what that yields.
Readable ==
  \A i \in DOMAIN lines : lines[i] # Unreadable /\ lines[i].sequence = i
Replayed == FoldLeft(Apply, Blank, lines)

-----------------------------------------------------------------------------
\* save(): the goal takes the next revision, and a copy of it is queued.

Stamped(g, n) == IF g = NoGoal THEN NoGoal ELSE [g EXCEPT !.revision = n]
Snapshot(g, n, recovery) ==
  [entry |-> [type |-> "snapshot", goal |-> Stamped(g, n), revision |-> n],
   recovery |-> recovery]

SaveAfter(q, g, recovery) ==
  /\ revision' = revision + 1
  /\ goal' = Stamped(g, revision + 1)
  /\ queue' = Append(q, Snapshot(g, revision + 1, recovery))
Save(g) == SaveAfter(queue, g, FALSE)

\* The request awaits its write, and then what is queued behind it (flush()).
Await(request) ==
  caller' = IF caller[request] = NoCall
            THEN [caller EXCEPT ![request] =
                   [stage |-> "writes", left |-> Len(queue) + 1, revision |-> revision + 1]]
            ELSE caller

Open == phase = "open" /\ revision < MaxRevision
Active == goal # NoGoal /\ goal.status = "active"

Control == Open /\ ~failure

SetGoal(id) ==
  /\ Control /\ id \notin minted
  /\ goal # NoGoal => goal.status = "complete"
  /\ Save([id |-> id, status |-> "active", revision |-> revision, tokens |-> 0])
  /\ minted' = minted \cup {id} /\ spending' = spending \cup {id}
  /\ Await("change")
  /\ UNCHANGED <<counted, failure, clearing, stored, lines, torn, phase, reading,
                 faults, acknowledged, lateFailure>>

\* Edits and resumes of a stopped goal.
Revise(status) ==
  /\ Control /\ goal # NoGoal /\ goal.status = "stopped"
  /\ Save([goal EXCEPT !.status = status])
  /\ spending' = IF status = "active" THEN spending \cup {goal.id} ELSE spending
  /\ Await("change")
  /\ UNCHANGED <<counted, failure, clearing, stored, lines, torn, phase, reading,
                 minted, faults, acknowledged, lateFailure>>

\* A pause, and everything else that saves an active goal: a run that begins,
\* settles, blocks or completes it.
Work(status) ==
  /\ Open /\ Active
  /\ Save([goal EXCEPT !.status = status])
  /\ Await("change")
  /\ UNCHANGED <<counted, failure, clearing, stored, lines, torn, phase, reading,
                 spending, minted, faults, acknowledged, lateFailure>>

ClearGoal ==
  /\ Control /\ goal # NoGoal
  /\ clearing' = goal
  /\ Save(NoGoal)
  /\ Await("clear")
  /\ UNCHANGED <<counted, failure, stored, lines, torn, phase, reading,
                 spending, minted, faults, acknowledged, lateFailure>>

\* recordUsage(): charged at once; the sample is queued before the limit is saved.
RecordUsage(s, id, exhausts) ==
  /\ Open /\ s \notin counted /\ id \in spending
  /\ counted' = counted \cup {s}
  /\ LET usage == Append(queue, [entry |-> [type |-> "usage", sample |-> s, id |-> id],
                                 recovery |-> FALSE])
         g == Charged(goal, id)
     IN IF exhausts /\ Active /\ goal.id = id
        THEN SaveAfter(usage, [g EXCEPT !.status = "stopped"], FALSE)
        ELSE goal' = g /\ queue' = usage /\ UNCHANGED revision
  /\ UNCHANGED <<failure, clearing, stored, lines, torn, phase, caller, reading,
                 spending, minted, faults, acknowledged, lateFailure>>

\* snapshot(): awaits the writes there are; a failure is then saved as it stands.
Read(r) ==
  /\ Open /\ reading[r] = 0
  /\ \/ /\ queue # <<>>
        /\ reading' = [reading EXCEPT ![r] = Len(queue)]
        /\ UNCHANGED <<goal, revision, queue>>
     \/ /\ queue = <<>> /\ failure
        /\ SaveAfter(queue, goal, TRUE)
        /\ UNCHANGED reading
  /\ UNCHANGED <<counted, failure, clearing, stored, lines, torn, phase, caller,
                 spending, minted, faults, acknowledged, lateFailure>>

-----------------------------------------------------------------------------
\* An append ends.  What awaited it goes on before the next one can end: the
\* controller's callback, then the requests, then the reads.

Write == Head(queue)
Rest == Tail(queue)

\* The callback of enqueue().
FailureAfter(ok) == ~ok \/ (failure /\ ~Write.recovery)
Stopped(ok) ==
  LET g == IF goal = NoGoal THEN clearing ELSE goal
  IN IF ok \/ g = NoGoal THEN goal
     ELSE [g EXCEPT !.status = "stopped", !.revision = revision + 1]

\* A request first awaits its own write, then what is queued behind it.
Ends(c) == c.left = 1 /\ (c.stage = "store" \/ Rest = <<>>)
Awaited(c) ==
  CASE c = NoCall \/ Ends(c) -> NoCall
    [] c.left = 1 /\ ~Ends(c) -> [c EXCEPT !.stage = "store", !.left = Len(Rest)]
    [] OTHER -> [c EXCEPT !.left = @ - 1]

\* A read that has no write left to await saves the failure it finds.
Finders == {r \in Readers : reading[r] = 1}
MutRecoveries(g, n) == [i \in DOMAIN SetToSeq(Finders) |-> Snapshot(g, n, TRUE)]
Recoveries(g, n) == [i \in DOMAIN SetToSeq(Finders) |-> Snapshot(g, n + i, TRUE)]

Settle(ok) ==
  LET n == IF ok THEN revision ELSE revision + 1
      g == Stopped(ok)
      saves == IF FailureAfter(ok) THEN Recoveries(g, n) ELSE <<>>
  IN /\ failure' = FailureAfter(ok)
     /\ revision' = n + Len(saves)
     /\ goal' = IF saves = <<>> THEN g ELSE Stamped(g, n + Len(saves))
     /\ queue' = Rest \o saves
     /\ reading' = [r \in Readers |-> IF reading[r] = 0 THEN 0 ELSE reading[r] - 1]
     /\ caller' = [c \in Requests |-> Awaited(caller[c])]
     /\ clearing' = IF Ends(caller["clear"]) THEN NoGoal ELSE clearing
     /\ LET told == {c \in Requests : Ends(caller[c]) /\ ~FailureAfter(ok)}
        IN acknowledged' = CHOOSE m \in {acknowledged} \cup {caller[c].revision : c \in told} :
             \A c \in told : m >= acknowledged /\ m >= caller[c].revision
     /\ phase' = IF phase = "opening" /\ Ends(caller["change"])
                 THEN IF FailureAfter(ok) THEN "unusable" ELSE "open"
                 ELSE phase
     /\ lateFailure' = (lateFailure \/ (~ok /\ \E i \in DOMAIN Rest : Rest[i].recovery))
     /\ UNCHANGED <<counted, spending, minted>>

\* appendFile: after a line begun and not ended, the two are one line.
Line == [entry |-> Write.entry, sequence |-> stored.sequence + 1]
MutAppended == IF torn THEN lines ELSE Append(lines, Line)
Appended == Append(lines, IF torn THEN Unreadable ELSE Line)

WriteSucceeds ==
  /\ queue # <<>>
  /\ lines' = Appended /\ torn' = FALSE
  /\ stored' = Apply(stored, Line)
  /\ Settle(TRUE)
  /\ UNCHANGED faults

WriteFails(partly) ==
  /\ queue # <<>> /\ faults < MaxFaults
  /\ faults' = faults + 1
  /\ torn' = (torn \/ partly)
  /\ UNCHANGED <<lines, stored>>
  /\ Settle(FALSE)

-----------------------------------------------------------------------------
\* The process dies: the append in progress is on disk, partly or not at all.
Forgotten ==
  /\ goal' = NoGoal /\ revision' = 0 /\ counted' = {} /\ failure' = FALSE
  /\ clearing' = NoGoal /\ stored' = Blank /\ queue' = <<>>
  /\ caller' = [c \in Requests |-> NoCall] /\ reading' = [r \in Readers |-> 0]
  /\ spending' = {} /\ lateFailure' = FALSE

Crash ==
  /\ phase # "closed" /\ faults < MaxFaults
  /\ faults' = faults + 1 /\ phase' = "closed"
  /\ \/ UNCHANGED <<lines, torn>>
     \/ queue # <<>> /\ torn' = TRUE /\ UNCHANGED lines
     \/ queue # <<>> /\ lines' = Appended /\ torn' = FALSE
  /\ Forgotten
  /\ UNCHANGED <<minted, acknowledged>>

\* openGoalStore() cuts a line that was not ended and replays the others;
\* GoalController.open() pauses a goal that was running, and is not handed out
\* before that is saved.  A ledger it cannot read leaves the thread without one.
OpenLedger ==
  /\ phase = "closed" /\ Readable
  /\ torn' = FALSE /\ stored' = Replayed
  /\ counted' = Replayed.keys
  /\ LET g == Replayed.goal
         r == Replayed.revision
     IN IF g # NoGoal /\ g.status = "active"
        THEN /\ phase' = "opening"
             /\ revision' = r + 1
             /\ goal' = [g EXCEPT !.status = "stopped", !.revision = r + 1]
             /\ queue' = <<Snapshot([g EXCEPT !.status = "stopped"], r + 1, FALSE)>>
             /\ caller' = [caller EXCEPT !["change"] =
                            [stage |-> "writes", left |-> 1, revision |-> r + 1]]
        ELSE /\ phase' = "open" /\ revision' = r /\ goal' = g
             /\ UNCHANGED <<queue, caller>>
  /\ UNCHANGED <<failure, clearing, lines, reading, spending, minted, faults,
                 acknowledged, lateFailure>>

RefuseLedger ==
  /\ phase = "closed" /\ ~Readable
  /\ phase' = "unusable"
  /\ UNCHANGED <<memory, stored, queue, lines, torn, caller, reading, spending,
                 minted, faults, acknowledged, lateFailure>>

LedgerInit ==
  /\ goal = NoGoal /\ revision = 0 /\ counted = {} /\ failure = FALSE /\ clearing = NoGoal
  /\ stored = Blank /\ queue = <<>> /\ lines = <<>> /\ torn = FALSE /\ phase = "closed"
  /\ caller = [c \in Requests |-> NoCall] /\ reading = [r \in Readers |-> 0]
  /\ spending = {} /\ minted = {} /\ faults = 0 /\ acknowledged = 0 /\ lateFailure = FALSE

LedgerNext ==
  \/ \E id \in Goals : SetGoal(id)
  \/ \E status \in {"active", "stopped"} : Revise(status)
  \/ \E status \in Statuses : Work(status)
  \/ ClearGoal
  \/ \E s \in Samples, id \in Goals, exhausts \in BOOLEAN : RecordUsage(s, id, exhausts)
  \/ \E r \in Readers : Read(r)
  \/ WriteSucceeds
  \/ \E partly \in BOOLEAN : WriteFails(partly)
  \/ Crash \/ OpenLedger \/ RefuseLedger

LedgerSpec == LedgerInit /\ [][LedgerNext]_ledgerVars

-----------------------------------------------------------------------------
\* The types of the goal, the ledger and what awaits its writes; no append is one that
\* the store would refuse.
LedgerTypeOK ==
  /\ goal \in Goal \cup {NoGoal} /\ clearing \in Goal \cup {NoGoal}
  /\ revision \in Nat /\ failure \in BOOLEAN /\ torn \in BOOLEAN
  /\ counted \subseteq Samples /\ minted \subseteq Goals /\ spending \subseteq minted
  /\ phase \in {"closed", "opening", "open", "unusable"}
  /\ reading \in [Readers -> Nat]
  /\ \A c \in Requests : caller[c] # NoCall => caller[c].left \in 1..Len(queue)
  /\ \A i \in DOMAIN queue : ~Obsolete(stored, queue[i].entry)

\* What the ledger holds is what the process goes by once its writes are done:
\* the goal a client reads (and edits by its revision) is the one requests are
\* held against, and its spend is the one charged.  An append that fails with a
\* recovery already queued behind it is the exception: the goal then has a
\* revision the recovery knows nothing of.
StoreAgreesUnlessLateFailure ==
  phase = "open" /\ queue = <<>> /\ ~failure /\ ~lateFailure =>
    stored.goal = goal /\ stored.revision = revision /\ stored.keys \subseteq counted

\* A goal whose state could not be saved is not worked on: no request, report or
\* late write makes it active before a recovery is saved (controller.ts:209).
FailureStopsTheGoal == failure => ~Active

\* Between them: a goal that is worked on is as it was saved.
GoalIsAsSaved == StoreAgreesUnlessLateFailure /\ FailureStopsTheGoal

\* A request that was told its change is saved is not undone by a crash: the
\* ledger replays to the store's own copy, at that revision or a later one.  Only
\* a line that broke off in a process that went on makes the ledger unreadable.
AcknowledgedSurvives ==
  Readable => /\ Replayed.revision >= acknowledged
              /\ phase \in {"opening", "open"} => Replayed = stored
=============================================================================
