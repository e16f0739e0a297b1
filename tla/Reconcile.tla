----------------------------- MODULE Reconcile -----------------------------
(***************************************************************************)
(* A thread read or resumed while it is idle takes the entries of its file *)
(* into memory when the two differ (reconcileFromDisk in manager.ts, over  *)
(* reconcile in persistence.ts).  It awaits the writes and the file, and a *)
(* turn may start, a setting be changed or another read end meanwhile.     *)
(*                                                                         *)
(* An entry is a number; what hangs from what is in Journal.  Writes do    *)
(* not fail.  Another process may add to the file.                         *)
(***************************************************************************)
EXTENDS Naturals, Sequences, Functions

CONSTANTS Reads,
          MaxEntries   \* bound: entries made, whoever does

ASSUME ReconcileConstants == MaxEntries \in Nat

VARIABLES
  turnStage,      \* from isRunning and turnWork to the end of the turn's work
  committed,      \* the store's entries
  pendingEntries, \* what the store shows after them
  staged,         \* the turn's own list of what it has not committed
  newest,         \* the last entry made
  unwritten,      \* the write queue
  file,
  read            \* of a read: what its reconcile is doing, and what it holds

reconcileVars == <<turnStage, committed, pendingEntries, staged, newest, unwritten, file, read>>

LeafOf(entries) == IF entries = <<>> THEN 0 ELSE entries[Len(entries)]

\* shared: the list it was given is still the store's, and grows with it; otherwise list
\* is what became of it.  leaf is the store's when it began.  History: known and compared,
\* the length of the list when it began and when it compared; undisturbed.
NoRead == [stage |-> "none", shared |-> FALSE, list |-> <<>>, leaf |-> 0, known |-> 0,
           waits |-> 0, lines |-> <<>>, compared |-> 0, undisturbed |-> FALSE]

List(r) == IF read[r].shared THEN committed ELSE read[r].list

\* Between the decision and the replacement of the entries is one microtask: no read or
\* write of a file ends there.
BetweenTasks == \A r \in Reads : read[r].stage # "adopting"

-----------------------------------------------------------------------------
\* appendCommitted() and the queue: reads in flight are no longer undisturbed.
Commits(entries) ==
  /\ committed' = committed \o entries
  /\ unwritten' = unwritten \o entries
  /\ read' = IF entries = <<>> THEN read
             ELSE [r \in Reads |-> [read[r] EXCEPT !.undisturbed = FALSE]]

TurnStarts ==
  /\ turnStage = "none" /\ turnStage' = "starting"
  /\ UNCHANGED <<committed, pendingEntries, staged, newest, unwritten, file, read>>

\* The user's message is staged and shown, and the agent awaited.
PrepareRun ==
  /\ turnStage = "starting" /\ turnStage' = "preparing"
  /\ newest < MaxEntries /\ newest' = newest + 1
  /\ staged' = <<newest'>> /\ pendingEntries' = staged'
  /\ UNCHANGED <<committed, unwritten, file, read>>

\* There is no agent: the message is not committed, and still shown.
PrepareFails ==
  /\ turnStage = "preparing" /\ turnStage' = "ending"
  /\ staged' = <<>>
  /\ UNCHANGED <<committed, pendingEntries, newest, unwritten, file, read>>

\* A handler of the run stages nothing, an entry, or a checkpoint before the others.
Staging == {staged, Append(staged, newest + 1), <<newest + 1>> \o staged}

StagesEntry(held) ==
  /\ held = staged \/ newest < MaxEntries
  /\ newest' = IF held = staged THEN newest ELSE newest + 1

\* An event of the run: what is staged is shown, or committed.
RunEvent ==
  /\ turnStage \in {"preparing", "running"} /\ turnStage' = "running"
  /\ \E held \in Staging :
       /\ StagesEntry(held)
       /\ \/ Commits(<<>>) /\ staged' = held /\ pendingEntries' = held
          \/ Commits(held) /\ staged' = <<>> /\ pendingEntries' = <<>>
  /\ UNCHANGED file

\* commitRun or handleRunError, and finishRun.
RunEnds ==
  /\ turnStage \in {"preparing", "running"} /\ turnStage' = "ending"
  /\ Commits(staged) /\ staged' = <<>> /\ pendingEntries' = <<>>
  /\ UNCHANGED <<newest, file>>

TurnEnds ==
  /\ turnStage \in {"starting", "ending"} /\ turnStage' = "none"
  /\ UNCHANGED <<committed, pendingEntries, staged, newest, unwritten, file, read>>

\* A setting, which is changed at any moment; a repair; the error of a run.
AppendEntry ==
  /\ newest < MaxEntries /\ newest' = newest + 1
  /\ Commits(<<newest'>>)
  /\ UNCHANGED <<turnStage, pendingEntries, staged, file>>

\* A read waits for the writes queued before it.
WriteEntry ==
  /\ BetweenTasks /\ unwritten # <<>>
  /\ file' = Append(file, Head(unwritten)) /\ unwritten' = Tail(unwritten)
  /\ read' = [r \in Reads |-> IF read[r].waits = 0 THEN read[r]
                              ELSE [read[r] EXCEPT !.waits = @ - 1]]
  /\ UNCHANGED <<turnStage, committed, pendingEntries, staged, newest>>

ForeignEntry ==
  /\ BetweenTasks /\ newest < MaxEntries /\ newest' = newest + 1
  /\ file' = Append(file, newest')
  /\ UNCHANGED <<turnStage, committed, pendingEntries, staged, unwritten, read>>

\* thread/read and thread/resume look once whether the thread is idle.
BeginRead(r) ==
  /\ read[r].stage = "none" /\ turnStage = "none"
  /\ read' = [read EXCEPT ![r] =
                [NoRead EXCEPT !.stage = "waiting", !.shared = TRUE, !.undisturbed = TRUE,
                               !.leaf = LeafOf(committed), !.known = Len(committed),
                               !.waits = Len(unwritten)]]
  /\ UNCHANGED <<turnStage, committed, pendingEntries, staged, newest, unwritten, file>>

ReadFile(r) ==
  /\ BetweenTasks /\ read[r].stage = "waiting" /\ read[r].waits = 0
  /\ read' = [read EXCEPT ![r].stage = "comparing", ![r].lines = file]
  /\ UNCHANGED <<turnStage, committed, pendingEntries, staged, newest, unwritten, file>>

\* "memory_newer", "already_equal" or "updated_from_disk".
MutAdopts(r) == ~(Len(read[r].lines) = Len(List(r)) /\ LeafOf(read[r].lines) = read[r].leaf)
Adopts(r) ==
  /\ Len(read[r].lines) >= Len(List(r))
  /\ ~(Len(read[r].lines) = Len(List(r)) /\ LeafOf(read[r].lines) = read[r].leaf)

Compare(r) ==
  /\ BetweenTasks /\ read[r].stage = "comparing"
  /\ read' = [read EXCEPT ![r] =
                IF Adopts(r) THEN [read[r] EXCEPT !.stage = "adopting",
                                                  !.compared = Len(List(r))]
                ELSE NoRead]
  /\ UNCHANGED <<turnStage, committed, pendingEntries, staged, newest, unwritten, file>>

\* replaceCommitted(): the store has another list and shows nothing after it; other reads
\* keep the old list, and a turn what it has staged.
Adopt(r) ==
  /\ read[r].stage = "adopting"
  /\ committed' = read[r].lines /\ pendingEntries' = <<>>
  /\ read' = [q \in Reads |->
                IF q = r THEN NoRead
                ELSE [read[q] EXCEPT !.list = List(q), !.shared = FALSE,
                                     !.undisturbed = FALSE]]
  /\ UNCHANGED <<turnStage, staged, newest, unwritten, file>>

ReconcileInit ==
  /\ turnStage = "none" /\ newest = 0
  /\ committed = <<>> /\ pendingEntries = <<>> /\ staged = <<>> /\ unwritten = <<>>
  /\ file = <<>> /\ read = [r \in Reads |-> NoRead]

ReconcileNext ==
  \/ TurnStarts \/ PrepareRun \/ PrepareFails \/ RunEvent \/ RunEnds \/ TurnEnds
  \/ AppendEntry \/ WriteEntry \/ ForeignEntry
  \/ \E r \in Reads : BeginRead(r) \/ ReadFile(r) \/ Compare(r) \/ Adopt(r)

ReconcileSpec == ReconcileInit /\ [][ReconcileNext]_reconcileVars

-----------------------------------------------------------------------------
\* The types of the store, the file, the turn and the reads.
ReconcileTypeOK ==
  /\ turnStage \in {"none", "starting", "preparing", "running", "ending"}
  /\ newest \in 0..MaxEntries
  /\ {committed, pendingEntries, staged, unwritten, file} \subseteq Seq(1..MaxEntries)
  /\ staged # <<>> => turnStage \in {"preparing", "running"} /\ pendingEntries \in {<<>>, staged}
  /\ \A r \in Reads :
       /\ DOMAIN read[r] = DOMAIN NoRead
       /\ read[r].stage \in {"none", "waiting", "comparing", "adopting"}
       /\ read[r].waits <= Len(unwritten)

\* The first n entries of the store.
First(n) == Range(SubSeq(committed, 1, n))

\* The read replaces the store's entries, and is the first to do so since it began.
Replaces(r) == read[r].stage = "adopting" /\ read'[r].stage = "none" /\ read[r].shared

\* No entry the thread had when it was seen idle is taken from it.
KeepsWhatItFound ==
  \A r \in Reads : Replaces(r) => First(read[r].known) \subseteq Range(committed')

\* The file has an entry the store lacks: another process wrote it, or an earlier read
\* took it from the store.
FileHasMore(r) == ~(Range(read[r].lines) \subseteq First(read[r].compared))

\* Nor is an entry that a turn or a setting has added up to the comparison.
KeepsWhatCame ==
  \A r \in Reads :
    Replaces(r) /\ ~FileHasMore(r) => First(read[r].compared) \subseteq Range(committed')

\* Whatever went wrong before, a read that nothing interfered with leaves the thread with
\* all it found in the file.
UndisturbedReadsAgree ==
  \A r \in Reads :
    read[r].undisturbed /\ read[r].stage # "none" /\ read'[r].stage = "none" =>
      Range(read[r].lines) \subseteq Range(committed')

\* Reading an idle thread (thread-handlers.ts:188, session-lifecycle.md:75) keeps what the
\* thread had and what a turn that starts meanwhile adds, and heals what an unlucky read
\* did.  A turn's entries are safe but for three cases, which the names above stand for:
\* another read has replaced the list since this one began (Replaces), the file has an
\* entry from elsewhere (FileHasMore), or the entry came in the microtask after the
\* comparison.
ReadsReconcile ==
  [][KeepsWhatItFound /\ KeepsWhatCame /\ UndisturbedReadsAgree]_reconcileVars
=============================================================================
