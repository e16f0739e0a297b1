---- MODULE Journal ----
(***************************************************************************)
(* The session log as a data structure: what TurnStager (turn-stager.ts)   *)
(* and SessionManager (manager.ts) append to it, and what is read back from *)
(* it (context-builder.ts).  Session drives it.                            *)
(*                                                                         *)
(* An entry is [id, parent, role, n].  A message entry has the role and the *)
(* number of its message (AgentLoop); the other roles are "compaction" (n =*)
(* 1 when it carries a provider's native summary), "mode" and "effort" (n =*)
(* the value chosen) and "error".  A journal holds                          *)
(*   entries    the committed entries, in the order they go to the file    *)
(*   staged     the entries of the turn that are not committed yet         *)
(*   leaf       the entry the next staged one hangs from                   *)
(*   nextId     a fresh entry id (ids are never reused; 0 is no entry).    *)
(***************************************************************************)
EXTENDS Integers, Sequences

MessageRoles == {"prompt", "steer", "assistant", "result", "note"}
EntryRoles == MessageRoles \cup {"compaction", "mode", "effort", "error"}
Entries == [id : Nat \ {0}, parent : Nat, role : EntryRoles, n : Nat]
Journals == [entries : Seq(Entries), staged : Seq(Entries), leaf : Nat,
             nextId : Nat \ {0}]

EmptyJournal == [entries |-> <<>>, staged |-> <<>>, leaf |-> 0, nextId |-> 1]

LeafId(entries) == IF entries = <<>> THEN 0 ELSE entries[Len(entries)].id

-----------------------------------------------------------------------------
(* Reading *)

Position(entries, id) ==
  IF \E p \in 1..Len(entries) : entries[p].id = id
  THEN CHOOSE p \in 1..Len(entries) : entries[p].id = id ELSE 0

\* The chain of parents from entry id up to a root, oldest first.
PathFrom(entries, id) ==
  LET path[p \in 0..Len(entries)] ==
        IF p = 0 THEN <<>>
        ELSE Append(path[Position(entries, entries[p].parent)], entries[p])
  IN  path[Position(entries, id)]

Path(entries) == PathFrom(entries, LeafId(entries))

\* The position on a path of its last entry with one of these roles, or 0.
LastOf(path, roles) ==
  IF \E p \in 1..Len(path) : path[p].role \in roles
  THEN CHOOSE p \in 1..Len(path) :
         /\ path[p].role \in roles
         /\ \A q \in (p + 1)..Len(path) : path[q].role \notin roles
  ELSE 0

IsMessage(entry) == entry.role \in MessageRoles
MessageOf(entry) == [role |-> entry.role, n |-> entry.n]
MessagesOf(path) ==
  LET upTo[k \in 0..Len(path)] ==
        IF k = 0 THEN <<>>
        ELSE IF IsMessage(path[k]) THEN Append(upTo[k - 1], MessageOf(path[k]))
        ELSE upTo[k - 1]
  IN  upTo[Len(path)]

Checkpoint == [role |-> "summary", n |-> 0]

\* buildSessionContext: what a restored agent remembers.
ContextMessages(entries) ==
  LET path == Path(entries)
      c == LastOf(path, {"compaction"})
  IN  (IF c = 0 THEN <<>> ELSE <<Checkpoint>>)
      \o MessagesOf(SubSeq(path, c + 1, Len(path)))

\* ... the native summary it sends ahead of them (the id of its entry),
ContextSummary(entries) ==
  LET path == Path(entries)
      c == LastOf(path, {"compaction"})
  IN  IF c # 0 /\ path[c].n = 1 THEN path[c].id ELSE 0

\* ... and the settings: the mode is looked for on the whole path, the effort
\* only after the last compaction.
MutContextMode(entries) ==
  LET path == Path(entries)
      m == LastOf(path, {"mode"})
  IN  IF m <= LastOf(path, {"compaction"}) THEN 0 ELSE path[m].n
ContextMode(entries) ==
  LET path == Path(entries)
      m == LastOf(path, {"mode"})
  IN  IF m = 0 THEN 0 ELSE path[m].n

ContextEffort(entries) ==
  LET path == Path(entries)
      c == LastOf(path, {"compaction"})
      e == LastOf(path, {"effort"})
  IN  IF e <= c THEN 0 ELSE path[e].n

-----------------------------------------------------------------------------
(* Writing *)

\* A chain of new entries for these messages, the first hanging from parent.
Chain(messages, parent, nextId) ==
  [k \in 1..Len(messages) |->
     [id |-> nextId + k - 1, parent |-> IF k = 1 THEN parent ELSE nextId + k - 2,
      role |-> messages[k].role, n |-> messages[k].n]]

\* TurnStager.stageMessage, once per message.
Stage(j, messages) ==
  [j EXCEPT !.staged = @ \o Chain(messages, j.leaf, j.nextId),
            !.leaf = IF messages = <<>> THEN @ ELSE j.nextId + Len(messages) - 1,
            !.nextId = @ + Len(messages)]

CompactionEntry(id, parent, native) ==
  [id |-> id, parent |-> parent, role |-> "compaction", n |-> native]

\* These entries with the first one hung from parent.
Rehung(entries, parent) ==
  [k \in 1..Len(entries) |->
     IF k = 1 THEN [entries[k] EXCEPT !.parent = parent] ELSE entries[k]]

\* TurnStager.stageCompactionBeforePending.
MutCompactionAtLeaf(j, native) ==
  [j EXCEPT !.staged = Append(@, CompactionEntry(j.nextId, j.leaf, native)),
            !.leaf = j.nextId, !.nextId = @ + 1]
MutCompactionDropsPending(j, native) ==
  [j EXCEPT !.staged = <<CompactionEntry(j.nextId, LeafId(j.entries), native)>>,
            !.leaf = j.nextId, !.nextId = @ + 1]
MutCompactionWrittenLast(j, native) ==
  LET base == IF j.staged = <<>> THEN j.leaf ELSE j.staged[1].parent
  IN  [j EXCEPT !.staged = Append(Rehung(@, j.nextId),
                                  CompactionEntry(j.nextId, base, native)),
                !.leaf = IF j.staged = <<>> THEN j.nextId ELSE @,
                !.nextId = @ + 1]
StageCompaction(j, native) ==
  LET base == IF j.staged = <<>> THEN j.leaf ELSE j.staged[1].parent
  IN  [j EXCEPT !.staged = <<CompactionEntry(j.nextId, base, native)>>
                           \o Rehung(@, j.nextId),
                !.leaf = IF j.staged = <<>> THEN j.nextId ELSE @,
                !.nextId = @ + 1]

\* TurnStager.flushPendingEntries and SessionManager.appendEntries.
Flush(j) == [j EXCEPT !.entries = @ \o j.staged, !.staged = <<>>]

\* SessionManager.appendAndPersist of an entry that hangs from the committed
\* leaf: a setting, an error, a manual compaction.
AppendCommitted(j, role, n) ==
  [j EXCEPT !.entries = Append(@, [id |-> j.nextId, parent |-> LeafId(j.entries),
                                   role |-> role, n |-> n]),
            !.nextId = @ + 1]

\* prepareRun: a new stager on the committed leaf, holding the user message.
NewTurn(j, message) ==
  Stage([j EXCEPT !.staged = <<>>, !.leaf = LeafId(j.entries)], <<message>>)

\* What resume makes of the entries of a file.
Load(entries) ==
  [EmptyJournal EXCEPT !.entries = entries,
     !.nextId = 1 + LET ids == {0} \cup {entries[p].id : p \in 1..Len(entries)}
                    IN  CHOOSE m \in ids : \A id \in ids : id <= m]

-----------------------------------------------------------------------------
(* SessionManager.repairEntries *)

\* How many results stand right after entry i of a path.
ResultsAfter(path, i) ==
  CHOOSE m \in 0..(Len(path) - i) :
    /\ \A k \in 1..m : path[i + k].role = "result"
    /\ i + m < Len(path) => path[i + m + 1].role # "result"

\* The calls of entry i without a result there, in order.
MutUnanswered(path, i) ==
  IF path[i].role = "assistant" /\ ResultsAfter(path, i) = 0
  THEN [k \in 1..path[i].n |-> k] ELSE <<>>
Unanswered(path, i) ==
  LET seen == {path[i + k].n : k \in 1..ResultsAfter(path, i)}
      missing[k \in 0..path[i].n] ==
        IF k = 0 THEN <<>>
        ELSE IF k \in seen THEN missing[k - 1] ELSE Append(missing[k - 1], k)
  IN  IF path[i].role = "assistant" THEN missing[path[i].n] ELSE <<>>

\* Cancelled results for the first assistant message on the path with a call
\* nobody answered, hanging from the results it has.
Repair(j) ==
  LET path == Path(j.entries)
      broken == {i \in 1..Len(path) : Unanswered(path, i) # <<>>}
  IN  IF broken = {} THEN j
      ELSE LET i == CHOOSE i \in broken : \A k \in broken : i <= k
               calls == Unanswered(path, i)
               results == [k \in 1..Len(calls) |->
                             [role |-> "result", n |-> calls[k]]]
           IN  [j EXCEPT !.entries = @ \o Chain(results,
                                         path[i + ResultsAfter(path, i)].id,
                                         j.nextId),
                         !.nextId = @ + Len(calls)]
====
