------------------------------- MODULE Collab -------------------------------
(***************************************************************************)
(* Child agents (collab/registry.ts).  spawn_agent starts a child session  *)
(* in the background and registers it; wait and close_agent await what the *)
(* registry has under an id; spawn_agent with resume_id runs a finished    *)
(* child again.  The registry belongs to the agent of the thread: a change *)
(* of mode, of model or of the configuration discards both, and the next   *)
(* turn builds a registry from the children in the session's history.      *)
(* Children of a goal are counted by its controller, and aborted with it.  *)
(*                                                                         *)
(* The collaboration tools do not overlap (see ToolGate).  Nested children *)
(* and send_input are left out.                                            *)
(***************************************************************************)
EXTENDS Naturals, FiniteSets

CONSTANTS Children,     \* child sessions, by their thread id
          Executions,   \* bound: what is started by spawn_agent
          MaxAgents,
          Unknown, Restored

ASSUME CollabConstants ==
  MaxAgents \in Nat \ {0} /\ Unknown \notin Executions /\ Restored \notin Executions

VARIABLES
  agent,         \* the thread has an agent; if not, the next turn builds one
  reloading,     \* config/reload has checked the goals, and reads the files
  slipped,       \* a reload discarded an agent in use, or one with children of a goal
  entry,         \* registry.agents: unknown, restored from history, or an execution
  child, owned,  \* of an execution: its session, and whether a goal owns it
  progress,      \* of an execution: "none", "running", "aborted" or "over"
  orphans,       \* executions whose registry was discarded
  goalChildren,  \* GoalController.children
  turn,          \* "idle", or the goal scope of the turn: "none", "live", "cancelled"
  mayCreate,     \* the turn may create a goal (goalCreation)
  tool,          \* what the turn awaits: nothing, "wait" or "close_agent"
  named,         \* the children it names, and the executions it awaits
  pending,
  told           \* the children the last report said were finished

collabVars == <<agent, reloading, slipped, entry, child, owned, progress, orphans,
                goalChildren, turn, mayCreate, tool, named, pending, told>>

Unfinished == {e \in Executions : progress[e] \in {"running", "aborted"}}

\* isFinal(entry.status), of a child the registry has.
Final(c) == entry[c] = Restored \/ (entry[c] \in Executions /\ entry[c] \notin Unfinished)
Registered == {c \in Children : entry[c] # Unknown}
ActiveCount == Cardinality({c \in Registered : ~Final(c)})

\* abort() of an AbortController.
AbortAll(S) == progress' = [e \in Executions |-> IF e \in S /\ progress[e] = "running"
                                                 THEN "aborted" ELSE progress[e]]

\* hasGoalOwnedCleanupPending()
MutCleanupPending == turn \in {"live", "cancelled"}
CleanupPending == turn \in {"live", "cancelled"} \/ goalChildren # {}

-----------------------------------------------------------------------------
\* The thread.

\* A turn of a goal first waits for the children of its earlier runs.
StartTurn(scope) ==
  /\ turn = "idle" /\ turn' = scope
  /\ scope = "live" => goalChildren = {}
  /\ mayCreate' = (scope = "none")
  /\ agent' = TRUE
  /\ IF agent THEN UNCHANGED <<entry, orphans>>
     ELSE /\ entry' = [c \in Children |-> IF entry[c] = Unknown THEN Unknown ELSE Restored]
          /\ orphans' = orphans \cup Unfinished
  /\ UNCHANGED <<reloading, slipped, child, owned, progress, goalChildren, tool,
                 named, pending, told>>

\* create_goal, in an ordinary turn that nothing has disturbed.
OwnTurn ==
  /\ mayCreate /\ tool = "none" /\ turn' = "live" /\ mayCreate' = FALSE
  /\ UNCHANGED <<agent, reloading, slipped, entry, child, owned, progress, orphans,
                 goalChildren, tool, named, pending, told>>

\* The goal is paused, edited or replaced: its scope is aborted.
InvalidateGoal ==
  /\ turn' = IF turn = "live" THEN "cancelled" ELSE turn
  /\ AbortAll({e \in Executions : owned[e]})
  /\ UNCHANGED <<agent, mayCreate, reloading, slipped, entry, child, owned, orphans,
                 goalChildren, tool, named, pending, told>>

EndTurn ==
  /\ turn # "idle" /\ tool = "none" /\ turn' = "idle" /\ mayCreate' = FALSE
  /\ UNCHANGED <<agent, reloading, slipped, entry, child, owned, progress, orphans,
                 goalChildren, tool, named, pending, told>>

\* A change of mode or of model.  A turn in progress keeps its agent and registry to
\* its end.
DiscardAgent ==
  /\ agent /\ ~CleanupPending /\ agent' = FALSE /\ mayCreate' = FALSE
  /\ UNCHANGED <<reloading, slipped, entry, child, owned, progress, orphans,
                 goalChildren, turn, tool, named, pending, told>>

\* config/reload looks for the goals' work before it reads the files, not after.
BeginReload ==
  /\ ~reloading /\ ~CleanupPending /\ reloading' = TRUE /\ mayCreate' = FALSE
  /\ UNCHANGED <<agent, slipped, entry, child, owned, progress, orphans,
                 goalChildren, turn, tool, named, pending, told>>

EndReload ==
  /\ reloading /\ reloading' = FALSE
  /\ agent' = FALSE /\ slipped' = (slipped \/ turn # "idle" \/ CleanupPending)
  /\ UNCHANGED <<entry, child, owned, progress, orphans, goalChildren, turn, mayCreate,
                 tool, named, pending, told>>

-----------------------------------------------------------------------------
\* The tools.

Calls == turn # "idle" /\ tool = "none"

\* A new child, the next one, or one that is registered and finished.
New == {c \in Children : entry[c] = Unknown /\ \A e \in Executions : child[e] # c}
Spawnable(c) == IF entry[c] = Unknown THEN New # {} /\ c = CHOOSE d \in New : TRUE ELSE Final(c)
Spawn(c, e) ==
  /\ Calls /\ turn # "cancelled"
  /\ progress[e] = "none" /\ e = CHOOSE f \in Executions : progress[f] = "none"   \* the next
  /\ ActiveCount < MaxAgents /\ Spawnable(c)
  /\ entry' = [entry EXCEPT ![c] = e]
  /\ child' = [child EXCEPT ![e] = c] /\ progress' = [progress EXCEPT ![e] = "running"]
  /\ owned' = [owned EXCEPT ![e] = turn = "live"]
  /\ goalChildren' = IF turn = "live" THEN goalChildren \cup {c} ELSE goalChildren
  /\ told' = told \ {c}
  /\ UNCHANGED <<agent, mayCreate, reloading, slipped, orphans, turn, tool, named, pending>>

\* A child's run is over, and its writes: the goal no longer counts it.
Settles(e) ==
  /\ e \in Unfinished /\ progress' = [progress EXCEPT ![e] = "over"]
  /\ goalChildren' = IF owned[e] THEN goalChildren \ {child[e]} ELSE goalChildren
  /\ UNCHANGED <<agent, mayCreate, reloading, slipped, entry, child, owned, orphans, turn, tool,
                 named, pending, told>>

Wait(S) ==
  /\ Calls /\ S # {} /\ S \subseteq Registered
  /\ tool' = "wait" /\ named' = S /\ pending' = {entry[c] : c \in S} \cap Unfinished
  /\ told' = {}
  /\ UNCHANGED <<agent, mayCreate, reloading, slipped, entry, child, owned, progress, orphans,
                 goalChildren, turn>>

\* close_agent aborts the child, and waits however long it takes to settle.
CloseChild(c) ==
  /\ Calls /\ c \in Registered
  /\ tool' = "close_agent" /\ named' = {c} /\ pending' = {entry[c]} \cap Unfinished
  /\ AbortAll({entry[c]}) /\ told' = {}
  /\ UNCHANGED <<agent, mayCreate, reloading, slipped, entry, child, owned, orphans,
                 goalChildren, turn>>

AllSettled == pending \cap Unfinished = {}
ToolReturns ==
  /\ tool # "none" /\ AllSettled
  /\ told' = named
  /\ tool' = "none" /\ named' = {} /\ pending' = {}
  /\ UNCHANGED <<agent, mayCreate, reloading, slipped, entry, child, owned, progress, orphans,
                 goalChildren, turn>>

\* The time of a wait is over, or the turn is aborted: it reports what there is.
GiveUpWait ==
  /\ tool = "wait" /\ pending # {}
  /\ told' = {c \in named : Final(c)}
  /\ tool' = "none" /\ named' = {} /\ pending' = {}
  /\ UNCHANGED <<agent, mayCreate, reloading, slipped, entry, child, owned, progress, orphans,
                 goalChildren, turn>>

CollabInit ==
  /\ agent = FALSE /\ reloading = FALSE /\ slipped = FALSE /\ entry = [c \in Children |-> Unknown]
  /\ child = [e \in Executions |-> Unknown] /\ owned = [e \in Executions |-> FALSE]
  /\ progress = [e \in Executions |-> "none"] /\ orphans = {} /\ goalChildren = {}
  /\ turn = "idle" /\ mayCreate = FALSE /\ tool = "none" /\ named = {} /\ pending = {} /\ told = {}

CollabNext ==
  \/ \E scope \in {"none", "live"} : StartTurn(scope)
  \/ OwnTurn \/ InvalidateGoal \/ EndTurn
  \/ DiscardAgent \/ BeginReload \/ EndReload
  \/ \E c \in Children : CloseChild(c) \/ \E e \in Executions : Spawn(c, e)
  \/ \E e \in Executions : Settles(e)
  \/ \E S \in SUBSET Children : Wait(S)
  \/ ToolReturns \/ GiveUpWait

CollabSpec == CollabInit /\ [][CollabNext]_collabVars

-----------------------------------------------------------------------------
\* The types of the registry, its executions and the tool in progress.
CollabTypeOK ==
  /\ {agent, reloading, slipped, mayCreate} \subseteq BOOLEAN
  /\ entry \in [Children -> Executions \cup {Unknown, Restored}]
  /\ child \in [Executions -> Children \cup {Unknown}] /\ owned \in [Executions -> BOOLEAN]
  /\ progress \in [Executions -> {"none", "running", "aborted", "over"}]
  /\ orphans \subseteq Executions /\ goalChildren \subseteq Children
  /\ turn \in {"idle", "none", "live", "cancelled"}
  /\ tool \in {"none", "wait", "close_agent"} /\ named \subseteq Children
  /\ pending \subseteq Executions /\ told \subseteq Children

\* A child session has one run at a time, the one the registry knows; within its cap.
\* Only a child that no goal owned can be running unknown to it, after its registry
\* was discarded with the agent; or one of a goal, if a reload that had looked for goals'
\* work discarded an agent in use.
OneRunPerChild ==
  /\ \A e \in Unfinished \ orphans : entry[child[e]] = e
  /\ Cardinality(Unfinished \ orphans) <= MaxAgents
  /\ ~slipped => \A e \in orphans : ~owned[e]

\* A goal knows the children it has to wait for: no late end of an earlier run of the
\* same child, no resumption and no rebuilt registry takes one off its account.
GoalCountsItsChildren ==
  ~slipped => goalChildren = {child[e] : e \in {x \in Unfinished : owned[x]}}

\* The children that the last wait or close_agent said are finished are, until they are
\* resumed; orphans aside.
FinishedIsFinished ==
  \A e \in Unfinished \ orphans : child[e] \notin told

\* Nothing runs as a child that neither the registry nor the goal knows of.
ChildrenAreAccounted == OneRunPerChild /\ GoalCountsItsChildren /\ FinishedIsFinished
=============================================================================
