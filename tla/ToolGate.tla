------------------------------ MODULE ToolGate ------------------------------
(***************************************************************************)
(* The reader/writer gate of an agent's tools (tools/code-mode/gate.ts).   *)
(* Calls of tools that support parallelism share it, every other call has  *)
(* it alone, and who does not get in at once waits in the order of arrival *)
(* or until its signal is aborted.                                         *)
(***************************************************************************)
EXTENDS Integers, Sequences, SequencesExt

CONSTANTS Callers,    \* calls of tools
          Exclusive   \* those of tools that do not support parallelism

ASSUME GateConstants == Exclusive \subseteq Callers

VARIABLE gate   \* the counter and queue of the code, and who is inside

Shut == [holders |-> 0, waiting |-> <<>>, inside |-> {}]

Admits(g, x) == IF x \in Exclusive THEN g.holders = 0 ELSE g.holders >= 0

Enter(g, x) ==
  [g EXCEPT !.holders = IF x \in Exclusive THEN -1 ELSE @ + 1,
            !.inside = @ \cup {x}]

\* The calls at the head of the queue that can overlap.
SharedLead(q) ==
  CHOOSE k \in 0..Len(q) :
    /\ \A i \in 1..k : q[i] \notin Exclusive
    /\ k < Len(q) => q[k + 1] \in Exclusive

\* Admits waiters until the first that has to wait.
Pump(g) ==
  IF g.waiting = <<>> \/ ~Admits(g, Head(g.waiting)) THEN g
  ELSE IF Head(g.waiting) \in Exclusive
       THEN Enter([g EXCEPT !.waiting = Tail(@)], Head(g.waiting))
       ELSE LET k == SharedLead(g.waiting)
            IN [holders |-> g.holders + k,
                waiting |-> SubSeq(g.waiting, k + 1, Len(g.waiting)),
                inside  |-> g.inside \cup {g.waiting[i] : i \in 1..k}]

Acquire(g, x) ==
  IF g.waiting = <<>> /\ Admits(g, x) THEN Enter(g, x)
  ELSE [g EXCEPT !.waiting = Append(@, x)]

Release(g, x) ==
  Pump([g EXCEPT !.holders = IF x \in Exclusive THEN 0 ELSE @ - 1,
                 !.inside = @ \ {x}])

\* Who is waiting.
Queued(g) == {g.waiting[i] : i \in DOMAIN g.waiting}

\* The signal of a call is aborted: it leaves the queue.  Once admitted it stays.
MutGiveUp(g, x) == [g EXCEPT !.waiting = RemoveFirst(@, x)]
GiveUp(g, x) ==
  IF x \in Queued(g) THEN Pump([g EXCEPT !.waiting = RemoveFirst(@, x)]) ELSE g

-----------------------------------------------------------------------------
\* The gate by itself: any call comes, gives up or ends at any time.

GateInit == gate = Shut

Arrive(x) == x \notin gate.inside \cup Queued(gate) /\ gate' = Acquire(gate, x)
Abort(x)  == x \in Queued(gate) /\ gate' = GiveUp(gate, x)
Depart(x) == x \in gate.inside /\ gate' = Release(gate, x)

GateNext == \E x \in Callers : Arrive(x) \/ Abort(x) \/ Depart(x)

GateSpec == GateInit /\ [][GateNext]_gate

-----------------------------------------------------------------------------
\* A call of a tool that does not support parallelism has the gate alone, and the
\* counter the code keeps says who is inside.
ExclusiveRunsAlone ==
  /\ \A x \in gate.inside \cap Exclusive : gate.inside = {x}
  /\ gate.holders = -1 <=> gate.inside \cap Exclusive # {}

\* Nobody waits whom the gate would admit: whatever ended or gave up, the calls
\* behind it were let in.
NoWaiterIsStranded ==
  gate.waiting # <<>> => ~Admits(gate, Head(gate.waiting))

\* Both hold after any history of arrivals, ends and aborts, whoever uses the gate.
GateIsCorrect == ExclusiveRunsAlone /\ NoWaiterIsStranded
=============================================================================
