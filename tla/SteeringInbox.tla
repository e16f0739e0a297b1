---- MODULE SteeringInbox ----
(***************************************************************************)
(* What an agent's queue of steering messages promises its senders.        *)
(* Messages get increasing ids; the model reads the whole queue at once, in*)
(* order; a message that was not read can be withdrawn; the queue may be   *)
(* discarded as a whole.  A message that left the queue never returns.     *)
(***************************************************************************)
EXTENDS Integers, Sequences

VARIABLES pending, read, nextId
vars == <<pending, read, nextId>>

Init == pending = <<>> /\ read = <<>> /\ nextId = 0

Accept ==
  /\ nextId' = nextId + 1
  /\ pending' = Append(pending, nextId')
  /\ UNCHANGED read

Withdraw ==
  /\ \E k \in 1..Len(pending) :
       pending' = SubSeq(pending, 1, k - 1)
                  \o SubSeq(pending, k + 1, Len(pending))
  /\ UNCHANGED <<read, nextId>>

Read ==
  /\ read' = read \o pending
  /\ pending' = <<>>
  /\ UNCHANGED nextId

Discard ==
  /\ pending' = <<>>
  /\ UNCHANGED <<read, nextId>>

Next == Accept \/ Withdraw \/ Read \/ Discard

Spec == Init /\ [][Next]_vars

Increasing(s) == \A i, j \in 1..Len(s) : i < j => s[i] < s[j]

\* Everything read and queued was issued, each message once and in the order
\* the senders were given their ids: no message is read twice or out of order.
InOrder ==
  /\ Increasing(read \o pending)
  /\ \A i \in 1..Len(read \o pending) : (read \o pending)[i] \in 1..nextId
====
