--------------------------- MODULE ServerRequests ---------------------------
(***************************************************************************)
(* Requests the app server makes to its clients, for one thread            *)
(* (app-server/server-requests.ts, keyed-serializer.ts and server.ts):     *)
(* approvals, which time out unless a goal owns the work, and prompts for  *)
(* user input, which are shown one at a time and never time out.  Every    *)
(* connection is asked; the first answer, a timeout, the abort of the      *)
(* caller or the loss of the last connection settles a request.            *)
(***************************************************************************)
EXTENDS Naturals, FiniteSets, Sequences

CONSTANTS Clients, Approvals, Prompts,
          MaxFailedSends   \* bound: connections that fail while they are told

ASSUME RequestConstants == Approvals \cap Prompts = {} /\ MaxFailedSends \in Nat

VARIABLES
  connected, subscribed,   \* connections, and those subscribed to the thread
  open,        \* the requests each client shows
  request,     \* "none", "queued", "pending", "announcing", "stranded" or "done"
  durable,     \* no timeout: kept when its last connection is lost
  sentTo,
  toTell,      \* connections an answer is still to be announced to, one by one
  cancelled,   \* prompts whose caller was aborted while they were queued
  prompts,     \* the serializer: prompts in the order they were asked
  answered,    \* settled by an answer
  failedSends

requestVars == <<connected, subscribed, open, request, durable, sentTo, toTell,
                 cancelled, prompts, answered, failedSends>>

Asked == Approvals \cup Prompts
Pending == {r \in Asked : request[r] = "pending"}

\* SERVER_REQUEST_RESOLVED to these clients.
Tell(r, S) == open' = [c \in Clients |-> IF c \in S THEN open[c] \ {r} ELSE open[c]]

\* The request is over for its caller; the next prompt may begin (a prompt that is over
\* was the first).
Over(r) ==
  /\ request' = [request EXCEPT ![r] = "done"]
  /\ prompts' = IF r \in Prompts THEN Tail(prompts) ELSE prompts

-----------------------------------------------------------------------------
\* Connections.

Connect(c) ==
  /\ c \notin connected /\ connected' = connected \cup {c}
  /\ UNCHANGED <<subscribed, open, request, durable, sentTo, toTell, cancelled, prompts,
                 answered, failedSends>>

\* Durable requests the connection has not been sent are delivered again.
MutRedelivered(c) == {}
Redelivered(c) == {r \in Pending : durable[r] /\ c \notin sentTo[r]}
Subscribe(c) ==
  /\ c \in connected \ subscribed /\ subscribed' = subscribed \cup {c}
  /\ open' = [open EXCEPT ![c] = @ \cup Redelivered(c)]
  /\ sentTo' = [r \in Asked |-> IF r \in Redelivered(c) THEN sentTo[r] \cup {c} ELSE sentTo[r]]
  /\ UNCHANGED <<connected, request, durable, toTell, cancelled, prompts, answered, failedSends>>

Unsubscribe(c) ==
  /\ c \in subscribed /\ subscribed' = subscribed \ {c}
  /\ UNCHANGED <<connected, open, request, durable, sentTo, toTell, cancelled, prompts,
                 answered, failedSends>>

\* Requests that have lost their last responder are settled without an answer,
\* unless they are durable.
Abandoned(c) == {r \in Pending : sentTo[r] = {c} /\ ~durable[r]}
Disconnect(c) ==
  /\ c \in connected
  /\ connected' = connected \ {c} /\ subscribed' = subscribed \ {c}
  /\ open' = [open EXCEPT ![c] = {}]
  /\ sentTo' = [r \in Asked |-> sentTo[r] \ {c}]
  /\ toTell' = [r \in Asked |-> toTell[r] \ {c}]
  /\ request' = [r \in Asked |-> IF r \in Abandoned(c) THEN "done" ELSE request[r]]
  /\ UNCHANGED <<durable, cancelled, prompts, answered, failedSends>>

-----------------------------------------------------------------------------
\* Requests.

\* broadcastServerRequest: without a connection there is nobody to ask, unless a
\* goal owns the work and waits for one.
Broadcast(r, waits, lasting) ==
  /\ answered' = answered \ {r}
  /\ IF connected = {} /\ ~waits
     THEN Over(r) /\ UNCHANGED <<open, durable, sentTo>>
     ELSE /\ request' = [request EXCEPT ![r] = "pending"]
          /\ durable' = [durable EXCEPT ![r] = lasting]
          /\ sentTo' = [sentTo EXCEPT ![r] = connected]
          /\ open' = [c \in Clients |-> IF c \in connected THEN open[c] \cup {r} ELSE open[c]]
          /\ UNCHANGED prompts

AskApproval(r, goalOwned) ==
  /\ request[r] \in {"none", "done"}
  /\ Broadcast(r, goalOwned, goalOwned)
  /\ UNCHANGED <<connected, subscribed, toTell, cancelled, failedSends>>

AskInput(r) ==
  /\ request[r] \in {"none", "done"}
  /\ request' = [request EXCEPT ![r] = "queued"] /\ prompts' = Append(prompts, r)
  /\ answered' = answered \ {r}
  /\ UNCHANGED <<connected, subscribed, open, durable, sentTo, toTell, cancelled, failedSends>>

\* The serializer starts the next prompt when the one before it has settled.
MutNextPrompt(r) == request[r] = "queued"
NextPrompt(r) == request[r] = "queued" /\ r = Head(prompts)
StartPrompt(r, goalOwned) ==
  /\ NextPrompt(r)
  /\ cancelled' = cancelled \ {r}
  /\ IF r \in cancelled
     THEN Over(r) /\ UNCHANGED <<open, durable, sentTo, answered>>
     ELSE Broadcast(r, goalOwned, TRUE)
  /\ UNCHANGED <<connected, subscribed, toTell, failedSends>>

\* An answer of a connection that was asked: the request leaves the table, and is
\* settled after every connection has been told.
Answer(r, c) ==
  /\ request[r] = "pending" /\ c \in sentTo[r]
  /\ request' = [request EXCEPT ![r] = "announcing"]
  /\ toTell' = [toTell EXCEPT ![r] = sentTo[r]]
  /\ UNCHANGED <<connected, subscribed, open, durable, sentTo, cancelled, prompts, answered,
                 failedSends>>

Announce(r, c) ==
  /\ request[r] = "announcing" /\ c \in toTell[r]
  /\ Tell(r, {c}) /\ toTell' = [toTell EXCEPT ![r] = @ \ {c}]
  /\ UNCHANGED <<connected, subscribed, request, durable, sentTo, cancelled, prompts,
                 answered, failedSends>>

\* send() rejects or never returns: nothing settles the request any more.
SendFails(r) ==
  /\ request[r] = "announcing" /\ toTell[r] # {} /\ failedSends < MaxFailedSends
  /\ failedSends' = failedSends + 1
  /\ request' = [request EXCEPT ![r] = "stranded"] /\ toTell' = [toTell EXCEPT ![r] = {}]
  /\ UNCHANGED <<connected, subscribed, open, durable, sentTo, cancelled, prompts, answered>>

MutAllTold(r) == request[r] = "announcing"
AllTold(r) == request[r] = "announcing" /\ toTell[r] = {}
Answered(r) ==
  /\ AllTold(r) /\ Over(r) /\ answered' = answered \cup {r}
  /\ UNCHANGED <<connected, subscribed, open, durable, sentTo, toTell, cancelled, failedSends>>

TimeOut(r) ==
  /\ request[r] = "pending" /\ ~durable[r]
  /\ Over(r) /\ Tell(r, sentTo[r])
  /\ UNCHANGED <<connected, subscribed, durable, sentTo, toTell, cancelled, answered, failedSends>>

\* The caller is aborted: the clients are told at once, and a loop that was telling
\* them goes on without effect.  A queued prompt finds out when its turn comes.
Cancel(r) ==
  /\ \/ /\ request[r] \in {"pending", "announcing", "stranded"}
        /\ Over(r) /\ Tell(r, sentTo[r]) /\ toTell' = [toTell EXCEPT ![r] = {}]
        /\ UNCHANGED cancelled
     \/ /\ request[r] = "queued" /\ cancelled' = cancelled \cup {r}
        /\ UNCHANGED <<request, prompts, open, toTell>>
  /\ UNCHANGED <<connected, subscribed, durable, sentTo, answered, failedSends>>

RequestsInit ==
  /\ connected = {} /\ subscribed = {} /\ open = [c \in Clients |-> {}]
  /\ request = [r \in Asked |-> "none"] /\ durable = [r \in Asked |-> FALSE]
  /\ sentTo = [r \in Asked |-> {}] /\ toTell = [r \in Asked |-> {}]
  /\ cancelled = {} /\ prompts = <<>> /\ answered = {} /\ failedSends = 0

RequestsNext ==
  \/ \E c \in Clients : Connect(c) \/ Subscribe(c) \/ Unsubscribe(c) \/ Disconnect(c)
  \/ \E r \in Approvals, goalOwned \in BOOLEAN : AskApproval(r, goalOwned)
  \/ \E r \in Prompts : AskInput(r) \/ \E goalOwned \in BOOLEAN : StartPrompt(r, goalOwned)
  \/ \E r \in Asked :
       \/ SendFails(r) \/ Answered(r) \/ TimeOut(r) \/ Cancel(r)
       \/ \E c \in Clients : Answer(r, c) \/ Announce(r, c)

RequestsSpec == RequestsInit /\ [][RequestsNext]_requestVars

-----------------------------------------------------------------------------
\* The types of connections and requests.
RequestsTypeOK ==
  /\ connected \subseteq Clients /\ subscribed \subseteq connected
  /\ open \in [Clients -> SUBSET Asked]
  /\ request \in [Asked -> {"none", "queued", "pending", "announcing", "stranded", "done"}]
  /\ durable \in [Asked -> BOOLEAN]
  /\ sentTo \in [Asked -> SUBSET connected] /\ toTell \in [Asked -> SUBSET connected]
  /\ cancelled \subseteq Prompts /\ prompts \in Seq(Prompts)
  /\ answered \subseteq Asked /\ failedSends \in Nat

\* A request that waits has somebody to answer it: a connection that was asked and
\* is still there, or, if it has no timeout, every connection subscribed to its
\* thread, now or when one comes back.
PendingHasResponder ==
  \A r \in Pending : IF durable[r] THEN subscribed \subseteq sentTo[r] ELSE sentTo[r] # {}

\* No client shows a request that is settled: whoever was asked, and however the
\* answer, the timeout, the abort and disconnects raced, has been told.
ClientsAreTold ==
  \A c \in connected, r \in Asked :
    r \in open[c] => request[r] \in {"pending", "announcing", "stranded"} /\ c \in sentTo[r]

\* A client shows one prompt at a time: the next is sent after it was told that the
\* last one is over.
OnePromptAtATime == \A c \in Clients : Cardinality(open[c] \cap Prompts) <= 1
=============================================================================
