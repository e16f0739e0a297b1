--------------------------- MODULE McpConnections ---------------------------
(***************************************************************************)
(* The connection to a server of the Model Context Protocol                *)
(* (McpConnectionManager in runtime/src/tools/mcp/client.ts).  Every       *)
(* factory of an agent and a list of servers that is not known yet sync    *)
(* the connections with the configuration they were given; sign-in and     *)
(* sign-out of a client replace or drop one (app-server/mcp-handlers.ts).  *)
(* Nothing keeps these from running at once, save that two syncs that want *)
(* the same connection share an attempt to open it.                        *)
(*                                                                         *)
(* One server is looked at; the others are there in what a sync awaits for *)
(* their sake.  A configuration stands for its signature.                  *)
(***************************************************************************)
EXTENDS Naturals

CONSTANTS Operations,  \* syncs, sign-ins and sign-outs in progress at once
          Configs,
          MaxConnections, \* bound: clients that are ever made
          MaxChanges,  \* bound: of the configuration
          Absent       \* the configuration does not have the server, or disables it

Connections == 1..MaxConnections
Wanted == Configs \cup {Absent}

ASSUME McpConstants == {MaxConnections, MaxChanges} \subseteq Nat /\ Absent \notin Configs

VARIABLES
  configured, changes,  \* the configuration, and how often it changed
  connection, \* connections.get(name), or 0
  client,     \* of every Client made: its configuration, and the state of it
  made,       \* how many were
  attempts,   \* pending: of a configuration, the client that is being connected, or 0
  operation,  \* what each does, where it is, the configuration it has, and its client: a
              \* sign-in's own, or the one a sync will close
  lastStatus, \* "unknown", "connected", "error" (or needs_auth)
  crossed,    \* history: operations that want different things overlapped
  behind,     \* history: a sync closed another connection than the one it had seen
  served      \* history: syncs connected to what is configured, since it was changed or the
              \* user signed in or out, not yet ("no"), "once", or "again"

histories == <<crossed, behind, served>>
mcpVars == <<configured, changes, connection, client, made, attempts, operation, lastStatus,
             histories>>

NoClient == [config |-> Absent, state |-> "none"]
NoOperation == [kind |-> "none", stage |-> "none", config |-> Absent, client |-> 0]

InProgress(o) == operation[o].kind # "none"
With(o, kind, stage, config, id) ==
  operation' = [operation EXCEPT ![o] = [kind |-> kind, stage |-> stage, config |-> config,
                                         client |-> id]]
Done(o) == operation' = [operation EXCEPT ![o] = NoOperation]

Make(config) ==
  /\ made < MaxConnections /\ made' = made + 1
  /\ client' = [client EXCEPT ![made + 1] = [config |-> config, state |-> "opening"]]
Becomes(id, state) == client' = [client EXCEPT ![id].state = state]

-----------------------------------------------------------------------------
\* sync()

\* connectDeduped(), once what was connected otherwise is closed.
Shared(config) == attempts[config] # 0

ConnectShared(o, config) ==
  \/ /\ config = Absent /\ Done(o)   \* what was closed is forgotten
     /\ lastStatus' = IF operation[o].stage \in {"later", "closing"} THEN "unknown"
                      ELSE lastStatus
     /\ UNCHANGED <<client, made, attempts>>
  \/ /\ config # Absent /\ connection # 0 /\ Done(o)
     /\ lastStatus' = "connected" /\ UNCHANGED <<client, made, attempts>>
  \/ /\ config # Absent /\ connection = 0 /\ With(o, "sync", "connecting", config, 0)
     /\ \/ Shared(config) /\ UNCHANGED <<client, made, attempts>>
        \/ /\ ~Shared(config)
           /\ Make(config) /\ attempts' = [attempts EXCEPT ![config] = made + 1]
     /\ UNCHANGED lastStatus

MutAsConfigured(config) == connection = 0
AsConfigured(config) ==
  connection \in {0} \cup {id \in Connections : client[id].config = config}

\* disposeConnection(): the entry goes at once, and the closing is awaited.
Dispose == connection' = 0 /\ Becomes(connection, "closed")

Crosses(kind, config) ==
  \E o \in Operations :
    /\ InProgress(o)
    /\ operation[o].config # config \/ {operation[o].kind, kind} # {"sync"}

\* The entries of all servers are copied, and those that are not as configured closed, one
\* after the other: other servers' may be closed before this one's is ("later"), or only
\* others' ("awaiting").
BeginSync(o) ==
  /\ ~InProgress(o) /\ crossed' = (crossed \/ Crosses("sync", configured))
  /\ \/ AsConfigured(configured) /\ ConnectShared(o, configured) /\ UNCHANGED connection
     \/ /\ ~AsConfigured(configured) /\ Dispose /\ With(o, "sync", "closing", configured, 0)
        /\ UNCHANGED <<made, attempts, lastStatus>>
     \/ /\ \/ AsConfigured(configured) /\ With(o, "sync", "awaiting", configured, 0)
           \/ ~AsConfigured(configured) /\ With(o, "sync", "later", configured, connection)
        /\ UNCHANGED <<connection, client, made, attempts, lastStatus>>
  /\ UNCHANGED <<configured, changes, behind, served>>

\* What was copied differed: what is connected now is closed, whatever it is.
CloseLater(o) ==
  /\ operation[o].stage = "later"
  /\ behind' = (behind \/ connection \notin {0, operation[o].client})
  /\ IF connection = 0
     THEN ConnectShared(o, operation[o].config) /\ UNCHANGED connection
     ELSE /\ Dispose /\ With(o, "sync", "closing", operation[o].config, 0)
          /\ UNCHANGED <<made, attempts, lastStatus>>
  /\ UNCHANGED <<configured, changes, crossed, served>>

GoOn(o) ==
  /\ operation[o].kind = "sync" /\ operation[o].stage \in {"awaiting", "closing"}
  /\ ConnectShared(o, operation[o].config)
  /\ UNCHANGED <<configured, changes, connection, histories>>

-----------------------------------------------------------------------------
\* connect()

\* All that wait for an attempt hear of its end in a row.
EndAttempt(config) ==
  /\ attempts[config] # 0 /\ attempts' = [attempts EXCEPT ![config] = 0]
  /\ operation' = [o \in Operations |->
                    IF operation[o].stage = "connecting" /\ operation[o].config = config
                    THEN NoOperation ELSE operation[o]]
  /\ UNCHANGED <<configured, changes, made, crossed, behind>>

\* openConnection(); the entry is overwritten, whatever it is by now.
Opened(config) ==
  /\ EndAttempt(config) /\ client[attempts[config]].state \in {"opening", "retrying"}
  /\ Becomes(attempts[config], "open")
  /\ connection' = attempts[config] /\ lastStatus' = "connected"
  /\ served' = IF config # configured THEN served ELSE IF served = "no" THEN "once" ELSE "again"

\* What connects and then does not list its tools in time is closed; if it answers with an
\* error, it is left alone.
OpenFails(config) ==
  /\ EndAttempt(config)
  /\ \/ Becomes(attempts[config], "closed") \/ Becomes(attempts[config], "left")
  /\ lastStatus' = "error" /\ UNCHANGED <<connection, served>>

\* The server refuses the tokens: they are refreshed, once, and another client tries; what
\* becomes of the first is as when it fails.
Refuse(config) ==
  /\ attempts[config] # 0 /\ client[attempts[config]].state = "opening"
  /\ Becomes(attempts[config], "refused")
  /\ UNCHANGED <<configured, changes, connection, made, attempts, operation, lastStatus, histories>>

OpenAgain(config) ==
  /\ attempts[config] # 0 /\ client[attempts[config]].state = "refused"
  /\ made < MaxConnections /\ made' = made + 1
  /\ \E state \in {"closed", "left"} :
       client' = [client EXCEPT ![attempts[config]].state = state,
                                ![made + 1] = [config |-> config, state |-> "retrying"]]
  /\ attempts' = [attempts EXCEPT ![config] = made + 1]
  /\ UNCHANGED <<configured, changes, connection, operation, lastStatus, histories>>

-----------------------------------------------------------------------------
\* login() and logout()

BeginOther(o, kind) ==
  /\ ~InProgress(o) /\ (kind = "login" => configured # Absent)
  /\ crossed' = (crossed \/ Crosses(kind, configured))
  /\ With(o, kind, "closing", configured, 0)
  /\ IF connection = 0 THEN UNCHANGED <<connection, client>> ELSE Dispose
  /\ served' = "no"
  /\ UNCHANGED <<configured, changes, made, attempts, lastStatus, behind>>

\* The user signs in, in the browser, while the client waits.
AskUser(o) ==
  /\ operation[o].kind = "login" /\ operation[o].stage = "closing"
  /\ Make(operation[o].config)
  /\ With(o, "login", "asking", operation[o].config, made + 1)
  /\ UNCHANGED <<configured, changes, connection, attempts, lastStatus, histories>>

LoggedIn(o) ==
  /\ operation[o].stage = "asking" /\ Done(o)
  /\ Becomes(operation[o].client, "open")
  /\ connection' = operation[o].client /\ lastStatus' = "connected"
  /\ UNCHANGED <<configured, changes, made, attempts, histories>>

\* The old connection is not restored.
LoginFails(o) ==
  /\ operation[o].stage = "asking" /\ Done(o)
  /\ Becomes(operation[o].client, "closed") /\ lastStatus' = "error"
  /\ UNCHANGED <<configured, changes, connection, made, attempts, histories>>

LoggedOut(o) ==
  /\ operation[o].kind = "logout" /\ Done(o)
  /\ lastStatus' = IF operation[o].config = Absent THEN "unknown" ELSE "error"
  /\ UNCHANGED <<configured, changes, connection, client, made, attempts, histories>>

-----------------------------------------------------------------------------
Configure(config) ==
  /\ changes < MaxChanges /\ config # configured
  /\ configured' = config /\ changes' = changes + 1 /\ served' = "no"
  /\ UNCHANGED <<connection, client, made, attempts, operation, lastStatus, crossed, behind>>

\* A server that ends by itself is not noticed: its connection stays.
ServerEnds ==
  /\ connection # 0 /\ client[connection].state = "open" /\ Becomes(connection, "dead")
  /\ UNCHANGED <<configured, changes, connection, made, attempts, operation, lastStatus, histories>>

McpInit ==
  /\ configured = Absent /\ changes = 0
  /\ connection = 0 /\ client = [id \in Connections |-> NoClient] /\ made = 0
  /\ attempts = [c \in Configs |-> 0] /\ operation = [o \in Operations |-> NoOperation]
  /\ lastStatus = "unknown" /\ crossed = FALSE /\ behind = FALSE /\ served = "no"

McpNext ==
  \/ \E o \in Operations :
       \/ BeginSync(o) \/ CloseLater(o) \/ GoOn(o)
       \/ \E kind \in {"login", "logout"} : BeginOther(o, kind)
       \/ AskUser(o) \/ LoggedIn(o) \/ LoginFails(o) \/ LoggedOut(o)
  \/ \E config \in Configs :
       Opened(config) \/ OpenFails(config) \/ Refuse(config) \/ OpenAgain(config)
  \/ \E config \in Wanted : Configure(config)
  \/ ServerEnds

McpSpec == McpInit /\ [][McpNext]_mcpVars

-----------------------------------------------------------------------------
ClientStates == {"none", "opening", "refused", "retrying", "open", "closed", "left", "dead"}

\* The types of the manager's state and of the operations on it.
McpTypeOK ==
  /\ configured \in Wanted /\ changes \in 0..MaxChanges /\ made \in 0..MaxConnections
  /\ connection \in {0} \cup Connections /\ attempts \in [Configs -> {0} \cup Connections]
  /\ client \in [Connections -> [config : Wanted, state : ClientStates]]
  /\ operation \in [Operations -> [kind : {"none", "sync", "login", "logout"},
                                   stage : {"none", "awaiting", "later", "closing",
                                            "connecting", "asking"},
                                   config : Wanted, client : {0} \cup Connections]]
  /\ lastStatus \in {"unknown", "connected", "error"}
  /\ crossed \in BOOLEAN /\ behind \in BOOLEAN /\ served \in {"no", "once", "again"}

\* What is connected is what the manager did not close, whatever overlaps.
NotClosed == connection # 0 => client[connection].state \in {"open", "dead"}

Quiet == \A o \in Operations : ~InProgress(o)
Trying(id) == client[id].state \in {"opening", "refused", "retrying"}

\* As long as what runs at once wants the same, syncs that coincide share one connection:
\* no other client is open, but one whose listing of its tools was answered with an error;
\* nor is another being opened; and when nothing runs, the status that is listed is that of
\* the connection.
OneConnection ==
  ~crossed =>
    /\ \A id \in Connections :
         client[id].state = "open" => id = connection
    /\ \A i, j \in Connections : Trying(i) /\ Trying(j) => i = j
    /\ Quiet => (lastStatus = "connected") = (connection # 0)

\* Connections are reused across turns, and re-established only when the configuration
\* changed or the user signed in or out (docs/guide/mcp-servers.md): there is one way that
\* syncs which want the same open a second, that one closes what another has connected since
\* it looked, while it awaited the closing of other servers' connections.
Reused == ~crossed /\ ~behind => served # "again"

ConnectionsAreKept == NotClosed /\ OneConnection /\ Reused
=============================================================================
