----------------------------- MODULE MCServices -----------------------------
(***************************************************************************)
(* The components beside the thread's turns share no state; one instance   *)
(* of each is explored, side by side.                                      *)
(***************************************************************************)
EXTENDS GoalLedger, CodeMode, ServerRequests, Collab, Retry, Reconcile,
        Credentials, ModelSocket, McpConnections

VARIABLE part   \* the component that runs

servicesVars == <<part, ledgerVars, codeModeVars, requestVars, collabVars, retryVars,
                  reconcileVars, credentialVars, socketVars, mcpVars>>

Init ==
  /\ part \in {"ledger", "code mode", "requests", "children", "retry", "reads",
               "credentials", "model socket", "mcp"}
  /\ LedgerInit /\ CodeModeInit /\ RequestsInit /\ CollabInit /\ RetryInit
  /\ ReconcileInit /\ CredentialsInit /\ SocketInit /\ McpInit

Next ==
  /\ UNCHANGED part
  /\ \/ part = "ledger" /\ LedgerNext
        /\ UNCHANGED <<codeModeVars, requestVars, collabVars, retryVars, reconcileVars,
                       credentialVars, socketVars, mcpVars>>
     \/ part = "code mode" /\ CodeModeNext
        /\ UNCHANGED <<ledgerVars, requestVars, collabVars, retryVars, reconcileVars,
                       credentialVars, socketVars, mcpVars>>
     \/ part = "requests" /\ RequestsNext
        /\ UNCHANGED <<ledgerVars, codeModeVars, collabVars, retryVars, reconcileVars,
                       credentialVars, socketVars, mcpVars>>
     \/ part = "children" /\ CollabNext
        /\ UNCHANGED <<ledgerVars, codeModeVars, requestVars, retryVars, reconcileVars,
                       credentialVars, socketVars, mcpVars>>
     \/ part = "retry" /\ RetryNext
        /\ UNCHANGED <<ledgerVars, codeModeVars, requestVars, collabVars, reconcileVars,
                       credentialVars, socketVars, mcpVars>>
     \/ part = "reads" /\ ReconcileNext
        /\ UNCHANGED <<ledgerVars, codeModeVars, requestVars, collabVars, retryVars,
                       credentialVars, socketVars, mcpVars>>
     \/ part = "credentials" /\ CredentialsNext
        /\ UNCHANGED <<ledgerVars, codeModeVars, requestVars, collabVars, retryVars,
                       reconcileVars, socketVars, mcpVars>>
     \/ part = "model socket" /\ SocketNext
        /\ UNCHANGED <<ledgerVars, codeModeVars, requestVars, collabVars, retryVars,
                       reconcileVars, credentialVars, mcpVars>>
     \/ part = "mcp" /\ McpNext
        /\ UNCHANGED <<ledgerVars, codeModeVars, requestVars, collabVars, retryVars,
                       reconcileVars, credentialVars, socketVars>>

Spec == Init /\ [][Next]_servicesVars

\* The types of every component's state; what does not run stays as it began.
ServicesTypeOK ==
  /\ part = "ledger" => LedgerTypeOK
  /\ part = "code mode" => CodeModeTypeOK
  /\ part = "requests" => RequestsTypeOK
  /\ part = "children" => CollabTypeOK
  /\ part = "retry" => RetryTypeOK
  /\ part = "reads" => ReconcileTypeOK
  /\ part = "credentials" => CredentialsTypeOK
  /\ part = "model socket" => SocketTypeOK
  /\ part = "mcp" => McpTypeOK
=============================================================================
