---- MODULE ServicesProofs ----
(***************************************************************************)
(* The services beside the thread's turns run side by side.  Each of them  *)
(* sees its own steps and stutters on those of the others, so that what is *)
(* proved of it alone holds of all of them together.                       *)
(***************************************************************************)
EXTENDS MCServices, GoalLedgerProofs, LocalProofs, RemoteProofs, TLAPS

-----------------------------------------------------------------------------
(* Side by side *)

LEMMA AllBegin ==
  Init => /\ LedgerInit /\ CodeModeInit /\ RequestsInit /\ CollabInit /\ RetryInit
          /\ ReconcileInit /\ CredentialsInit /\ SocketInit /\ McpInit
BY Zenon DEF Init

\* A step is one of a part, and of every other part it is a stutter.
LEMMA StepsOfParts ==
  [Next]_servicesVars =>
    /\ [LedgerNext]_ledgerVars /\ [CodeModeNext]_codeModeVars /\ [RequestsNext]_requestVars
    /\ [CollabNext]_collabVars /\ [RetryNext]_retryVars /\ [ReconcileNext]_reconcileVars
    /\ [CredentialsNext]_credentialVars /\ [SocketNext]_socketVars /\ [McpNext]_mcpVars
<1>. SUFFICES ASSUME [Next]_servicesVars
     PROVE  /\ [LedgerNext]_ledgerVars /\ [CodeModeNext]_codeModeVars
            /\ [RequestsNext]_requestVars /\ [CollabNext]_collabVars /\ [RetryNext]_retryVars
            /\ [ReconcileNext]_reconcileVars /\ [CredentialsNext]_credentialVars
            /\ [SocketNext]_socketVars /\ [McpNext]_mcpVars
  OBVIOUS
<1>1. CASE UNCHANGED servicesVars
  BY <1>1, Zenon DEF servicesVars
<1>2. CASE Next
  BY <1>2, Zenon DEF Next
<1>. QED
  BY <1>1, <1>2

\* The services together behave as each of them does alone: the composition implements
\* every part of it.
THEOREM PartsRunAlone ==
  Spec => /\ LedgerSpec /\ CodeModeSpec /\ RequestsSpec /\ CollabSpec /\ RetrySpec
          /\ ReconcileSpec /\ CredentialsSpec /\ SocketSpec /\ McpSpec
BY AllBegin, StepsOfParts, PTL
   DEF Spec, LedgerSpec, CodeModeSpec, RequestsSpec, CollabSpec, RetrySpec, ReconcileSpec,
       CredentialsSpec, SocketSpec, McpSpec

\* The types of every service's state, at every step, whichever of them runs.
THEOREM ServicesTyped == Spec => []ServicesTypeOK
<1>1. /\ LedgerTypeOK /\ CodeModeTypeOK /\ RequestsTypeOK /\ CollabTypeOK /\ RetryTypeOK
      /\ ReconcileTypeOK /\ CredentialsTypeOK /\ SocketTypeOK /\ McpTypeOK
      => ServicesTypeOK
  BY Zenon DEF ServicesTypeOK
<1>. QED
  BY <1>1, PartsRunAlone, LedgerTyped, CodeModeTyped, RequestsTyped, CollabTyped, RetryTyped,
     ReconcileTyped, CredentialsTyped, SocketTyped, McpTyped, PTL

\* What each service promises the rest of the runtime, it keeps beside the others.
THEOREM PromisesAreKept ==
  Spec => /\ []GoalIsAsSaved /\ []AcknowledgedSurvives
          /\ []GateIsCorrect /\ []QuietAfterTheRun /\ []RecordsReachTheModel
          /\ []PendingHasResponder /\ []ClientsAreTold /\ []OnePromptAtATime
          /\ []ChildrenAreAccounted /\ []RepliesAreWhole /\ ReadsReconcile
          /\ []SignInIsKept /\ []ModelIsAsked /\ []ConnectionsAreKept
BY PartsRunAlone, WhatIsSavedIsTheGoal, SavedChangesSurvive, ScriptsShareTheGate,
   RunsEndQuietly, RecordsAreTold, RequestsHaveResponders, EveryClientIsTold,
   PromptsComeOneByOne, ChildrenAccounted, RepliesHoldOneAttempt, ReadsAreSafe,
   SignInsAreKept, ModelReadsTheInput, ConnectionsKept, PTL
=============================================================================
