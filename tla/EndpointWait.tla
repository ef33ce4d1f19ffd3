---------------------------- MODULE EndpointWait ----------------------------
(***************************************************************************)
(* await_endpoint_response of host/src/bridge.rs: how the host waits for   *)
(* the answer to one request.  The primary request is awaited alone until  *)
(* the stall timer fires; then one backup of the same transaction is sent  *)
(* and both response sockets are awaited.  The first success wins; a       *)
(* first failure is discarded and the other socket is awaited alone.       *)
(*                                                                         *)
(* The module holds the control state of one call and the steps it can     *)
(* take.  The modules that extend it say where the requests go and what    *)
(* the caller does with the result of the call.                            *)
(***************************************************************************)
EXTENDS Naturals

CONSTANT
  RecoveryEnabled   \* recovery_timeout is Some(5 s): serial; None: NUSB

ASSUME RecoveryAssumption == RecoveryEnabled \in BOOLEAN

VARIABLE
  phase             \* where in the function the caller is suspended

Sources == {"primary", "backup"}

Other(s) == IF s = "primary" THEN "backup" ELSE "primary"

Phases == {"idle", "primary", "both", "onlyPrimary", "onlyBackup"}

Only(s) == IF s = "primary" THEN "onlyPrimary" ELSE "onlyBackup"

\* The response futures the select of the current phase polls.
Awaited ==
  {s \in Sources :
     \/ phase \in {"both", Only(s)}
     \/ phase = "primary" /\ s = "primary"}

\* Fields of the EndpointWaitResult that a completion in this phase carries.
BackupSent == phase # "primary"

DiscardedErrors == IF phase \in {"onlyPrimary", "onlyBackup"} THEN 1 ELSE 0

-----------------------------------------------------------------------------
Start ==
  /\ phase = "idle"
  /\ phase' = "primary"

\* The stall threshold passes without an answer: the backup is sent.
StallTimer ==
  /\ phase = "primary"
  /\ phase' = "both"

\* Mutant of FirstFailure: the call goes on with the request that failed.
FirstFailureKeepsFailed(s) ==
  /\ phase = "both"
  /\ s \in Sources
  /\ phase' = Only(s)

\* One of two awaited requests fails: its error is dropped and the call goes
\* on with the other one.
FirstFailure(s) ==
  /\ phase = "both"
  /\ s \in Sources
  /\ phase' = Only(Other(s))

\* Mutant of Complete: an error of either request ends the call.
CompleteOnFirstError(s, ok) ==
  /\ s \in Awaited
  /\ phase' = "idle"

\* The call returns Completed with what future s yielded.
Complete(s, ok) ==
  /\ s \in Awaited
  /\ phase = "both" => ok
  /\ phase' = "idle"

\* Mutant of Recover: the deadline is polled only while both are awaited.
RecoverWhileBoth ==
  /\ RecoveryEnabled
  /\ phase = "both"
  /\ phase' = "idle"

\* The recovery deadline passes: the call returns RecoveryRequired.
Recover ==
  /\ RecoveryEnabled
  /\ phase # "idle"
  /\ phase' = "idle"

\* Mutant of Cancel: the token is polled only after the stall timer.
CancelAfterStall ==
  /\ phase \notin {"idle", "primary"}
  /\ phase' = "idle"

\* The cancellation token is seen: the call returns Cancelled.
Cancel ==
  /\ phase # "idle"
  /\ phase' = "idle"
=============================================================================
