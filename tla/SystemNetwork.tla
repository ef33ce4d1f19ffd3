---------------------------- MODULE SystemNetwork ---------------------------
(***************************************************************************)
(* --system-network: host/src/system_network.rs, and the task around it in *)
(* host/src/main.rs.  Once the TAP interface exists, a temporary           *)
(* NetworkManager profile is added, configured and activated; it is        *)
(* deleted on cancellation or failure.  Every command may fail.            *)
(***************************************************************************)
EXTENDS Transport

VARIABLES
  net,              \* the command or wait the task is in; "off": no task;
                    \* "ok", "err": what it has returned
  profile,          \* "none"; "stored" by an add command that reported
                    \* failure; "present"; "removed"; or "kept" by a delete
                    \* command that reported failure
  outcome           \* what run returns after the deletion

netVars == <<net, profile, outcome>>

NetInit ==
  /\ net \in {"off", "wait"}
  /\ profile = "none"
  /\ outcome = "ok"

Goto(step) == net' = step /\ UNCHANGED <<cancelled, outcome>>

\* run returns; the task cancels the daemon if it failed.
NetReturn(r) ==
  /\ net' = r
  /\ cancelled' = (cancelled \/ r = "err")
  /\ UNCHANGED outcome

\* Mutant of Delete: an error is returned before the deletion.
DeleteUnlessFailed(r) ==
  /\ net' = IF r = "ok" THEN "delete" ELSE "err"
  /\ outcome' = r
  /\ UNCHANGED cancelled

\* configure_activate_and_monitor returns r, then the profile is deleted.
Delete(r) ==
  /\ net' = "delete"
  /\ outcome' = r
  /\ UNCHANGED cancelled

-----------------------------------------------------------------------------
\* Mutant of WaitForTap: the wait does not poll the token.
WaitForTapOnly ==
  /\ net = "wait"
  /\ \/ tap /\ IF cancelled THEN NetReturn("ok") ELSE Goto("status")
     \/ tap /\ NetReturn("err")
  /\ UNCHANGED <<profile, tap, result>>

\* The interface appears, the token is cancelled, or ip cannot be run.
WaitForTap ==
  /\ net = "wait"
  /\ \/ cancelled /\ NetReturn("ok")
     \/ tap /\ IF cancelled THEN NetReturn("ok") ELSE Goto("status")
     \/ NetReturn("err")
  /\ UNCHANGED <<profile, tap, result>>

Status ==
  /\ net = "status"
  /\ Goto("add") \/ NetReturn("err")
  /\ UNCHANGED <<profile, tap, result>>

\* A failing command may have added the profile: nmcli waits for the answer of
\* NetworkManager and can be interrupted meanwhile.  run then returns at once.
Add ==
  /\ net = "add"
  /\ \/ profile' = "present" /\ Goto("modify")
     \/ profile' \in {"none", "stored"} /\ NetReturn("err")
  /\ UNCHANGED <<tap, result>>

Modify ==
  /\ net = "modify"
  /\ Goto("activate") \/ Delete("err")
  /\ UNCHANGED <<profile, tap, result>>

\* The only command that cancellation interrupts.
Activate ==
  /\ net = "activate"
  /\ \/ Goto("details") \/ Delete("err")
     \/ cancelled /\ Delete("ok")
  /\ UNCHANGED <<profile, tap, result>>

Details ==
  /\ net = "details"
  /\ Goto("routes") \/ Delete("err")
  /\ UNCHANGED <<profile, tap, result>>

\* Routes are only reported.
Routes ==
  /\ net = "routes"
  /\ Goto("monitor")
  /\ UNCHANGED <<profile, tap, result>>

Monitor ==
  /\ net = "monitor"
  /\ cancelled
  /\ Delete("ok")
  /\ UNCHANGED <<profile, tap, result>>

\* A failing deletion is only logged.
DeleteProfile ==
  /\ net = "delete"
  /\ profile' \in {"removed", "kept"}
  /\ NetReturn(outcome)
  /\ UNCHANGED <<tap, result>>

NetNext ==
  \/ WaitForTap \/ Status \/ Add \/ Modify \/ Activate \/ Details \/ Routes
  \/ Monitor \/ DeleteProfile
=============================================================================
