------------------------------- MODULE Daemon -------------------------------
(***************************************************************************)
(* The host daemon: main of host/src/main.rs with the signal handler, a    *)
(* transport (what Transport promises of it), the system network task and  *)
(* the metrics report of host/src/metrics.rs.                              *)
(***************************************************************************)
EXTENDS SystemNetwork, Naturals

CONSTANT
  MaxCount          \* bound: events the transport counts

ASSUME CountAssumption == MaxCount \in Nat

VARIABLES
  test,             \* --test
  main,             \* what main awaits: "transport", "network", "metrics";
                    \* or "exited"
  exit,             \* "none", or the exit status: "ok", "err"
  reporter,         \* the report task: "off", "ticking", "done"
  count,            \* a counter of BridgeMetrics
  atCancel,         \* history: its value when the token was cancelled
  reported          \* its value in the last report

mainVars == <<test, main, exit>>
reportVars == <<reporter, count, atCancel, reported>>
daemonVars == <<transportVars, netVars, mainVars, reportVars>>

DaemonInit ==
  /\ TransportInit
  /\ NetInit
  /\ test \in BOOLEAN
  /\ test => net = "off"
  /\ main = "transport" /\ exit = "none"
  /\ reporter = IF test THEN "off" ELSE "ticking"
  /\ count = 0 /\ atCancel = 0 /\ reported = 0

Alive == main # "exited"

-----------------------------------------------------------------------------
Signal ==
  /\ Alive
  /\ CancelDaemon
  /\ UNCHANGED <<netVars, mainVars, reportVars>>

\* In test mode run_test_mode may also return when its tests are done, and
\* there is no TAP interface.
TransportStep ==
  /\ Alive
  /\ \/ ~test /\ CreateTap
     \/ ReturnOk
     \/ ReturnErr
     \/ /\ test /\ result = "running"
        /\ result' = "ok"
        /\ UNCHANGED <<cancelled, tap>>
  /\ UNCHANGED <<netVars, mainVars, reportVars>>

\* A task of the bridge counts something.  Serial tasks are not joined, so
\* this is possible as long as the process lives.
Record ==
  /\ Alive
  /\ tap
  /\ count < MaxCount
  /\ count' = count + 1
  /\ atCancel' = IF cancelled THEN atCancel ELSE count'
  /\ UNCHANGED <<transportVars, netVars, mainVars, reporter, reported>>

NetStep ==
  /\ Alive
  /\ NetNext
  /\ UNCHANGED <<mainVars, reportVars>>

\* A report: a snapshot of the counters, logged.
Emit == reported' = count

\* A periodic report.
Tick ==
  /\ Alive
  /\ reporter = "ticking"
  /\ Emit
  /\ UNCHANGED <<transportVars, netVars, mainVars, reporter, count,
                 atCancel>>

\* The final report.
FinalReport ==
  /\ Alive
  /\ reporter = "ticking"
  /\ cancelled
  /\ Emit
  /\ reporter' = "done"
  /\ UNCHANGED <<transportVars, netVars, mainVars, count, atCancel>>

\* The transport has returned: everything else is told to stop.
AfterTransport ==
  /\ main = "transport"
  /\ result # "running"
  /\ cancelled' = TRUE
  /\ main' = "network"
  /\ UNCHANGED <<tap, result, netVars, test, exit, reportVars>>

\* Mutant of AfterNetwork: an error of the network task is only logged.
AfterNetworkLogged ==
  /\ main = "network"
  /\ net \in {"off", "ok", "err"}
  /\ main' = "metrics" /\ exit' = exit
  /\ UNCHANGED <<transportVars, netVars, test, reportVars>>

\* An error of the network task becomes the exit status, unless the transport
\* has failed too; main then returns at once.
AfterNetwork ==
  /\ main = "network"
  /\ net \in {"off", "ok", "err"}
  /\ IF net = "err" /\ result = "ok"
       THEN main' = "exited" /\ exit' = "err"
       ELSE main' = "metrics" /\ exit' = exit
  /\ UNCHANGED <<transportVars, netVars, test, reportVars>>

\* Mutant of AfterMetrics: the report task is not joined.
AfterMetricsUnjoined ==
  /\ main = "metrics"
  /\ main' = "exited" /\ exit' = result
  /\ UNCHANGED <<transportVars, netVars, test, reportVars>>

AfterMetrics ==
  /\ main = "metrics"
  /\ reporter # "ticking"
  /\ main' = "exited" /\ exit' = result
  /\ UNCHANGED <<transportVars, netVars, test, reportVars>>

DaemonNext ==
  \/ Signal \/ TransportStep \/ Record \/ NetStep \/ Tick \/ FinalReport
  \/ AfterTransport \/ AfterNetwork \/ AfterMetrics

DaemonSpec == DaemonInit /\ [][DaemonNext]_daemonVars

\* A cancelled transport returns (CancelReturns of SerialSession and of
\* NusbTransport), commands end, and ready tasks run.
FairDaemon ==
  /\ DaemonSpec
  /\ WF_daemonVars(TransportStep /\ cancelled /\ result' # "running")
  /\ WF_daemonVars(NetStep /\ net' # net)
  /\ WF_daemonVars(FinalReport)
  /\ WF_daemonVars(AfterTransport)
  /\ WF_daemonVars(AfterNetwork)
  /\ WF_daemonVars(AfterMetrics)

-----------------------------------------------------------------------------
\* The daemon does not exit before it has tried to delete the NetworkManager
\* profile it added, whichever step failed after that.  Only an add command that
\* failed and stored the profile nevertheless leaves one without an attempt to
\* delete it, and the exit status then says that something failed.
ExitCleansUp ==
  main = "exited" =>
    \/ profile \in {"none", "removed", "kept"}
    \/ profile = "stored" /\ exit = "err"

\* The exit status hides no failure of the transport or the network task.
HonestExit == exit = "ok" => result = "ok" /\ net # "err"

\* When the daemon exits, everything counted before the cancellation has been
\* reported, unless main returns an error of the network task.
ExitReportsCounters ==
  main = "exited" /\ ~test /\ ~(exit = "err" /\ net = "err")
    => reported >= atCancel

\* Cancellation, by a signal or because a part has ended, and a failure of the
\* system network end the daemon.
ShutdownCompletes == cancelled \/ net = "err" ~> main = "exited"
=============================================================================
