------------------------------ MODULE Transport -----------------------------
(***************************************************************************)
(* What main (host/src/main.rs) relies on when it awaits the run function  *)
(* of a transport: it creates the TAP interface at most once, keeps it,    *)
(* and returns once; it returns Ok only if it has been cancelled.  It may  *)
(* fail at any time.                                                       *)
(*                                                                         *)
(* SerialSession and NusbTransport implement this specification, Daemon    *)
(* builds on it.                                                           *)
(***************************************************************************)
VARIABLES
  cancelled,        \* the daemon's cancellation token
  tap,              \* the TAP interface exists
  result            \* "running", or what run has returned: "ok", "err"

transportVars == <<cancelled, tap, result>>

TransportInit ==
  /\ cancelled = FALSE
  /\ tap = FALSE
  /\ result = "running"

CancelDaemon ==
  /\ ~cancelled
  /\ cancelled' = TRUE
  /\ UNCHANGED <<tap, result>>

CreateTap ==
  /\ result = "running"
  /\ ~tap
  /\ tap' = TRUE
  /\ UNCHANGED <<cancelled, result>>

ReturnOk ==
  /\ result = "running"
  /\ cancelled
  /\ result' = "ok"
  /\ UNCHANGED <<cancelled, tap>>

ReturnErr ==
  /\ result = "running"
  /\ result' = "err"
  /\ UNCHANGED <<cancelled, tap>>

TransportNext == CancelDaemon \/ CreateTap \/ ReturnOk \/ ReturnErr

TransportSpec == TransportInit /\ [][TransportNext]_transportVars
=============================================================================
