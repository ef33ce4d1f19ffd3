--------------------------- MODULE FirmwareRestart --------------------------
(***************************************************************************)
(* WifiExchange with a firmware that may restart (power loss, reset, a     *)
(* panic) while the host and its session go on.  What main and the server  *)
(* tasks of the firmware hold in memory starts afresh: the endpoint        *)
(* queues, last_completed, cached_response, the channels of the bridge.    *)
(***************************************************************************)
EXTENDS WifiExchange, FiniteSets

CONSTANTS
  MaxRestarts,      \* bound
  MaxFrames         \* bound: frames of both directions together

ASSUME RestartAssumption == MaxRestarts \in Nat /\ MaxFrames \in Nat

VARIABLE
  restarts

rvars == <<vars, restarts>>

\* OUTQ goes, and with it the responses the host has not received yet; so do
\* the requests the device had received or was receiving.
Restart ==
  /\ restarts < MaxRestarts
  /\ restarts' = restarts + 1
  /\ \E k \in 0..Len(down) : down' = SubSeq(down, 1, k)
  /\ \E k \in 0..Len(up) : up' = SubSeq(up, k + 1, Len(up))
  /\ tx_queue' = <<>> /\ tx_server' = "recv" /\ tx_request' = NoRequest
  /\ last_completed' = NoTransaction
  /\ rx_queue' = <<>> /\ rx_server' = "recv" /\ rx_request' = NoTransaction
  /\ cached_response' = Response("rx", NoTransaction, NoFrame)
  /\ tx' = "idle" /\ txFrame' = NoFrame /\ backlog' = <<>>
  /\ UNCHANGED <<hostVars, tapVars, histVars, faults, pulled, onAir, received>>

RInit == Init /\ restarts = 0

Continue ==
  /\ Next
  /\ tap_read' + received' <= MaxFrames
  /\ UNCHANGED restarts

RNext == Restart \/ Continue

RSpec == RInit /\ [][RNext]_rvars

-----------------------------------------------------------------------------
\* A restart makes the firmware forget which transaction it completed last, so
\* a repeated request is transmitted again.  Each restart repeats at most one
\* frame, and the order of the frames is kept.
RestartRepeatsOne ==
  /\ \A i, j \in 1..Len(onAir) : i < j => onAir[i] <= onAir[j]
  /\ Len(onAir) <= restarts + Cardinality({onAir[i] : i \in 1..Len(onAir)})
=============================================================================
