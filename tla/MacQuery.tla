------------------------------ MODULE MacQuery ------------------------------
(***************************************************************************)
(* query_mac_with_retry of host/src/bridge.rs (one copy per transport):    *)
(* the host asks a newly registered interface for the WiFi MAC address, up *)
(* to MAC_QUERY_RETRIES times, each time for at most two seconds.          *)
(***************************************************************************)
EXTENDS Naturals

CONSTANT
  Retries           \* MAC_QUERY_RETRIES

ASSUME RetriesAssumption == Retries \in Nat \ {0}

VARIABLE
  attempt           \* which attempt is under way; 0 outside of the function

QueryStart ==
  /\ attempt = 0
  /\ attempt' = 1

\* The attempt fails or times out; after a delay comes the next one.
QueryRetries ==
  /\ attempt \in 1..(Retries - 1)
  /\ attempt' = attempt + 1

LastAttempt == attempt = Retries

\* The last attempt fails too.
QueryFails ==
  /\ LastAttempt
  /\ attempt' = 0

QueryAnswered ==
  /\ attempt > 0
  /\ attempt' = 0
=============================================================================
