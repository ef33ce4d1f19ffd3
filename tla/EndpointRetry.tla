---------------------------- MODULE EndpointRetry ---------------------------
(***************************************************************************)
(* The retry loop of wifi_exchange around await_endpoint_response, and the *)
(* metrics it records: host/src/serial_transport.rs (nusb_transport.rs has *)
(* the same loop with RecoveryEnabled = FALSE), host/src/metrics.rs.       *)
(*                                                                         *)
(* The environment is whatever the requests meet: each of them may be      *)
(* answered, answered with a stale transaction, fail, or stay unanswered.  *)
(***************************************************************************)
EXTENDS EndpointWait

CONSTANTS
  MaxStalls,        \* bound: backups sent
  MaxErrors,        \* bound: requests that fail
  MaxMismatches,    \* bound: stale responses
  MaxRecoveries     \* bound: sessions recycled

ASSUME BudgetAssumption ==
  /\ MaxStalls \in Nat /\ MaxErrors \in Nat
  /\ MaxMismatches \in Nat /\ MaxRecoveries \in Nat

VARIABLES
  loop,             \* "outer", "retry", "wait" (in the call) or "ended"
  cancel,           \* the cancellation token
  future,           \* fate of the two requests of the last call
  retries,          \* tx_retries or rx_retries
  stalls,           \* tx_stalls or rx_stalls
  endpoint_errors,
  response_mismatches,
  recovery_timeouts,
  \* history
  first,            \* the next call sends the transaction for the first time
  backups,          \* backups sent
  resends,          \* primaries sent again
  errors,           \* errors yielded by requests
  early             \* recoveries before any backup was sent

metricVars == <<retries, stalls, endpoint_errors, response_mismatches,
                recovery_timeouts>>
histVars == <<first, backups, resends, errors, early>>
retryVars == <<phase, loop, cancel, future, metricVars, histVars>>

RetryInit ==
  /\ phase = "idle"
  /\ loop = "outer"
  /\ cancel = FALSE
  /\ future = [s \in Sources |-> "unsent"]
  /\ retries = 0 /\ stalls = 0 /\ endpoint_errors = 0
  /\ response_mismatches = 0 /\ recovery_timeouts = 0
  /\ first = TRUE
  /\ backups = 0 /\ resends = 0 /\ errors = 0 /\ early = 0

One(b) == IF b THEN 1 ELSE 0

-----------------------------------------------------------------------------
\* A new transaction: a frame from the TAP queue, or the next RX poll.
BeginTransaction ==
  /\ loop = "outer"
  /\ loop' = "retry"
  /\ first' = TRUE
  /\ UNCHANGED <<phase, cancel, future, metricVars, backups, resends, errors,
                 early>>

SendPrimary ==
  /\ loop = "retry"
  /\ Start
  /\ loop' = "wait"
  /\ future' = [future EXCEPT !["primary"] = "pending", !["backup"] = "unsent"]
  /\ first' = FALSE
  /\ resends' = resends + One(~first)
  /\ UNCHANGED <<cancel, metricVars, backups, errors, early>>

Stall ==
  /\ backups < MaxStalls
  /\ StallTimer
  /\ future' = [future EXCEPT !["backup"] = "pending"]
  /\ backups' = backups + 1
  /\ UNCHANGED <<loop, cancel, metricVars, first, resends, errors, early>>

FailFirst(s) ==
  /\ errors < MaxErrors
  /\ FirstFailure(s)
  /\ future' = [future EXCEPT ![s] = "err"]
  /\ errors' = errors + 1
  /\ UNCHANGED <<loop, cancel, metricVars, first, backups, resends, early>>

\* Mutant of RecordWait: the backup is not counted as a retry.
RecordWaitWithoutBackup(moreRetries, moreErrors) ==
  /\ retries' = retries + moreRetries
  /\ stalls' = stalls + One(BackupSent)
  /\ endpoint_errors' = endpoint_errors + DiscardedErrors + moreErrors
  /\ UNCHANGED recovery_timeouts

\* Mutant of RecordWait: discarded errors are not counted.
RecordWaitWithoutDiscarded(moreRetries, moreErrors) ==
  /\ retries' = retries + One(BackupSent) + moreRetries
  /\ stalls' = stalls + One(BackupSent)
  /\ endpoint_errors' = endpoint_errors + moreErrors
  /\ UNCHANGED recovery_timeouts

\* What the caller records of every completed wait.
RecordWait(moreRetries, moreErrors) ==
  /\ retries' = retries + One(BackupSent) + moreRetries
  /\ stalls' = stalls + One(BackupSent)
  /\ endpoint_errors' = endpoint_errors + DiscardedErrors + moreErrors
  /\ UNCHANGED recovery_timeouts

Answered(s) ==
  /\ Complete(s, TRUE)
  /\ future' = [future EXCEPT ![s] = "ok"]
  /\ RecordWait(0, 0)
  /\ loop' = "outer"
  /\ UNCHANGED <<cancel, response_mismatches, histVars>>

Stale(s) ==
  /\ response_mismatches < MaxMismatches
  /\ Complete(s, TRUE)
  /\ future' = [future EXCEPT ![s] = "ok"]
  /\ RecordWait(1, 0)
  /\ response_mismatches' = response_mismatches + 1
  /\ loop' = "retry"
  /\ UNCHANGED <<cancel, histVars>>

Failed(s) ==
  /\ errors < MaxErrors
  /\ Complete(s, FALSE)
  /\ future' = [future EXCEPT ![s] = "err"]
  /\ errors' = errors + 1
  /\ RecordWait(1, 1)
  /\ loop' = "retry"
  /\ UNCHANGED <<cancel, response_mismatches, first, backups, resends, early>>

Recovery ==
  /\ Recover
  /\ retries' = retries + 1
  /\ stalls' = stalls + 1
  /\ recovery_timeouts' = recovery_timeouts + 1
  /\ early' = early + One(~BackupSent)
  /\ loop' = "ended"
  /\ UNCHANGED <<cancel, future, endpoint_errors, response_mismatches, first,
                 backups, resends, errors>>

CancelSeen ==
  /\ cancel
  /\ Cancel
  /\ loop' = "ended"
  /\ UNCHANGED <<cancel, future, metricVars, histVars>>

TokenCancelled ==
  /\ ~cancel
  /\ cancel' = TRUE
  /\ UNCHANGED <<phase, loop, future, metricVars, histVars>>

\* The transport is recycled and a new exchange task starts.
Reopen ==
  /\ loop = "ended" /\ ~cancel
  /\ recovery_timeouts < MaxRecoveries
  /\ loop' = "outer"
  /\ UNCHANGED <<phase, cancel, future, metricVars, histVars>>

RetryNext ==
  \/ BeginTransaction \/ SendPrimary \/ Stall
  \/ \E s \in Sources : FailFirst(s) \/ Answered(s) \/ Stale(s) \/ Failed(s)
  \/ Recovery \/ CancelSeen \/ TokenCancelled \/ Reopen

RetrySpec == RetryInit /\ [][RetryNext]_retryVars

\* The loop runs when it is ready, the recovery deadline passes, and select!
\* picks among ready branches at random, so that a cancellation which is seen
\* ready again and again is picked.
FairRetry ==
  /\ RetrySpec
  /\ WF_retryVars(BeginTransaction) /\ WF_retryVars(SendPrimary)
  /\ WF_retryVars(Recovery) /\ SF_retryVars(CancelSeen)

-----------------------------------------------------------------------------
\* The call is always suspended in one of the selects of
\* await_endpoint_response, and the counters are numbers.
RetryTypeOK ==
  /\ phase \in Phases
  /\ loop \in {"outer", "retry", "wait", "ended"}
  /\ cancel \in BOOLEAN
  /\ future \in [Sources -> {"unsent", "pending", "ok", "err"}]
  /\ retries \in Nat /\ stalls \in Nat /\ endpoint_errors \in Nat
  /\ response_mismatches \in Nat /\ recovery_timeouts \in Nat
  /\ first \in BOOLEAN
  /\ backups \in Nat /\ resends \in Nat /\ errors \in Nat /\ early \in Nat

\* Whenever the call is suspended it polls exactly the response sockets that
\* are still open: a late response is never left unread, and a socket that
\* has yielded is not polled again.
AwaitsOpenSockets ==
  loop = "wait" => Awaited = {s \in Sources : future[s] = "pending"}

\* Requests beyond the first of each transaction, and recoveries that came
\* before any backup: what the retry counter is meant to count.
Extra == backups + resends + early + One(loop = "retry" /\ ~first)

\* Between calls the retry counter is exact.  During a call it lacks the
\* backup of that call, and a backup is left out for good only when the call
\* is cancelled.
RetriesExact ==
  /\ loop \in {"outer", "retry"} => retries = Extra
  /\ loop = "wait" => retries + One(future["backup"] # "unsent") = Extra
  /\ loop = "ended" => \/ retries = Extra
                       \/ cancel /\ retries + 1 = Extra

\* endpoint_errors never counts an error that no request yielded, and misses
\* at most one per recovery: the error of the request that failed first when
\* the other one was still awaited at the deadline or at cancellation.
ErrorsBounded ==
  /\ endpoint_errors <= errors
  /\ errors <= endpoint_errors + recovery_timeouts
                 + One(loop = "wait" /\ DiscardedErrors = 1)
                 + One(loop = "ended" /\ cancel)

\* The retry loop gives up on a call because of an error only when every
\* request of the call has failed: no live request is abandoned for an error.
ErrorMeansAllFailed ==
  [][loop = "wait" /\ loop' = "retry"
       /\ response_mismatches' = response_mismatches
     => \A s \in Sources : future'[s] \in {"unsent", "err"}]_retryVars

\* With a recovery timeout no call lasts forever.
CallsEnd == loop = "wait" ~> loop # "wait"

\* Cancellation ends the exchange task, whatever the requests do.
CancelEnds == cancel ~> loop = "ended"
=============================================================================
