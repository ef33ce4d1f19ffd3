----------------------------- MODULE SerialProofs ---------------------------
(***************************************************************************)
(* Proofs about the retry loop of the host's request layer and about the   *)
(* serial transport whose exchange task calls it, for any number of        *)
(* retries, unplugs and faults, any injector budget, and both modes.       *)
(***************************************************************************)
EXTENDS SerialSession, EndpointRetry, TLAPS

-----------------------------------------------------------------------------
(* The retry loop: which sockets a call awaits and what the counters say,  *)
(* for every bound on stalls, errors, mismatches and recoveries.           *)

\* How the loop, the call and its requests fit together: the loop waits
\* exactly while a call is suspended, the backup is sent when the call leaves
\* its first select, a call is never the first of its transaction twice, and
\* one socket is awaited alone because the other one has failed.
CallShape ==
  /\ loop = "wait" <=> phase # "idle"
  /\ loop = "wait" => (phase = "primary" <=> future["backup"] = "unsent")
  /\ loop = "wait" => ~first
  /\ phase = "onlyPrimary" => future["backup"] = "err"
  /\ phase = "onlyBackup" => future["primary"] = "err"

\* An error that was dropped in the call in progress is not counted yet.
ErrorCount ==
  /\ ErrorsBounded
  /\ endpoint_errors + One(loop = "wait" /\ DiscardedErrors = 1) <= errors

\* The inductive invariant.
RetryInv ==
  /\ RetryTypeOK /\ CallShape
  /\ AwaitsOpenSockets /\ RetriesExact /\ ErrorCount

-----------------------------------------------------------------------------
\* The loop begins with everything at zero.
LEMMA RetryInvInit == RetryInit => RetryInv
<1> SUFFICES ASSUME RetryInit PROVE RetryInv OBVIOUS
<1> USE DEF RetryInit
<1>1. RetryTypeOK BY Zenon DEF RetryTypeOK, Phases
<1>2. CallShape /\ AwaitsOpenSockets BY DEF CallShape, AwaitsOpenSockets
<1>3. RetriesExact BY DEF RetriesExact, Extra, One
<1>4. ErrorCount BY DEF ErrorCount, ErrorsBounded, One
<1>q. QED BY <1>1, <1>2, <1>3, <1>4 DEF RetryInv

\* One is the indicator of a condition.
LEMMA OneFacts ==
  ASSUME NEW b \in BOOLEAN
  PROVE  /\ b => One(b) = 1
         /\ ~b => One(b) = 0
         /\ One(b) \in Nat
BY DEF One

\* Types, one action at a time.
LEMMA TypeStep ==
  ASSUME RetryTypeOK, [RetryNext]_retryVars
  PROVE  RetryTypeOK'
<1> USE DEF RetryTypeOK, Sources, Phases
<1>1. CASE BeginTransaction BY <1>1 DEF BeginTransaction, metricVars
<1>2. CASE SendPrimary
  <2>1. One(~first) \in Nat BY OneFacts, Zenon
  <2>2. resends' \in Nat BY <1>2, <2>1 DEF SendPrimary
  <2>3. future' \in [Sources -> {"unsent", "pending", "ok", "err"}]
    BY <1>2 DEF SendPrimary
  <2>4. first' \in BOOLEAN BY <1>2, Zenon DEF SendPrimary
  <2>q. QED BY <1>2, <2>2, <2>3, <2>4 DEF SendPrimary, Start, metricVars
<1>3. CASE Stall BY <1>3 DEF Stall, StallTimer, metricVars
<1>4. ASSUME NEW s \in Sources, FailFirst(s) PROVE RetryTypeOK'
  BY <1>4 DEF FailFirst, FirstFailure, metricVars, Only, Other
<1>5. ASSUME NEW s \in Sources, Answered(s) PROVE RetryTypeOK'
  BY <1>5 DEF Answered, Complete, RecordWait, histVars, One, DiscardedErrors
<1>6. ASSUME NEW s \in Sources, Stale(s) PROVE RetryTypeOK'
  BY <1>6 DEF Stale, Complete, RecordWait, histVars, One, DiscardedErrors
<1>7. ASSUME NEW s \in Sources, Failed(s) PROVE RetryTypeOK'
  BY <1>7 DEF Failed, Complete, RecordWait, One, DiscardedErrors
<1>8. CASE Recovery BY <1>8 DEF Recovery, Recover, One
<1>9. CASE CancelSeen BY <1>9 DEF CancelSeen, Cancel, metricVars, histVars
<1>10. CASE TokenCancelled BY <1>10 DEF TokenCancelled, metricVars, histVars
<1>11. CASE Reopen BY <1>11 DEF Reopen, metricVars, histVars
<1>12. CASE UNCHANGED retryVars BY <1>12 DEF retryVars, metricVars, histVars
<1>q. QED
  BY <1>1, <1>2, <1>3, <1>4, <1>5, <1>6, <1>7, <1>8, <1>9, <1>10, <1>11, <1>12
     DEF RetryNext

\* The loop, the call and its requests stay in step.
LEMMA CallStep ==
  ASSUME RetryInv, [RetryNext]_retryVars
  PROVE  CallShape'
<1> USE DEF RetryInv, RetryTypeOK, CallShape, AwaitsOpenSockets, Awaited, Only,
            Other, Sources, Phases
<1>1. CASE BeginTransaction BY <1>1 DEF BeginTransaction, metricVars
<1>2. CASE SendPrimary BY <1>2 DEF SendPrimary, Start, metricVars
<1>3. CASE Stall BY <1>3 DEF Stall, StallTimer, metricVars
<1>4. ASSUME NEW s \in Sources, FailFirst(s) PROVE CallShape'
  BY <1>4 DEF FailFirst, FirstFailure, metricVars
<1>5. ASSUME NEW s \in Sources, Answered(s) PROVE CallShape'
  BY <1>5 DEF Answered, Complete, RecordWait, histVars
<1>6. ASSUME NEW s \in Sources, Stale(s) PROVE CallShape'
  BY <1>6 DEF Stale, Complete, RecordWait, histVars
<1>7. ASSUME NEW s \in Sources, Failed(s) PROVE CallShape'
  BY <1>7 DEF Failed, Complete, RecordWait
<1>8. CASE Recovery BY <1>8 DEF Recovery, Recover
<1>9. CASE CancelSeen BY <1>9 DEF CancelSeen, Cancel, metricVars, histVars
<1>10. CASE TokenCancelled BY <1>10 DEF TokenCancelled, metricVars, histVars
<1>11. CASE Reopen BY <1>11 DEF Reopen, metricVars, histVars
<1>12. CASE UNCHANGED retryVars BY <1>12 DEF retryVars, metricVars, histVars
<1>q. QED
  BY <1>1, <1>2, <1>3, <1>4, <1>5, <1>6, <1>7, <1>8, <1>9, <1>10, <1>11, <1>12
     DEF RetryNext

\* The select polls the open sockets.
LEMMA SocketStep ==
  ASSUME RetryInv, [RetryNext]_retryVars
  PROVE  AwaitsOpenSockets'
<1> USE DEF RetryInv, RetryTypeOK, CallShape, AwaitsOpenSockets, Awaited, Only,
            Other, Sources, Phases
<1>1. CASE BeginTransaction BY <1>1 DEF BeginTransaction, metricVars
<1>2. CASE SendPrimary
  <2>1. phase' = "primary" BY <1>2 DEF SendPrimary, Start
  <2>2. future'["primary"] = "pending" /\ future'["backup"] = "unsent"
    BY <1>2 DEF SendPrimary
  <2>3. Awaited' = {"primary"} BY <2>1
  <2>4. {s \in Sources : future'[s] = "pending"} = {"primary"} BY <2>2
  <2>q. QED BY <2>3, <2>4
<1>3. CASE Stall
  <2>1. phase' = "both" /\ phase = "primary" /\ loop = "wait"
    BY <1>3 DEF Stall, StallTimer
  <2>2. "primary" \in Awaited BY <2>1
  <2>3. future["primary"] = "pending" BY <2>1, <2>2
  <2>4. future'["primary"] = "pending" /\ future'["backup"] = "pending"
    BY <1>3, <2>3 DEF Stall
  <2>5. Awaited' = Sources BY <2>1
  <2>6. {s \in Sources : future'[s] = "pending"} = Sources BY <2>4
  <2>q. QED BY <2>5, <2>6
<1>4. ASSUME NEW s \in Sources, FailFirst(s) PROVE AwaitsOpenSockets'
  BY <1>4 DEF FailFirst, FirstFailure, metricVars
<1>5. ASSUME NEW s \in Sources, Answered(s) PROVE AwaitsOpenSockets'
  BY <1>5 DEF Answered, Complete, RecordWait, histVars
<1>6. ASSUME NEW s \in Sources, Stale(s) PROVE AwaitsOpenSockets'
  BY <1>6 DEF Stale, Complete, RecordWait, histVars
<1>7. ASSUME NEW s \in Sources, Failed(s) PROVE AwaitsOpenSockets'
  BY <1>7 DEF Failed, Complete, RecordWait
<1>8. CASE Recovery BY <1>8 DEF Recovery, Recover
<1>9. CASE CancelSeen BY <1>9 DEF CancelSeen, Cancel, metricVars, histVars
<1>10. CASE TokenCancelled BY <1>10 DEF TokenCancelled, metricVars, histVars
<1>11. CASE Reopen BY <1>11 DEF Reopen, metricVars, histVars
<1>12. CASE UNCHANGED retryVars BY <1>12 DEF retryVars, metricVars, histVars
<1>q. QED
  BY <1>1, <1>2, <1>3, <1>4, <1>5, <1>6, <1>7, <1>8, <1>9, <1>10, <1>11, <1>12
     DEF RetryNext

\* The retry counter keeps up with the requests.
LEMMA RetryStep ==
  ASSUME RetryInv, [RetryNext]_retryVars
  PROVE  RetriesExact'
<1> USE DEF RetryInv, RetryTypeOK, CallShape, RetriesExact, Extra, One, BackupSent,
            Awaited, Only, Sources, Phases
<1>1. CASE BeginTransaction BY <1>1 DEF BeginTransaction, metricVars
<1>2. CASE SendPrimary BY <1>2 DEF SendPrimary, Start, metricVars
<1>3. CASE Stall BY <1>3 DEF Stall, StallTimer, metricVars
<1>4. ASSUME NEW s \in Sources, FailFirst(s) PROVE RetriesExact'
  BY <1>4 DEF FailFirst, FirstFailure, metricVars
<1>5. ASSUME NEW s \in Sources, Answered(s) PROVE RetriesExact'
  BY <1>5 DEF Answered, Complete, RecordWait, histVars
<1>6. ASSUME NEW s \in Sources, Stale(s) PROVE RetriesExact'
  BY <1>6 DEF Stale, Complete, RecordWait, histVars
<1>7. ASSUME NEW s \in Sources, Failed(s) PROVE RetriesExact'
  BY <1>7 DEF Failed, Complete, RecordWait
<1>8. CASE Recovery BY <1>8 DEF Recovery, Recover
<1>9. CASE CancelSeen BY <1>9 DEF CancelSeen, Cancel, metricVars, histVars
<1>10. CASE TokenCancelled BY <1>10 DEF TokenCancelled, metricVars, histVars
<1>11. CASE Reopen BY <1>11 DEF Reopen, metricVars, histVars
<1>12. CASE UNCHANGED retryVars BY <1>12 DEF retryVars, metricVars, histVars
<1>q. QED
  BY <1>1, <1>2, <1>3, <1>4, <1>5, <1>6, <1>7, <1>8, <1>9, <1>10, <1>11, <1>12,
     Zenon
     DEF RetryNext

\* The error counter keeps up with the errors.
LEMMA ErrorStep ==
  ASSUME RetryInv, [RetryNext]_retryVars
  PROVE  ErrorCount'
<1> USE DEF RetryInv, RetryTypeOK, CallShape, ErrorCount, ErrorsBounded, One,
            DiscardedErrors, Awaited, Only, Other, Sources, Phases
<1>1. CASE BeginTransaction BY <1>1 DEF BeginTransaction, metricVars
<1>2. CASE SendPrimary BY <1>2 DEF SendPrimary, Start, metricVars
<1>3. CASE Stall BY <1>3 DEF Stall, StallTimer, metricVars
<1>4. ASSUME NEW s \in Sources, FailFirst(s) PROVE ErrorCount'
  BY <1>4 DEF FailFirst, FirstFailure, metricVars
<1>5. ASSUME NEW s \in Sources, Answered(s) PROVE ErrorCount'
  BY <1>5 DEF Answered, Complete, RecordWait, histVars
<1>6. ASSUME NEW s \in Sources, Stale(s) PROVE ErrorCount'
  BY <1>6 DEF Stale, Complete, RecordWait, histVars
<1>7. ASSUME NEW s \in Sources, Failed(s) PROVE ErrorCount'
  BY <1>7 DEF Failed, Complete, RecordWait
<1>8. CASE Recovery BY <1>8 DEF Recovery, Recover
<1>9. CASE CancelSeen BY <1>9 DEF CancelSeen, Cancel, metricVars, histVars
<1>10. CASE TokenCancelled BY <1>10 DEF TokenCancelled, metricVars, histVars
<1>11. CASE Reopen BY <1>11 DEF Reopen, metricVars, histVars
<1>12. CASE UNCHANGED retryVars BY <1>12 DEF retryVars, metricVars, histVars
<1>q. QED
  BY <1>1, <1>2, <1>3, <1>4, <1>5, <1>6, <1>7, <1>8, <1>9, <1>10, <1>11, <1>12
     DEF RetryNext

\* Every step of the loop preserves the invariant.
LEMMA RetryInvStep ==
  ASSUME RetryInv, [RetryNext]_retryVars
  PROVE  RetryInv'
<1>1. RetryTypeOK' BY TypeStep DEF RetryInv
<1>q. QED
  BY <1>1, CallStep, SocketStep, RetryStep, ErrorStep DEF RetryInv

\* Every reachable state of the retry loop satisfies the invariant.
LEMMA RetryInvariant == RetrySpec => []RetryInv
BY RetryInvInit, RetryInvStep, PTL DEF RetrySpec

-----------------------------------------------------------------------------
\* A suspended call of await_endpoint_response polls exactly the response
\* sockets that can still yield.
THEOREM PollsOpenSockets == RetrySpec => []AwaitsOpenSockets
<1>1. RetryInv => AwaitsOpenSockets BY DEF RetryInv
<1>q. QED BY <1>1, RetryInvariant, PTL

\* The retry counter the exchange records is exact between calls, and short
\* by at most the backup of a call in progress or cancelled.
THEOREM RetriesCounted == RetrySpec => []RetriesExact
<1>1. RetryInv => RetriesExact BY DEF RetryInv
<1>q. QED BY <1>1, RetryInvariant, PTL

\* endpoint_errors counts no error twice and misses at most one per recovery,
\* and one at cancellation.
THEOREM ErrorsCounted == RetrySpec => []ErrorsBounded
<1>1. RetryInv => ErrorsBounded BY DEF RetryInv, ErrorCount
<1>q. QED BY <1>1, RetryInvariant, PTL

\* The loop leaves a call with an error only when all its requests failed.
THEOREM GivesUpWhenAllFailed == RetrySpec => ErrorMeansAllFailed
<1> DEFINE AllFailed == loop = "wait" /\ loop' = "retry"
                          /\ response_mismatches' = response_mismatches
                        => \A s \in Sources : future'[s] \in {"unsent", "err"}
<1>1. RetryInv /\ [RetryNext]_retryVars => [AllFailed]_retryVars
  <2> SUFFICES ASSUME RetryInv, RetryNext, loop = "wait", loop' = "retry",
                      response_mismatches' = response_mismatches
               PROVE  \A s \in Sources : future'[s] \in {"unsent", "err"}
    OBVIOUS
  <2> USE DEF RetryInv, RetryTypeOK
  <2>1. ASSUME NEW s \in Sources, Stale(s) PROVE FALSE BY <2>1 DEF Stale
  <2>2. PICK s \in Sources : Failed(s)
    BY <2>1 DEF RetryNext, BeginTransaction, SendPrimary, Stall, FailFirst, Answered,
                Recovery, CancelSeen, TokenCancelled, Reopen
  <2>3. s \in Awaited /\ phase # "both" /\ future' = [future EXCEPT ![s] = "err"]
    BY <2>2 DEF Failed, Complete
  <2>q. QED BY <2>3 DEF CallShape, Awaited, Only, Sources, Phases
<1>q. QED BY <1>1, RetryInvariant, PTL DEF ErrorMeansAllFailed, RetrySpec

-----------------------------------------------------------------------------
(* The serial transport.                                                   *)

\* Sessions are numbered in the order in which their interfaces are opened.
Numbered ==
  /\ opened \in Nat
  /\ started \subseteq 1..opened
  /\ stopped \subseteq 1..opened
  /\ tasks \subseteq TaskNames \X (1..opened)

\* Tokens and interfaces of sessions that are not the current one, and of the
\* current one before it has started.
Sequential ==
  /\ pc \in {"query", "start"} => opened \notin started
  /\ pc \in {"query", "start", "session"} => opened \notin stopped /\ opened >= 1
  /\ \A s \in started \intersect registered : s = opened /\ pc = "session"

\* In a running session the exchange task is the first to end, unless the
\* daemon is cancelled: the other two end because of their token, or the
\* reader because the exchange task has closed its queue.
ExchangeEndsFirst ==
  /\ \A s \in 1..opened :
       <<"exchange", s>> \in tasks => s = opened /\ pc \in {"session", "returned"}
  /\ pc = "session" /\ ~cancelled /\ <<"exchange", opened>> \in tasks
       => <<"ping", opened>> \in tasks /\ <<"reader", opened>> \in tasks
  /\ pc = "session" /\ ~cancelled => <<"ping", opened>> \in tasks

\* run has a result exactly when it has returned.
Returns ==
  /\ cancelled \in BOOLEAN /\ tap \in BOOLEAN
  /\ result = "running" <=> pc # "returned"

SessionInv == Numbered /\ Sequential /\ ExchangeEndsFirst /\ Returns

-----------------------------------------------------------------------------
\* run starts without sessions.
LEMMA SessionInit == Init => SessionInv
<1> SUFFICES ASSUME Init PROVE SessionInv OBVIOUS
<1> USE DEF Init
<1>1. Numbered BY DEF Numbered
<1>2. Sequential BY SerialAssumption DEF Sequential
<1>3. ExchangeEndsFirst BY SerialAssumption DEF ExchangeEndsFirst
<1>4. Returns BY SerialAssumption DEF Returns
<1>q. QED BY <1>1, <1>2, <1>3, <1>4 DEF SessionInv

-----------------------------------------------------------------------------
sessionVars == <<cancelled, pc, result, tap, opened, registered, started,
                 stopped, tasks>>

\* Steps of run before and between sessions that only say where it goes next.
Moves ==
  /\ UNCHANGED <<cancelled, tap, opened, registered, started, stopped, tasks>>
  /\ pc \in {"find", "register", "query", "start", "pause"}
  /\ pc = "find" => pc' \in {"register", "returned"}
  /\ pc = "register" => pc' \in {"pause", "returned"}
  /\ pc = "query" => pc' \in {"start", "pause", "returned"}
  /\ pc = "start" => pc' \in {"find", "returned"}
  /\ pc = "pause" => pc' = "find"
  /\ pc' # "returned" => result' = result
  /\ pc' = "returned" => result' = "err" \/ (result' = "ok" /\ cancelled)

\* The steps that matter to sessions, and the rest.
LEMMA StepKinds ==
  ASSUME [Next]_vars
  PROVE  \/ UNCHANGED sessionVars
         \/ CancelToken \/ Moves \/ Register \/ StartSession
         \/ EndHotPlugSession \/ EndPortSession
         \/ \E s \in Sessions : PingEnds(s) \/ ReaderEnds(s)
         \/ Deadline \/ ExchangeCancelled
<1> USE DEF sessionVars
<1>1. CASE Plug \/ Unplug BY <1>1 DEF Plug, Unplug, runVars
<1>2. CASE Find \/ FindCancelled BY <1>2 DEF Find, FindCancelled, Moves
<1>3. CASE RegisterFails BY <1>3 DEF RegisterFails, Moves, GiveUp
<1>4. CASE QueryAttemptFails BY <1>4 DEF QueryAttemptFails
<1>5. CASE QueryGivesUp BY <1>5 DEF QueryGivesUp, Moves, GiveUp
<1>6. CASE QueryAnswer BY <1>6 DEF QueryAnswer, Moves
<1>7. CASE AddressLost BY <1>7 DEF AddressLost, Moves
<1>8. CASE TapFails BY <1>8 DEF TapFails, Moves
<1>9. CASE Resume BY <1>9 DEF Resume, Moves
<1>10. ASSUME NEW k \in {"tx", "rx"}, Call(k) PROVE UNCHANGED sessionVars
  BY <1>10 DEF Call, runVars
<1>11. CASE Backup BY <1>11 DEF Backup, runVars
<1>12. ASSUME NEW s \in Sources, Reply(s) \/ Mismatch(s) \/ RequestFails(s)
       PROVE  UNCHANGED sessionVars
  BY <1>12 DEF Reply, Mismatch, RequestFails, runVars
<1>13. CASE UNCHANGED vars BY <1>13 DEF vars, runVars
<1>q. QED
  BY <1>1, <1>2, <1>3, <1>4, <1>5, <1>6, <1>7, <1>8, <1>9, <1>10, <1>11, <1>12,
     <1>13 DEF Next, Open, Close, Exchange

\* Numbers stay in order.
LEMMA NumberedStep ==
  ASSUME SessionInv, [Next]_vars
  PROVE  Numbered'
<1> USE DEF SessionInv, Numbered, Sequential, TaskNames
<1>1. CASE UNCHANGED sessionVars BY <1>1 DEF sessionVars
<1>2. CASE CancelToken BY <1>2 DEF CancelToken, runVars
<1>3. CASE Moves BY <1>3 DEF Moves
<1>4. CASE Register BY <1>4 DEF Register
<1>5. CASE StartSession BY <1>5 DEF StartSession
<1>6. CASE EndHotPlugSession BY <1>6 DEF EndHotPlugSession, CloseSession
<1>7. CASE EndPortSession BY <1>7 DEF EndPortSession, CloseSession
<1>8. ASSUME NEW s \in Sessions, PingEnds(s) \/ ReaderEnds(s) PROVE Numbered'
  BY <1>8 DEF PingEnds, ReaderEnds, runVars
<1>9. CASE Deadline \/ ExchangeCancelled
  BY <1>9 DEF Deadline, ExchangeCancelled, runVars
<1>q. QED
  BY <1>1, <1>2, <1>3, <1>4, <1>5, <1>6, <1>7, <1>8, <1>9, StepKinds

\* A session is detached before the next one opens its interface.
LEMMA SequentialStep ==
  ASSUME SessionInv, [Next]_vars
  PROVE  Sequential'
<1> USE DEF SessionInv, Numbered, Sequential
<1>1. CASE UNCHANGED sessionVars BY <1>1 DEF sessionVars
<1>2. CASE CancelToken BY <1>2 DEF CancelToken, runVars
<1>3. CASE Moves BY <1>3 DEF Moves
<1>4. CASE Register BY <1>4 DEF Register
<1>5. CASE StartSession BY <1>5 DEF StartSession
<1>6. CASE EndHotPlugSession BY <1>6 DEF EndHotPlugSession, CloseSession
<1>7. CASE EndPortSession BY <1>7 DEF EndPortSession, CloseSession
<1>8. ASSUME NEW s \in Sessions, PingEnds(s) \/ ReaderEnds(s) PROVE Sequential'
  BY <1>8 DEF PingEnds, ReaderEnds, runVars
<1>9. CASE Deadline \/ ExchangeCancelled
  BY <1>9 DEF Deadline, ExchangeCancelled, runVars
<1>q. QED
  BY <1>1, <1>2, <1>3, <1>4, <1>5, <1>6, <1>7, <1>8, <1>9, StepKinds

\* The exchange task ends before its session does.
LEMMA ExchangeStep ==
  ASSUME SessionInv, [Next]_vars
  PROVE  ExchangeEndsFirst'
<1> USE DEF SessionInv, Numbered, Sequential, ExchangeEndsFirst, TaskNames, Returns
<1>1. CASE UNCHANGED sessionVars BY <1>1 DEF sessionVars
<1>2. CASE CancelToken BY <1>2 DEF CancelToken, runVars
<1>3. CASE Moves BY <1>3 DEF Moves
<1>4. CASE Register BY <1>4 DEF Register
<1>5. CASE StartSession BY <1>5 DEF StartSession
<1>6. CASE EndHotPlugSession
  <2>1. ~cancelled => <<"exchange", opened>> \notin tasks
    BY <1>6 DEF EndHotPlugSession, Ended
  <2>q. QED BY <1>6, <2>1 DEF EndHotPlugSession
<1>7. CASE EndPortSession BY <1>7 DEF EndPortSession, CloseSession
<1>8. ASSUME NEW s \in Sessions, PingEnds(s) \/ ReaderEnds(s) PROVE ExchangeEndsFirst'
  BY <1>8 DEF PingEnds, ReaderEnds, Stopped, runVars
<1>9. CASE Deadline \/ ExchangeCancelled
  BY <1>9 DEF Deadline, ExchangeCancelled, runVars
<1>q. QED
  BY <1>1, <1>2, <1>3, <1>4, <1>5, <1>6, <1>7, <1>8, <1>9, StepKinds

\* run returns once.
LEMMA ReturnsStep ==
  ASSUME SessionInv, [Next]_vars
  PROVE  Returns'
<1> USE DEF SessionInv, Returns
<1>1. CASE UNCHANGED sessionVars BY <1>1 DEF sessionVars
<1>2. CASE CancelToken BY <1>2 DEF CancelToken, runVars
<1>3. CASE Moves BY <1>3 DEF Moves
<1>4. CASE Register BY <1>4 DEF Register
<1>5. CASE StartSession BY <1>5 DEF StartSession
<1>6. CASE EndHotPlugSession BY <1>6 DEF EndHotPlugSession, CloseSession
<1>7. CASE EndPortSession BY <1>7 DEF EndPortSession, CloseSession
<1>8. ASSUME NEW s \in Sessions, PingEnds(s) \/ ReaderEnds(s) PROVE Returns'
  BY <1>8 DEF PingEnds, ReaderEnds, runVars
<1>9. CASE Deadline \/ ExchangeCancelled
  BY <1>9 DEF Deadline, ExchangeCancelled, runVars
<1>q. QED
  BY <1>1, <1>2, <1>3, <1>4, <1>5, <1>6, <1>7, <1>8, <1>9, StepKinds

\* Every reachable state of the transport satisfies the invariant.
LEMMA SessionInvariant == Spec => []SessionInv
<1>1. SessionInv /\ [Next]_vars => SessionInv'
  BY NumberedStep, SequentialStep, ExchangeStep, ReturnsStep DEF SessionInv
<1>q. QED BY <1>1, SessionInit, PTL DEF Spec

-----------------------------------------------------------------------------
\* Hot-plug mode cancels the tasks of a session and does not join them; still
\* the exchange task of an earlier session has always ended.
THEOREM SessionsDoNotOverlap == Spec => []OneExchangeTask
<1>1. SessionInv => OneExchangeTask
  BY DEF SessionInv, Numbered, ExchangeEndsFirst, OneExchangeTask
<1>q. QED BY <1>1, SessionInvariant, PTL

\* Only the running session has a registered interface.
THEOREM OldInterfacesGone == Spec => []EndedSessionsDetached
<1>1. SessionInv => EndedSessionsDetached
  BY DEF SessionInv, Sequential, EndedSessionsDetached
<1>q. QED BY <1>1, SessionInvariant, PTL

\* run keeps what Transport promises main: one TAP interface for all sessions,
\* and Ok only after cancellation.
THEOREM SerialImplementsTransport == Spec => ImplementsTransport
<1>1. Init => T!TransportInit BY DEF Init, T!TransportInit
<1>2. SessionInv /\ [Next]_vars => [T!TransportNext]_(T!transportVars)
  <2> SUFFICES ASSUME SessionInv, [Next]_vars
               PROVE  [T!TransportNext]_(T!transportVars)
    OBVIOUS
  <2> USE DEF SessionInv, Returns, T!TransportNext, T!transportVars
  <2>1. CASE UNCHANGED sessionVars BY <2>1 DEF sessionVars
  <2>2. CASE CancelToken BY <2>2 DEF CancelToken, runVars, T!CancelDaemon
  <2>3. CASE Moves BY <2>3 DEF Moves, T!ReturnOk, T!ReturnErr
  <2>4. CASE Register BY <2>4 DEF Register
  <2>5. CASE StartSession BY <2>5 DEF StartSession, T!CreateTap
  <2>6. CASE EndHotPlugSession BY <2>6 DEF EndHotPlugSession, T!ReturnOk
  <2>7. CASE EndPortSession BY <2>7 DEF EndPortSession, T!ReturnOk, T!ReturnErr
  <2>8. ASSUME NEW s \in Sessions, PingEnds(s) \/ ReaderEnds(s)
        PROVE  UNCHANGED T!transportVars
    BY <2>8 DEF PingEnds, ReaderEnds, runVars
  <2>9. CASE Deadline \/ ExchangeCancelled
    BY <2>9 DEF Deadline, ExchangeCancelled, runVars
  <2>q. QED
    BY <2>1, <2>2, <2>3, <2>4, <2>5, <2>6, <2>7, <2>8, <2>9, StepKinds
<1>q. QED
  BY <1>1, <1>2, SessionInvariant, PTL
     DEF Spec, ImplementsTransport, T!TransportSpec

-----------------------------------------------------------------------------
(* What sessions cost, and the budget of the fault injector.               *)

\* What the environment and the injector have done to the transport so far.
Losses == unplugs + faults + (Budget - remaining)

\* Types that do not depend on how many sessions there can be.
SerialTypes ==
  /\ hotplug \in BOOLEAN
  /\ phase \in Phases /\ attempt \in 0..Retries
  /\ plugged \in BOOLEAN /\ alive \in BOOLEAN
  /\ unplugs \in 0..MaxUnplugs /\ faults \in 0..MaxFaults
  /\ pc \in {"find", "register", "query", "start", "session", "pause", "returned"}
  /\ result \in {"running", "ok", "err"}
  /\ registered \subseteq 1..opened
  /\ reconnects \in Nat /\ remaining \in 0..Budget
  /\ kind \in {"tx", "rx", "any"} /\ dropped \subseteq Sources

\* Every session but the present one has cost a loss.
SessionsPaid ==
  /\ pc \in {"find", "register", "pause"} => opened <= Losses
  /\ pc \in {"query", "start"} /\ ~alive => opened <= Losses
  /\ pc = "session" /\ (~alive \/ dropped # {}) => opened <= Losses
  /\ pc = "session" /\ ~cancelled /\ ~Running => opened <= Losses
  /\ opened <= Losses + 1

\* Nothing is lost but what the injector drops, of a budget for one primary
\* and its backup.
OnlyDrops == Budget = 2 /\ faults = 0 /\ unplugs = 0

\* Where the budget is: a primary and its backup have used it up when the
\* exchange task ends, so it is used up when there has been a session.
BudgetPath ==
  OnlyDrops =>
    /\ pc \in {"query", "start", "session"} \/ Running => alive
    /\ phase \in {"idle", "primary", "both"}
    /\ phase = "primary" => "backup" \notin dropped
    /\ dropped # {} => remaining <= 1
    /\ dropped = Sources => remaining = 0
    /\ pc = "session" /\ ~cancelled /\ ~Running => remaining = 0
    /\ pc \notin {"session", "returned"} /\ started # {} => remaining = 0
    /\ reconnects > 0 => remaining = 0

SerialInv == SessionInv /\ SerialTypes /\ SessionsPaid /\ BudgetPath

\* A failure has a cause, or is one of the counted faults.
LEMMA FaultCounts ==
  ASSUME NEW cause, Fault(cause), faults \in 0..MaxFaults
  PROVE  /\ faults' \in 0..MaxFaults
         /\ \/ cause /\ faults' = faults
            \/ ~cause /\ faults' = faults + 1
BY SerialAssumption DEF Fault

\* A request costs the injector at most one drop, which it remembers.
LEMMA SendCosts ==
  ASSUME NEW k, NEW s \in Sources, Send(k, s), SerialTypes
  PROVE  /\ remaining' \in 0..Budget /\ dropped' \subseteq Sources
         /\ \/ remaining' = remaining - 1 /\ s \in dropped' /\ remaining > 0
            \/ remaining' = remaining /\ dropped' \subseteq dropped
         /\ s = "primary" => dropped' \subseteq {s}
         /\ s # "primary" => dropped' \subseteq dropped \union {s}
<1> USE SerialAssumption DEF SerialTypes, Sources
<1>1. CASE Matches(k, s) /\ remaining > 0
  <2>1. /\ remaining' = remaining - 1
        /\ dropped' = (IF s = "primary" THEN {} ELSE dropped) \union {s}
    BY <1>1 DEF Send
  <2>2. remaining' \in 0..Budget
    BY <1>1, <2>1
  <2>3. /\ dropped' \subseteq Sources /\ s \in dropped'
        /\ s = "primary" => dropped' \subseteq {s}
        /\ s # "primary" => dropped' \subseteq dropped \union {s}
    BY <2>1, Zenon
  <2>q. QED BY <1>1, <2>1, <2>2, <2>3, Zenon
<1>2. CASE ~(Matches(k, s) /\ remaining > 0)
  <2>1. /\ remaining' = remaining
        /\ dropped' = IF s = "primary" THEN {} ELSE dropped
    BY <1>2 DEF Send
  <2>q. QED BY <2>1, Zenon
<1>q. QED BY <1>1, <1>2

-----------------------------------------------------------------------------
\* run and the exchange task start well typed, with nothing lost.
LEMMA SerialInit == Init => SerialInv
<1> SUFFICES ASSUME Init PROVE SerialInv OBVIOUS
<1> USE SerialAssumption, RetriesAssumption DEF Init
<1>1. SerialTypes
  <2>1. hotplug \in BOOLEAN /\ plugged \in BOOLEAN /\ alive \in BOOLEAN
    BY Zenon
  <2>2. QED BY <2>1 DEF SerialTypes, Phases, Sources
<1>2. SessionsPaid BY DEF SessionsPaid, Losses
<1>3. BudgetPath BY DEF BudgetPath, Running, Sources
<1>q. QED BY <1>1, <1>2, <1>3, SessionInit DEF SerialInv

\* Types, one action at a time.
LEMMA SerialTypeStep ==
  ASSUME SessionInv, SerialTypes, [Next]_vars
  PROVE  SerialTypes'
<1>0. opened \in Nat
  BY DEF SessionInv, Numbered
<1> USE SerialAssumption, RetriesAssumption, <1>0
    DEF SerialTypes, envVars, runVars, callVars
<1>1. CASE Plug
  BY <1>1 DEF Plug
<1>21. CASE Unplug
  <2>1. unplugs' \in 0..MaxUnplugs
    BY <1>21 DEF Unplug
  <2>2. plugged' \in BOOLEAN /\ alive' \in BOOLEAN
    BY <1>21, Zenon DEF Unplug
  <2>q. QED BY <1>21, <2>1, <2>2, Zenon DEF Unplug
<1>22. CASE CancelToken
  BY <1>22 DEF CancelToken
<1>2. CASE Find \/ FindCancelled \/ Resume
  BY <1>2 DEF Find, FindCancelled, Resume
<1>3. CASE Register
  BY <1>3 DEF Register, QueryStart
<1>4. CASE RegisterFails
  BY <1>4, FaultCounts DEF RegisterFails, GiveUp
<1>5. CASE QueryAttemptFails
  BY <1>5, FaultCounts DEF QueryAttemptFails, QueryRetries
<1>6. CASE QueryGivesUp
  BY <1>6, FaultCounts DEF QueryGivesUp, QueryFails, GiveUp
<1>7. CASE QueryAnswer
  BY <1>7 DEF QueryAnswer, QueryAnswered
<1>8. CASE AddressLost
  BY <1>8 DEF AddressLost
<1>9. CASE TapFails
  BY <1>9, FaultCounts DEF TapFails
<1>10. CASE StartSession
  BY <1>10 DEF StartSession, InjectorFor, Phases
<1>11. CASE EndHotPlugSession
  BY <1>11 DEF EndHotPlugSession, CloseSession
<1>12. CASE EndPortSession
  BY <1>12 DEF EndPortSession, CloseSession
<1>13. ASSUME NEW k \in {"tx", "rx"}, Call(k) PROVE SerialTypes'
  <2>1. remaining' \in 0..Budget /\ dropped' \subseteq Sources
    BY <1>13, SendCosts DEF Call, Sources
  <2>q. QED BY <1>13, <2>1 DEF Call, Start, Phases
<1>14. CASE Backup
  <2>1. remaining' \in 0..Budget /\ dropped' \subseteq Sources
    BY <1>14, SendCosts DEF Backup, Sources
  <2>q. QED BY <1>14, <2>1 DEF Backup, StallTimer, Phases
<1>15. ASSUME NEW s \in Sources, Reply(s) PROVE SerialTypes'
  BY <1>15 DEF Reply, Complete, Phases
<1>23. ASSUME NEW s \in Sources, Mismatch(s) PROVE SerialTypes'
  BY <1>23, FaultCounts DEF Mismatch, Complete, Phases
<1>16. ASSUME NEW s \in Sources, RequestFails(s) PROVE SerialTypes'
  BY <1>16, FaultCounts
  DEF RequestFails, FirstFailure, Complete, Phases, Only, Other
<1>17. CASE Deadline
  BY <1>17, FaultCounts DEF Deadline, Recover, Phases
<1>18. CASE ExchangeCancelled
  BY <1>18 DEF ExchangeCancelled, Cancel, Phases
<1>19. ASSUME NEW s \in Sessions, PingEnds(s) \/ ReaderEnds(s) PROVE SerialTypes'
  <2>1. UNCHANGED <<envVars, faults, cancelled, runVars, callVars>>
    BY <1>19 DEF PingEnds, ReaderEnds
  <2>q. QED BY <2>1
<1>20. CASE UNCHANGED vars
  BY <1>20 DEF vars
<1>q. QED
  BY <1>1, <1>2, <1>3, <1>4, <1>5, <1>6, <1>7, <1>8, <1>9, <1>10, <1>11, <1>12,
     <1>13, <1>14, <1>15, <1>16, <1>17, <1>18, <1>19, <1>20, <1>21,
     <1>22, <1>23 DEF Next, Open, Close, Exchange

\* What the arithmetic needs.
LEMMA LossTypes ==
  ASSUME SessionInv, SerialTypes
  PROVE  opened \in Nat /\ unplugs \in Nat /\ faults \in Nat /\ remaining \in Nat
         /\ Budget \in Nat /\ remaining <= Budget /\ Losses \in Nat
BY SerialAssumption DEF SessionInv, Numbered, SerialTypes, Losses

\* A step that loses nothing and does not concern sessions.
LEMMA PaidUnchanged ==
  ASSUME SessionsPaid,
         UNCHANGED <<pc, opened, alive, dropped, cancelled, tasks, unplugs, faults,
                     remaining>>
  PROVE  SessionsPaid'
BY DEF SessionsPaid, Losses, Running

\* A step that loses something pays for the present session.
LEMMA PaidByLoss ==
  ASSUME SessionInv, SerialTypes, SessionsPaid, opened' = opened,
         Losses' \in Nat, Losses' > Losses
  PROVE  SessionsPaid'
BY LossTypes DEF SessionsPaid

\* Every session but the present one has been paid for by a loss.
LEMMA PaidStep ==
  ASSUME SessionInv, SerialTypes, SerialTypes', SessionsPaid, [Next]_vars
  PROVE  SessionsPaid'
<1> USE LossTypes DEF envVars, runVars, callVars
<1>1. CASE Unplug
  BY <1>1, PaidByLoss DEF Unplug, Losses
<1>2. CASE CancelToken
  BY <1>2 DEF CancelToken, SessionsPaid, Losses, Running
<1>3. CASE Find \/ FindCancelled \/ Resume
  BY <1>3 DEF Find, FindCancelled, Resume, SessionsPaid, Losses
<1>4. CASE Register
  <2>1. /\ pc = "register" /\ pc' = "query" /\ alive' /\ opened' = opened + 1
        /\ UNCHANGED <<unplugs, faults, remaining>>
    BY <1>4 DEF Register
  <2>2. opened <= Losses /\ Losses' = Losses
    BY <2>1 DEF SessionsPaid, Losses
  <2>q. QED BY <2>1, <2>2 DEF SessionsPaid
<1>5. CASE RegisterFails
  <2>1. /\ pc = "register" /\ pc' \in {"pause", "returned"}
        /\ faults' \in {faults, faults + 1}
        /\ UNCHANGED <<unplugs, remaining, opened>>
    BY <1>5, FaultCounts DEF RegisterFails, GiveUp, SerialTypes
  <2>q. QED BY <2>1 DEF SessionsPaid, Losses
<1>6. CASE QueryAttemptFails \/ QueryGivesUp
  <2>1. /\ pc = "query" /\ pc' \in {"query", "pause", "returned"}
        /\ \/ ~alive /\ faults' = faults
           \/ faults' = faults + 1
        /\ UNCHANGED <<alive, unplugs, remaining, opened>>
    BY <1>6, FaultCounts DEF QueryAttemptFails, QueryGivesUp, GiveUp, SerialTypes
  <2>2. faults' = faults + 1 => SessionsPaid'
    BY <2>1, PaidByLoss DEF Losses
  <2>q. QED BY <2>1, <2>2 DEF SessionsPaid, Losses
<1>7. CASE QueryAnswer
  BY <1>7 DEF QueryAnswer, SessionsPaid, Losses
<1>8. CASE AddressLost
  BY <1>8 DEF AddressLost, SessionsPaid, Losses
<1>9. CASE TapFails
  <2>1. faults' = faults + 1 /\ UNCHANGED <<unplugs, remaining, opened>>
    BY <1>9, FaultCounts DEF TapFails, SerialTypes
  <2>q. QED BY <2>1, PaidByLoss DEF Losses
<1>10. CASE StartSession
  <2>1. /\ alive' /\ dropped' = {} /\ <<"exchange", opened>> \in tasks'
        /\ pc' = "session" /\ UNCHANGED <<unplugs, faults, remaining, opened>>
    BY <1>10 DEF StartSession, InjectorFor, TaskNames
  <2>q. QED BY <2>1 DEF SessionsPaid, Losses, Running
<1>11. CASE EndHotPlugSession
  <2>1. ~cancelled => ~Running
    BY <1>11
    DEF EndHotPlugSession, SessionInv, ExchangeEndsFirst, Ended, Running, TaskNames
  <2>2. /\ pc = "session" /\ pc' = IF cancelled THEN "returned" ELSE "pause"
        /\ UNCHANGED <<unplugs, faults, remaining, opened>>
    BY <1>11 DEF EndHotPlugSession
  <2>q. QED BY <2>1, <2>2 DEF SessionsPaid, Losses
<1>12. CASE EndPortSession
  BY <1>12 DEF EndPortSession, SessionsPaid, Losses
<1>13. ASSUME Running, UNCHANGED <<pc, opened, alive, cancelled, tasks, unplugs, faults>>,
              \/ remaining' = remaining - 1 /\ remaining > 0
              \/ remaining' = remaining /\ dropped' \subseteq dropped
       PROVE  SessionsPaid'
  <2>1. remaining' = remaining - 1 => SessionsPaid'
    BY <1>13, PaidByLoss DEF Losses
  <2>2. remaining' = remaining /\ dropped' \subseteq dropped => SessionsPaid'
    BY <1>13 DEF SessionsPaid, Losses, Running
  <2>q. QED BY <1>13, <2>1, <2>2
<1>14. ASSUME NEW k \in {"tx", "rx"}, Call(k) PROVE SessionsPaid'
  <2>1. Send(k, "primary") /\ "primary" \in Sources BY <1>14 DEF Call, Sources
  <2>2. \/ remaining' = remaining - 1 /\ remaining > 0
        \/ remaining' = remaining /\ dropped' \subseteq dropped
    BY <2>1, SendCosts
  <2>q. QED BY <1>13, <1>14, <2>2 DEF Call
<1>15. CASE Backup
  <2>1. Send(kind, "backup") /\ "backup" \in Sources BY <1>15 DEF Backup, Sources
  <2>2. \/ remaining' = remaining - 1 /\ remaining > 0
        \/ remaining' = remaining /\ dropped' \subseteq dropped
    BY <2>1, SendCosts
  <2>q. QED BY <1>13, <1>15, <2>2 DEF Backup
<1>16. ASSUME NEW s \in Sources, Reply(s) PROVE SessionsPaid'
  BY <1>16, PaidUnchanged DEF Reply
<1>22. ASSUME NEW s \in Sources, Mismatch(s) PROVE SessionsPaid'
  <2>1. faults' = faults + 1 /\ UNCHANGED <<unplugs, remaining, opened>>
    BY <1>22, FaultCounts DEF Mismatch, SerialTypes
  <2>q. QED BY <2>1, PaidByLoss DEF Losses
<1>17. ASSUME NEW s \in Sources, RequestFails(s) PROVE SessionsPaid'
  <2>1. /\ UNCHANGED <<pc, opened, alive, dropped, cancelled, tasks, unplugs, remaining>>
        /\ faults' = faults \/ faults' = faults + 1
    BY <1>17, FaultCounts DEF RequestFails, SerialTypes
  <2>2. CASE faults' = faults BY <2>1, <2>2, PaidUnchanged
  <2>3. CASE faults' = faults + 1 BY <2>1, <2>3, PaidByLoss DEF Losses
  <2>q. QED BY <2>1, <2>2, <2>3
<1>18. CASE Deadline
  <2>1. /\ Running /\ UNCHANGED <<pc, opened, alive, cancelled, unplugs, remaining, dropped>>
        /\ \/ Unanswered /\ faults' = faults
           \/ faults' = faults + 1
        /\ phase # "idle"
    BY <1>18, FaultCounts DEF Deadline, Recover, SerialTypes
  <2>2. Unanswered => ~alive \/ dropped # {}
    BY <2>1 DEF Unanswered, Awaited, SerialTypes, Phases, Sources, Only
  <2>3. faults' = faults + 1 => SessionsPaid'
    BY <2>1, PaidByLoss DEF Losses
  <2>4. Unanswered /\ faults' = faults => SessionsPaid'
    BY <2>1, <2>2 DEF SessionsPaid, Losses
  <2>q. QED BY <2>1, <2>3, <2>4
<1>19. CASE ExchangeCancelled
  <2>1. pc = "session" => cancelled
    BY <1>19 DEF ExchangeCancelled, Stopped, SessionInv, Sequential
  <2>q. QED BY <1>19, <2>1 DEF ExchangeCancelled, SessionsPaid, Losses
<1>20. ASSUME NEW s \in Sessions, PingEnds(s) \/ ReaderEnds(s) PROVE SessionsPaid'
  BY <1>20 DEF PingEnds, ReaderEnds, SessionsPaid, Losses, Running
<1>21. CASE Plug \/ UNCHANGED vars
  BY <1>21, PaidUnchanged DEF Plug, vars
<1>q. QED
  BY <1>1, <1>2, <1>3, <1>4, <1>5, <1>6, <1>7, <1>8, <1>9, <1>10, <1>11, <1>12,
     <1>14, <1>15, <1>16, <1>17, <1>18, <1>19, <1>20, <1>21, <1>22
     DEF Next, Open, Close, Exchange

\* Losses are not taken back.
LEMMA OnlyDropsBefore ==
  ASSUME SerialTypes, [Next]_vars, OnlyDrops'
  PROVE  /\ OnlyDrops /\ UNCHANGED <<faults, unplugs>> /\ ~Unplug
         /\ \A cause : Fault(cause) => cause
<1> USE SerialAssumption DEF SerialTypes, OnlyDrops
<1>1. \A cause : Fault(cause) => cause
  BY DEF Fault
<1>2. ~Unplug
  BY DEF Unplug
<1>3. faults' \in {faults, faults + 1}
  <2> USE DEF Fault
  <2>1. CASE Plug \/ Unplug \/ CancelToken BY <2>1 DEF Plug, Unplug, CancelToken
  <2>2. CASE Open
    BY <2>2 DEF Open, Find, FindCancelled, Register, RegisterFails,
                QueryAttemptFails, QueryGivesUp, QueryAnswer, AddressLost, TapFails,
                StartSession
  <2>3. CASE Close
    BY <2>3 DEF Close, EndHotPlugSession, EndPortSession, Resume
  <2>4. CASE Exchange
    BY <2>4 DEF Exchange, Call, Backup, Reply, Mismatch, RequestFails, Deadline,
                ExchangeCancelled
  <2>5. CASE \E s \in Sessions : PingEnds(s) \/ ReaderEnds(s)
    BY <2>5 DEF PingEnds, ReaderEnds
  <2>q. QED BY <2>1, <2>2, <2>3, <2>4, <2>5 DEF Next, vars
<1>4. unplugs' \in {unplugs, unplugs + 1}
  <2> USE DEF envVars
  <2>1. CASE Plug \/ Unplug \/ CancelToken BY <2>1 DEF Plug, Unplug, CancelToken
  <2>2. CASE Open
    BY <2>2 DEF Open, Find, FindCancelled, Register, RegisterFails,
                QueryAttemptFails, QueryGivesUp, QueryAnswer, AddressLost, TapFails,
                StartSession
  <2>3. CASE Close
    BY <2>3 DEF Close, EndHotPlugSession, EndPortSession, Resume
  <2>4. CASE Exchange
    BY <2>4 DEF Exchange, Call, Backup, Reply, Mismatch, RequestFails, Deadline,
                ExchangeCancelled
  <2>5. CASE \E s \in Sessions : PingEnds(s) \/ ReaderEnds(s)
    BY <2>5 DEF PingEnds, ReaderEnds
  <2>q. QED BY <2>1, <2>2, <2>3, <2>4, <2>5 DEF Next, vars
<1>q. QED BY <1>1, <1>2, <1>3, <1>4

\* A step of the exchange task that sends nothing.
LEMMA BudgetKept ==
  ASSUME OnlyDrops, BudgetPath, SerialTypes,
         UNCHANGED <<pc, alive, started, reconnects, remaining, dropped, cancelled, tasks,
                     opened>>,
         phase' \in {phase, "idle"}
  PROVE  BudgetPath'
BY DEF BudgetPath, Running

\* As long as nothing else is lost, the budget is spent when a session is over.
LEMMA BudgetStep ==
  ASSUME SessionInv, SerialTypes, BudgetPath, [Next]_vars
  PROVE  BudgetPath'
<1> SUFFICES ASSUME OnlyDrops' PROVE BudgetPath' BY DEF BudgetPath
<1>0. OnlyDrops /\ ~Unplug /\ \A cause : Fault(cause) => cause
  BY OnlyDropsBefore
<1> USE <1>0, SerialAssumption DEF envVars, runVars, callVars
<1>1. CASE CancelToken
  BY <1>1 DEF CancelToken, BudgetPath, Running
<1>2. CASE Find \/ FindCancelled \/ Resume
  <2>1. /\ pc \in {"find", "pause"} /\ pc' \in {"find", "register", "returned"}
        /\ UNCHANGED <<alive, started, reconnects, remaining, dropped, phase, tasks, opened>>
    BY <1>2 DEF Find, FindCancelled, Resume
  <2>q. QED BY <2>1 DEF BudgetPath, Running
<1>3. CASE Register
  BY <1>3 DEF Register, BudgetPath
<1>4. CASE RegisterFails
  BY <1>4 DEF RegisterFails, GiveUp, BudgetPath, Running
<1>5. CASE QueryAttemptFails \/ QueryGivesUp
  BY <1>5 DEF QueryAttemptFails, QueryGivesUp, BudgetPath
<1>6. CASE QueryAnswer
  BY <1>6 DEF QueryAnswer, BudgetPath
<1>7. CASE AddressLost \/ TapFails
  BY <1>7 DEF AddressLost, TapFails, BudgetPath
<1>8. CASE StartSession
  <2>1. /\ pc = "start" /\ pc' = "session" /\ alive' /\ dropped' = {} /\ phase' = "idle"
        /\ <<"exchange", opened'>> \in tasks' /\ remaining' = remaining
        /\ reconnects' = IF started = {} THEN 0 ELSE reconnects + 1
    BY <1>8 DEF StartSession, InjectorFor, TaskNames
  <2>2. reconnects' > 0 => remaining = 0
    BY <2>1 DEF BudgetPath
  <2>q. QED BY <2>1, <2>2 DEF BudgetPath, Running, Sources
<1>9. CASE EndHotPlugSession
  <2>1. ~cancelled => ~Running
    BY <1>9
    DEF EndHotPlugSession, SessionInv, ExchangeEndsFirst, Ended, Running, TaskNames
  <2>q. QED BY <1>9, <2>1 DEF EndHotPlugSession, BudgetPath
<1>10. CASE EndPortSession
  BY <1>10 DEF EndPortSession, BudgetPath
<1>11. ASSUME NEW k \in {"tx", "rx"}, Call(k) PROVE BudgetPath'
  <2>1. Running /\ phase' = "primary" /\ Send(k, "primary") /\ "primary" \in Sources
        /\ UNCHANGED <<pc, alive, started, reconnects, cancelled, tasks, opened>>
    BY <1>11 DEF Call, Start, Sources
  <2>2. /\ dropped' \subseteq {"primary"} /\ remaining' \in 0..Budget
        /\ \/ remaining' = remaining - 1 /\ remaining > 0
           \/ remaining' = remaining /\ dropped' \subseteq dropped
    BY <2>1, SendCosts
  <2>3. dropped' # {} => remaining' <= 1
    <3>1. remaining \in 0..2 BY DEF OnlyDrops, SerialTypes
    <3>2. dropped' \subseteq dropped /\ dropped' # {} => dropped # {} OBVIOUS
    <3>3. dropped # {} => remaining <= 1 BY DEF BudgetPath
    <3>q. QED BY <2>2, <3>1, <3>2, <3>3
  <2>4. dropped' # Sources /\ "backup" \notin dropped'
    BY <2>2 DEF Sources
  <2>5. remaining = 0 => remaining' = 0
    BY <2>2
  <2>q. QED BY <2>1, <2>3, <2>4, <2>5 DEF BudgetPath, Running
<1>12. CASE Backup
  <2>1. /\ Running /\ phase = "primary" /\ phase' = "both" /\ Send(kind, "backup")
        /\ "backup" \in Sources
        /\ UNCHANGED <<pc, alive, started, reconnects, cancelled, tasks, opened>>
    BY <1>12 DEF Backup, StallTimer, Sources
  <2>2. /\ dropped' \subseteq dropped \union {"backup"} /\ remaining' \in 0..Budget
        /\ \/ remaining' = remaining - 1 /\ remaining > 0
           \/ remaining' = remaining /\ dropped' \subseteq dropped
    BY <2>1, SendCosts
  <2>3. "backup" \notin dropped
    BY <2>1 DEF BudgetPath
  <2>4. dropped' # {} => remaining' <= 1
    <3>1. remaining \in 0..2 BY DEF OnlyDrops, SerialTypes
    <3>2. dropped' \subseteq dropped /\ dropped' # {} => dropped # {} OBVIOUS
    <3>3. dropped # {} => remaining <= 1 BY DEF BudgetPath
    <3>q. QED BY <2>2, <3>1, <3>2, <3>3
  <2>5. dropped' = Sources => remaining' = 0
    BY <2>2, <2>3 DEF BudgetPath, SerialTypes, Sources
  <2>6. remaining = 0 => remaining' = 0
    BY <2>2
  <2>q. QED BY <2>1, <2>4, <2>5, <2>6 DEF BudgetPath, Running
<1>13. ASSUME NEW s \in Sources, Reply(s) PROVE BudgetPath'
  BY <1>13, BudgetKept DEF Reply, Complete
<1>19. ASSUME NEW s \in Sources, Mismatch(s) PROVE FALSE
  BY <1>19 DEF Mismatch
<1>14. ASSUME NEW s \in Sources, RequestFails(s) PROVE FALSE
  BY <1>14 DEF RequestFails, BudgetPath
<1>15. CASE Deadline
  <2>1. /\ Unanswered /\ phase # "idle" /\ phase' = "idle"
        /\ UNCHANGED <<pc, alive, started, reconnects, remaining, dropped, cancelled, opened>>
        /\ Running /\ tasks' \subseteq tasks
    BY <1>15 DEF Deadline, Recover
  <2>2. pc = "session" => remaining = 0
    <3>1. pc = "session" => alive /\ phase = "both"
      BY <2>1 DEF BudgetPath, Unanswered
    <3>2. pc = "session" => Sources \subseteq dropped
      BY <2>1, <3>1 DEF Unanswered, Awaited
    <3>q. QED BY <3>2 DEF BudgetPath, SerialTypes
  <2>q. QED BY <2>1, <2>2 DEF BudgetPath, Running
<1>16. CASE ExchangeCancelled
  <2>1. pc = "session" => cancelled
    BY <1>16 DEF ExchangeCancelled, Stopped, SessionInv, Sequential
  <2>q. QED BY <1>16, <2>1 DEF ExchangeCancelled, Cancel, BudgetPath
<1>17. ASSUME NEW s \in Sessions, PingEnds(s) \/ ReaderEnds(s) PROVE BudgetPath'
  BY <1>17 DEF PingEnds, ReaderEnds, BudgetPath, Running
<1>18. CASE Plug \/ UNCHANGED vars
  BY <1>18, BudgetKept DEF Plug, vars
<1>q. QED
  BY <1>1, <1>2, <1>3, <1>4, <1>5, <1>6, <1>7, <1>8, <1>9, <1>10, <1>11, <1>12,
     <1>13, <1>14, <1>15, <1>16, <1>17, <1>18, <1>19
     DEF Next, Open, Close, Exchange

-----------------------------------------------------------------------------
\* Every reachable state of the transport satisfies the larger invariant.
LEMMA SerialInvariant == Spec => []SerialInv
<1>1. SerialInv /\ [Next]_vars => SerialInv'
  <2>1. SessionInv /\ [Next]_vars => SessionInv'
    BY NumberedStep, SequentialStep, ExchangeStep, ReturnsStep DEF SessionInv
  <2>q. QED BY <2>1, SerialTypeStep, PaidStep, BudgetStep DEF SerialInv
<1>q. QED BY <1>1, SerialInit, PTL DEF Spec

\* run_with_hotplug opens an interface for every unplug, every fault and every
\* request the injector drops, and one more: a session is replaced only because
\* something was lost, in whatever order the tasks, the token and the device act.
THEOREM SessionsArePaidFor == Spec => []SessionsCostLosses
<1>1. SerialInv => SessionsCostLosses
  BY LossTypes DEF SerialInv, SessionsPaid, Losses, SessionsCostLosses
<1>q. QED BY <1>1, SerialInvariant, PTL

\* The numbers of sessions stay within the bound that the next-state relation
\* quantifies over, so no task of run is left out; its variables have their types.
LEMMA SerialTypesOK == Spec => []TypeOK
<1>1. SerialInv => TypeOK
  <2> SUFFICES ASSUME SerialInv PROVE TypeOK OBVIOUS
  <2> USE SerialAssumption DEF SerialInv
  <2>1. opened \in 0..MaxSessions
    <3>1. opened \in Nat /\ remaining \in Nat /\ opened <= Losses + 1
      BY LossTypes DEF SessionsPaid
    <3>2. unplugs \in 0..MaxUnplugs /\ faults \in 0..MaxFaults
      BY DEF SerialTypes
    <3>q. QED BY <3>1, <3>2 DEF Losses, MaxSessions
  <2>2. 1..opened \subseteq Sessions
    BY <2>1 DEF MaxSessions, Sessions
  <2>3. /\ registered \subseteq Sessions /\ started \subseteq Sessions
        /\ stopped \subseteq Sessions /\ tasks \subseteq TaskNames \X Sessions
    BY <2>2 DEF SerialTypes, SessionInv, Numbered
  <2>q. QED BY <2>1, <2>3 DEF TypeOK, SerialTypes, SessionInv, Returns
<1>q. QED BY <1>1, SerialInvariant, PTL

\* The injector's budget belongs to the process: for one primary and its backup
\* it is used up before a replacement session starts, if nothing else fails,
\* whichever direction it is for.
THEOREM BudgetIsSpent == Spec => []BudgetSpentBeforeReplacement
<1>1. SerialInv => BudgetSpentBeforeReplacement
  BY DEF SerialInv, BudgetPath, OnlyDrops, BudgetSpentBeforeReplacement
<1>q. QED BY <1>1, SerialInvariant, PTL
=============================================================================
