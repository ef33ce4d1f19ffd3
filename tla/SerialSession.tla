---------------------------- MODULE SerialSession ---------------------------
(***************************************************************************)
(* The life of the serial transport: host/src/serial_transport.rs.         *)
(*                                                                         *)
(* run opens a serial port, asks the device for its MAC address, creates   *)
(* the TAP interface and starts three tasks, a session.  With a fixed port *)
(* the end of the session is the end of the daemon.  In hot-plug mode the  *)
(* port is searched and a new session started, until cancellation.  The    *)
(* tasks of an old session are cancelled but not joined.                   *)
(*                                                                         *)
(* The exchange task is seen as a sequence of calls (EndpointWait), the    *)
(* requests of which the test-only fault injector may drop.                *)
(***************************************************************************)
EXTENDS EndpointWait, MacQuery

CONSTANTS
  Budget,           \* LAMELLA_TEST_DROP_ENDPOINT_REQUESTS
  Direction,        \* LAMELLA_TEST_DROP_ENDPOINT_DIRECTION: "any", "tx", "rx"
  MaxUnplugs,       \* bound: times the device is unplugged
  MaxFaults         \* bound: failures while the device is plugged in

ASSUME SerialAssumption ==
  /\ Budget \in Nat /\ MaxUnplugs \in Nat /\ MaxFaults \in Nat
  /\ Direction \in {"any", "tx", "rx"}

VARIABLES
  hotplug,          \* --by-id is given and --port is not
  plugged,          \* the device is there
  alive,            \* and has been there since the last interface was opened
  unplugs, faults,
  cancelled,        \* the daemon's cancellation token
  pc,               \* where in run
  result,           \* "running", or what run has returned
  tap,              \* the TAP interface has been created
  opened,           \* interfaces registered so far; a session has the number
                    \* of its interface
  registered,       \* interfaces not deregistered
  started,          \* sessions started
  stopped,          \* sessions whose own token is cancelled
  tasks,            \* running tasks, pairs of name and session
  reconnects,       \* the metric
  remaining,        \* what is left of the injector's budget
  kind,             \* direction of the call in progress or, if the transaction
                    \* decides it, of the next one; else "any"
  dropped           \* requests of the last call that the injector dropped

envVars == <<hotplug, plugged, alive, unplugs>>
runVars == <<pc, result, tap, opened, registered, started, stopped, reconnects,
             attempt>>
callVars == <<phase, remaining, kind, dropped>>
vars == <<envVars, faults, cancelled, runVars, tasks, callVars>>

TaskNames == {"ping", "reader", "exchange"}

\* A session is opened first, after an unplug, or after a fault or the loss of
\* a request to the injector.
MaxSessions == 1 + MaxUnplugs + MaxFaults + Budget

Sessions == 1..MaxSessions

Init ==
  /\ hotplug \in BOOLEAN
  /\ plugged \in BOOLEAN /\ alive = FALSE /\ unplugs = 0 /\ faults = 0
  /\ cancelled = FALSE
  /\ pc = IF hotplug THEN "find" ELSE "register"
  /\ result = "running" /\ tap = FALSE
  /\ opened = 0 /\ registered = {} /\ started = {} /\ stopped = {}
  /\ tasks = {}
  /\ reconnects = 0 /\ attempt = 0
  /\ phase = "idle" /\ remaining = Budget /\ kind = "any" /\ dropped = {}

-----------------------------------------------------------------------------
(* The device, and the signal handler.                                     *)

Plug ==
  /\ ~plugged
  /\ plugged' = TRUE
  /\ UNCHANGED <<hotplug, alive, unplugs, faults, cancelled, runVars, tasks,
                 callVars>>

Unplug ==
  /\ plugged
  /\ unplugs < MaxUnplugs
  /\ plugged' = FALSE /\ alive' = FALSE
  /\ unplugs' = unplugs + 1
  /\ UNCHANGED <<hotplug, faults, cancelled, runVars, tasks, callVars>>

CancelToken ==
  /\ ~cancelled
  /\ cancelled' = TRUE
  /\ UNCHANGED <<envVars, faults, runVars, tasks, callVars>>

\* Something fails: without cause at most MaxFaults times.
Fault(cause) ==
  IF cause
    THEN UNCHANGED faults
    ELSE faults < MaxFaults /\ faults' = faults + 1

-----------------------------------------------------------------------------
(* run                                                                     *)

\* An error before the session has started.
GiveUp ==
  /\ pc' = IF hotplug THEN "pause" ELSE "returned"
  /\ result' = IF hotplug THEN result ELSE "err"

Find ==
  /\ pc = "find"
  /\ plugged
  /\ pc' = "register"
  /\ UNCHANGED <<envVars, faults, cancelled, result, tap, opened, registered,
                 started, stopped, reconnects, attempt, tasks, callVars>>

\* Mutant of FindCancelled: the search for a device does not poll the token.
FindCancelledNever == FALSE /\ UNCHANGED vars

FindCancelled ==
  /\ pc = "find"
  /\ cancelled
  /\ pc' = "returned" /\ result' = "ok"
  /\ UNCHANGED <<envVars, faults, cancelled, tap, opened, registered, started,
                 stopped, reconnects, attempt, tasks, callVars>>

Register ==
  /\ pc = "register"
  /\ plugged
  /\ opened' = opened + 1
  /\ registered' = registered \union {opened + 1}
  /\ alive' = TRUE
  /\ QueryStart
  /\ pc' = "query"
  /\ UNCHANGED <<hotplug, plugged, unplugs, faults, cancelled, result, tap,
                 started, stopped, reconnects, tasks, callVars>>

RegisterFails ==
  /\ pc = "register"
  /\ Fault(~plugged)
  /\ GiveUp
  /\ UNCHANGED <<envVars, cancelled, tap, opened, registered, started, stopped,
                 reconnects, attempt, tasks, callVars>>

QueryAttemptFails ==
  /\ pc = "query"
  /\ QueryRetries
  /\ Fault(~alive)
  /\ UNCHANGED <<envVars, cancelled, pc, result, tap, opened, registered,
                 started, stopped, reconnects, tasks, callVars>>

\* The interface stays registered.
QueryGivesUp ==
  /\ pc = "query"
  /\ QueryFails
  /\ Fault(~alive)
  /\ GiveUp
  /\ UNCHANGED <<envVars, cancelled, tap, opened, registered, started, stopped,
                 reconnects, tasks, callVars>>

QueryAnswer ==
  /\ pc = "query"
  /\ alive
  /\ QueryAnswered
  /\ pc' = "start"
  /\ UNCHANGED <<envVars, faults, cancelled, result, tap, opened, registered,
                 started, stopped, reconnects, tasks, callVars>>

\* The interface has gone after the answer: hot-plug searches again at once.
AddressLost ==
  /\ pc = "start"
  /\ ~alive
  /\ pc' = IF hotplug THEN "find" ELSE "returned"
  /\ result' = IF hotplug THEN result ELSE "err"
  /\ UNCHANGED <<envVars, faults, cancelled, tap, opened, registered, started,
                 stopped, reconnects, attempt, tasks, callVars>>

TapFails ==
  /\ pc = "start"
  /\ ~tap
  /\ Fault(FALSE)
  /\ pc' = "returned" /\ result' = "err"
  /\ UNCHANGED <<envVars, cancelled, tap, opened, registered, started, stopped,
                 reconnects, attempt, tasks, callVars>>

\* Mutant of InjectorFor: every session has a budget of its own.
InjectorPerSession == remaining' = Budget

\* The session gets a clone of the process-wide injector.
InjectorFor == UNCHANGED remaining

\* The first session creates the TAP interface; later ones count as reconnects.
StartSession ==
  /\ pc = "start"
  /\ alive
  /\ tap' = TRUE
  /\ started' = started \union {opened}
  /\ reconnects' = IF started = {} THEN 0 ELSE reconnects + 1
  /\ tasks' = tasks \union (TaskNames \X {opened})
  /\ InjectorFor
  /\ phase' = "idle" /\ kind' = "any" /\ dropped' = {}
  /\ pc' = "session"
  /\ UNCHANGED <<envVars, faults, cancelled, result, opened, registered, stopped,
                 attempt>>

Ended(t) == <<t, opened>> \notin tasks

\* Mutant of CloseSession: the interface is not deregistered.
CloseSessionOnlyToken ==
  /\ stopped' = stopped \union {opened}
  /\ UNCHANGED registered

\* Mutant of CloseSession: the session's token is not cancelled.
CloseSessionOnlyInterface ==
  /\ registered' = registered \ {opened}
  /\ UNCHANGED stopped

CloseSession ==
  /\ stopped' = stopped \union {opened}
  /\ registered' = registered \ {opened}

\* Mutant of EndHotPlugSession: the end of a session is the end of run.
EndHotPlugSessionReturns ==
  /\ hotplug
  /\ pc = "session"
  /\ cancelled \/ \E t \in TaskNames : Ended(t)
  /\ CloseSession
  /\ pc' = "returned" /\ result' = "ok"
  /\ UNCHANGED <<envVars, faults, cancelled, tap, opened, started, reconnects,
                 attempt, tasks, callVars>>

\* Hot-plug: cancellation, or the end of any task.
EndHotPlugSession ==
  /\ hotplug
  /\ pc = "session"
  /\ cancelled \/ \E t \in TaskNames : Ended(t)
  /\ CloseSession
  /\ pc' = IF cancelled THEN "returned" ELSE "pause"
  /\ result' = IF cancelled THEN "ok" ELSE result
  /\ UNCHANGED <<envVars, faults, cancelled, tap, opened, started, reconnects,
                 attempt, tasks, callVars>>

\* Fixed port: select! takes either ready branch.
EndPortSession ==
  /\ ~hotplug
  /\ pc = "session"
  /\ \/ cancelled /\ result' = "ok"
     \/ Ended("exchange") /\ result' = "err"
  /\ CloseSession
  /\ pc' = "returned"
  /\ UNCHANGED <<envVars, faults, cancelled, tap, opened, started, reconnects,
                 attempt, tasks, callVars>>

Resume ==
  /\ pc = "pause"
  /\ pc' = "find"
  /\ UNCHANGED <<envVars, faults, cancelled, result, tap, opened, registered,
                 started, stopped, reconnects, attempt, tasks, callVars>>

-----------------------------------------------------------------------------
(* The tasks of a session.  session_cancel is a child of the daemon's      *)
(* token.                                                                  *)

Stopped(s) == cancelled \/ s \in stopped

Running == <<"exchange", opened>> \in tasks

PingEnds(s) ==
  /\ <<"ping", s>> \in tasks
  /\ Stopped(s)
  /\ tasks' = tasks \ {<<"ping", s>>}
  /\ UNCHANGED <<envVars, faults, cancelled, runVars, callVars>>

\* Mutant of ReaderEnds: the reader also ends when reading from TAP fails.
ReaderEndsOnError(s) ==
  /\ <<"reader", s>> \in tasks
  /\ tasks' = tasks \ {<<"reader", s>>}
  /\ UNCHANGED <<envVars, faults, cancelled, runVars, callVars>>

\* The reader also ends when it finds its queue closed by the exchange task.
ReaderEnds(s) ==
  /\ <<"reader", s>> \in tasks
  /\ Stopped(s) \/ <<"exchange", s>> \notin tasks
  /\ tasks' = tasks \ {<<"reader", s>>}
  /\ UNCHANGED <<envVars, faults, cancelled, runVars, callVars>>

\* Mutant of Matches: the label of a backup request is not recognised.
MatchesPrimary(k, s) == s = "primary" /\ (Direction = "any" \/ Direction = k)

\* Is a request of this direction the injector's business?  The labels are
\* "WiFi TX", "WiFi TX backup", "WiFi RX", "WiFi RX backup".
Matches(k, s) == Direction = "any" \/ Direction = k

\* Request s of a call: dropped while there is budget.
Send(k, s) ==
  IF Matches(k, s) /\ remaining > 0
    THEN /\ remaining' = remaining - 1
         /\ dropped' = (IF s = "primary" THEN {} ELSE dropped) \union {s}
    ELSE /\ UNCHANGED remaining
         /\ dropped' = IF s = "primary" THEN {} ELSE dropped

\* A transaction is requested until it is answered; a TX transaction is
\* followed by an RX poll, and whether one precedes it depends on the queue.
Call(k) ==
  /\ Running
  /\ kind \in {k, "any"}
  /\ Start
  /\ kind' = k
  /\ Send(k, "primary")
  /\ UNCHANGED <<envVars, faults, cancelled, runVars, tasks>>

Backup ==
  /\ Running
  /\ StallTimer
  /\ Send(kind, "backup")
  /\ UNCHANGED <<envVars, faults, cancelled, runVars, tasks, kind>>

\* The transaction is answered.
Reply(s) ==
  /\ Running
  /\ alive
  /\ s \notin dropped
  /\ Complete(s, TRUE)
  /\ kind' = IF kind = "tx" THEN "rx" ELSE "any"
  /\ UNCHANGED <<envVars, faults, cancelled, runVars, tasks, remaining, dropped>>

\* The response is to another transaction: the loop sends this one again.
Mismatch(s) ==
  /\ Running
  /\ alive
  /\ s \notin dropped
  /\ Complete(s, TRUE)
  /\ Fault(FALSE)
  /\ UNCHANGED <<envVars, cancelled, runVars, tasks, remaining, kind, dropped>>

\* A request yields an error, on a dead interface any number of times; the loop
\* sends the transaction again, with a new deadline.
RequestFails(s) ==
  /\ Running
  /\ s \in Awaited \ dropped
  /\ Fault(~alive)
  /\ FirstFailure(s) \/ Complete(s, FALSE)
  /\ UNCHANGED <<envVars, cancelled, runVars, tasks, remaining, kind, dropped>>

\* The stall timer fires before the deadline, which finds no backup sent only
\* if the host itself has been held up for five seconds: a fault.
Unanswered == phase # "primary" /\ (~alive \/ Awaited \subseteq dropped)

\* Mutant of Deadline: the exchange task goes on after the deadline.
DeadlineRetries ==
  /\ Running
  /\ Fault(Unanswered)
  /\ Recover
  /\ UNCHANGED <<envVars, cancelled, runVars, tasks, remaining, kind, dropped>>

\* No answer for five seconds: the exchange task ends.
Deadline ==
  /\ Running
  /\ Fault(Unanswered)
  /\ Recover
  /\ tasks' = tasks \ {<<"exchange", opened>>}
  /\ UNCHANGED <<envVars, cancelled, runVars, remaining, kind, dropped>>

ExchangeCancelled ==
  /\ Running
  /\ Stopped(opened)
  /\ Cancel
  /\ tasks' = tasks \ {<<"exchange", opened>>}
  /\ UNCHANGED <<envVars, faults, cancelled, runVars, remaining, kind, dropped>>

-----------------------------------------------------------------------------
Open ==
  \/ Find \/ FindCancelled \/ Register \/ RegisterFails
  \/ QueryAttemptFails \/ QueryGivesUp \/ QueryAnswer
  \/ AddressLost \/ TapFails \/ StartSession

Close == EndHotPlugSession \/ EndPortSession \/ Resume

Exchange ==
  \/ \E k \in {"tx", "rx"} : Call(k)
  \/ Backup
  \/ \E s \in Sources : Reply(s) \/ Mismatch(s) \/ RequestFails(s)
  \/ Deadline \/ ExchangeCancelled

Next ==
  \/ Plug \/ Unplug \/ CancelToken
  \/ Open \/ Close \/ Exchange
  \/ \E s \in Sessions : PingEnds(s) \/ ReaderEnds(s)

Spec == Init /\ [][Next]_vars

\* run is polled when something it awaits is ready, timers fire, a live device
\* answers, and tasks notice their token.  select! picks ready branches at
\* random, hence the strong fairness.
FairSpec ==
  /\ Spec
  /\ WF_vars(Open) /\ WF_vars(Close)
  /\ \A k \in {"tx", "rx"} : WF_vars(Call(k))
  /\ WF_vars(Backup) /\ WF_vars(\E s \in Sources : Reply(s)) /\ WF_vars(Deadline)
  /\ SF_vars(ExchangeCancelled) /\ SF_vars(FindCancelled)
  /\ \A s \in Sessions : WF_vars(PingEnds(s)) /\ WF_vars(ReaderEnds(s))

-----------------------------------------------------------------------------
TypeOK ==
  /\ hotplug \in BOOLEAN
  /\ phase \in Phases /\ attempt \in 0..Retries
  /\ plugged \in BOOLEAN /\ alive \in BOOLEAN /\ cancelled \in BOOLEAN
  /\ unplugs \in 0..MaxUnplugs /\ faults \in 0..MaxFaults
  /\ pc \in {"find", "register", "query", "start", "session", "pause", "returned"}
  /\ result \in {"running", "ok", "err"}
  /\ tap \in BOOLEAN
  /\ opened \in 0..MaxSessions
  /\ registered \subseteq Sessions /\ started \subseteq Sessions
  /\ stopped \subseteq Sessions
  /\ tasks \subseteq TaskNames \X Sessions
  /\ reconnects \in Nat /\ remaining \in 0..Budget
  /\ kind \in {"tx", "rx", "any"} /\ dropped \subseteq Sources

\* Interfaces are not opened for nothing: each one after the first is paid for
\* by an unplug, a failure or a request the injector has dropped.  A task that
\* ended by itself, or a search that did not wait for the end of the session,
\* would let a healthy device go through any number of sessions.
SessionsCostLosses ==
  opened <= 1 + unplugs + faults + (Budget - remaining)

\* Although sessions are not joined, at most one exchange task issues requests:
\* when a session runs, the exchange tasks of all earlier ones have ended, and
\* while the host looks for the device there is none.
OneExchangeTask ==
  \A s \in Sessions :
    <<"exchange", s>> \in tasks => s = opened /\ pc \in {"session", "returned"}

\* A session that has ended leaves no interface behind: what its remaining
\* tasks send cannot reach the device beside the next session.
EndedSessionsDetached ==
  \A s \in started \intersect registered : s = opened /\ pc = "session"

\* The budget is process-wide: with one primary and its backup to drop it is
\* used up before a replacement session starts, if nothing else is lost.
BudgetSpentBeforeReplacement ==
  Budget = 2 /\ reconnects > 0 /\ faults = 0 /\ unplugs = 0 => remaining = 0

\* Cancellation ends run, whatever it is waiting for.
CancelReturns == cancelled ~> pc = "returned"

\* From some time on no request is refused.  The exchange task has a deadline
\* for silence only: each error starts a new call with a new deadline, so a dead
\* interface that refuses every request keeps its session for ever.
RefusalsCease == <>[][\A s \in Sources : ~RequestFails(s)]_vars

\* In hot-plug mode a device that is there and stays there gets a session, if
\* its old interface falls silent: it need not, if that one refuses requests
\* for ever.  run can only fail before the TAP interface exists.
SessionResumes ==
  RefusalsCease =>
    (hotplug /\ plugged ~>
      (pc = "session" /\ alive) \/ ~plugged \/ cancelled
        \/ (result = "err" /\ ~tap))

\* Tasks of sessions that are over.
Leftover == {t \in tasks : t[2] # opened \/ pc # "session"}

\* A session that is over does not leave tasks running: again and again there
\* are none left, although nobody joins them.
TasksEnd == []<>(Leftover = {})

\* With a budget of two, dropping a primary and its backup makes hot-plug mode
\* recreate the transport, unless an interface refuses requests for ever.
DropsForceReplacement ==
  RefusalsCease =>
    (Budget = 2 /\ hotplug /\ plugged ~>
      reconnects > 0 \/ cancelled \/ ~plugged \/ (result = "err" /\ ~tap))

\* Ctrl-C makes the daemon shut down cleanly: once a session runs, run does not
\* return an error unless something has failed.
ShutsDownCleanly ==
  cancelled /\ started # {} /\ faults = 0 /\ unplugs = 0 => result # "err"

-----------------------------------------------------------------------------
T == INSTANCE Transport

\* run creates the TAP interface once, keeps it across sessions and returns Ok
\* only if cancelled.
ImplementsTransport == T!TransportSpec
=============================================================================
