---------------------------- MODULE NusbTransport ---------------------------
(***************************************************************************)
(* The life of the USB bulk transport: host/src/nusb_transport.rs.         *)
(*                                                                         *)
(* run polls for devices and registers an Ergot interface for each one it  *)
(* has not seen.  The first that answers a MAC query becomes the peer, the *)
(* TAP interface is created and three tasks start.  From then on a device  *)
(* that appears and answers replaces the peer.  The exchange task reads    *)
(* the peer once per call; its calls have no recovery deadline.            *)
(*                                                                         *)
(* Every connection of a device has a number of its own, which also stands *)
(* for the interface registered for it and for its network address.        *)
(***************************************************************************)
EXTENDS EndpointWait, MacQuery, Transport, Sequences, FiniteSets

LOCAL INSTANCE Functions

CONSTANTS
  Devices,          \* what current_device_infos tells apart
  MaxPlugs,         \* bound: connections
  MaxFaults         \* bound: failures while the device is there

ASSUME NusbAssumption ==
  /\ MaxPlugs \in Nat /\ MaxFaults \in Nat

VARIABLES
  at,               \* the connection of each device, 0 when unplugged
  plugs,            \* connections so far
  missed,           \* devices absent at a poll since they were unplugged
  unnoticed,        \* connections of devices that had an interface and were
                    \* back before any poll missed them
  givenUp,          \* connections whose MAC query failed in every attempt
  faults,
  pc,               \* where in run
  seen,             \* devices with an interface
  interfaces,       \* interfaces registered
  registered,       \* interfaces of the last poll still to be handled
  peer,             \* the watch channel; 0 before it is created
  reconnects,       \* the metric
  tasks,            \* running tasks
  callee,           \* the peer of the last call
  refused           \* requests of that call made when it was not there

envVars == <<at, plugs, missed, unnoticed, givenUp>>
runVars == <<pc, result, tap, seen, interfaces, registered, peer, reconnects,
             attempt>>
callVars == <<phase, callee, refused>>
vars == <<envVars, faults, cancelled, runVars, tasks, callVars>>

TaskNames == {"ping", "reader", "exchange"}

Connected == {d \in Devices : at[d] # 0}

Up(i) == \E d \in Connected : at[d] = i

Init ==
  /\ at = [d \in Devices |-> 0] /\ plugs = 0 /\ faults = 0
  /\ missed = Devices /\ unnoticed = {} /\ givenUp = {}
  /\ cancelled = FALSE
  /\ pc = "reconcile" /\ result = "running" /\ tap = FALSE
  /\ seen = {} /\ interfaces = {} /\ registered = <<>>
  /\ peer = 0 /\ reconnects = 0 /\ attempt = 0
  /\ tasks = {}
  /\ phase = "idle" /\ callee = 0 /\ refused = {}

-----------------------------------------------------------------------------
(* The devices, and the signal handler.                                    *)

Plug(d) ==
  /\ at[d] = 0
  /\ plugs < MaxPlugs
  /\ plugs' = plugs + 1
  /\ at' = [at EXCEPT ![d] = plugs + 1]
  /\ missed' = missed \ {d}
  /\ unnoticed' = unnoticed \union (IF d \in seen \ missed THEN {plugs + 1} ELSE {})
  /\ UNCHANGED <<givenUp, faults, cancelled, runVars, tasks, callVars>>

Unplug(d) ==
  /\ at[d] # 0
  /\ at' = [at EXCEPT ![d] = 0]
  /\ UNCHANGED <<plugs, missed, unnoticed, givenUp, faults, cancelled, runVars,
                 tasks, callVars>>

CancelToken ==
  /\ ~cancelled
  /\ cancelled' = TRUE
  /\ UNCHANGED <<envVars, faults, runVars, tasks, callVars>>

\* n failures: without cause at most MaxFaults in all.
Faults(cause, n) ==
  /\ cause \/ faults + n <= MaxFaults
  /\ faults' = IF cause THEN faults ELSE faults + n

-----------------------------------------------------------------------------
(* reconcile_and_register_devices                                          *)

\* Mutant of Prune: a device once seen is never forgotten.
PruneNothing == seen' = seen

\* Devices that are gone are forgotten.
Prune == seen' = seen \intersect Connected

\* The devices are listed, or listing them fails and nothing is forgotten.
Reconcile ==
  /\ pc = "reconcile"
  /\ \/ /\ Prune
        /\ missed' = Devices \ Connected
        /\ UNCHANGED faults
     \/ /\ Faults(FALSE, 1)
        /\ UNCHANGED <<seen, missed>>
  /\ pc' = "register"
  /\ UNCHANGED <<at, plugs, unnoticed, givenUp, cancelled, result, tap, interfaces,
                 registered, peer, reconnects, attempt, tasks, callVars>>

\* find_new_devices, and an interface for each where registration succeeds.
\* The first loop of run uses the first of them only.
RegisterDevices ==
  /\ pc = "register"
  /\ LET new == Connected \ seen
     IN \E ok \in SUBSET new :
          /\ Faults(FALSE, Cardinality(new \ ok))
          /\ seen' = seen \union ok
          /\ interfaces' = interfaces \union {at[d] : d \in ok}
          /\ \E order \in Bijection(1..Cardinality(ok), {at[d] : d \in ok}) :
               registered' = IF tap \/ ok = {} THEN order ELSE <<Head(order)>>
          /\ IF ok = {}
               THEN pc' = "idle" /\ UNCHANGED attempt
               ELSE pc' = "query" /\ QueryStart
  /\ UNCHANGED <<envVars, cancelled, result, tap, peer, reconnects, tasks,
                 callVars>>

Poll ==
  /\ pc = "idle"
  /\ pc' = "reconcile"
  /\ UNCHANGED <<envVars, faults, cancelled, result, tap, seen, interfaces,
                 registered, peer, reconnects, attempt, tasks, callVars>>

-----------------------------------------------------------------------------
(* run                                                                     *)

\* On with the next new interface: with none left the first loop polls again
\* at once, the second after a pause.
NextInterface ==
  /\ registered' = Tail(registered)
  /\ IF Tail(registered) = <<>>
       THEN /\ pc' = IF tap THEN "idle" ELSE "reconcile"
            /\ attempt' = 0
       ELSE pc' = "query" /\ attempt' = 1

QueryAttemptFails ==
  /\ pc = "query"
  /\ QueryRetries
  /\ Faults(~Up(Head(registered)), 1)
  /\ UNCHANGED <<envVars, cancelled, pc, result, tap, seen, interfaces,
                 registered, peer, reconnects, tasks, callVars>>

\* The device stays in seen: it is not asked again until it is replugged.
QueryGivesUp ==
  /\ pc = "query"
  /\ LastAttempt
  /\ Faults(~Up(Head(registered)), 1)
  /\ givenUp' = givenUp \union {Head(registered)}
  /\ NextInterface
  /\ UNCHANGED <<at, plugs, missed, unnoticed, cancelled, result, tap, seen,
                 interfaces, peer, reconnects, tasks, callVars>>

QueryAnswer ==
  /\ pc = "query"
  /\ Up(Head(registered))
  /\ QueryAnswered
  /\ pc' = "route"
  /\ UNCHANGED <<envVars, faults, cancelled, result, tap, seen, interfaces,
                 registered, peer, reconnects, tasks, callVars>>

\* The first device that answers: TAP interface, watch channel, tasks.
StartBridge ==
  /\ pc = "route" /\ ~tap
  /\ Up(Head(registered))
  /\ tap' = TRUE
  /\ peer' = Head(registered)
  /\ registered' = <<>>
  /\ tasks' = TaskNames
  /\ pc' = "reconcile"
  /\ UNCHANGED <<envVars, faults, cancelled, result, seen, interfaces, reconnects,
                 attempt, callVars>>

\* The device is gone again, or the TAP interface cannot be created.
StartFails ==
  /\ pc = "route" /\ ~tap
  /\ Faults(~Up(Head(registered)), 1)
  /\ pc' = "returned" /\ result' = "err"
  /\ UNCHANGED <<envVars, cancelled, tap, seen, interfaces, registered, peer,
                 reconnects, attempt, tasks, callVars>>

\* Mutant of UpdateRoute: the reconnect is counted, the peer is not replaced.
UpdateRouteUnsent ==
  /\ pc = "route" /\ tap
  /\ reconnects' = IF Up(Head(registered)) THEN reconnects + 1 ELSE reconnects
  /\ NextInterface
  /\ UNCHANGED <<envVars, faults, cancelled, result, tap, seen, interfaces,
                 peer, tasks, callVars>>

\* A device that answered after a reconnect becomes the peer, if its interface
\* is still there.
UpdateRoute ==
  /\ pc = "route" /\ tap
  /\ IF Up(Head(registered))
       THEN peer' = Head(registered) /\ reconnects' = reconnects + 1
       ELSE UNCHANGED <<peer, reconnects>>
  /\ NextInterface
  /\ UNCHANGED <<envVars, faults, cancelled, result, tap, seen, interfaces,
                 tasks, callVars>>

\* Mutant of CancelSeen: the search for the first device ignores the token.
CancelSeenLate ==
  /\ cancelled /\ tap
  /\ pc \in {"reconcile", "register", "query", "idle"}
  /\ pc' = "join"
  /\ UNCHANGED <<envVars, faults, cancelled, tap, seen, interfaces, registered,
                 peer, reconnects, attempt, tasks, callVars, result>>

\* Mutant of CancelSeen: a poll that finds nothing ends run.
CancelSeenOrIdle ==
  /\ cancelled \/ pc = "idle"
  /\ pc \in {"reconcile", "register", "query", "idle"}
  /\ pc' = IF tap THEN "join" ELSE "returned"
  /\ result' = IF tap THEN result ELSE "ok"
  /\ UNCHANGED <<envVars, faults, cancelled, tap, seen, interfaces, registered,
                 peer, reconnects, attempt, tasks, callVars>>

\* select! drops the poll at any await.  The first loop returns, the second
\* goes on to join the tasks.
CancelSeen ==
  /\ cancelled
  /\ pc \in {"reconcile", "register", "query", "idle"}
  /\ pc' = IF tap THEN "join" ELSE "returned"
  /\ result' = IF tap THEN result ELSE "ok"
  /\ UNCHANGED <<envVars, faults, cancelled, tap, seen, interfaces, registered,
                 peer, reconnects, attempt, tasks, callVars>>

Join ==
  /\ pc = "join"
  /\ tasks = {}
  /\ pc' = "returned" /\ result' = "ok"
  /\ UNCHANGED <<envVars, faults, cancelled, tap, seen, interfaces, registered,
                 peer, reconnects, attempt, tasks, callVars>>

-----------------------------------------------------------------------------
(* The tasks.                                                              *)

HelperEnds(t) ==
  /\ t \in tasks \ {"exchange"}
  /\ cancelled
  /\ tasks' = tasks \ {t}
  /\ UNCHANGED <<envVars, faults, cancelled, runVars, callVars>>

Running == "exchange" \in tasks

\* Ergot refuses a request when the interface is gone.
Gone(i, s) == IF Up(i) THEN {} ELSE {s}

\* Mutant of Callee: the task keeps the first peer.
CalleeFirst == IF callee = 0 THEN peer ELSE callee

\* peer.borrow_and_update
Callee == peer

Call ==
  /\ Running
  /\ Start
  /\ callee' = Callee
  /\ refused' = Gone(Callee, "primary")
  /\ UNCHANGED <<envVars, faults, cancelled, runVars, tasks>>

\* The closure has captured the peer of the primary request.
Backup ==
  /\ Running
  /\ "primary" \notin refused
  /\ StallTimer
  /\ refused' = refused \union Gone(callee, "backup")
  /\ UNCHANGED <<envVars, faults, cancelled, runVars, tasks, callee>>

Reply(s) ==
  /\ Running
  /\ s \notin refused
  /\ Up(callee)
  /\ Complete(s, TRUE)
  /\ UNCHANGED <<envVars, faults, cancelled, runVars, tasks, callee, refused>>

\* A refused request fails; the loop sends the transaction again.
Refused(s) ==
  /\ Running
  /\ s \in refused \intersect Awaited
  /\ FirstFailure(s) \/ Complete(s, FALSE)
  /\ UNCHANGED <<envVars, faults, cancelled, runVars, tasks, callee, refused>>

ExchangeCancelled ==
  /\ Running
  /\ cancelled
  /\ Cancel
  /\ tasks' = tasks \ {"exchange"}
  /\ UNCHANGED <<envVars, faults, cancelled, runVars, callee, refused>>

-----------------------------------------------------------------------------
Watch ==
  \/ Reconcile \/ RegisterDevices \/ Poll
  \/ QueryAttemptFails \/ QueryGivesUp \/ QueryAnswer
  \/ StartBridge \/ StartFails \/ UpdateRoute
  \/ CancelSeen \/ Join

Exchange ==
  \/ Call \/ Backup \/ ExchangeCancelled
  \/ \E s \in Sources : Reply(s) \/ Refused(s)

Next ==
  \/ \E d \in Devices : Plug(d) \/ Unplug(d)
  \/ CancelToken
  \/ Watch \/ Exchange
  \/ \E t \in TaskNames : HelperEnds(t)

Spec == Init /\ [][Next]_vars

\* run goes on when what it awaits is ready, a device that is there answers,
\* refused requests fail, timers fire and tasks notice the token.  select!
\* picks ready branches at random, hence the strong fairness.
FairSpec ==
  /\ Spec
  /\ WF_vars(Watch) /\ SF_vars(CancelSeen)
  /\ WF_vars(Call) /\ WF_vars(Backup)
  /\ \A s \in Sources : WF_vars(Reply(s)) /\ WF_vars(Refused(s))
  /\ SF_vars(ExchangeCancelled)
  /\ \A t \in TaskNames : WF_vars(HelperEnds(t))

-----------------------------------------------------------------------------
\* A device that is there and counts as seen has an interface for its current
\* connection, unless it was back before a poll noticed that it had gone.
SeenHasInterface ==
  \A d \in seen : at[d] \notin unnoticed \union {0} => at[d] \in interfaces

\* A device that connects and stays becomes the peer, at the start and after
\* every reconnect, with three exceptions the code makes: a reconnect no poll
\* has noticed; a connection whose MAC query failed in every attempt, which is
\* not asked again; and of several devices found before the TAP interface
\* exists, all but one.
RouteFollowsDevice ==
  \A d \in Devices, i \in 1..MaxPlugs :
    at[d] = i /\ i \notin interfaces ~>
      \/ peer = i \/ at[d] # i \/ cancelled \/ result = "err"
      \/ i \in unnoticed \union givenUp \/ (~tap /\ Connected # {d})

\* Once the route has been updated the exchange task uses it.
ExchangeFollowsRoute ==
  \A i \in 1..MaxPlugs :
    (peer = i /\ Up(i)) ~> callee = i \/ peer # i \/ ~Up(i) \/ cancelled

\* It does, unless it waits for the answer to a request that was lost with the
\* old connection.
RouteUsedUnlessLost ==
  \A i \in 1..MaxPlugs :
    (peer = i /\ Up(i)) ~>
      \/ callee = i \/ peer # i \/ ~Up(i) \/ cancelled
      \/ ~Up(callee) /\ Awaited \ refused # {}

\* Cancellation ends run, and the tasks before it.
CancelReturns == cancelled ~> pc = "returned" /\ tasks = {}

-----------------------------------------------------------------------------
\* run creates the TAP interface once, keeps it across reconnects and returns
\* Ok only if cancelled.
ImplementsTransport == TransportSpec
=============================================================================
