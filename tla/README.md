# Verification of lamella

lamella lends the WiFi of an ESP32 to a Linux host. Ethernet frames travel
between a TAP interface on the host and the radio driver on the device, over
USB, as request/response transactions of the Ergot library. This directory
holds TLA+ models of the bridge, TLC configurations that check them on small
instances, and TLAPS proofs for every instance.

## The system

| Part | Source | State | Operations | Model |
|---|---|---|---|---|
| TAP reader | `serial_transport.rs`, `nusb_transport.rs` | frame in hand, queue of one | read, forward, end | `WifiExchange`; its end in `SerialSession`, `NusbTransport` |
| Exchange task | the same | session, next id, transaction in progress | begin TX or RX transaction, send, repeat, match response | `WifiExchange`, `EndpointRetry` |
| Endpoint wait | `bridge.rs` | which response sockets are awaited | stall timer, backup, first failure, deadline, cancel | `EndpointWait` |
| TX endpoint server | firmware `main.rs` | `last_completed` | receive, hand to the bridge, respond | `WifiExchange` |
| RX endpoint server | firmware `main.rs` | `cached_response` | receive, take a frame or time out, respond | `WifiExchange` |
| WiFi bridge | firmware `main.rs` | three channels, frame in hand | select, transmit, drain, queue | `FirmwareBridge` |
| WiFi connection manager | firmware `main.rs` | connected flag | connect, disconnect, retry | `FirmwareBridge` |
| Firmware as a whole | firmware `main.rs` | all of its memory | restart | `FirmwareRestart` |
| Wire protocol | `icd` | | requests and responses | `WifiExchange` |
| MAC query | `bridge.rs` | attempt | ask, retry, give up | `MacQuery` |
| Serial sessions, fault injector | `serial_transport.rs` | interface, session token, tasks, drop budget | find, register, query, start, close, pause; drop | `SerialSession` |
| NUSB device watcher | `nusb_transport.rs` | devices seen, interfaces, peer | reconcile, register, query, start, update route, join | `NusbTransport` |
| System network mode | `system_network.rs` | profile | wait, add, modify, activate, monitor, delete | `SystemNetwork` |
| Daemon, metrics report | `main.rs`, `metrics.rs` | tasks, exit status, counters | signal, join, report, exit | `Daemon` |

The exchange task owns all requests. It handles at most one TX frame, then one
RX poll, and so on; each is a *transaction* (session, id) that is repeated
until a response with the same transaction arrives. What makes this hard:
requests and responses can be lost, late or doubled; the backup request is sent
while the primary may still arrive; the servers remember one transaction each;
a session can end, and the firmware restart, with messages under way; queues of
one and channels that fill must not deadlock two directions that share one task
on the device; devices come and go while calls are pending; several tasks share
one cancellation token and end in any order.

The correctness properties are therefore: each frame goes to the radio once and
in order; what is acknowledged was transmitted; each received frame reaches the
TAP interface once and in order and few are lost; one loss does not stop the
bridge; TX progresses when the host pulls nothing; calls, tasks and the daemon
end; sessions do not overlap; a device that comes back is used; failures are not
hidden; the counters tell the truth.

## Modules

* `EndpointWait`: `await_endpoint_response`. `phase` says in which of its
  selects the call is suspended.
* `EndpointRetry`: the retry loop around it with its counters, in an
  environment that answers, fails or stays silent at will.
* `RadioPort`: what the firmware bridge promises the two endpoint servers.
* `FirmwareBridge`: the bridge task itself. It implements `RadioPort`
  (`ImplementsRadioPort`). The refinement mapping takes the channel towards the
  host plus the frame in hand as the backlog.
* `WifiExchange`: host, link and endpoint servers together, on top of
  `EndpointWait` and `RadioPort`. `MCWifiExchange` is the module TLC runs.
* `FirmwareRestart`: `WifiExchange` with a firmware that restarts.
* `Transport`: what `main` relies on when it awaits a transport's `run`.
* `MacQuery`: the retries of the MAC query.
* `SerialSession`, `NusbTransport`: the life of the two transports, on top of
  `EndpointWait` and `MacQuery`. Both implement `Transport`
  (`ImplementsTransport`).
* `SystemNetwork`: the network task, a step per command it runs.
* `Daemon`: `main` with the signal, the promise of `Transport`, `SystemNetwork`
  and the metrics report.
* `WifiExchangeInv`: the inductive invariants of the exchange.
* Proofs of the exchange: `WifiExchangePath` (types, lemmas on queues and the
  path), `WifiExchangeTx` (transmission), `WifiExchangeAck` (acknowledgements),
  `WifiExchangeRx` (received frames), `WifiExchangeLoss` (lost received
  frames), `FirmwareRestartProofs` (restarts). There are six because tlapm
  slows down in long modules.
* Proofs of the other parts: `SerialProofs` (`EndpointRetry`, `SerialSession`)
  and `ProcessProofs` (`FirmwareBridge`, `NusbTransport`, `Daemon`). Each
  extends several components, whose specifications therefore have names of
  their own (`RetrySpec`, `BridgeSpec`, `DaemonSpec`); each theorem is about
  one of them.

Serial and NUSB have the same exchange; they differ in the recovery timeout
(`RecoveryEnabled`) and in the peer. The two firmwares have the same servers
and bridge. Definitions with a comment "Mutant of" are wrong variants of the
definition that follows. Each property is known to fail for one of them.

### Abstractions

* Frames are numbers: host frames in the order read, radio frames in the order
  received. Oversized and empty frames and TAP read errors change nothing.
  `to_tap` records frames passed to `tap_device.send`, whether or not the
  write succeeds.
* Session ids are a counter. The code uses nanoseconds xor process id, and the
  model takes these to be distinct.
* The link is FIFO per direction and loses at most `MaxFaults` messages. A
  response with the current transaction is delivered or lost. Any other is
  delivered to an awaited socket of its endpoint (a reused port) or discarded.
  This is how the code uses Ergot; Ergot itself is external.
* A primary request that the full interface queue rejects is retried at once,
  which changes nothing in `WifiExchange`; `EndpointRetry` counts such errors.
* `send_tx_response` gives up on errors other than a full queue. That is
  `TxRespond` followed by `LoseResponse`.
* In `WifiExchange`, ending a session drops the queue, the frame in hand and,
  possibly, requests not written yet, and the old tasks have ended when the
  next session starts. The code does not join them; `OneExchangeTask` of
  `SerialSession` justifies this for the exchange task, and an old TAP reader
  only drops the frame it may still take.
* `RxServeEmpty` is possible with one frame in the backlog, because the bridge
  may hold it outside the channel. This allows slightly more than the code.
* `Prompt` says that link and servers are faster than the 250 ms stall timer,
  so that only a loss or the radio makes it fire. Only `wifi_live` assumes it.
  In `SerialSession` the five-second deadline comes before the stall timer, or
  with an answer on its way, only as one of the `MaxFaults` failures (the host
  was held up).
* A restart of the firmware empties its queues, channels and both memories and
  loses what was in OUTQ or half received. The host's session goes on and
  treats this like any other loss.
* `SerialSession` and `NusbTransport` number interfaces, one for each
  registration or connection. `alive` and `Up` say whether the device behind
  one has been there since. Failures with the device present are limited by
  `MaxFaults`; failures because it is gone are not. A dead serial interface
  refuses a request or stays silent, as often as it likes; a NUSB request to an
  interface that is gone is refused, and one that was already sent is never
  answered. The MAC address is not modelled, as a changed one is only logged.
* In `SerialSession` the exchange task calls once for each turn of its retry
  loop. After an error or a stale answer (`Mismatch`) it calls again for the
  same transaction; `kind` says which kind of call may come next.
* `hotplug` of `SerialSession` says how the daemon was started: with a fixed
  port or watching for the device. It does not change.
* `unnoticed` of `NusbTransport` are the connections of devices that were back
  before a poll could miss them. The watcher cannot see these. `givenUp` are
  those whose MAC query failed in every attempt. Both are history variables.
* In `Daemon` the counters are one number, and a report is one step. `atCancel`
  is that number when the token was cancelled. In test mode the transport may
  return `Ok` by itself.
* A failing `nmcli connection add` may have added the profile all the same
  (`profile = "stored"`); `"kept"` is a profile whose deletion failed.

## Runs

| Run | Checks | Bounds |
|---|---|---|
| `endpoint_retry` | `AwaitsOpenSockets`, `RetriesExact`, `ErrorsBounded`, `ErrorMeansAllFailed`, `CallsEnd`, `CancelEnds` | 2 backups, 3 errors, 1 stale answer, 2 recoveries |
| `firmware_bridge` | `OneFrameOutstanding`, `TxCompletes`, `ImplementsRadioPort` | channel of 2, 3 host frames, 5 radio frames |
| `wifi_tx` | `TxOnceInOrder`, `TxInv`, `AckInv`, `ResponseOnItsWay` | 2 host frames, 2 sessions, OUTQ of 1 response, ids modulo 4 |
| `wifi_rx` | `RxLossPerSession`, `LossInv` | 2 radio frames, 2 sessions, 1 fault, ids modulo 3 |
| `wifi_live` | `FramesGetThrough` | 2 host and 1 radio frame, 1 fault, no recovery |
| `restart` | `RestartRepeatsOne`, `AckedIsOnAirUntilWrap`, `RxOnceInOrder` | 2 host and 2 radio frames, 3 of them in a behaviour (`MaxFrames`), 1 session, 1 restart, ids modulo 3 |
| `serial` | `SessionsCostLosses`, `OneExchangeTask`, `EndedSessionsDetached`, `BudgetSpentBeforeReplacement`, `CancelReturns`, `SessionResumes`, `TasksEnd`, `DropsForceReplacement`, `ImplementsTransport` | both modes, 1 unplug, 1 failure, budget 2, direction rx |
| `nusb` | `SeenHasInterface`, `RouteFollowsDevice`, `RouteUsedUnlessLost`, `CancelReturns`, `ImplementsTransport` | 2 devices, 2 connections, 2 attempts of the MAC query, 2 failures |
| `daemon` | `ExitCleansUp`, `HonestExit`, `ExitReportsCounters`, `ShutdownCompletes` | 2 counted events |
| `wifi_wrap` | `AckedIsOnAir` is violated | ids modulo 4 |
| `serial_clean` | `ShutsDownCleanly` is violated | no unplug, no failure |
| `nusb_pending` | `ExchangeFollowsRoute` is violated | 1 device, 2 connections, no failure |

`firmware_bridge` and `wifi_tx` also check types (`BridgeTypeOK`, `TypeOK`).
`TxInv`, `AckInv` and `LossInv` are the inductive invariants of the proofs.
`AckInv` contains `AckedIsOnAirUntilWrap`, and `LossInv` contains
`RxOnceInOrder` and `RxLossPerSession`.

The bounds let the cases happen that matter: a backup next to its primary, a
stale response, a request of an old session, a full channel or OUTQ, id reuse,
a restart with copies of a request under way or between two received frames, a
dead session replaced by a new one, a query that fails in every attempt, a device that returns while a call is pending or a query is being retried,
every pair of failing commands. Messages are lost by the link in `wifi_rx` and
`wifi_live`; in `wifi_tx` and `restart` they are lost by a full OUTQ, the end
of a session or the restart. The theorems below cover any number of losses.
`CHECK_DEADLOCK FALSE` is there because the last session cannot be recycled (a
bound) and a cancelled task or an exited daemon has really ended. Small `IdMod`
stands for 2^32. `Retries` is the code's 3 in `serial`; in `nusb` it is 2, so
that two failures exhaust the attempts.

`wifi_rx` reuses ids (modulo 3, with any number of polls), so its properties
hold across the wrap. `AckedIsOnAirUntilWrap` and `ResponseOnItsWay` are about
sessions whose ids have not wrapped.

### Fairness

Ready tasks run, timers fire, the link moves what it does not lose, and the
radio driver frees TX slots. tokio's `select!` polls its branches in random
order, so a cancellation that stays ready is picked in the end: strong fairness
of `CancelSeen`, `FindCancelled` and `ExchangeCancelled`. The bridge puts the
frame it holds into the channel, so a poll does not miss it forever: strong
fairness of `RxServeFrame`. A device that is there answers. In `Daemon` a
cancelled transport returns; this is what `CancelReturns` shows of the two
transports. Commands end. Nothing is assumed of the host in `TxCompletes`, nor
of TAP reads, arrivals, plugging, signals, faults and session ends anywhere.

### What the runs do not show

* `FramesGetThrough` is about one loss. With an OUTQ of one response
  (`DownCap = 1`) an RX response dropped there is a second loss, and TLC finds
  the exchange without recovery timeout waiting forever.
* `RouteFollowsDevice` has three exceptions, and fails without them. A device
  whose MAC query failed in every attempt (`givenUp`) stays in `seen` and is not
  asked again until it is replugged. A connection whose beginning no poll
  noticed (`unnoticed`) is not registered. Of devices found together before the
  TAP interface exists only one is asked.
* `SessionResumes` and `DropsForceReplacement` assume that refusals of requests
  cease (`RefusalsCease`). Without that `SessionResumes` fails: if Ergot refuses
  every request to a dead interface at once, each call ends before its five
  seconds are over, the next one starts them anew, and the session is not
  recycled. Whether Ergot does that is not decided in this code.
* `ExitReportsCounters` is about what was counted before the cancellation.

### Disagreements with documents and comments

Three were turned into runs:

* `icd/src/lib.rs:47` says the TX response is sent only after the driver has
  accepted the frame. Ids are 32 bits and shared with RX polls. If exactly
  2^32 - 1 polls lie between two frames, the second is taken for a repetition
  and acknowledged without transmission. That takes 99 days or more without
  an outgoing frame (`wifi_wrap`).
* The repository's `README.md:72` says the daemon shuts down cleanly on Ctrl-C.
  With a fixed port the cancelled exchange task may end first, and `run` then
  returns its "Serial exchange ended" error (`serial_clean`).
* `nusb_transport.rs:118` logs an updated route. A call that was pending when
  the device left keeps the old peer and has no deadline, so the route may
  never be used (`nusb_pending`). `RouteUsedUnlessLost` says that this is the
  only case.

Four are observations from reading:

* `icd/src/lib.rs:51` says only one request is ever in flight on the USB
  transport. The backup is sent while its primary may be in flight. Both
  belong to one transaction.
* `nusb_transport.rs:89` says the host keeps watching for reconnections. One
  that is over before the next poll is missed.
* `README.md:77` says the temporary profile is removed when the daemon exits.
  A failing deletion is only logged, and after a failing addition that stored
  the profile none is tried. `ExitCleansUp` says that it is tried in all other
  cases, and that in the latter the daemon exits with an error.
* `main.rs:47` promises final counters. The final report is written on
  cancellation, before the tasks that count have ended.

## Proofs

TLAPS proves, for all values of the constants that satisfy the `ASSUME`s (any
number of frames, sessions, faults, unplugs, any capacities, ids modulo 3 or
more):

| Theorem | Property | Module |
|---|---|---|
| `TypeCorrect` | types and queue capacities of the exchange | `WifiExchangePath` |
| `CopiesAreRecognised`, `TransmittedOnceInOrder` | `TxInv`, `TxOnceInOrder` | `WifiExchangeTx` |
| `ReportsAreTrue`, `AcknowledgedIsTransmitted`, `ResponseIsOnItsWay` | `AckInv`, `AckedIsOnAirUntilWrap`, `ResponseOnItsWay` | `WifiExchangeAck` |
| `DeliveredOnceInOrder` | `RxOnceInOrder` | `WifiExchangeRx` |
| `UndeliveredStaysCached`, `OneFrameLostPerSession` | `LossInv`, `RxLossPerSession` | `WifiExchangeLoss` |
| `OneRepeatPerRestart`, `AcknowledgedDespiteRestarts`, `DeliveredOnceDespiteRestarts` | `RestartRepeatsOne`, `AckedIsOnAirUntilWrap`, `RxOnceInOrder` with restarts | `FirmwareRestartProofs` |
| `PollsOpenSockets`, `RetriesCounted`, `ErrorsCounted`, `GivesUpWhenAllFailed` | `AwaitsOpenSockets`, `RetriesExact`, `ErrorsBounded`, `ErrorMeansAllFailed` | `SerialProofs` |
| `SessionsDoNotOverlap`, `OldInterfacesGone`, `SessionsArePaidFor`, `BudgetIsSpent`, `SerialImplementsTransport` | `OneExchangeTask`, `EndedSessionsDetached`, `SessionsCostLosses`, `BudgetSpentBeforeReplacement`, `ImplementsTransport` | `SerialProofs` |
| `ChannelsAreBounded`, `OneFrameAtATime`, `BridgeImplementsPort` | `BridgeTypeOK`, `OneFrameOutstanding`, `ImplementsRadioPort` | `ProcessProofs` |
| `SeenDevicesHaveInterfaces`, `NusbImplementsTransport` | `SeenHasInterface`, `ImplementsTransport` | `ProcessProofs` |
| `ProfileIsDeleted`, `ExitStatusIsHonest`, `CountersAreReported` | `ExitCleansUp`, `HonestExit`, `ExitReportsCounters` | `ProcessProofs` |

`TxOnceInOrder` is not inductive: it speaks of the air only. `TxInv` adds the
path host, link, endpoint queue, server. Copies of requests are in frame order
on it (`PathInOrder`), and a copy of a frame that is already on the air carries
`last_completed`, so it is recognised (`CopiesKnown`). A later frame can replace
`last_completed` only after all copies have gone by, because the path is FIFO.

`AckInv` adds that, until an id is used twice, the transaction in progress
occurs nowhere but in copies of its own request, and that whatever reports it
done is about a frame on the air. With it `ResponseOnItsWay` is inductive. The step
that could break it is a copy refused by a full endpoint queue; the path being
in order, what fills the queue is another copy of the same request.

`RxInv` looks at the whole round of a poll: host, link, endpoint queue, server,
cache, link. It is FIFO. When the poll in progress is answered, everything left
on the round belongs to that poll, and the next one has another transaction as
long as ids that follow each other differ. So an answer of the poll in progress
carries a frame newer than all that have reached the TAP interface, and what
waits in the firmware is newer still. This needs no assumption about the wrap.

`LossInv` adds which frames taken from the firmware are still missing on the
TAP interface. Sessions reach the server in order, and behind a poll it has not
answered there are only copies of that poll. So while polls of a session are
left, a missing frame of that session is the one in the cache and they are all
copies of the poll that took it; they are answered from the cache. The cache is
overwritten only for a poll of a later session, and then the frame was the last
its session took. Losses on the link alone cost no frame.

A restart changes little of this. `PathInOrder`, `AckInv` and `RxInv` do not
depend on what the firmware remembers and stay true. `CopiesKnown` may fail
then: copies of the frame transmitted last are not recognised any more. The
first frame the driver accepts afterwards makes it true again, because that
frame becomes `last_completed` and all that follows is a copy of it or newer.
`RestartInv` therefore counts: the frames on the air, plus one while
`CopiesKnown` is false, are no more than the different ones plus the restarts.

`RetryInv` ties the loop to the phase of the call and counts a dropped error
when the call ends. `BridgeInv` adds which frames the bridge has in hand where
it is suspended; with it every step of the bridge is a step of `RadioPort` or
leaves it alone. `SessionInv` adds that sessions are numbered in order, that
the exchange task is the first task of a session to end unless the daemon is
cancelled, and that a started session is detached when the next one is opened.
`SessionsPaid` counts losses (unplugs, failures, dropped requests): there are
at least as many as sessions that are over or doomed, which gives
`SessionsCostLosses`. `BudgetPath` follows the
injector's budget through a call when nothing else fails: a session can end
only after a primary and its backup were dropped, which uses it up.
`NusbSeenInv` adds that what a poll missed is neither seen nor there, and
`NusbReturns` that `run` joins its tasks only after cancellation. `DaemonInv`
says which tasks have ended where `main` waits, in which states of the network
task a profile exists (a stored one whose addition failed only where the task
has ended with an error), and that the report task, once it has ended after the
cancellation, has reported what was counted before.

The exchange theorems rest on the model's link being FIFO and sessions being
distinct.

Every safety property of the passing runs has a theorem. Model-checked only:
the liveness properties `CallsEnd`, `CancelEnds`, `TxCompletes`,
`FramesGetThrough`, `CancelReturns`, `SessionResumes`, `TasksEnd`,
`DropsForceReplacement`, `RouteFollowsDevice`, `RouteUsedUnlessLost` and
`ShutdownCompletes` (fairness and ENABLED are beyond the prover). The three
properties that fail have a counterexample from TLC.

## Not modelled

* Test mode (`test_mode.rs` and the `run_test_mode` functions): a measurement
  client of the smoltcp library without TAP interface, recovery or reconnect.
  `Daemon` has its return only.
* The USB tasks of the firmware (`run_rx`, `run_tx`, `usb_task`): they move
  bytes between Ergot and the peripheral. The model has their effect, a FIFO
  link that may lose messages. Whether the flush policy of `run_tx` suits the
  hardware FIFO cannot be decided from this code.
* Ergot itself: routing, sockets, interface ids. Where the code depends on what
  Ergot does and the code does not tell, the list of hazards in `PROJECT.json`
  says so.
* Log lines, the JSON layout, parsing of command-line and environment values,
  the report of WireGuard endpoints, durations of stalls, byte counts.
* The benchmark programs under `bin/`; they share no state with the bridge.
