---------------------------- MODULE WifiExchange ----------------------------
(***************************************************************************)
(* The transaction protocol between the host and the firmware.             *)
(*                                                                         *)
(* Host (host/src/serial_transport.rs, nusb_transport.rs): tap_reader puts *)
(* frames read from the TAP interface into a queue of one; wifi_exchange   *)
(* sends them one at a time as TX transactions and polls for received      *)
(* frames with RX transactions in between, repeating a transaction until   *)
(* it sees the matching response.                                          *)
(*                                                                         *)
(* Firmware (firmware-c3, firmware-s3): wifi_tx_server and wifi_rx_server  *)
(* behind endpoint queues of one request each.  A TX transaction equal to  *)
(* the last completed one is acknowledged without a second transmission;   *)
(* an RX transaction equal to the cached one is answered from the cache.   *)
(*                                                                         *)
(* Link (Ergot over USB, external): two FIFO queues that may lose          *)
(* messages.  A host port can be reused, so a late response may reach a    *)
(* socket opened for a later request to the same endpoint.                 *)
(*                                                                         *)
(* Frames are numbered: host frames in the order the TAP reader reads them,*)
(* radio frames in the order the radio delivers them.  0 is "no frame".    *)
(***************************************************************************)
EXTENDS EndpointWait, RadioPort

CONSTANTS
  IdMod,            \* transaction ids wrap at this value (2^32 in the code)
  UpCap,            \* requests the host interface queues towards the device
  DownCap,          \* responses the firmware's OUTQ holds
  MaxTap,           \* bound: frames read from the TAP interface
  MaxRadio,         \* bound: frames received by the radio
  MaxSessions,      \* bound: sessions of the exchange
  MaxFaults,        \* bound: messages lost and requests failed
  Prompt            \* the link and the servers outrun the stall timer

ASSUME IdModAssumption == IdMod \in Nat /\ IdMod >= 3
ASSUME CapsAssumption == UpCap \in Nat \ {0} /\ DownCap \in Nat \ {0}
ASSUME BoundsAssumption ==
  /\ MaxTap \in Nat /\ MaxRadio \in Nat /\ MaxFaults \in Nat
  /\ MaxSessions \in Nat \ {0}
ASSUME PromptAssumption == Prompt \in BOOLEAN

EndpointCap == 1    \* capacity of the two bounded_server queues

NoFrame == 0
NoTransaction == [session |-> 0, id |-> 0]

VARIABLES
  \* host
  pc,               \* where wifi_exchange is: "top", "poll", "tx", "rx", "down"
  session,          \* session id; ids are fresh, so a counter (from 1)
  next_id,          \* next_transaction_id
  wrapped,          \* history: next_transaction_id has wrapped in a session
  held,             \* frame of the TX transaction in progress
  reader,           \* frame tap_reader holds, waiting for room in the queue
  tap_queue,        \* the mpsc channel of capacity 1
  tap_read,         \* number of frames read from the TAP interface
  acked,            \* history: frames whose TX response was matched
  to_tap,           \* history: frames passed to tap_device.send
  \* link
  up,               \* requests on their way to the firmware
  down,             \* responses on their way to the host
  faults,           \* number of messages lost and requests failed
  \* firmware
  tx_queue,         \* WifiTxEndpoint's bounded queue
  tx_server,        \* where wifi_tx_server is: "recv", "driver", "respond"
  tx_request,       \* the request it handles
  last_completed,
  rx_queue,         \* WifiRxEndpoint's bounded queue
  rx_server,        \* where wifi_rx_server is: "recv", "serve"
  rx_request,       \* transaction of the request it handles
  cached_response,
  pulled            \* history: transaction that took each received frame

hostVars == <<pc, phase, session, next_id, wrapped, held>>
tapVars  == <<reader, tap_queue, tap_read>>
histVars == <<acked, to_tap>>
linkVars == <<up, down, faults>>
txVars   == <<tx_queue, tx_server, tx_request, last_completed>>
rxVars   == <<rx_queue, rx_server, rx_request, cached_response, pulled>>
vars == <<hostVars, tapVars, histVars, linkVars, txVars, rxVars, portVars>>

-----------------------------------------------------------------------------
(* Messages.                                                               *)

Transaction == [session : 0..MaxSessions, id : 0..(IdMod - 1)]

Requests ==
  [ep : {"tx", "rx"}, transaction : Transaction, frame : 0..MaxTap]

Responses ==
  [ep : {"tx", "rx"}, transaction : Transaction, frame : 0..MaxRadio]

\* WifiTxRequest and WifiRxRequest; an RX request carries no frame.
Request(ep, t, f) == [ep |-> ep, transaction |-> t, frame |-> f]

NoRequest == Request("tx", NoTransaction, NoFrame)

\* WifiTxResponse and WifiRxResponse; a TX response carries no frame.
Response(ep, t, f) == [ep |-> ep, transaction |-> t, frame |-> f]

\* next_transaction_id.wrapping_add(1)
WrappingAdd(n) == IF n = IdMod - 1 THEN 0 ELSE n + 1

\* The transaction wifi_exchange is working on: the id handed out last.
Current ==
  [session |-> session, id |-> IF next_id = 0 THEN IdMod - 1 ELSE next_id - 1]

CurrentRequest == Request(pc, Current, held)

Init ==
  /\ pc = "top"
  /\ phase = "idle"
  /\ session = 1
  /\ next_id = 0
  /\ wrapped = FALSE
  /\ held = NoFrame
  /\ reader = NoFrame
  /\ tap_queue = NoFrame
  /\ tap_read = 0
  /\ acked = <<>>
  /\ to_tap = <<>>
  /\ up = <<>>
  /\ down = <<>>
  /\ faults = 0
  /\ tx_queue = <<>>
  /\ tx_server = "recv"
  /\ tx_request = NoRequest
  /\ last_completed = NoTransaction
  /\ rx_queue = <<>>
  /\ rx_server = "recv"
  /\ rx_request = NoTransaction
  /\ cached_response = Response("rx", NoTransaction, NoFrame)
  /\ pulled = <<>>
  /\ PortInit

-----------------------------------------------------------------------------
(* tap_reader.                                                             *)

TapRead ==
  /\ pc # "down"
  /\ reader = NoFrame
  /\ tap_read < MaxTap
  /\ tap_read' = tap_read + 1
  /\ reader' = tap_read + 1
  /\ UNCHANGED <<hostVars, tap_queue, histVars, linkVars, txVars, rxVars,
                 portVars>>

TapForward ==
  /\ reader # NoFrame
  /\ tap_queue = NoFrame
  /\ tap_queue' = reader
  /\ reader' = NoFrame
  /\ UNCHANGED <<hostVars, tap_read, histVars, linkVars, txVars, rxVars,
                 portVars>>

-----------------------------------------------------------------------------
(* wifi_exchange.                                                          *)

\* Mutant of TakeId: the id is not advanced.
TakeIdWithoutAdvance == UNCHANGED <<next_id, wrapped>>

TakeId ==
  /\ next_id' = WrappingAdd(next_id)
  /\ wrapped' = (wrapped \/ next_id' = 0)

\* The queue is looked at once per round; a TX transaction comes first.
BeginTx ==
  /\ pc = "top"
  /\ tap_queue # NoFrame
  /\ held' = tap_queue
  /\ tap_queue' = NoFrame
  /\ TakeId
  /\ pc' = "tx"
  /\ UNCHANGED <<phase, session, reader, tap_read, histVars, linkVars, txVars,
                 rxVars, portVars>>

\* One RX poll closes every round.
BeginRx ==
  /\ pc = "poll" \/ (pc = "top" /\ tap_queue = NoFrame)
  /\ TakeId
  /\ pc' = "rx"
  /\ UNCHANGED <<phase, session, held, tapVars, histVars, linkVars, txVars,
                 rxVars, portVars>>

\* One turn of the retry loop sends the primary request.  While the interface
\* queue is full the request fails at once and the loop turns again, which
\* changes nothing.
SendPrimary ==
  /\ pc \in {"tx", "rx"}
  /\ Len(up) < UpCap
  /\ Start
  /\ up' = Append(up, CurrentRequest)
  /\ UNCHANGED <<pc, session, next_id, wrapped, held, tapVars, histVars, down,
                 faults, txVars, rxVars, portVars>>

\* The stall timer fires after 250 ms.  With Prompt that outlasts everything
\* but the wait for the radio.
StallDue ==
  Prompt =>
    /\ up = <<>> /\ tx_queue = <<>> /\ rx_queue = <<>> /\ down = <<>>
    /\ tx_server # "respond" /\ rx_server = "recv"

\* Mutant of SendBackup: the backup is prepared but never sent.
SendBackupNowhere ==
  /\ StallDue
  /\ Len(up) < UpCap
  /\ StallTimer
  /\ UNCHANGED <<pc, session, next_id, wrapped, held, tapVars, histVars,
                 linkVars, txVars, rxVars, portVars>>

SendBackup ==
  /\ StallDue
  /\ Len(up) < UpCap
  /\ StallTimer
  /\ up' = Append(up, CurrentRequest)
  /\ UNCHANGED <<pc, session, next_id, wrapped, held, tapVars, histVars, down,
                 faults, txVars, rxVars, portVars>>

\* The interface queue is full: the backup fails as soon as it is sent.
BackupRejected ==
  /\ StallDue
  /\ phase = "primary"
  /\ Len(up) = UpCap
  /\ phase' = Only("primary")
  /\ UNCHANGED <<pc, session, next_id, wrapped, held, tapVars, histVars,
                 linkVars, txVars, rxVars, portVars>>

\* Ergot resolves an awaited request with an error.  The error of the last
\* request awaited ends the call, and the retry loop turns again.
RequestFails(s) ==
  /\ faults < MaxFaults
  /\ faults' = faults + 1
  /\ FirstFailure(s) \/ Complete(s, FALSE)
  /\ UNCHANGED <<pc, session, next_id, wrapped, held, tapVars, histVars, up,
                 down, txVars, rxVars, portVars>>

Awaits(m) == pc = m.ep /\ phase # "idle"

\* Mutant of Matches: the response's transaction is not compared.
MatchesAny(m) == Awaits(m)

Matches(m) == Awaits(m) /\ m.transaction = Current

\* The first response on the link reaches awaited socket s.
MatchTx(s) ==
  /\ down # <<>> /\ Head(down).ep = "tx" /\ Matches(Head(down))
  /\ Complete(s, TRUE)
  /\ down' = Tail(down)
  /\ acked' = Append(acked, held)
  /\ held' = NoFrame
  /\ pc' = "poll"
  /\ UNCHANGED <<session, next_id, wrapped, tapVars, to_tap, up, faults, txVars,
                 rxVars, portVars>>

MatchRx(s) ==
  /\ down # <<>> /\ Head(down).ep = "rx" /\ Matches(Head(down))
  /\ Complete(s, TRUE)
  /\ down' = Tail(down)
  /\ to_tap' = IF Head(down).frame = NoFrame THEN to_tap
               ELSE Append(to_tap, Head(down).frame)
  /\ pc' = "top"
  /\ UNCHANGED <<session, next_id, wrapped, held, tapVars, acked, up, faults,
                 txVars, rxVars, portVars>>

\* A stale response reaches socket s through a reused port: it is ignored
\* and the retry loop turns again.
Mismatch(s) ==
  /\ down # <<>> /\ Awaits(Head(down)) /\ ~Matches(Head(down))
  /\ Complete(s, TRUE)
  /\ down' = Tail(down)
  /\ UNCHANGED <<pc, session, next_id, wrapped, held, tapVars, histVars, up,
                 faults, txVars, rxVars, portVars>>

\* The exchange returns and its session ends; frames not yet sent are lost
\* with the queue and the reader.  Deregistering the interface drops requests
\* the host has not written yet.  The device goes on.
DropSession ==
  /\ session < MaxSessions
  /\ pc' = "down"
  /\ held' = NoFrame
  /\ reader' = NoFrame
  /\ tap_queue' = NoFrame
  /\ up' \in {up, <<>>}
  /\ UNCHANGED <<session, next_id, wrapped, tap_read, histVars, down, faults,
                 txVars, rxVars, portVars>>

RecoverSession == Recover /\ DropSession

\* The session ends for another reason: cancellation, the daemon restarted,
\* another task of the session ended.
StopSession ==
  /\ pc # "down"
  /\ phase' = "idle"
  /\ DropSession

NewSession ==
  /\ pc = "down"
  /\ pc' = "top"
  /\ session' = session + 1
  /\ next_id' = 0
  /\ UNCHANGED <<phase, wrapped, held, tapVars, histVars, linkVars, txVars,
                 rxVars, portVars>>

-----------------------------------------------------------------------------
(* The link.                                                               *)

\* A request reaches its endpoint's queue, which holds one; with the queue
\* full it is refused.
DeliverTx ==
  /\ up # <<>> /\ Head(up).ep = "tx"
  /\ up' = Tail(up)
  /\ \/ Len(tx_queue) < EndpointCap /\ tx_queue' = Append(tx_queue, Head(up))
     \/ Len(tx_queue) = EndpointCap /\ ~Prompt /\ UNCHANGED tx_queue
  /\ UNCHANGED <<hostVars, tapVars, histVars, down, faults, tx_server,
                 tx_request, last_completed, rxVars, portVars>>

DeliverRx ==
  /\ up # <<>> /\ Head(up).ep = "rx"
  /\ up' = Tail(up)
  /\ \/ Len(rx_queue) < EndpointCap /\ rx_queue' = Append(rx_queue, Head(up))
     \/ Len(rx_queue) = EndpointCap /\ ~Prompt /\ UNCHANGED rx_queue
  /\ UNCHANGED <<hostVars, tapVars, histVars, down, faults, txVars, rx_server,
                 rx_request, cached_response, pulled, portVars>>

LoseRequest ==
  /\ up # <<>>
  /\ faults < MaxFaults
  /\ faults' = faults + 1
  /\ up' = Tail(up)
  /\ UNCHANGED <<hostVars, tapVars, histVars, down, txVars, rxVars, portVars>>

LoseResponse ==
  /\ down # <<>>
  /\ faults < MaxFaults
  /\ faults' = faults + 1
  /\ down' = Tail(down)
  /\ UNCHANGED <<hostVars, tapVars, histVars, up, txVars, rxVars, portVars>>

\* The port the response is addressed to has been closed.
DiscardResponse ==
  /\ down # <<>> /\ ~Matches(Head(down))
  /\ down' = Tail(down)
  /\ UNCHANGED <<hostVars, tapVars, histVars, up, faults, txVars, rxVars,
                 portVars>>

-----------------------------------------------------------------------------
(* wifi_tx_server.                                                         *)

\* Mutant of TxReceive: every request is transmitted, repeated or not.
TxReceiveWithoutDedup ==
  /\ tx_server = "recv"
  /\ tx_queue # <<>>
  /\ tx_request' = Head(tx_queue)
  /\ tx_queue' = Tail(tx_queue)
  /\ tx_server' = "driver" /\ Submit(Head(tx_queue).frame)
  /\ UNCHANGED <<hostVars, tapVars, histVars, linkVars, last_completed, rxVars>>

\* Mutant of TxReceive: a submitted frame counts as transmitted.
TxReceiveAcksSubmitted ==
  /\ tx_server = "recv"
  /\ tx_queue # <<>>
  /\ tx_request' = Head(tx_queue)
  /\ tx_queue' = Tail(tx_queue)
  /\ tx_server' = "respond"
  /\ Submit(Head(tx_queue).frame)
  /\ UNCHANGED <<hostVars, tapVars, histVars, linkVars, last_completed, rxVars>>

\* A request not equal to the last completed one goes to the bridge.
TxReceive ==
  /\ tx_server = "recv"
  /\ tx_queue # <<>>
  /\ tx_request' = Head(tx_queue)
  /\ tx_queue' = Tail(tx_queue)
  /\ IF last_completed = Head(tx_queue).transaction
     THEN tx_server' = "respond" /\ UNCHANGED portVars
     ELSE tx_server' = "driver" /\ Submit(Head(tx_queue).frame)
  /\ UNCHANGED <<hostVars, tapVars, histVars, linkVars, last_completed, rxVars>>

\* Mutant of TxDriverDone: the completed transaction is not remembered.
TxDriverDoneForgets ==
  /\ tx_server = "driver"
  /\ Acknowledge
  /\ tx_server' = "respond"
  /\ UNCHANGED <<hostVars, tapVars, histVars, linkVars, tx_queue, tx_request,
                 last_completed, rxVars>>

TxDriverDone ==
  /\ tx_server = "driver"
  /\ Acknowledge
  /\ last_completed' = tx_request.transaction
  /\ tx_server' = "respond"
  /\ UNCHANGED <<hostVars, tapVars, histVars, linkVars, tx_queue, tx_request,
                 rxVars>>

\* Mutant of TxRespond: room in OUTQ is taken for granted.
TxRespondUnchecked ==
  /\ tx_server = "respond"
  /\ down' = Append(down, Response("tx", tx_request.transaction, NoFrame))
  /\ tx_server' = "recv"
  /\ tx_request' = NoRequest
  /\ UNCHANGED <<hostVars, tapVars, histVars, up, faults, tx_queue,
                 last_completed, rxVars, portVars>>

\* Mutant of TxRespond: the response is dropped when OUTQ is full.
TxRespondOnce ==
  /\ tx_server = "respond"
  /\ down' = IF Len(down) = DownCap THEN down
             ELSE Append(down, Response("tx", tx_request.transaction, NoFrame))
  /\ tx_server' = "recv"
  /\ tx_request' = NoRequest
  /\ UNCHANGED <<hostVars, tapVars, histVars, up, faults, tx_queue,
                 last_completed, rxVars, portVars>>

\* send_tx_response waits for room in OUTQ; any other error is final.
TxRespond ==
  /\ tx_server = "respond"
  /\ Len(down) < DownCap
  /\ down' = Append(down, Response("tx", tx_request.transaction, NoFrame))
  /\ tx_server' = "recv"
  /\ tx_request' = NoRequest
  /\ UNCHANGED <<hostVars, tapVars, histVars, up, faults, tx_queue,
                 last_completed, rxVars, portVars>>

-----------------------------------------------------------------------------
(* wifi_rx_server.                                                         *)

RxReceive ==
  /\ rx_server = "recv"
  /\ rx_queue # <<>>
  /\ rx_request' = Head(rx_queue).transaction
  /\ rx_queue' = Tail(rx_queue)
  /\ rx_server' = "serve"
  /\ UNCHANGED <<hostVars, tapVars, histVars, linkVars, txVars,
                 cached_response, pulled, portVars>>

\* serve sends the response; it is lost when OUTQ is full.
RxReply(response) ==
  /\ rx_server = "serve"
  /\ rx_server' = "recv"
  /\ down' = IF Len(down) < DownCap THEN Append(down, response) ELSE down
  /\ cached_response' = response
  /\ rx_request' = NoTransaction
  /\ UNCHANGED <<hostVars, tapVars, histVars, up, faults, txVars, rx_queue>>

RxServeCached ==
  /\ cached_response.transaction = rx_request
  /\ RxReply(cached_response)
  /\ UNCHANGED <<pulled, portVars>>

\* Mutant of RxServeFrame: a repeated request takes another frame.
RxServeFrameUncached ==
  /\ Pull
  /\ RxReply(Response("rx", rx_request, Head(backlog)))
  /\ pulled' = Append(pulled, rx_request)

RxServeFrame ==
  /\ cached_response.transaction # rx_request
  /\ Pull
  /\ RxReply(Response("rx", rx_request, Head(backlog)))
  /\ pulled' = Append(pulled, rx_request)

\* The 2 ms poll ends with the channel empty.  The bridge may hold one frame
\* that is not in the channel yet.
RxServeEmpty ==
  /\ cached_response.transaction # rx_request
  /\ Len(backlog) <= 1
  /\ RxReply(Response("rx", rx_request, NoFrame))
  /\ UNCHANGED <<pulled, portVars>>

-----------------------------------------------------------------------------
(* The radio, through the bridge.                                          *)

RadioAccepts ==
  /\ Accept
  /\ UNCHANGED <<hostVars, tapVars, histVars, linkVars, txVars, rxVars>>

RadioDelivers ==
  /\ received < MaxRadio
  /\ Arrive
  /\ UNCHANGED <<hostVars, tapVars, histVars, linkVars, txVars, rxVars>>

-----------------------------------------------------------------------------
Host ==
  \/ TapRead \/ TapForward
  \/ BeginTx \/ BeginRx
  \/ SendPrimary \/ SendBackup \/ BackupRejected
  \/ \E s \in Sources :
       RequestFails(s) \/ MatchTx(s) \/ MatchRx(s) \/ Mismatch(s)
  \/ RecoverSession \/ StopSession \/ NewSession

Link ==
  DeliverTx \/ DeliverRx \/ LoseRequest \/ LoseResponse \/ DiscardResponse

Firmware ==
  \/ TxReceive \/ TxDriverDone \/ TxRespond
  \/ RxReceive \/ RxServeCached \/ RxServeFrame \/ RxServeEmpty
  \/ RadioAccepts \/ RadioDelivers

Next == Host \/ Link \/ Firmware

Spec == Init /\ [][Next]_vars

\* Tasks that are ready run (tokio, the embassy executor), timers fire, the
\* link moves what it does not lose, and the radio driver frees TX slots.
\* The bridge puts the frame it holds into the channel, so a poll does not
\* miss it forever: that is the strong fairness of RxServeFrame.  TAP reads,
\* arrivals, faults and session ends need not happen.
Fairness ==
  /\ WF_vars(TapForward)
  /\ WF_vars(BeginTx) /\ WF_vars(BeginRx)
  /\ WF_vars(SendPrimary) /\ WF_vars(SendBackup)
  /\ WF_vars(\E s \in Sources : MatchTx(s) \/ MatchRx(s) \/ Mismatch(s))
  /\ WF_vars(DiscardResponse)
  /\ WF_vars(DeliverTx) /\ WF_vars(DeliverRx)
  /\ WF_vars(TxReceive) /\ WF_vars(TxDriverDone) /\ WF_vars(TxRespond)
  /\ WF_vars(RxReceive)
  /\ WF_vars(RxServeCached \/ RxServeEmpty) /\ SF_vars(RxServeFrame)
  /\ WF_vars(RadioAccepts)

FairSpec == Spec /\ Fairness

-----------------------------------------------------------------------------
HostType ==
  /\ pc \in {"top", "poll", "tx", "rx", "down"}
  /\ phase \in Phases
  /\ session \in 1..MaxSessions
  /\ next_id \in 0..(IdMod - 1)
  /\ wrapped \in BOOLEAN
  /\ held \in 0..MaxTap

TapType ==
  /\ reader \in 0..MaxTap
  /\ tap_queue \in 0..MaxTap
  /\ tap_read \in 0..MaxTap

HistType ==
  /\ acked \in Seq(0..MaxTap)
  /\ to_tap \in Seq(0..MaxRadio)

LinkType ==
  /\ up \in Seq(Requests) /\ Len(up) <= UpCap
  /\ down \in Seq(Responses) /\ Len(down) <= DownCap
  /\ faults \in 0..MaxFaults

TxType ==
  /\ tx_queue \in Seq(Requests) /\ Len(tx_queue) <= EndpointCap
  /\ tx_server \in {"recv", "driver", "respond"}
  /\ tx_request \in Requests
  /\ last_completed \in Transaction

RxType ==
  /\ rx_queue \in Seq(Requests) /\ Len(rx_queue) <= EndpointCap
  /\ rx_server \in {"recv", "serve"}
  /\ rx_request \in Transaction
  /\ cached_response \in Responses /\ cached_response.ep = "rx"
  /\ pulled \in Seq(Transaction)

PortType ==
  /\ tx \in {"idle", "submitted", "accepted"}
  /\ txFrame \in 0..MaxTap
  /\ onAir \in Seq(0..MaxTap)
  /\ received \in 0..MaxRadio
  /\ backlog \in Seq(0..MaxRadio) /\ Len(backlog) <= Backlog

\* Every variable has its type, and no queue exceeds its capacity: the host's
\* interface queue, OUTQ, the two endpoint queues and the backlog.
TypeOK ==
  /\ HostType /\ TapType /\ HistType /\ LinkType
  /\ TxType /\ RxType /\ PortType

Ascending(s) == \A i, j \in 1..Len(s) : i < j => s[i] < s[j]

Occurs(f, s) == \E i \in 1..Len(s) : s[i] = f

\* The radio driver is given every host frame at most once, and in the order
\* in which the frames were read from the TAP interface, whatever is lost,
\* repeated, late or restarted.
TxOnceInOrder == Ascending(onAir)

\* A TX transaction the host sees acknowledged was accepted by the driver.
AckedIsOnAir == \A i \in 1..Len(acked) : Occurs(acked[i], onAir)

\* The same, as long as the ids of a session have not been used up.
AckedIsOnAirUntilWrap == wrapped \/ AckedIsOnAir

\* The TAP interface is given every received frame at most once and in the
\* order of reception.
RxOnceInOrder == Ascending(to_tap)

\* A session loses at most one received frame: of the frames its transactions
\* took from the firmware, all but the last have been passed to the TAP
\* interface.
RxLossPerSession ==
  \A i, j \in 1..Len(pulled) :
    i < j /\ pulled[i].session = pulled[j].session => Occurs(i, to_tap)

\* With one message lost or one request failed in all, every frame read from
\* the TAP interface is acknowledged and every frame received by the radio is
\* passed to the TAP interface: the backup request makes up for the loss
\* without the help of session recovery.
FramesGetThrough ==
  /\ \A f \in 1..MaxTap : (tap_read >= f) ~> Occurs(f, acked)
  /\ \A f \in 1..MaxRadio : (received >= f) ~> Occurs(f, to_tap)

\* Unless something was lost, the host never waits in vain for the response to
\* a frame that has been transmitted: the response is under way, the server is
\* about to send it, or a copy of the request is still to be answered.  A full
\* OUTQ delays the response and does not swallow it.
ResponseOnItsWay ==
  ~wrapped /\ faults = 0 /\ pc = "tx" /\ phase # "idle" /\ last_completed = Current =>
    \/ Occurs(Response("tx", Current, NoFrame), down)
    \/ tx_server # "recv" /\ tx_request.transaction = Current
    \/ Occurs(CurrentRequest, tx_queue) \/ Occurs(CurrentRequest, up)
=============================================================================
