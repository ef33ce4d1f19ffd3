--------------------------- MODULE FirmwareBridge ---------------------------
(***************************************************************************)
(* The wifi_bridge task of firmware-c3/src/bin/main.rs (firmware-s3 has    *)
(* the same one), the three channels that connect it to the endpoint       *)
(* servers, and the WiFi connection manager whose flag starts it.          *)
(*                                                                         *)
(* One task moves frames both ways.  It must not wait for room in the      *)
(* channel towards the host while a host frame waits for the radio: the    *)
(* host serialises its requests, so it pulls received frames only after    *)
(* its own frame has been acknowledged.                                    *)
(*                                                                         *)
(* Frames are numbered per direction; 0 is "no frame".  A frame longer     *)
(* than MAX_FRAME_SIZE is consumed and dropped without any other effect,   *)
(* which is a stuttering step here.                                        *)
(***************************************************************************)
EXTENDS Naturals, Sequences

CONSTANTS
  ToHostCap,        \* capacity of WIFI_TO_HOST_CHANNEL (64 in the code)
  MaxTx,            \* bound: frames the host sends
  MaxRx             \* bound: frames the radio receives

ASSUME ToHostCapAssumption == ToHostCap \in Nat \ {0}
ASSUME BoundsAssumption == MaxTx \in Nat /\ MaxRx \in Nat

NoFrame == 0

VARIABLES
  wifi,             \* wifi_connection: what the manager is doing
  usbActive,        \* the Ergot interface has been assigned a network
  bridge,           \* where wifi_bridge is suspended
  sending,          \* host frame the bridge is handing to the radio
  pending,          \* received frame the bridge could not queue yet
  hostToWifi,       \* HOST_TO_WIFI_CHANNEL, capacity 1
  txComplete,       \* number of messages in WIFI_TX_COMPLETE_CHANNEL
  wifiToHost,       \* WIFI_TO_HOST_CHANNEL
  txServer,         \* wifi_tx_server as far as the bridge sees it
  submitted,        \* number of frames the TX server has submitted
  received,         \* number of frames the radio has delivered
  onAir             \* frames the radio driver has accepted

startVars == <<wifi, usbActive>>
chanVars  == <<hostToWifi, txComplete, wifiToHost>>
bridgeVars == <<wifi, usbActive, bridge, sending, pending, hostToWifi,
                txComplete, wifiToHost, txServer, submitted, received, onAir>>

Starting == {"waitWifi", "waitUsb"}

\* Where wifi_bridge can be suspended.  "transmit" is transmit_to_wifi,
\* "transmitOnly" is transmit_only_to_wifi, "complete" the send of the
\* completion, "queue" is queue_wifi_frame_while_serving_tx.
BridgeStates == Starting \cup
  {"select", "transmit", "transmitOnly", "complete", "queue"}

BridgeInit ==
  /\ wifi = "connecting"
  /\ usbActive = FALSE
  /\ bridge = "waitWifi"
  /\ sending = NoFrame
  /\ pending = NoFrame
  /\ hostToWifi = <<>>
  /\ txComplete = 0
  /\ wifiToHost = <<>>
  /\ txServer = "ready"
  /\ submitted = 0
  /\ received = 0
  /\ onAir = <<>>

-----------------------------------------------------------------------------
(* wifi_connection and the two start conditions of the bridge.             *)

\* connect_async returns: connected, or failed and back to the retry delay.
Connect ==
  /\ wifi = "connecting"
  /\ wifi' \in {"connected", "delay"}
  /\ UNCHANGED <<usbActive, bridge, sending, pending, chanVars, txServer,
                 submitted, received, onAir>>

Disconnect ==
  /\ wifi = "connected"
  /\ wifi' = "delay"
  /\ UNCHANGED <<usbActive, bridge, sending, pending, chanVars, txServer,
                 submitted, received, onAir>>

RetryDelayEnds ==
  /\ wifi = "delay"
  /\ wifi' = "connecting"
  /\ UNCHANGED <<usbActive, bridge, sending, pending, chanVars, txServer,
                 submitted, received, onAir>>

UsbBecomesActive ==
  /\ ~usbActive
  /\ usbActive' = TRUE
  /\ UNCHANGED <<wifi, bridge, sending, pending, chanVars, txServer,
                 submitted, received, onAir>>

\* The polling loops at the top of wifi_bridge: WiFi first, then USB.  WiFi
\* is not looked at again.
BridgeStarts ==
  /\ \/ bridge = "waitWifi" /\ wifi = "connected" /\ bridge' = "waitUsb"
     \/ bridge = "waitUsb" /\ usbActive /\ bridge' = "select"
  /\ UNCHANGED <<startVars, sending, pending, chanVars, txServer, submitted,
                 received, onAir>>

-----------------------------------------------------------------------------
(* The endpoint servers, as far as they touch the channels.                *)

\* Mutant of TxSubmit: the server does not wait for the completion.
TxSubmitWithoutWaiting ==
  /\ txServer = "ready"
  /\ submitted < MaxTx
  /\ hostToWifi = <<>>
  /\ submitted' = submitted + 1
  /\ hostToWifi' = <<submitted + 1>>
  /\ UNCHANGED <<startVars, bridge, sending, pending, txComplete, wifiToHost,
                 txServer, received, onAir>>

\* HOST_TO_WIFI_CHANNEL.send in wifi_tx_server.
TxSubmit ==
  /\ txServer = "ready"
  /\ submitted < MaxTx
  /\ hostToWifi = <<>>
  /\ submitted' = submitted + 1
  /\ hostToWifi' = <<submitted + 1>>
  /\ txServer' = "waiting"
  /\ UNCHANGED <<startVars, bridge, sending, pending, txComplete, wifiToHost,
                 received, onAir>>

\* WIFI_TX_COMPLETE_CHANNEL.receive in wifi_tx_server.
TxCompleted ==
  /\ txServer = "waiting"
  /\ txComplete > 0
  /\ txComplete' = txComplete - 1
  /\ txServer' = "ready"
  /\ UNCHANGED <<startVars, bridge, sending, pending, hostToWifi, wifiToHost,
                 submitted, received, onAir>>

\* WIFI_TO_HOST_CHANNEL.try_receive or receive in wifi_rx_server.
RxPull ==
  /\ wifiToHost # <<>>
  /\ wifiToHost' = Tail(wifiToHost)
  /\ UNCHANGED <<startVars, bridge, sending, pending, hostToWifi, txComplete,
                 txServer, submitted, received, onAir>>

-----------------------------------------------------------------------------
(* wifi_bridge.                                                            *)

\* The main select: a host frame is preferred to a received one.
TakeHostFrame ==
  /\ bridge = "select"
  /\ hostToWifi # <<>>
  /\ sending' = Head(hostToWifi)
  /\ hostToWifi' = <<>>
  /\ bridge' = "transmit"
  /\ UNCHANGED <<startVars, pending, txComplete, wifiToHost, txServer,
                 submitted, received, onAir>>

TakeRadioFrame ==
  /\ bridge = "select"
  /\ hostToWifi = <<>>
  /\ received < MaxRx
  /\ received' = received + 1
  /\ pending' = received + 1
  /\ bridge' = "queue"
  /\ UNCHANGED <<startVars, sending, chanVars, txServer, submitted, onAir>>

\* The driver grants a TX token to transmit_to_wifi or transmit_only_to_wifi.
RadioAccepts ==
  /\ bridge \in {"transmit", "transmitOnly"}
  /\ onAir' = Append(onAir, sending)
  /\ sending' = NoFrame
  /\ bridge' = "complete"
  /\ UNCHANGED <<startVars, pending, chanVars, txServer, submitted, received>>

\* Mutant of DrainWhileTransmitting: a frame without room is dropped.
DrainDropsWhenFull ==
  /\ bridge = "transmit"
  /\ received < MaxRx
  /\ received' = received + 1
  /\ wifiToHost' = IF Len(wifiToHost) < ToHostCap
                   THEN Append(wifiToHost, received + 1) ELSE wifiToHost
  /\ UNCHANGED <<startVars, bridge, sending, pending, hostToWifi, txComplete,
                 txServer, submitted, onAir>>

\* No token yet, but a received frame: transmit_to_wifi queues it, or keeps
\* it and stops receiving when the channel is full.
DrainWhileTransmitting ==
  /\ bridge = "transmit"
  /\ received < MaxRx
  /\ received' = received + 1
  /\ \/ /\ Len(wifiToHost) < ToHostCap
        /\ wifiToHost' = Append(wifiToHost, received + 1)
        /\ UNCHANGED <<bridge, pending>>
     \/ /\ Len(wifiToHost) = ToHostCap
        /\ pending' = received + 1
        /\ bridge' = "transmitOnly"
        /\ UNCHANGED wifiToHost
  /\ UNCHANGED <<startVars, sending, hostToWifi, txComplete, txServer,
                 submitted, onAir>>

\* WIFI_TX_COMPLETE_CHANNEL.send; a frame still in hand is queued next.
SendCompletion ==
  /\ bridge = "complete"
  /\ txComplete < 1
  /\ txComplete' = txComplete + 1
  /\ bridge' = IF pending = NoFrame THEN "select" ELSE "queue"
  /\ UNCHANGED <<startVars, sending, pending, hostToWifi, wifiToHost, txServer,
                 submitted, received, onAir>>

\* Mutant of QueueFrame: room is taken for granted.
QueueFrameUnchecked ==
  /\ bridge = "queue"
  /\ wifiToHost' = Append(wifiToHost, pending)
  /\ pending' = NoFrame
  /\ bridge' = "select"
  /\ UNCHANGED <<startVars, sending, hostToWifi, txComplete, txServer,
                 submitted, received, onAir>>

\* queue_wifi_frame_while_serving_tx: there is room for the frame in hand.
QueueFrame ==
  /\ bridge = "queue"
  /\ Len(wifiToHost) < ToHostCap
  /\ wifiToHost' = Append(wifiToHost, pending)
  /\ pending' = NoFrame
  /\ bridge' = "select"
  /\ UNCHANGED <<startVars, sending, hostToWifi, txComplete, txServer,
                 submitted, received, onAir>>

\* Mutant of QueueServesTx: the bridge waits for room before it serves TX.
QueueServesTxWithRoom ==
  /\ bridge = "queue"
  /\ Len(wifiToHost) < ToHostCap
  /\ hostToWifi # <<>>
  /\ sending' = Head(hostToWifi)
  /\ hostToWifi' = <<>>
  /\ bridge' = "transmitOnly"
  /\ UNCHANGED <<startVars, pending, txComplete, wifiToHost, txServer,
                 submitted, received, onAir>>

\* queue_wifi_frame_while_serving_tx: no room, and the host wants to send.
QueueServesTx ==
  /\ bridge = "queue"
  /\ Len(wifiToHost) = ToHostCap
  /\ hostToWifi # <<>>
  /\ sending' = Head(hostToWifi)
  /\ hostToWifi' = <<>>
  /\ bridge' = "transmitOnly"
  /\ UNCHANGED <<startVars, pending, txComplete, wifiToHost, txServer,
                 submitted, received, onAir>>

-----------------------------------------------------------------------------
Servers == TxSubmit \/ TxCompleted \/ RxPull

Environment == Connect \/ Disconnect \/ RetryDelayEnds \/ UsbBecomesActive

Bridge ==
  \/ BridgeStarts
  \/ TakeHostFrame
  \/ TakeRadioFrame
  \/ RadioAccepts
  \/ DrainWhileTransmitting
  \/ SendCompletion
  \/ QueueFrame
  \/ QueueServesTx

BridgeNext == Environment \/ Servers \/ Bridge

BridgeSpec == BridgeInit /\ [][BridgeNext]_bridgeVars

\* The executor runs every task that is ready, the driver frees TX slots, and
\* nothing is assumed of the host: it may never pull another frame.
Fairness ==
  /\ WF_bridgeVars(TakeHostFrame)
  /\ WF_bridgeVars(RadioAccepts)
  /\ WF_bridgeVars(SendCompletion)
  /\ WF_bridgeVars(QueueFrame)
  /\ WF_bridgeVars(QueueServesTx)
  /\ WF_bridgeVars(TxCompleted)

FairBridge == BridgeSpec /\ Fairness

-----------------------------------------------------------------------------
\* The bridge is always suspended at one of its awaits, and no channel holds
\* more than its capacity.
BridgeTypeOK ==
  /\ wifi \in {"connecting", "connected", "delay"}
  /\ usbActive \in BOOLEAN
  /\ bridge \in BridgeStates
  /\ sending \in 0..MaxTx
  /\ pending \in 0..MaxRx
  /\ hostToWifi \in Seq(1..MaxTx) /\ Len(hostToWifi) <= 1
  /\ txComplete \in 0..1
  /\ wifiToHost \in Seq(1..MaxRx) /\ Len(wifiToHost) <= ToHostCap
  /\ txServer \in {"ready", "waiting"}
  /\ submitted \in 0..MaxTx
  /\ received \in 0..MaxRx
  /\ onAir \in Seq(1..MaxTx)

\* How many frames are in the channel to the bridge, in the bridge's hands, or
\* reported complete.
Outstanding ==
  Len(hostToWifi) + txComplete
    + (IF bridge \in {"transmit", "transmitOnly", "complete"} THEN 1 ELSE 0)

\* Between submitting a frame and receiving its completion the TX server has
\* exactly one frame in the bridge, otherwise none.  So a completion always
\* belongs to the frame being waited for, and the bridge never blocks on a
\* full completion channel (WIFI_TX_COMPLETE_CHANNEL has capacity 1).
OneFrameOutstanding == Outstanding = IF txServer = "waiting" THEN 1 ELSE 0

\* A frame the host submits is accepted by the radio and reported complete
\* even if the host never pulls another received frame: the bridge does not
\* wait for room towards the host while a host frame waits for the radio.
TxCompletes ==
  (txServer = "waiting" /\ bridge \notin Starting) ~> (txServer = "ready")

-----------------------------------------------------------------------------
(* The bridge implements the port the endpoint servers rely on.            *)

PortTx ==
  IF txServer = "ready" THEN "idle"
  ELSE IF txComplete > 0 \/ bridge = "complete" THEN "accepted"
  ELSE "submitted"

InHand == IF pending = NoFrame THEN <<>> ELSE <<pending>>

Port == INSTANCE RadioPort WITH
  Frames  <- 1..MaxTx,
  Backlog <- ToHostCap + 1,
  tx      <- PortTx,
  txFrame <- IF txServer = "waiting" THEN submitted ELSE NoFrame,
  backlog <- wifiToHost \o InHand

\* Frames go to the radio once each and in the order submitted, a completion
\* follows acceptance, and received frames reach the RX server in order with
\* none lost or repeated, including the one kept in hand while TX is served.
ImplementsRadioPort == Port!PortSpec
=============================================================================
