---------------------------- MODULE ProcessProofs ---------------------------
(***************************************************************************)
(* Proofs about three parts that do not call each other: the bridge task   *)
(* of the firmware, the USB bulk transport of the host and the daemon that *)
(* awaits a transport.                                                     *)
(***************************************************************************)
EXTENDS FirmwareBridge, NusbTransport, Daemon, TLAPS

-----------------------------------------------------------------------------
(* The bridge task, for every capacity of the channel towards the host and *)
(* any number of frames: one outgoing frame at a time, and the refinement  *)
(* of RadioPort.                                                           *)

Transmitting == {"transmit", "transmitOnly"}

\* What the bridge has in hand, by where it is suspended.  "complete" is
\* reached from both transmits, so a received frame may be in hand or not.
Hands ==
  /\ bridge \in {"queue", "transmitOnly"} => pending # NoFrame
  /\ bridge \notin {"queue", "transmitOnly", "complete"} => pending = NoFrame
  /\ bridge \in Transmitting => sending = submitted /\ submitted # 0
  /\ hostToWifi = <<>> \/ hostToWifi = <<submitted>>

\* The inductive invariant.
BridgeInv == BridgeTypeOK /\ Hands /\ OneFrameOutstanding

-----------------------------------------------------------------------------
\* The firmware starts with empty channels and no frame in hand.
LEMMA BridgeInvInit == BridgeInit => BridgeInv
<1> SUFFICES ASSUME BridgeInit PROVE BridgeInv OBVIOUS
<1> USE ToHostCapAssumption, BoundsAssumption DEF BridgeInit, NoFrame
<1>1. BridgeTypeOK
  <2>1. <<>> \in Seq(1..MaxTx) /\ <<>> \in Seq(1..MaxRx) /\ Len(<<>>) = 0
    OBVIOUS
  <2>2. usbActive \in BOOLEAN BY Zenon
  <2>q. QED BY <2>1, <2>2 DEF BridgeTypeOK, BridgeStates, Starting
<1>2. Hands BY DEF Hands, Transmitting
<1>3. OneFrameOutstanding BY DEF OneFrameOutstanding, Outstanding
<1>q. QED BY <1>1, <1>2, <1>3 DEF BridgeInv

\* Channels keep within their capacities and frames within their numbers.
LEMMA BridgeTypeStep ==
  ASSUME BridgeInv, [BridgeNext]_bridgeVars
  PROVE  BridgeTypeOK'
<1> USE ToHostCapAssumption, BoundsAssumption
    DEF BridgeInv, BridgeTypeOK, Hands, BridgeStates, Starting, Transmitting,
        NoFrame
<1>1. CASE Environment
  BY <1>1, Zenon
     DEF Environment, Connect, Disconnect, RetryDelayEnds, UsbBecomesActive, chanVars
<1>2. CASE TxSubmit BY <1>2 DEF TxSubmit, startVars
<1>3. CASE TxCompleted BY <1>3 DEF TxCompleted, startVars
<1>4. CASE RxPull BY <1>4 DEF RxPull, startVars
<1>5. CASE BridgeStarts BY <1>5 DEF BridgeStarts, startVars, chanVars
<1>6. CASE TakeHostFrame BY <1>6 DEF TakeHostFrame, startVars
<1>7. CASE TakeRadioFrame BY <1>7 DEF TakeRadioFrame, startVars, chanVars
<1>8. CASE RadioAccepts BY <1>8 DEF RadioAccepts, startVars, chanVars
<1>9. CASE DrainWhileTransmitting
  <2>1. received + 1 \in 1..MaxRx BY <1>9 DEF DrainWhileTransmitting
  <2>2. CASE /\ Len(wifiToHost) < ToHostCap
             /\ wifiToHost' = Append(wifiToHost, received + 1)
             /\ UNCHANGED <<bridge, pending>>
    <3>1. wifiToHost' \in Seq(1..MaxRx) /\ Len(wifiToHost') <= ToHostCap
      BY <2>1, <2>2
    <3>q. QED BY <1>9, <2>1, <2>2, <3>1 DEF DrainWhileTransmitting, startVars
  <2>3. CASE /\ pending' = received + 1
             /\ bridge' = "transmitOnly"
             /\ UNCHANGED wifiToHost
    BY <1>9, <2>1, <2>3 DEF DrainWhileTransmitting, startVars
  <2>q. QED BY <1>9, <2>2, <2>3 DEF DrainWhileTransmitting
<1>10. CASE SendCompletion BY <1>10 DEF SendCompletion, startVars
<1>11. CASE QueueFrame BY <1>11 DEF QueueFrame, startVars
<1>12. CASE QueueServesTx BY <1>12 DEF QueueServesTx, startVars
<1>13. CASE UNCHANGED bridgeVars BY <1>13 DEF bridgeVars
<1>q. QED
  BY <1>1, <1>2, <1>3, <1>4, <1>5, <1>6, <1>7, <1>8, <1>9, <1>10, <1>11, <1>12,
     <1>13, Zenon DEF BridgeNext, Servers, Bridge

\* What is in hand fits the place where the bridge is suspended.
LEMMA HandsStep ==
  ASSUME BridgeInv, [BridgeNext]_bridgeVars
  PROVE  Hands'
<1> USE ToHostCapAssumption, BoundsAssumption
    DEF BridgeInv, BridgeTypeOK, Hands, BridgeStates, Starting, Transmitting,
        NoFrame
<1>1. CASE Environment
  BY <1>1 DEF Environment, Connect, Disconnect, RetryDelayEnds, UsbBecomesActive,
              chanVars
<1>2. CASE TxSubmit
  BY <1>2 DEF TxSubmit, startVars, OneFrameOutstanding, Outstanding
<1>3. CASE TxCompleted BY <1>3 DEF TxCompleted, startVars
<1>4. CASE RxPull BY <1>4 DEF RxPull, startVars
<1>5. CASE BridgeStarts BY <1>5 DEF BridgeStarts, startVars, chanVars
<1>6. CASE TakeHostFrame BY <1>6 DEF TakeHostFrame, startVars
<1>7. CASE TakeRadioFrame BY <1>7 DEF TakeRadioFrame, startVars, chanVars
<1>8. CASE RadioAccepts BY <1>8 DEF RadioAccepts, startVars, chanVars
<1>9. CASE DrainWhileTransmitting BY <1>9 DEF DrainWhileTransmitting, startVars
<1>10. CASE SendCompletion BY <1>10 DEF SendCompletion, startVars
<1>11. CASE QueueFrame BY <1>11 DEF QueueFrame, startVars
<1>12. CASE QueueServesTx BY <1>12 DEF QueueServesTx, startVars
<1>13. CASE UNCHANGED bridgeVars BY <1>13 DEF bridgeVars
<1>q. QED
  BY <1>1, <1>2, <1>3, <1>4, <1>5, <1>6, <1>7, <1>8, <1>9, <1>10, <1>11, <1>12,
     <1>13 DEF BridgeNext, Servers, Bridge

\* A frame moves from the channel to the bridge to the completion channel;
\* the TX server waits for exactly as long.
LEMMA OutstandingStep ==
  ASSUME BridgeInv, [BridgeNext]_bridgeVars
  PROVE  OneFrameOutstanding'
<1> USE DEF BridgeInv, BridgeTypeOK, Hands, BridgeStates, Starting, Transmitting,
            NoFrame, OneFrameOutstanding, Outstanding
<1>1. CASE Environment
  BY <1>1 DEF Environment, Connect, Disconnect, RetryDelayEnds, UsbBecomesActive,
              chanVars
<1>2. CASE TxSubmit BY <1>2 DEF TxSubmit, startVars
<1>3. CASE TxCompleted BY <1>3 DEF TxCompleted, startVars
<1>4. CASE RxPull BY <1>4 DEF RxPull, startVars
<1>5. CASE BridgeStarts BY <1>5 DEF BridgeStarts, startVars, chanVars
<1>6. CASE TakeHostFrame BY <1>6 DEF TakeHostFrame, startVars
<1>7. CASE TakeRadioFrame BY <1>7 DEF TakeRadioFrame, startVars, chanVars
<1>8. CASE RadioAccepts BY <1>8 DEF RadioAccepts, startVars, chanVars
<1>9. CASE DrainWhileTransmitting BY <1>9 DEF DrainWhileTransmitting, startVars
<1>10. CASE SendCompletion BY <1>10 DEF SendCompletion, startVars
<1>11. CASE QueueFrame BY <1>11 DEF QueueFrame, startVars
<1>12. CASE QueueServesTx BY <1>12 DEF QueueServesTx, startVars
<1>13. CASE UNCHANGED bridgeVars BY <1>13 DEF bridgeVars
<1>q. QED
  BY <1>1, <1>2, <1>3, <1>4, <1>5, <1>6, <1>7, <1>8, <1>9, <1>10, <1>11, <1>12,
     <1>13 DEF BridgeNext, Servers, Bridge

\* Every reachable state of the bridge satisfies the invariant.
LEMMA BridgeInvariant == BridgeSpec => []BridgeInv
<1>1. BridgeInv /\ [BridgeNext]_bridgeVars => BridgeInv'
  BY BridgeTypeStep, HandsStep, OutstandingStep DEF BridgeInv
<1>q. QED BY <1>1, BridgeInvInit, PTL DEF BridgeSpec

\* The bridge is suspended at one of its awaits and no channel overflows, for
\* every capacity of the channel towards the host.
THEOREM ChannelsAreBounded == BridgeSpec => []BridgeTypeOK
<1>1. BridgeInv => BridgeTypeOK BY DEF BridgeInv
<1>q. QED BY <1>1, BridgeInvariant, PTL

\* While the TX server waits for a completion the bridge owes it exactly one,
\* and otherwise none.
THEOREM OneFrameAtATime == BridgeSpec => []OneFrameOutstanding
<1>1. BridgeInv => OneFrameOutstanding BY DEF BridgeInv
<1>q. QED BY <1>1, BridgeInvariant, PTL

-----------------------------------------------------------------------------
(* The refinement of RadioPort.                                            *)

\* What the refinement needs of sequences.
LEMMA SeqFacts ==
  ASSUME NEW S, NEW s \in Seq(S), NEW x \in S
  PROVE  /\ s \o <<>> = s
         /\ s \o <<x>> = Append(s, x)
         /\ Len(s \o <<x>>) = Len(s) + 1
         /\ s # <<>> => Tail(s \o <<x>>) = Tail(s) \o <<x>>
         /\ s # <<>> => Tail(s) \in Seq(S)
         /\ s \o <<x>> # <<>>
OBVIOUS

TxFrame == IF txServer = "waiting" THEN submitted ELSE NoFrame
HeldFrames == wifiToHost \o InHand

\* What the refinement maps to the progress of the outgoing frame.
TxSide == <<PortTx, TxFrame, onAir>>

\* What it maps to the received frames.
RxSide == <<received, HeldFrames>>

\* The bridge starts where the port starts.
LEMMA PortInitially == BridgeInit => Port!PortInit
BY DEF BridgeInit, Port!PortInit, PortTx, InHand, NoFrame

\* The received frames: they arrive, are pulled, or only change hands.
LEMMA RxSideStep ==
  ASSUME BridgeInv, BridgeNext
  PROVE  \/ UNCHANGED RxSide
         \/ /\ Len(HeldFrames) < ToHostCap + 1
            /\ received' = received + 1
            /\ HeldFrames' = Append(HeldFrames, received + 1)
            /\ UNCHANGED TxSide
         \/ /\ HeldFrames # <<>>
            /\ HeldFrames' = Tail(HeldFrames)
            /\ UNCHANGED <<received, TxSide>>
<1>0. ASSUME wifiToHost \in Seq(1..MaxRx), pending \in 1..MaxRx, wifiToHost # <<>>
      PROVE  /\ Tail(wifiToHost \o <<pending>>) = Tail(wifiToHost) \o <<pending>>
             /\ wifiToHost \o <<pending>> # <<>>
  BY <1>0, SeqFacts
<1> USE ToHostCapAssumption, BoundsAssumption
    DEF BridgeInv, BridgeTypeOK, Hands, NoFrame, RxSide, HeldFrames, InHand
<1>1. CASE Environment
  BY <1>1, Zenon
     DEF Environment, Connect, Disconnect, RetryDelayEnds, UsbBecomesActive, chanVars
<1>2. CASE TxSubmit \/ TxCompleted BY <1>2, Zenon DEF TxSubmit, TxCompleted
<1>3. CASE RxPull
  <2>1. /\ wifiToHost # <<>> /\ wifiToHost' = Tail(wifiToHost)
        /\ UNCHANGED <<pending, received, TxSide>>
    BY <1>3 DEF RxPull, startVars, TxSide, PortTx, TxFrame
  <2>2. CASE pending = 0 BY <2>1, <2>2, SeqFacts
  <2>3. CASE pending # 0
    <3>1. pending \in 1..MaxRx BY <2>3
    <3>2. /\ HeldFrames = wifiToHost \o <<pending>>
          /\ HeldFrames' = Tail(wifiToHost) \o <<pending>>
      BY <2>1, <2>3, Zenon
    <3>3. /\ Tail(wifiToHost \o <<pending>>) = Tail(wifiToHost) \o <<pending>>
          /\ wifiToHost \o <<pending>> # <<>>
      BY <2>1, <3>1, <1>0
    <3>q. QED BY <2>1, <3>2, <3>3, Zenon
  <2>q. QED BY <2>2, <2>3, Zenon
<1>4. CASE BridgeStarts \/ TakeHostFrame \/ RadioAccepts
  BY <1>4, Zenon DEF BridgeStarts, TakeHostFrame, RadioAccepts, chanVars
<1>5. CASE TakeRadioFrame
  <2>1. /\ pending = 0 /\ pending' = received + 1 /\ received' = received + 1
        /\ received + 1 \in 1..MaxRx
        /\ UNCHANGED <<wifiToHost, TxSide>>
    BY <1>5 DEF TakeRadioFrame, chanVars, TxSide, PortTx, TxFrame
  <2>q. QED BY <2>1, SeqFacts
<1>6. CASE DrainWhileTransmitting
  <2>1. /\ pending = 0 /\ received' = received + 1
        /\ received + 1 \in 1..MaxRx
        /\ UNCHANGED TxSide
    BY <1>6 DEF DrainWhileTransmitting, TxSide, PortTx, TxFrame
  <2>2. CASE /\ Len(wifiToHost) < ToHostCap
             /\ wifiToHost' = Append(wifiToHost, received + 1)
             /\ UNCHANGED <<bridge, pending>>
    <3>1. wifiToHost' \in Seq(1..MaxRx) BY <2>1, <2>2
    <3>q. QED BY <2>1, <2>2, <3>1, SeqFacts
  <2>3. CASE /\ pending' = received + 1
             /\ UNCHANGED wifiToHost
    BY <2>1, <2>3, SeqFacts
  <2>q. QED BY <1>6, <2>2, <2>3, Zenon DEF DrainWhileTransmitting
<1>7. CASE SendCompletion \/ QueueServesTx
  BY <1>7, Zenon DEF SendCompletion, QueueServesTx
<1>8. CASE QueueFrame
  <2>1. /\ pending \in 1..MaxRx /\ pending' = 0
        /\ wifiToHost' = Append(wifiToHost, pending)
        /\ UNCHANGED received
    BY <1>8 DEF QueueFrame
  <2>2. wifiToHost' \in Seq(1..MaxRx) BY <2>1
  <2>7. pending # NoFrame BY <2>1
  <2>3. HeldFrames = wifiToHost \o <<pending>> BY <2>7, Zenon
  <2>4. HeldFrames' = wifiToHost' \o <<>> BY <2>1
  <2>5. wifiToHost' \o <<>> = wifiToHost' BY <2>1, <2>2, SeqFacts
  <2>6. wifiToHost \o <<pending>> = wifiToHost' BY <2>1, SeqFacts
  <2>q. QED BY <2>1, <2>3, <2>4, <2>5, <2>6, Zenon
<1>q. QED BY <1>1, <1>2, <1>3, <1>4, <1>5, <1>6, <1>7, <1>8, Zenon
          DEF BridgeNext, Servers, Bridge

\* The outgoing frame: it is submitted, accepted and acknowledged, or nothing
\* the port shows of it changes.
LEMMA TxSideStep ==
  ASSUME BridgeInv, BridgeNext
  PROVE  \/ UNCHANGED TxSide
         \/ /\ PortTx = "idle" /\ PortTx' = "submitted"
            /\ TxFrame' \in 1..MaxTx
            /\ UNCHANGED onAir
         \/ /\ PortTx = "submitted" /\ PortTx' = "accepted"
            /\ onAir' = Append(onAir, TxFrame)
            /\ UNCHANGED TxFrame
         \/ /\ PortTx = "accepted" /\ PortTx' = "idle"
            /\ TxFrame' = 0
            /\ UNCHANGED onAir
<1> USE BoundsAssumption
    DEF BridgeInv, BridgeTypeOK, Hands, NoFrame, OneFrameOutstanding, Outstanding,
        TxSide, PortTx, TxFrame, Transmitting
<1>1. CASE Environment
  BY <1>1, Zenon
     DEF Environment, Connect, Disconnect, RetryDelayEnds, UsbBecomesActive, chanVars
<1>2. CASE TxSubmit BY <1>2 DEF TxSubmit
<1>3. CASE TxCompleted BY <1>3 DEF TxCompleted
<1>4. CASE RxPull BY <1>4 DEF RxPull
<1>5. CASE BridgeStarts BY <1>5 DEF BridgeStarts, chanVars
<1>6. CASE TakeHostFrame BY <1>6, Zenon DEF TakeHostFrame
<1>7. CASE TakeRadioFrame BY <1>7 DEF TakeRadioFrame, chanVars
<1>8. CASE RadioAccepts BY <1>8 DEF RadioAccepts, chanVars
<1>9. CASE DrainWhileTransmitting BY <1>9 DEF DrainWhileTransmitting
<1>10. CASE SendCompletion BY <1>10, SMTT(30) DEF SendCompletion
<1>11. CASE QueueFrame BY <1>11 DEF QueueFrame
<1>12. CASE QueueServesTx BY <1>12, Zenon DEF QueueServesTx
<1>q. QED
  BY <1>1, <1>2, <1>3, <1>4, <1>5, <1>6, <1>7, <1>8, <1>9, <1>10, <1>11, <1>12,
     Zenon
     DEF BridgeNext, Servers, Bridge

\* Every step of the bridge is a step of the port, or changes nothing the
\* endpoint servers can tell.
LEMMA PortStep ==
  ASSUME BridgeInv, [BridgeNext]_bridgeVars
  PROVE  [Port!PortNext]_(Port!portVars)
<1> USE DEF Port!PortNext, Port!portVars, Port!Submit, Port!Accept,
            Port!Acknowledge, Port!Arrive, Port!Pull, TxSide, RxSide, TxFrame,
            HeldFrames, NoFrame
<1>1. CASE UNCHANGED bridgeVars
  BY <1>1, Zenon DEF bridgeVars, PortTx, InHand
<1>2. CASE BridgeNext
  <2>1. CASE UNCHANGED RxSide BY <2>1, <1>2, TxSideStep
  <2>2. CASE ~UNCHANGED RxSide BY <2>2, <1>2, RxSideStep, Zenon
  <2>q. QED BY <2>1, <2>2, Zenon
<1>q. QED BY <1>1, <1>2, Zenon

\* The bridge keeps the promises of RadioPort: outgoing frames are accepted
\* once and acknowledged afterwards, received frames are offered in order,
\* none lost and none repeated, for any channel capacity.
THEOREM BridgeImplementsPort == BridgeSpec => ImplementsRadioPort
<1>q. QED
  BY PortInitially, PortStep, BridgeInvariant, PTL
     DEF BridgeSpec, ImplementsRadioPort, Port!PortSpec

-----------------------------------------------------------------------------
(* The daemon.                                                             *)

NetEnded == {"off", "ok", "err"}

\* The commands between a successful add and the deletion.
NetHolds == {"modify", "activate", "details", "routes", "monitor", "delete"}

DaemonTypeOK ==
  /\ cancelled \in BOOLEAN /\ tap \in BOOLEAN
  /\ result \in {"running", "ok", "err"}
  /\ net \in NetEnded \cup NetHolds \cup {"wait", "status", "add"}
  /\ profile \in {"none", "stored", "present", "removed", "kept"}
  /\ outcome \in {"ok", "err"}
  /\ test \in BOOLEAN
  /\ main \in {"transport", "network", "metrics", "exited"}
  /\ exit \in {"none", "ok", "err"}
  /\ reporter \in {"off", "ticking", "done"}
  /\ count \in Nat /\ atCancel \in Nat /\ reported \in Nat

\* A profile that was added is there exactly while run owes its deletion; one
\* that a failing command has stored goes with the error run returned.
ProfileOwed ==
  /\ profile = "present" <=> net \in NetHolds
  /\ profile = "stored" => net = "err"

\* main goes on only after what it has awaited: the transport, then the network
\* task, then the reports.
MainInOrder ==
  /\ main # "transport" => cancelled /\ result # "running"
  /\ main \in {"metrics", "exited"} => net \in NetEnded
  /\ main = "metrics" => ~(net = "err" /\ result = "ok")
  /\ exit = "none" <=> main # "exited"
  /\ main = "exited" => \/ exit = "err" /\ net = "err"
                        \/ exit = result /\ reporter # "ticking"
  /\ HonestExit

\* The final report comes after the token was cancelled, and what was counted
\* before that no longer grows.
ReportInOrder ==
  /\ test <=> reporter = "off"
  /\ ~cancelled => atCancel = count
  /\ atCancel <= count
  /\ reporter = "done" => cancelled /\ reported >= atCancel

\* The inductive invariant.
DaemonInv == DaemonTypeOK /\ ProfileOwed /\ MainInOrder /\ ReportInOrder

-----------------------------------------------------------------------------
\* The daemon starts uncancelled, without a profile and with nothing counted.
LEMMA DaemonInvInit == DaemonInit => DaemonInv
<1> SUFFICES ASSUME DaemonInit PROVE DaemonInv OBVIOUS
<1> USE DEF DaemonInit, TransportInit, NetInit
<1>1. DaemonTypeOK
  <2>1. cancelled \in BOOLEAN /\ tap \in BOOLEAN /\ test \in BOOLEAN BY Zenon
  <2>2. reporter \in {"off", "ticking", "done"} OBVIOUS
  <2>3. QED BY <2>1, <2>2 DEF DaemonTypeOK, NetEnded, NetHolds
<1>2. ProfileOwed BY DEF ProfileOwed, NetHolds
<1>3. MainInOrder BY DEF MainInOrder, HonestExit
<1>4. ReportInOrder BY DEF ReportInOrder
<1>5. QED BY <1>1, <1>2, <1>3, <1>4 DEF DaemonInv

\* A step of run of system_network.rs: how the profile and the command go on.
LEMMA NetMoves ==
  ASSUME DaemonTypeOK, ProfileOwed, NetNext
  PROVE  /\ net \notin NetEnded
         /\ net' \in NetEnded \cup NetHolds \cup {"status", "add"}
         /\ profile' \in {"none", "stored", "present", "removed", "kept"}
         /\ outcome' \in {"ok", "err"}
         /\ cancelled' \in BOOLEAN /\ (cancelled => cancelled')
         /\ UNCHANGED <<tap, result>>
         /\ ProfileOwed'
<1> USE DEF DaemonTypeOK, ProfileOwed, NetEnded, NetHolds, Goto, NetReturn, Delete
<1>1. CASE WaitForTap BY <1>1, Zenon DEF WaitForTap
<1>2. CASE Status BY <1>2, Zenon DEF Status
<1>3. CASE Add BY <1>3, Zenon DEF Add
<1>4. CASE Modify BY <1>4 DEF Modify
<1>5. CASE Activate BY <1>5 DEF Activate
<1>6. CASE Details BY <1>6 DEF Details
<1>7. CASE Routes BY <1>7 DEF Routes
<1>8. CASE Monitor BY <1>8 DEF Monitor
<1>9. CASE DeleteProfile BY <1>9 DEF DeleteProfile
<1>10. QED
  BY <1>1, <1>2, <1>3, <1>4, <1>5, <1>6, <1>7, <1>8, <1>9, Zenon DEF NetNext

\* The steps that only touch the token, the transport or the reports.
LEMMA DaemonInvStep ==
  ASSUME DaemonInv, [DaemonNext]_daemonVars
  PROVE  DaemonInv'
<1> USE DEF DaemonInv, mainVars, reportVars, netVars, transportVars
<1>1. CASE Signal
  <2>1. /\ main # "exited" /\ cancelled' = TRUE
        /\ UNCHANGED <<tap, result, netVars, mainVars, reportVars>>
    BY <1>1 DEF Signal, Alive, CancelDaemon
  <2>2. DaemonTypeOK' BY <2>1 DEF DaemonTypeOK
  <2>3. QED
    BY <2>1, <2>2 DEF ProfileOwed, MainInOrder, HonestExit, ReportInOrder
<1>2. CASE TransportStep
  <2>1. /\ main # "exited" /\ result = "running"
        /\ result' \in {"running", "ok", "err"} /\ tap' \in BOOLEAN
        /\ UNCHANGED <<cancelled, netVars, mainVars, reportVars>>
    BY <1>2, Zenon
    DEF TransportStep, Alive, CreateTap, ReturnOk, ReturnErr, DaemonTypeOK
  <2>2. DaemonTypeOK' BY <2>1 DEF DaemonTypeOK
  <2>3. QED
    BY <2>1, <2>2 DEF ProfileOwed, MainInOrder, HonestExit, ReportInOrder
<1>3. CASE Record
  <2>1. /\ main # "exited" /\ count' = count + 1
        /\ atCancel' = IF cancelled THEN atCancel ELSE count'
        /\ UNCHANGED <<transportVars, netVars, mainVars, reporter, reported>>
    BY <1>3 DEF Record, Alive
  <2>2. DaemonTypeOK' BY <2>1 DEF DaemonTypeOK
  <2>3. ReportInOrder' BY <2>1 DEF ReportInOrder, DaemonTypeOK
  <2>4. QED BY <2>1, <2>2, <2>3 DEF ProfileOwed, MainInOrder, HonestExit
<1>4. CASE NetStep
  <2>1. NetNext /\ main # "exited" /\ UNCHANGED <<mainVars, reportVars>>
    BY <1>4 DEF NetStep, Alive
  <2>2. DaemonTypeOK' BY <2>1, NetMoves DEF DaemonTypeOK
  <2>3. MainInOrder' BY <2>1, NetMoves DEF MainInOrder, HonestExit
  <2>4. ReportInOrder' BY <2>1, NetMoves DEF ReportInOrder
  <2>5. QED BY <2>1, <2>2, <2>3, <2>4, NetMoves
<1>5. CASE Tick \/ FinalReport
  <2>1. /\ main # "exited" /\ reporter = "ticking" /\ reported' = count
        /\ reporter' \in {"ticking", "done"} /\ (reporter' = "done" => cancelled)
        /\ UNCHANGED <<transportVars, netVars, mainVars, count, atCancel>>
    BY <1>5 DEF Tick, FinalReport, Alive, Emit
  <2>2. DaemonTypeOK' BY <2>1 DEF DaemonTypeOK
  <2>3. ReportInOrder' BY <2>1 DEF ReportInOrder, DaemonTypeOK
  <2>4. QED BY <2>1, <2>2, <2>3 DEF ProfileOwed, MainInOrder, HonestExit
<1>6. CASE AfterTransport
  <2>1. /\ main = "transport" /\ result # "running" /\ cancelled' = TRUE
        /\ main' = "network"
        /\ UNCHANGED <<tap, result, netVars, test, exit, reportVars>>
    BY <1>6 DEF AfterTransport
  <2>2. DaemonTypeOK' BY <2>1 DEF DaemonTypeOK
  <2>3. QED
    BY <2>1, <2>2 DEF ProfileOwed, MainInOrder, HonestExit, ReportInOrder
<1>7. CASE AfterNetwork
  <2>1. /\ main = "network" /\ net \in NetEnded
        /\ IF net = "err" /\ result = "ok"
             THEN main' = "exited" /\ exit' = "err"
             ELSE main' = "metrics" /\ exit' = exit
        /\ UNCHANGED <<transportVars, netVars, test, reportVars>>
    BY <1>7 DEF AfterNetwork, NetEnded
  <2>2. DaemonTypeOK' BY <2>1 DEF DaemonTypeOK
  <2>3. MainInOrder' BY <2>1 DEF MainInOrder, HonestExit, DaemonTypeOK
  <2>4. QED BY <2>1, <2>2, <2>3 DEF ProfileOwed, ReportInOrder
<1>8. CASE AfterMetrics
  <2>1. /\ main = "metrics" /\ reporter # "ticking"
        /\ main' = "exited" /\ exit' = result
        /\ UNCHANGED <<transportVars, netVars, test, reportVars>>
    BY <1>8 DEF AfterMetrics
  <2>2. result \in {"ok", "err"} BY <2>1 DEF DaemonTypeOK, MainInOrder
  <2>3. DaemonTypeOK' BY <2>1, <2>2 DEF DaemonTypeOK
  <2>4. MainInOrder' BY <2>1, <2>2 DEF MainInOrder, HonestExit
  <2>5. QED BY <2>1, <2>3, <2>4 DEF ProfileOwed, ReportInOrder
<1>9. CASE UNCHANGED daemonVars
  <2>1. DaemonTypeOK' BY <1>9 DEF daemonVars, DaemonTypeOK
  <2>2. QED
    BY <1>9, <2>1, Zenon
    DEF daemonVars, ProfileOwed, MainInOrder, HonestExit, ReportInOrder
<1>10. QED
  BY <1>1, <1>2, <1>3, <1>4, <1>5, <1>6, <1>7, <1>8, <1>9 DEF DaemonNext

\* Every reachable state of the daemon satisfies the invariant.
LEMMA DaemonInvariant == DaemonSpec => []DaemonInv
BY DaemonInvInit, DaemonInvStep, PTL DEF DaemonSpec

\* The daemon exits only after run has tried to delete the profile it added,
\* however the commands and the transport ended; a profile stored by a failing
\* add is left, and then main returns an error.
THEOREM ProfileIsDeleted == DaemonSpec => []ExitCleansUp
<1>1. DaemonInv => ExitCleansUp
  BY DEF DaemonInv, DaemonTypeOK, ProfileOwed, MainInOrder, HonestExit,
         ExitCleansUp, NetEnded, NetHolds
<1>2. QED BY <1>1, DaemonInvariant, PTL

\* main returns Ok only when neither the transport nor the network task failed.
THEOREM ExitStatusIsHonest == DaemonSpec => []HonestExit
<1>1. DaemonInv => HonestExit BY DEF DaemonInv, MainInOrder
<1>2. QED BY <1>1, DaemonInvariant, PTL

\* What was counted before the cancellation has been reported when the daemon
\* exits, unless main returns an error of the network task: for any number of
\* events and any order of the tasks' steps.
THEOREM CountersAreReported == DaemonSpec => []ExitReportsCounters
<1>1. DaemonInv => ExitReportsCounters
  BY DEF DaemonInv, DaemonTypeOK, MainInOrder, ReportInOrder, ExitReportsCounters
<1>2. QED BY <1>1, DaemonInvariant, PTL

-----------------------------------------------------------------------------
(* The USB bulk transport.                                                 *)

\* A device without an interface of its own is noticed: what a poll missed is
\* neither seen nor there.
NusbSeenInv ==
  /\ SeenHasInterface
  /\ missed \intersect (seen \union Connected) = {}
  /\ DOMAIN at = Devices /\ seen \subseteq Devices

\* run has a result exactly when it has returned, and joins the tasks only
\* after cancellation.
NusbReturns ==
  /\ cancelled \in BOOLEAN /\ tap \in BOOLEAN
  /\ result = "running" <=> pc # "returned"
  /\ pc = "join" => cancelled /\ tap

\* Steps of the devices and of the two functions that look for them.
LEMMA NusbSeenStep ==
  ASSUME NusbSeenInv, [Next]_vars
  PROVE  NusbSeenInv'
<1> USE DEF NusbSeenInv, SeenHasInterface, Connected
<1>1. ASSUME NEW d \in Devices, Plug(d) PROVE NusbSeenInv'
  BY <1>1 DEF Plug, runVars
<1>2. ASSUME NEW d \in Devices, Unplug(d) PROVE NusbSeenInv'
  BY <1>2 DEF Unplug, runVars
<1>3. CASE Reconcile
  BY <1>3 DEF Reconcile, Prune
<1>4. CASE RegisterDevices
  <2>1. PICK ok \in SUBSET (Connected \ seen) :
          /\ seen' = seen \union ok
          /\ interfaces' = interfaces \union {at[d] : d \in ok}
    BY <1>4, Zenon DEF RegisterDevices
  <2>2. UNCHANGED <<at, missed, unnoticed>>
    BY <1>4 DEF RegisterDevices, envVars
  <2>q. QED BY <2>1, <2>2
<1>5. CASE \/ Poll \/ QueryAttemptFails \/ QueryGivesUp
           \/ QueryAnswer \/ StartBridge \/ StartFails
  BY <1>5 DEF Poll, QueryAttemptFails, QueryGivesUp,
              QueryAnswer, StartBridge, StartFails, envVars
<1>6. CASE UpdateRoute \/ CancelSeen \/ Join \/ CancelToken
  BY <1>6 DEF UpdateRoute, CancelSeen, Join, CancelToken,
              envVars, runVars
<1>7. CASE Exchange
  BY <1>7 DEF Exchange, Call, Backup, ExchangeCancelled,
              Reply, Refused, envVars, runVars
<1>8. ASSUME NEW t \in TaskNames, HelperEnds(t) PROVE NusbSeenInv'
  BY <1>8 DEF HelperEnds, envVars, runVars
<1>9. CASE UNCHANGED vars
  BY <1>9 DEF vars, envVars, runVars
<1>q. QED
  BY <1>1, <1>2, <1>3, <1>4, <1>5, <1>6, <1>7, <1>8, <1>9
     DEF Next, Watch

\* A device that is there and counts as seen has an interface for its current
\* connection, unless it was back before a poll noticed that it had gone:
\* reconcile_and_register_devices keeps the set of seen devices right.
THEOREM SeenDevicesHaveInterfaces == Spec => []SeenHasInterface
<1>1. Init => NusbSeenInv
  BY DEF Init, NusbSeenInv, SeenHasInterface, Connected
<1>2. NusbSeenInv => SeenHasInterface
  BY DEF NusbSeenInv
<1>q. QED BY <1>1, <1>2, NusbSeenStep, PTL DEF Spec

\* run of the USB transport, too, keeps what Transport promises main: one TAP
\* interface across reconnects, and Ok only after cancellation.
THEOREM NusbImplementsTransport == Spec => ImplementsTransport
<1>1. Init => TransportInit /\ NusbReturns
  BY DEF Init, TransportInit, NusbReturns
<1>2. ASSUME NusbReturns, [Next]_vars
      PROVE  NusbReturns' /\ [TransportNext]_transportVars
  <2> DEFINE Goal == NusbReturns' /\ [TransportNext]_transportVars
  <2> USE <1>2 DEF NusbReturns, TransportNext, transportVars
  <2>1. ASSUME NEW d \in Devices, Plug(d) \/ Unplug(d) PROVE Goal
    BY <2>1 DEF Plug, Unplug, runVars
  <2>2. CASE CancelToken
    BY <2>2 DEF CancelToken, runVars, CancelDaemon
  <2>3. CASE Reconcile
    BY <2>3 DEF Reconcile
  <2>4. CASE RegisterDevices
    BY <2>4 DEF RegisterDevices
  <2>5. CASE Poll \/ QueryAttemptFails \/ QueryAnswer
    BY <2>5 DEF Poll, QueryAttemptFails, QueryAnswer
  <2>6. CASE QueryGivesUp \/ UpdateRoute
    BY <2>6 DEF QueryGivesUp, UpdateRoute, NextInterface
  <2>7. CASE StartBridge
    BY <2>7 DEF StartBridge, CreateTap
  <2>8. CASE StartFails
    BY <2>8 DEF StartFails, ReturnErr
  <2>9. CASE CancelSeen \/ Join
    BY <2>9 DEF CancelSeen, Join, ReturnOk
  <2>10. CASE Exchange
    BY <2>10 DEF Exchange, Call, Backup, ExchangeCancelled,
                 Reply, Refused, runVars
  <2>11. ASSUME NEW t \in TaskNames, HelperEnds(t) PROVE Goal
    BY <2>11 DEF HelperEnds, runVars
  <2>12. CASE UNCHANGED vars
    BY <2>12 DEF vars, runVars
  <2>q. QED
    BY <2>1, <2>2, <2>3, <2>4, <2>5, <2>6, <2>7, <2>8, <2>9, <2>10, <2>11, <2>12
       DEF Next, Watch
<1>q. QED
  BY <1>1, <1>2, PTL DEF Spec, ImplementsTransport, TransportSpec

=============================================================================
