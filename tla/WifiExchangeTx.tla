--------------------------- MODULE WifiExchangeTx ---------------------------
(***************************************************************************)
(* Frames are transmitted once and in order.                               *)
(***************************************************************************)
EXTENDS WifiExchangePath

\* What the driver accepts comes last on the air.
LEMMA AirAppend ==
  ASSUME TypeOK, RadioAccepts
  PROVE  /\ tx = "submitted" /\ Len(onAir) \in Nat /\ onAir' = Append(onAir, txFrame)
         /\ Len(onAir') = Len(onAir) + 1 /\ onAir'[Len(onAir) + 1] = txFrame
         /\ \A i \in 1..Len(onAir) : onAir'[i] = onAir[i] /\ i \in 1..Len(onAir')
         /\ \A i \in 1..Len(onAir') : i = Len(onAir) + 1 \/ i \in 1..Len(onAir)
         /\ Len(onAir) + 1 \in 1..Len(onAir')
<1>1. onAir \in Seq(0..MaxTap) /\ txFrame \in 0..MaxTap
  BY DEF TypeOK, PortType
<1>2. tx = "submitted" /\ onAir' = Append(onAir, txFrame)
  BY DEF RadioAccepts, Accept
<1>3. /\ Len(onAir') = Len(onAir) + 1 /\ onAir'[Len(onAir) + 1] = txFrame
      /\ \A i \in 1..Len(onAir) : onAir'[i] = onAir[i]
  BY <1>1, <1>2, AppendIndex
<1>4. Len(onAir) \in Nat
  BY <1>1
<1>5. \A n \in Nat : /\ \A i \in 1..(n + 1) : i = n + 1 \/ i \in 1..n
                     /\ \A i \in 1..n : i \in 1..(n + 1)
                     /\ n + 1 \in 1..(n + 1)
  OBVIOUS
<1>6. QED
  BY <1>2, <1>3, <1>4, <1>5, Zenon

\* The steps of tap_reader and wifi_exchange keep the TX invariant.
LEMMA TxHostStep ==
  ASSUME TypeOK, TypeOK', Control, PathInv, HostInv, TapOrdered, Host
  PROVE  PathInv' /\ HostInv' /\ TapOrdered'
<1> DEFINE Goal == PathInv' /\ HostInv' /\ TapOrdered'
<1> USE DEF hostVars, linkVars, txVars, portVars
<1>1. CASE TapRead
  <2>1. UNCHANGED <<pathVars, ownVars>> /\ reader = NoFrame /\ reader' = tap_read + 1
        /\ tap_read' = tap_read + 1 /\ UNCHANGED tap_queue
    BY <1>1 DEF TapRead, pathVars, ownVars
  <2>2. TapOrdered'
    <3>1. /\ tap_read \in Nat /\ tap_read + 1 \in Nat /\ tap_read + 2 \in Nat
          /\ tap_read + 1 <= tap_read + 2
          /\ (tap_read + 1) + 1 = tap_read + 2
      BY FrameTypes
    <3>2. PathBelow(tap_read + 1)
      BY DEF TapOrdered
    <3>3. PathBelow(tap_read + 2)
      BY <3>1, <3>2, PathBelowMonotone, Zenon
    <3>4. PathBelow(tap_read + 1)'
      BY <2>1, <3>1, <3>3 DEF PathBelow, AirBelow, pathVars, ownVars
    <3>5. tap_queue' # NoFrame => PathBelow(tap_queue)'
      BY <2>1 DEF TapOrdered, PathBelow, AirBelow, pathVars, ownVars
    <3>6. PathBelow(reader)'
      BY <2>1, <3>2 DEF PathBelow, AirBelow, pathVars, ownVars
    <3>7. tap_queue' < reader' /\ tap_queue' <= tap_read' /\ reader' <= tap_read'
      BY <2>1, FrameTypes DEF TapOrdered
    <3>8. QED
      BY <3>4, <3>5, <3>6, <3>7 DEF TapOrdered
  <2>3. QED
    BY <2>1, <2>2, PathUnchanged, HostUnchanged
<1>2. CASE TapForward
  <2>1. UNCHANGED <<pathVars, ownVars, tap_read>> /\ reader # NoFrame /\ reader' = NoFrame
        /\ tap_queue = NoFrame /\ tap_queue' = reader
    BY <1>2 DEF TapForward, pathVars, ownVars
  <2>2. TapOrdered'
    BY <2>1, FrameTypes DEF TapOrdered, PathBelow, AirBelow, pathVars, ownVars, NoFrame
  <2>3. QED
    BY <2>1, <2>2, PathUnchanged, HostUnchanged
<1>3. CASE BeginTx
  <2>1. UNCHANGED <<pathVars, reader, tap_read>> /\ tap_queue # NoFrame
        /\ held' = tap_queue /\ tap_queue' = NoFrame /\ pc' = "tx"
    BY <1>3 DEF BeginTx, pathVars
  <2>2. PathBelow(tap_queue)
    BY <2>1 DEF TapOrdered
  <2>3. TapOrdered'
    BY <2>1, <2>2, FrameTypes DEF TapOrdered, PathBelow, AirBelow, pathVars, NoFrame
  <2>4. CurrentRequest'.frame = tap_queue
    BY <2>1 DEF CurrentRequest, Request
  <2>5. HostInv'
    <3>1. HostShape'
      BY <2>1 DEF HostShape
    <3>2. OrderedHost'
      <4>1. /\ \A i \in 1..Len(up) : Before(up[i], CurrentRequest')
            /\ \A i \in 1..Len(tx_queue) : Before(tx_queue[i], CurrentRequest')
            /\ Before(tx_request, CurrentRequest')
        <5>1. \A m \in Nat, n \in Nat : m < n => m <= n /\ m # n
          OBVIOUS
        <5>2. /\ \A i \in 1..Len(up) : up[i].frame \in Nat
              /\ \A i \in 1..Len(tx_queue) : tx_queue[i].frame \in Nat
              /\ tx_request.frame \in Nat /\ tap_queue \in Nat
          BY FrameTypes, Zenon
        <5>3. /\ \A i \in 1..Len(up) : up[i].frame < tap_queue
              /\ \A i \in 1..Len(tx_queue) : tx_queue[i].frame < tap_queue
              /\ tx_request.frame < tap_queue
          BY <2>2, Zenon DEF PathBelow
        <5>4. QED
          BY <2>4, <5>1, <5>2, <5>3, Zenon DEF Before
      <4>2. QED
        BY <2>1, <4>1 DEF OrderedHost, pathVars
    <3>3. QED
      BY <3>1, <3>2 DEF HostInv
  <2>6. QED
    BY <2>1, <2>3, <2>5, PathUnchanged
<1>4. CASE BeginRx
  <2>1. UNCHANGED <<pathVars, held, tapVars>> /\ pc # "tx" /\ pc' # "tx"
    BY <1>4 DEF BeginRx, pathVars
  <2>2. held' = NoFrame
    BY <2>1 DEF HostInv, HostShape
  <2>3. QED
    BY <2>1, <2>2, PathUnchanged, HostOutside, TapUnchanged
<1>5. ASSUME up' = Append(up, CurrentRequest), CurrentRequest \in Requests,
             pc \in {"tx", "rx"},
             UNCHANGED <<ownVars, tx_queue, tx_server, tx_request, last_completed,
                         tx, txFrame, onAir, tapVars>>
      PROVE  Goal
  <2> DEFINE new == Len(up) + 1
  <2>1. /\ Len(up') = new /\ up'[new] = CurrentRequest
        /\ \A i \in 1..Len(up) : up'[i] = up[i]
        /\ \A i \in 1..Len(up') : i = new \/ i \in 1..Len(up)
        /\ new \notin 1..Len(up) /\ new \in Nat
    BY <1>5, AppendIndex, SMTT(30) DEF TypeOK, LinkType
  <2>2. /\ CurrentRequest' = CurrentRequest
        /\ CurrentRequest.frame = held /\ CurrentRequest.ep = pc
        /\ UNCHANGED held /\ (pc = "rx" => held = NoFrame)
    BY <1>5 DEF ownVars, CurrentRequest, Current, Request, HostInv, HostShape
  <2>3. TapOrdered'
    BY <1>5, <2>1, <2>2 DEF TapOrdered, PathBelow, AirBelow, tapVars, NoFrame
  <2>4. OrderedUp'
    BY <2>1, <2>2 DEF OrderedUp, IsTx, PathInv, HostInv, OrderedHost
  <2>5. OrderedQueue'
    BY <1>5, <2>1, <2>2 DEF PathInv, OrderedQueue, IsTx, HostInv, OrderedHost
  <2>6. OrderedServer'
    BY <1>5, <2>1, <2>2 DEF PathInv, OrderedServer, IsTx, HostInv, OrderedHost
  <2>7. PathInv'
    BY <1>5, <2>4, <2>5, <2>6 DEF PathInv, ServerShape, Occurs, IsTx
  <2>10. Before(CurrentRequest, CurrentRequest)
    BY <2>2, FrameTypes DEF Before
  <2>11. OrderedHost'
    BY <1>5, <2>1, <2>2, <2>10 DEF HostInv, OrderedHost, IsTx, ownVars
  <2>8. HostInv'
    BY <1>5, <2>2, <2>11 DEF HostInv, HostShape, ownVars, NoFrame
  <2>9. QED
    BY <2>3, <2>7, <2>8
<1>6. CASE SendPrimary
  BY <1>5, <1>6, CurrentTyped DEF SendPrimary, ownVars
<1>7. CASE SendBackup
  BY <1>5, <1>7, CurrentTyped DEF SendBackup, StallTimer, Control, ownVars
<1>8. ASSUME NEW s \in Sources, MatchTx(s) PROVE Goal
  <2>1. UNCHANGED <<pathVars, tapVars>> /\ held' = NoFrame /\ pc' # "tx"
    BY <1>8 DEF MatchTx, pathVars
  <2>2. TapOrdered'
    BY <2>1, TapForgets DEF tapVars
  <2>3. QED
    BY <2>1, <2>2, PathUnchanged, HostOutside
<1>9. ASSUME NEW s \in Sources, MatchRx(s) PROVE Goal
  <2>1. UNCHANGED <<pathVars, held, tapVars>> /\ pc # "tx" /\ pc' # "tx"
    BY <1>9 DEF MatchRx, Matches, Awaits, pathVars
  <2>2. held' = NoFrame
    BY <2>1 DEF HostInv, HostShape
  <2>3. QED
    BY <2>1, <2>2, PathUnchanged, HostOutside, TapUnchanged
<1>10. CASE DropSession
  <2>1. /\ held' = NoFrame /\ pc' # "tx" /\ reader' = NoFrame /\ tap_queue' = NoFrame
        /\ UNCHANGED <<tap_read, tx_queue, tx_server, tx_request, last_completed, tx,
                       txFrame, onAir>>
    BY <1>10 DEF DropSession
  <2>2. CASE up' = up
    BY <2>1, <2>2, TapForgets, PathUnchanged, HostOutside DEF pathVars
  <2>3. CASE up' = <<>>
    <3>1. Len(up') = 0 /\ 1..0 = {}
      BY <2>3
    <3>2. TapOrdered'
      <4>1. PathBelow(tap_read + 1)'
        BY <2>1, <3>1, FrameTypes DEF TapOrdered, PathBelow, AirBelow, NoFrame
      <4>2. tap_queue' <= tap_read' /\ reader' <= tap_read'
        BY <2>1, FrameTypes DEF NoFrame
      <4>3. QED
        BY <2>1, <4>1, <4>2 DEF TapOrdered
    <3>3. OrderedUp' /\ OrderedQueue' /\ OrderedServer'
      BY <2>1, <3>1 DEF PathInv, OrderedUp, OrderedQueue, OrderedServer
    <3>4. PathInv'
      BY <2>1, <3>3 DEF PathInv, ServerShape, Occurs, IsTx
    <3>5. QED
      BY <2>1, <3>2, <3>4, HostOutside
  <2>4. QED
    BY <1>10, <2>2, <2>3 DEF DropSession
<1>11. CASE NewSession
  <2>1. UNCHANGED <<pathVars, held, tapVars>> /\ pc # "tx" /\ pc' # "tx"
    BY <1>11 DEF NewSession, pathVars
  <2>2. held' = NoFrame
    BY <2>1 DEF HostInv, HostShape
  <2>3. QED
    BY <2>1, <2>2, PathUnchanged, HostOutside, TapUnchanged
<1>12. CASE BackupRejected
  BY <1>12, TxUnchanged DEF BackupRejected, pathVars, ownVars
<1>13. ASSUME NEW s \in Sources, RequestFails(s) \/ Mismatch(s) PROVE Goal
  BY <1>13, TxUnchanged, Zenon DEF RequestFails, Mismatch, pathVars, ownVars
<1>14. QED
  BY <1>1, <1>2, <1>3, <1>4, <1>6, <1>7, <1>8, <1>9, <1>10, <1>11, <1>12, <1>13
  DEF Host, RecoverSession, StopSession

\* The steps of the link keep the TX invariant: requests leave from the head.
LEMMA TxLinkStep ==
  ASSUME TypeOK, TypeOK', Control, PathInv, HostInv, TapOrdered, Link
  PROVE  PathInv' /\ HostInv' /\ TapOrdered'
<1> DEFINE Goal == PathInv' /\ HostInv' /\ TapOrdered'
<1> USE DEF hostVars, linkVars, txVars, portVars
\* A request leaves the head of the link and nothing else happens.
<1>1. ASSUME up # <<>>, up' = Tail(up),
              UNCHANGED <<ownVars, tx_queue, tx_server, tx_request, last_completed,
                          tx, txFrame, onAir, tapVars>>
       PROVE  Goal
  <2>1. /\ \A i \in 1..Len(up') : up'[i] = up[i + 1] /\ i + 1 \in 1..Len(up)
        /\ \A i, j \in 1..Len(up') : i < j => i + 1 < j + 1
    <3>1. up \in Seq(Requests)
      BY DEF TypeOK, LinkType
    <3>2. QED
      BY <1>1, <3>1, TailIndex
  <2>2. TapOrdered'
    BY <1>1, <2>1 DEF TapOrdered, PathBelow, AirBelow, tapVars, ownVars, NoFrame
  <2>6. OrderedUp'
    <3> SUFFICES ASSUME NEW i \in 1..Len(up'), NEW j \in 1..Len(up'), i < j,
                        IsTx(up'[i]), IsTx(up'[j])
                 PROVE  Before(up'[i], up'[j])
      BY DEF OrderedUp, IsTx, Before
    <3>1. /\ i + 1 \in 1..Len(up) /\ j + 1 \in 1..Len(up) /\ i + 1 < j + 1
          /\ up'[i] = up[i + 1] /\ up'[j] = up[j + 1]
      BY <2>1
    <3>2. QED
      BY <3>1 DEF PathInv, OrderedUp
  <2>7. OrderedQueue'
    BY <1>1, <2>1, Zenon DEF PathInv, OrderedQueue, IsTx
  <2>3. OrderedServer'
    BY <1>1, <2>1, Zenon DEF PathInv, OrderedServer, IsTx
  <2>4. PathInv'
    BY <1>1, <2>3, <2>6, <2>7, Zenon DEF PathInv, ServerShape, Occurs, IsTx
  <2>5. HostInv'
    BY <1>1, <2>1
    DEF HostInv, HostShape, OrderedHost, CurrentRequest, Current, Request, IsTx,
        ownVars, NoFrame
  <2>8. QED
    BY <2>2, <2>4, <2>5
<1>2. CASE DeliverRx \/ LoseRequest
  BY <1>1, <1>2 DEF DeliverRx, LoseRequest, ownVars
<1>3. CASE DeliverTx
  <2> DEFINE r == Head(up)
  <2>1. /\ r = up[1] /\ 1 \in 1..Len(up) /\ r \in Requests /\ IsTx(r)
        /\ \A i \in 1..Len(up') : up'[i] = up[i + 1] /\ i + 1 \in 1..Len(up) /\ 1 < i + 1
    <3>1. up \in Seq(Requests)
      BY DEF TypeOK, LinkType
    <3>2. QED
      BY <1>3, <3>1, TailIndex DEF DeliverTx, IsTx
  <2>2. CASE tx_queue' = tx_queue
    BY <1>1, <1>3, <2>2 DEF DeliverTx, ownVars
  <2>3. CASE tx_queue = <<>> /\ tx_queue' = <<r>>
    <3>1. /\ Len(tx_queue') = 1 /\ tx_queue'[1] = r
          /\ \A i \in 1..Len(tx_queue') : i = 1
          /\ UNCHANGED <<ownVars, tx_server, tx_request, last_completed, tx, txFrame,
                         onAir, tapVars>>
      BY <1>3, <2>3 DEF DeliverTx, ownVars
    <3>2. TapOrdered'
      BY <2>1, <3>1, Zenon DEF TapOrdered, PathBelow, AirBelow, tapVars, ownVars, NoFrame
    <3>8. OrderedUp'
      <4>1. \A i, j \in 1..Len(up') : i < j => i + 1 < j + 1
        OBVIOUS
      <4>2. QED
        BY <2>1, <4>1 DEF PathInv, OrderedUp, IsTx
    <3>9. OrderedQueue'
      BY <2>1, <3>1 DEF PathInv, OrderedUp, OrderedQueue, IsTx
    <3>10. OrderedServer'
      BY <2>1, <3>1 DEF PathInv, OrderedServer, IsTx
    <3>3. OrderedUp' /\ OrderedQueue' /\ OrderedServer'
      BY <3>8, <3>9, <3>10
    <3>5. PathInv'
      BY <2>1, <3>1, <3>3 DEF PathInv, ServerShape, Occurs, IsTx
    <3>6. HostInv'
      BY <2>1, <3>1
      DEF HostInv, HostShape, OrderedHost, CurrentRequest, Current, Request, IsTx,
          ownVars, NoFrame
    <3>7. QED
      BY <3>2, <3>5, <3>6
  <2>4. QED
    <3>1. tx_queue \in Seq(Requests) /\ Len(tx_queue) <= EndpointCap
      BY DEF TypeOK, TxType
    <3>2. Len(tx_queue) < EndpointCap => tx_queue = <<>>
      BY <3>1 DEF EndpointCap
    <3>3. Append(<<>>, r) = <<r>>
      OBVIOUS
    <3>4. QED
      BY <1>3, <2>2, <2>3, <3>2, <3>3, Zenon DEF DeliverTx
<1>4. CASE LoseResponse \/ DiscardResponse
  BY <1>4, TxUnchanged DEF LoseResponse, DiscardResponse, pathVars, ownVars
<1>5. QED
  BY <1>2, <1>3, <1>4 DEF Link

\* The steps of the endpoint servers and the radio keep the TX invariant.
LEMMA TxFirmwareStep ==
  ASSUME TypeOK, TypeOK', Control, PathInv, HostInv, TapOrdered, Firmware
  PROVE  PathInv' /\ HostInv' /\ TapOrdered'
<1> DEFINE Goal == PathInv' /\ HostInv' /\ TapOrdered'
<1> USE DEF hostVars, linkVars, txVars, portVars
\* The server takes the request from its queue.
<1>1. CASE TxReceive
  <2> DEFINE r == Head(tx_queue)
  <2>1. /\ r = tx_queue[1] /\ 1 \in 1..Len(tx_queue) /\ r \in Requests
        /\ tx_queue' = <<>> /\ Len(tx_queue') = 0 /\ 1..0 = {}
        /\ IsTx(r)
    <3>1. tx_queue \in Seq(Requests) /\ Len(tx_queue) <= 1 /\ tx_queue # <<>>
      BY <1>1 DEF TypeOK, TxType, EndpointCap, TxReceive
    <3>2. r = tx_queue[1] /\ 1 \in 1..Len(tx_queue) /\ r \in Requests
      BY <3>1, TailIndex
    <3>3. Tail(tx_queue) = <<>>
      BY <3>1
    <3>4. IsTx(r)
      BY <3>2 DEF PathInv, ServerShape
    <3>5. Len(<<>>) = 0 /\ 1..0 = {}
      OBVIOUS
    <3>6. QED
      BY <1>1, <3>2, <3>3, <3>4, <3>5, Zenon DEF TxReceive
  <2>2. /\ tx_request' = r /\ tx_server = "recv" /\ tx_server' # "recv" /\ tx = "idle"
        /\ UNCHANGED <<ownVars, up, last_completed, onAir, tapVars>>
    BY <1>1 DEF TxReceive, Submit, ownVars, PathInv, ServerShape, TypeOK, PortType
  <2>4. TapOrdered'
    BY <2>1, <2>2 DEF TapOrdered, PathBelow, AirBelow, tapVars, ownVars, NoFrame
  <2>5. OrderedUp' /\ OrderedQueue' /\ OrderedServer'
    BY <2>1, <2>2 DEF PathInv, OrderedUp, OrderedQueue, OrderedServer, IsTx
  <2>7. /\ tx_server' = "driver" <=> tx' # "idle"
        /\ tx_server' = "driver" => txFrame' = r.frame
        /\ tx' # "accepted"
    BY <1>1, <2>2 DEF TxReceive, Submit
  <2>9. ServerShape'
    BY <2>1, <2>2, <2>7 DEF ServerShape
  <2>10. PathInv'
    BY <2>5, <2>9 DEF PathInv
  <2>11. HostInv'
    BY <2>1, <2>2, Zenon
    DEF HostInv, HostShape, OrderedHost, CurrentRequest, Current, Request, IsTx,
        ownVars, NoFrame
  <2>12. QED
    BY <2>4, <2>10, <2>11
<1>2. CASE RadioAccepts
  <2>1. /\ tx' = "accepted" /\ tx_server = "driver" /\ txFrame = tx_request.frame
        /\ UNCHANGED <<ownVars, up, tx_queue, tx_server, tx_request, last_completed,
                       txFrame, tapVars>>
    BY <1>2 DEF RadioAccepts, Accept, PathInv, ServerShape, ownVars
  <2>2. \A b : AirBelow(b) /\ tx_request.frame < b => AirBelow(b)'
    BY <1>2, <2>1, AirAppend DEF AirBelow
  <2>3. TapOrdered'
    BY <2>1, <2>2 DEF TapOrdered, PathBelow, AirBelow, tapVars, ownVars, NoFrame
  <2>4. ServerShape'
    BY <1>2, <2>1, AirAppend DEF PathInv, ServerShape, Occurs
  <2>5. PathInv'
    BY <2>1, <2>4, Zenon DEF PathInv, OrderedUp, OrderedQueue, OrderedServer
  <2>6. HostInv'
    BY <2>1 DEF HostInv, HostShape, OrderedHost, CurrentRequest, Current, ownVars, NoFrame
  <2>7. QED
    BY <2>3, <2>5, <2>6
<1>3. CASE TxDriverDone
  <2>1. /\ tx' = "idle" /\ tx_server = "driver" /\ tx_server' = "respond"
        /\ UNCHANGED <<ownVars, up, tx_queue, tx_request, onAir, tapVars>>
    BY <1>3 DEF TxDriverDone, Acknowledge, ownVars
  <2>2. TapOrdered'
    BY <2>1, Zenon DEF TapOrdered, PathBelow, AirBelow, tapVars, ownVars, NoFrame
  <2>3. PathInv'
    BY <2>1, Zenon DEF PathInv, ServerShape, OrderedUp, OrderedQueue, OrderedServer
  <2>4. HostInv'
    BY <2>1, Zenon
    DEF HostInv, HostShape, OrderedHost, CurrentRequest, Current, ownVars, NoFrame
  <2>5. QED
    BY <2>2, <2>3, <2>4
<1>4. CASE TxRespond
  <2>1. /\ tx_server = "respond" /\ tx_server' = "recv" /\ tx = "idle"
        /\ tx_request'.frame = 0
        /\ UNCHANGED <<ownVars, up, tx_queue, last_completed, tx, onAir, tapVars>>
    BY <1>4, SMTT(30) DEF TxRespond, NoRequest, Request, NoFrame, ownVars, PathInv, ServerShape
  <2>2. ASSUME NEW b \in Nat, PathBelow(b) PROVE PathBelow(b)'
    <3>0. held \in Nat
      BY FrameTypes
    <3>1. tx_request'.frame < b
      BY <2>1, <2>2, <3>0 DEF PathBelow
    <3>2. QED
      BY <2>1, <2>2, <3>1, Zenon DEF PathBelow, AirBelow, ownVars
  <2>3. TapOrdered'
    <3>1. /\ tap_read + 1 \in Nat /\ tap_queue \in Nat /\ reader \in Nat
          /\ UNCHANGED <<tap_read, tap_queue, reader>>
      BY <2>1, FrameTypes DEF tapVars
    <3>2. PathBelow(tap_read + 1)'
      BY <2>2, <3>1 DEF TapOrdered, PathBelow, AirBelow
    <3>3. tap_queue # NoFrame => PathBelow(tap_queue)'
      BY <2>2, <3>1, Zenon DEF TapOrdered, PathBelow, AirBelow
    <3>4. reader # NoFrame => PathBelow(reader)'
      BY <2>2, <3>1 DEF TapOrdered, PathBelow, AirBelow
    <3>5. QED
      BY <3>1, <3>2, <3>3, <3>4 DEF TapOrdered, NoFrame
  <2>6. PathInv'
    BY <2>1, Zenon DEF PathInv, ServerShape, OrderedUp, OrderedQueue, OrderedServer
  <2>7. HostInv'
    BY <2>1, Zenon
    DEF HostInv, HostShape, OrderedHost, CurrentRequest, Current, ownVars, NoFrame
  <2>8. QED
    BY <2>3, <2>6, <2>7
<1>5. CASE RxReceive \/ RxServeCached \/ RxServeFrame \/ RxServeEmpty \/ RadioDelivers
  BY <1>5, TxUnchanged DEF RxReceive, RxServeCached, RxServeFrame, RxServeEmpty,
                           RxReply, Pull, RadioDelivers, Arrive, pathVars, ownVars
<1>6. QED
  BY <1>1, <1>2, <1>3, <1>4, <1>5 DEF Firmware

\* The parts of PathInOrder that speak of the path stay.
LEMMA OrderStep ==
  ASSUME TypeOK, TypeOK', Control, PathInv, HostInv, TapOrdered, [Next]_vars
  PROVE  PathInv' /\ HostInv' /\ TapOrdered'
<1>1. CASE UNCHANGED vars
  BY <1>1, TxUnchanged DEF vars, hostVars, linkVars, txVars, portVars, pathVars,
                           ownVars
<1>2. QED
  BY <1>1, TxHostStep, TxLinkStep, TxFirmwareStep DEF Next

-----------------------------------------------------------------------------
(* The requests that are still to reach the server, and the air.           *)

\* Requests move along the path, or the host sends its own once more.
LEMMA PendingMoves ==
  ASSUME pc' = "tx" => UNCHANGED ownVars,
         \A i \in 1..Len(up') :
           \/ up'[i] = CurrentRequest /\ CurrentRequest.ep = pc
           \/ \E j \in 1..Len(up) : up'[i] = up[j],
         \A i \in 1..Len(tx_queue') :
           \/ \E j \in 1..Len(up) : IsTx(up[j]) /\ tx_queue'[i] = up[j]
           \/ \E j \in 1..Len(tx_queue) : tx_queue'[i] = tx_queue[j]
  PROVE  Pending' \subseteq Pending
<1>0. /\ \A j \in 1..Len(up) : IsTx(up[j]) => up[j] \in Pending
      /\ \A j \in 1..Len(tx_queue) : tx_queue[j] \in Pending
      /\ pc = "tx" => CurrentRequest \in Pending
  BY Zenon DEF Pending
<1>1. pc' = "tx" => pc = "tx" /\ CurrentRequest' = CurrentRequest
  BY Zenon DEF ownVars, CurrentRequest, Current, Request
<1>2. ASSUME NEW i \in 1..Len(up'), IsTx(up'[i]) PROVE up'[i] \in Pending
  <2>1. CASE up'[i] = CurrentRequest /\ CurrentRequest.ep = pc
    <3>1. pc = "tx"
      BY <1>2, <2>1 DEF IsTx
    <3>2. QED
      BY <1>0, <2>1, <3>1, Zenon
  <2>2. CASE \E j \in 1..Len(up) : up'[i] = up[j]
    BY <1>0, <1>2, <2>2, Zenon
  <2>3. QED
    BY <2>1, <2>2, Zenon
<1>3. ASSUME NEW i \in 1..Len(tx_queue') PROVE tx_queue'[i] \in Pending
  BY <1>0, <1>3, Zenon
<1>4. pc' = "tx" => CurrentRequest' \in Pending
  BY <1>0, <1>1, Zenon
<1>5. ASSUME NEW r \in Pending'
      PROVE  \/ \E i \in 1..Len(up') : IsTx(up'[i]) /\ r = up'[i]
             \/ \E i \in 1..Len(tx_queue') : r = tx_queue'[i]
             \/ pc' = "tx" /\ r = CurrentRequest'
  BY <1>5, Zenon DEF Pending, IsTx
<1>6. QED
  BY <1>2, <1>3, <1>4, <1>5, Zenon

\* A step adds a request only when the host begins a TX transaction.
LEMMA PendingStep ==
  ASSUME TypeOK, Control, [Next]_vars
  PROVE  \/ Pending' \subseteq Pending
         \/ /\ BeginTx /\ CurrentRequest'.frame = tap_queue
            /\ Pending' \subseteq Pending \cup {CurrentRequest'}
<1> DEFINE Goal == Pending' \subseteq Pending
<1> USE DEF hostVars, linkVars, txVars
<1>0. up \in Seq(Requests) /\ tx_queue \in Seq(Requests)
  BY DEF TypeOK, LinkType, TxType
<1>1. ASSUME pc' = "tx" => UNCHANGED ownVars, UNCHANGED tx_queue,
             up' \in {up, <<>>} \/ (up # <<>> /\ up' = Tail(up))
      PROVE  Goal
  <2>1. \A i \in 1..Len(up') : \E j \in 1..Len(up) : up'[i] = up[j]
    <3>1. CASE up' = up BY <3>1
    <3>2. CASE up' = <<>> BY <3>2
    <3>3. CASE up # <<>> /\ up' = Tail(up) BY <1>0, <3>3, TailIndex
    <3>4. QED BY <1>1, <3>1, <3>2, <3>3
  <2>2. \A i \in 1..Len(tx_queue') : \E j \in 1..Len(tx_queue) : tx_queue'[i] = tx_queue[j]
    BY <1>1
  <2>3. QED BY <1>1, <2>1, <2>2, PendingMoves, Zenon
<1>2. CASE \/ TapRead \/ TapForward \/ BackupRejected \/ UNCHANGED vars
           \/ LoseResponse \/ DiscardResponse
           \/ TxDriverDone \/ TxRespond \/ RadioAccepts \/ RadioDelivers
           \/ \E s \in Sources : RequestFails(s) \/ Mismatch(s)
  <2>1. UNCHANGED <<ownVars, tx_queue, up>>
    BY <1>2, Zenon DEF TapRead, TapForward, BackupRejected, LoseResponse, DiscardResponse,
       TxDriverDone, TxRespond, RadioAccepts, RadioDelivers, RequestFails, Mismatch,
       vars, ownVars
  <2>2. QED BY <1>1, <2>1
<1>3. CASE RxReceive \/ RxServeCached \/ RxServeFrame \/ RxServeEmpty
  <2>1. UNCHANGED <<ownVars, tx_queue, up>>
    BY <1>3, Zenon DEF RxReceive, RxServeCached, RxServeFrame, RxServeEmpty, RxReply, ownVars
  <2>2. QED BY <1>1, <2>1
<1>4. CASE \/ BeginRx \/ NewSession \/ DropSession
           \/ \E s \in Sources : MatchTx(s) \/ MatchRx(s)
  <2>1. pc' # "tx" /\ UNCHANGED tx_queue /\ up' \in {up, <<>>}
    BY <1>4, Zenon DEF BeginRx, NewSession, DropSession, MatchTx, MatchRx
  <2>2. QED BY <1>1, <2>1
<1>5. CASE DeliverRx \/ LoseRequest
  BY <1>1, <1>5 DEF DeliverRx, LoseRequest, ownVars
<1>6. CASE SendPrimary \/ SendBackup
  <2>1. /\ up' = Append(up, CurrentRequest) /\ CurrentRequest \in Requests
        /\ CurrentRequest.ep = pc /\ UNCHANGED <<ownVars, tx_queue>>
    BY <1>6, CurrentTyped DEF SendPrimary, SendBackup, StallTimer, Control, ownVars,
                              CurrentRequest, Request
  <2>2. \A i \in 1..Len(up') :
          up'[i] = CurrentRequest \/ \E j \in 1..Len(up) : up'[i] = up[j]
    BY <1>0, <2>1, AppendElement
  <2>3. \A i \in 1..Len(tx_queue') : \E j \in 1..Len(tx_queue) : tx_queue'[i] = tx_queue[j]
    BY <2>1
  <2>4. QED BY <2>1, <2>2, <2>3, PendingMoves, Zenon
<1>7. CASE DeliverTx
  <2>1. /\ up # <<>> /\ IsTx(Head(up)) /\ up' = Tail(up) /\ UNCHANGED ownVars
        /\ tx_queue' \in {tx_queue, Append(tx_queue, Head(up))}
    BY <1>7 DEF DeliverTx, IsTx, ownVars
  <2>2. /\ Head(up) = up[1] /\ 1 \in 1..Len(up) /\ Head(up) \in Requests
        /\ \A i \in 1..Len(up') : \E j \in 1..Len(up) : up'[i] = up[j]
    <3>1. Head(up) \in Requests BY <1>0, <2>1, QueueTyped
    <3>2. QED BY <1>0, <2>1, <3>1, TailIndex
  <2>3. \A i \in 1..Len(tx_queue') :
          tx_queue'[i] = Head(up) \/ \E j \in 1..Len(tx_queue) : tx_queue'[i] = tx_queue[j]
    <3>1. CASE tx_queue' = tx_queue BY <3>1
    <3>2. CASE tx_queue' = Append(tx_queue, Head(up)) BY <1>0, <2>2, <3>2, AppendElement
    <3>3. QED BY <2>1, <3>1, <3>2
  <2>4. QED BY <2>1, <2>2, <2>3, PendingMoves, Zenon
<1>8. CASE TxReceive
  <2>1. /\ tx_queue # <<>> /\ tx_queue' = Tail(tx_queue) /\ UNCHANGED <<ownVars, up>>
    BY <1>8 DEF TxReceive, ownVars
  <2>2. \A i \in 1..Len(tx_queue') : \E j \in 1..Len(tx_queue) : tx_queue'[i] = tx_queue[j]
    BY <1>0, <2>1, TailIndex
  <2>3. \A i \in 1..Len(up') : \E j \in 1..Len(up) : up'[i] = up[j]
    BY <2>1
  <2>4. QED BY <2>1, <2>2, <2>3, PendingMoves, Zenon
<1>9. CASE BeginTx
  <2>1. UNCHANGED <<up, tx_queue>> /\ pc' = "tx" /\ held' = tap_queue
    BY <1>9 DEF BeginTx
  <2>2. CurrentRequest'.frame = tap_queue
    BY <2>1 DEF CurrentRequest, Request
  <2>3. Pending' \subseteq Pending \cup {CurrentRequest'}
    BY <2>1 DEF Pending, IsTx
  <2>4. QED BY <1>9, <2>2, <2>3
<1>10. QED
  BY <1>2, <1>3, <1>4, <1>5, <1>6, <1>7, <1>8, <1>9
  DEF Next, Host, Link, Firmware, RecoverSession, StopSession

\* The requests still to reach the server come after the one it handles.
LEMMA PendingBehindServer ==
  ASSUME PathInv, HostInv, tx_server # "recv", NEW r \in Pending
  PROVE  Before(tx_request, r)
BY DEF PathInv, HostInv, OrderedServer, OrderedHost, Pending

\* Frame numbers of pending requests are numbers.
LEMMA PendingTypes ==
  ASSUME TypeOK
  PROVE  /\ \A r \in Pending : r.frame \in Nat
         /\ tx_request.frame \in Nat /\ \A i \in 1..Len(onAir) : onAir[i] \in Nat
<1>1. CurrentRequest.frame = held
  BY DEF CurrentRequest, Request
<1>2. QED
  BY <1>1, FrameTypes DEF Pending

\* What the server handles, and what it remembers, changes by its own steps.
LEMMA ServerMoves ==
  ASSUME [Next]_vars
  PROVE  \/ TxReceive \/ TxDriverDone \/ TxRespond \/ RadioAccepts
         \/ UNCHANGED <<tx_server, tx_request, last_completed, tx, txFrame, onAir>>
BY Zenon DEF Next, Host, Link, Firmware, vars, txVars, portVars, TapRead, TapForward,
   BeginTx, BeginRx, SendPrimary, SendBackup, BackupRejected, RequestFails, MatchTx,
   MatchRx, Mismatch, RecoverSession, StopSession, DropSession, NewSession, DeliverTx,
   DeliverRx, LoseRequest, LoseResponse, DiscardResponse, RxReceive, RxServeCached,
   RxServeFrame, RxServeEmpty, RxReply, Pull, RadioDelivers, Arrive

\* The request at the head of the endpoint queue is pending.
LEMMA TxReceiveTakes ==
  ASSUME TypeOK, PathInv, TxReceive
  PROVE  /\ Head(tx_queue) \in Pending /\ tx_request' = Head(tx_queue)
         /\ tx = "idle" /\ UNCHANGED <<last_completed, onAir>> /\ tx' # "accepted"
         /\ tx' = "submitted" => Head(tx_queue).transaction # last_completed
<1>1. tx_queue \in Seq(Requests) /\ tx_queue # <<>>
  BY DEF TypeOK, TxType, TxReceive
<1>2. Head(tx_queue) = tx_queue[1] /\ 1 \in 1..Len(tx_queue)
  BY <1>1, TailIndex
<1>3. Head(tx_queue) \in Pending
  BY <1>2 DEF Pending
<1>4. tx_server = "recv" /\ tx = "idle"
  BY DEF TxReceive, PathInv, ServerShape, TypeOK, PortType
<1>5. QED
  BY <1>3, <1>4 DEF TxReceive, Submit, portVars

\* Nothing pending, and nothing the server takes up, falls behind the air.
LEMMA AirStep ==
  ASSUME TypeOK, Control, PathInv, HostInv, TapOrdered, AirFirst, [Next]_vars
  PROVE  AirFirst'
<1>1. CASE RadioAccepts
  <2>1. /\ tx_server = "driver" /\ txFrame = tx_request.frame
        /\ UNCHANGED <<tx_server, tx_request>>
    BY <1>1, AirAppend DEF RadioAccepts, txVars, PathInv, ServerShape
  <2>2. Pending' \subseteq Pending
    BY <1>1, PendingStep DEF RadioAccepts, Accept, BeginTx, portVars
  <2>3. \A i \in 1..Len(onAir') :
          onAir'[i] = tx_request.frame \/ \E j \in 1..Len(onAir) : onAir'[i] = onAir[j]
    BY <1>1, <2>1, AirAppend
  <2>4. ASSUME NEW r \in Pending PROVE NotBehind(r)'
    <3>1. tx_request.frame <= r.frame
      BY <2>1, PendingBehindServer DEF Before
    <3>2. QED
      BY <2>3, <3>1 DEF AirFirst, NotBehind
  <2>5. NotBehind(tx_request)'
    BY <2>1, <2>3, PendingTypes DEF AirFirst, NotBehind
  <2>6. ASSUME NEW i \in 1..Len(onAir'), NEW j \in 1..Len(onAir'), i < j
        PROVE  onAir'[i] <= onAir'[j]
    <3>1. i \in 1..Len(onAir) /\ onAir'[i] = onAir[i]
      BY <1>1, <2>6, AirAppend
    <3>2. CASE j \in 1..Len(onAir)
      BY <1>1, <2>6, <3>1, <3>2, AirAppend DEF AirFirst
    <3>3. CASE j = Len(onAir) + 1
      BY <1>1, <2>1, <3>1, <3>3, AirAppend DEF AirFirst, NotBehind
    <3>4. QED
      BY <1>1, <3>2, <3>3, AirAppend
  <2>7. QED
    BY <2>1, <2>2, <2>4, <2>5, <2>6 DEF AirFirst
<1>2. CASE UNCHANGED onAir
  <2>1. \A r : NotBehind(r) => NotBehind(r)'
    BY <1>2 DEF NotBehind
  <2>2. ASSUME NEW r \in Pending' PROVE NotBehind(r)'
    <3>1. CASE r \in Pending
      BY <2>1, <3>1 DEF AirFirst
    <3>2. CASE BeginTx /\ r = CurrentRequest' /\ r.frame = tap_queue
      <4>1. AirBelow(tap_queue) /\ tap_queue \in Nat
        BY <3>2, FrameTypes DEF BeginTx, TapOrdered, PathBelow
      <4>2. QED
        BY <1>2, <3>2, <4>1, PendingTypes DEF AirBelow, NotBehind
    <3>3. QED
      BY <3>1, <3>2, PendingStep
  <2>3. tx_server' # "recv" => NotBehind(tx_request)'
    <3>1. CASE TxReceive
      <4>1. tx_request' \in Pending
        BY <3>1, TxReceiveTakes
      <4>2. QED
        BY <1>2, <4>1 DEF AirFirst, NotBehind
    <3>2. CASE TxDriverDone
      BY <1>2, <3>2 DEF TxDriverDone, AirFirst, NotBehind
    <3>3. CASE TxRespond
      BY <3>3 DEF TxRespond
    <3>4. CASE UNCHANGED <<tx_server, tx_request>>
      BY <1>2, <3>4 DEF AirFirst, NotBehind
    <3>5. CASE RadioAccepts
      BY <1>2, <3>5 DEF RadioAccepts, txVars, AirFirst, NotBehind
    <3>6. QED
      BY <3>1, <3>2, <3>3, <3>4, <3>5, ServerMoves
  <2>4. QED
    BY <1>2, <2>2, <2>3 DEF AirFirst
<1>3. QED
  BY <1>1, <1>2, ServerMoves, TxReceiveTakes DEF TxDriverDone, Acknowledge, TxRespond, portVars

\* Every step of the host, the link and the firmware keeps PathInOrder.
LEMMA PathStep == TypeInv /\ TypeInv' /\ PathInOrder /\ [Next]_vars => PathInOrder'
<1> SUFFICES ASSUME TypeOK, TypeOK', Control, PathInv, HostInv, TapOrdered, AirFirst,
                    [Next]_vars
             PROVE  PathInv' /\ HostInv' /\ TapOrdered' /\ AirFirst'
  BY DEF TypeInv, PathInOrder, PathInv, HostInv
<1>1. QED
  BY OrderStep, AirStep

-----------------------------------------------------------------------------
(* Copies of a frame on the air are recognised.                            *)

\* Once the driver has accepted a frame, its copies are known, even if the
\* frame was on the air before.
LEMMA AcceptedIsKnown ==
  ASSUME TypeOK, Control, PathInv, HostInv, AirFirst, RadioAccepts
  PROVE  CopiesKnown'
<1>1. /\ tx_server = "driver" /\ txFrame = tx_request.frame /\ tx' = "accepted"
      /\ UNCHANGED tx_request
  BY AirAppend DEF RadioAccepts, Accept, txVars, PathInv, ServerShape
<1>2. Pending' \subseteq Pending
  <2>1. [Next]_vars
    BY DEF Next, Firmware
  <2>2. QED
    BY <2>1, PendingStep DEF RadioAccepts, Accept, BeginTx, portVars
<1>3. ASSUME NEW r \in Pending, NEW i \in 1..Len(onAir'), onAir'[i] = r.frame
      PROVE  tx_request.frame = r.frame
  <2>1. tx_request.frame <= r.frame
    BY <1>1, PendingBehindServer DEF Before
  <2>2. onAir'[i] <= tx_request.frame
    BY <1>1, AirAppend, PendingTypes DEF AirFirst, NotBehind
  <2>3. QED
    BY <1>3, <2>1, <2>2, PendingTypes
<1>4. QED
  BY <1>1, <1>2, <1>3 DEF CopiesKnown, Known

\* A step keeps copies known: last_completed is replaced by the transaction of
\* a frame only when nothing older is pending.
LEMMA KnownStep ==
  ASSUME TypeOK, Control, PathInv, HostInv, TapOrdered, AirFirst, CopiesKnown, [Next]_vars
  PROVE  CopiesKnown'
<1>1. CASE RadioAccepts
  BY <1>1, AcceptedIsKnown
<1>2. CASE TxReceive
  <2>1. Pending' \subseteq Pending
    BY <1>2, PendingStep DEF TxReceive, BeginTx, txVars
  <2>2. \A r \in Pending : Known(r)'
    BY <1>2, TxReceiveTakes DEF CopiesKnown, Known
  <2>3. ASSUME tx' = "submitted", NEW i \in 1..Len(onAir) PROVE onAir[i] < tx_request'.frame
    <3>1. onAir[i] <= tx_request'.frame /\ onAir[i] # tx_request'.frame
      BY <1>2, <2>3, TxReceiveTakes DEF CopiesKnown, Known, AirFirst, NotBehind
    <3>2. tx_request'.frame \in Nat
      BY <1>2, TxReceiveTakes, PendingTypes
    <3>3. QED
      BY <3>1, <3>2, PendingTypes
  <2>4. QED
    BY <1>2, <2>1, <2>2, <2>3, TxReceiveTakes DEF CopiesKnown, AirBelow
<1>3. CASE TxDriverDone
  <2>1. /\ tx_server = "driver" /\ tx' = "idle" /\ UNCHANGED onAir
        /\ last_completed' = tx_request.transaction
    BY <1>3 DEF TxDriverDone, Acknowledge
  <2>2. Pending' \subseteq Pending
    BY <1>3, PendingStep DEF TxDriverDone, BeginTx, txVars
  <2>3. ASSUME NEW r \in Pending, NEW i \in 1..Len(onAir), onAir[i] = r.frame
        PROVE  r.transaction = tx_request.transaction
    <3>1. /\ tx_request.frame <= r.frame
          /\ tx_request.frame = r.frame => tx_request.transaction = r.transaction
      BY <2>1, PendingBehindServer DEF Before
    <3>2. onAir[i] <= tx_request.frame
      BY <2>1 DEF AirFirst, NotBehind
    <3>3. QED
      BY <2>3, <3>1, <3>2, PendingTypes
  <2>4. QED
    BY <2>1, <2>2, <2>3 DEF CopiesKnown, Known
<1>4. CASE TxRespond
  <2>1. tx = "idle" /\ UNCHANGED <<tx, onAir, last_completed>>
    BY <1>4 DEF TxRespond, portVars, PathInv, ServerShape
  <2>2. Pending' \subseteq Pending
    BY <1>4, PendingStep DEF TxRespond, BeginTx, txVars
  <2>3. QED
    BY <2>1, <2>2 DEF CopiesKnown, Known
<1>5. CASE UNCHANGED <<tx_server, tx_request, last_completed, tx, txFrame, onAir>>
  <2>1. ASSUME NEW r \in Pending' PROVE Known(r)'
    <3>1. CASE r \in Pending
      BY <1>5, <3>1 DEF CopiesKnown, Known
    <3>2. CASE BeginTx /\ r = CurrentRequest' /\ r.frame = tap_queue
      <4>1. AirBelow(tap_queue) /\ tap_queue \in Nat
        BY <3>2, FrameTypes DEF BeginTx, TapOrdered, PathBelow
      <4>2. QED
        BY <1>5, <3>2, <4>1, PendingTypes DEF AirBelow, Known
    <3>3. QED
      BY <3>1, <3>2, PendingStep
  <2>2. QED
    BY <1>5, <2>1 DEF CopiesKnown, AirBelow
<1>6. QED
  BY <1>1, <1>2, <1>3, <1>4, <1>5, ServerMoves

\* What goes on the air is newer than all that is there.
LEMMA AirGrows ==
  ASSUME TypeOK, PathInv, CopiesKnown, TxOnceInOrder, [Next]_vars
  PROVE  TxOnceInOrder'
<1>1. CASE RadioAccepts
  <2>1. AirBelow(txFrame)
    BY <1>1, AirAppend DEF CopiesKnown, PathInv, ServerShape
  <2>2. ASSUME NEW i \in 1..Len(onAir'), NEW j \in 1..Len(onAir'), i < j
        PROVE  onAir'[i] < onAir'[j]
    <3>1. i \in 1..Len(onAir) /\ onAir'[i] = onAir[i]
      BY <1>1, <2>2, AirAppend
    <3>2. CASE j \in 1..Len(onAir)
      BY <1>1, <2>2, <3>1, <3>2, AirAppend DEF TxOnceInOrder, Ascending
    <3>3. CASE j = Len(onAir) + 1
      BY <1>1, <2>1, <3>1, <3>3, AirAppend DEF AirBelow
    <3>4. QED
      BY <1>1, <3>2, <3>3, AirAppend
  <2>3. QED
    BY <2>2 DEF TxOnceInOrder, Ascending
<1>2. CASE UNCHANGED onAir
  BY <1>2 DEF TxOnceInOrder, Ascending
<1>3. QED
  BY <1>1, <1>2, ServerMoves, TxReceiveTakes DEF TxDriverDone, Acknowledge, TxRespond, portVars

\* Every step of the host, the link and the firmware keeps TxInv.
LEMMA TxStep == TypeInv /\ TypeInv' /\ TxInv /\ [Next]_vars => TxInv'
<1> SUFFICES ASSUME TypeInv, TypeInv', PathInOrder, CopiesKnown, TxOnceInOrder, [Next]_vars
             PROVE  PathInOrder' /\ CopiesKnown' /\ TxOnceInOrder'
  BY DEF TxInv
<1>1. TypeOK /\ Control /\ PathInv /\ HostInv /\ TapOrdered /\ AirFirst
  BY DEF TypeInv, PathInOrder, PathInv, HostInv
<1>2. QED
  BY <1>1, PathStep, KnownStep, AirGrows

\* Copies of a request reach wifi_tx_server in the order of their frames, and
\* a copy of a frame that was transmitted equals last_completed when it does.
THEOREM CopiesAreRecognised == Spec => []TxInv
BY TypeInit, TypeStep, TxInit, TxStep, PTL DEF Spec

\* Whatever is lost, repeated or delayed, and however often the host renews its
\* session, the radio driver gets a host frame at most once and the frames in
\* the order the TAP reader read them: the FIFO path and the comparison with
\* last_completed suffice.
THEOREM TransmittedOnceInOrder == Spec => []TxOnceInOrder
<1>1. TxInv => TxOnceInOrder
  BY DEF TxInv
<1>2. QED
  BY <1>1, CopiesAreRecognised, PTL
=============================================================================
