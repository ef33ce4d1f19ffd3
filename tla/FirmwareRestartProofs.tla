------------------------ MODULE FirmwareRestartProofs -----------------------
(***************************************************************************)
(* What a restart of the firmware may cost, for any number of restarts,    *)
(* frames, faults and sessions.                                            *)
(*                                                                         *)
(* A restart empties the queues of the firmware and makes it forget        *)
(* last_completed and cached_response.  The order of what is under way     *)
(* (PathInOrder, RxInv) and the truth of what is reported (AckInv) do not  *)
(* depend on these.  CopiesKnown does: it may fail after a restart, and    *)
(* then holds again as soon as the driver accepts a frame.  So a restart   *)
(* gives credit for one repetition, which that frame uses up if it was on  *)
(* the air before.                                                         *)
(***************************************************************************)
EXTENDS FirmwareRestart, WifiExchangeAck, WifiExchangeRx, FiniteSetTheorems

AirSet == {onAir[i] : i \in 1..Len(onAir)}

\* Repetitions so far, and one that may be about to happen, are paid for.
RepeatsPaid ==
  Len(onAir) + (IF CopiesKnown THEN 0 ELSE 1) <= restarts + Cardinality(AirSet)

RestartInv ==
  /\ TypeInv /\ PathInOrder /\ AckInv /\ RxInv
  /\ restarts \in Nat
  /\ RepeatsPaid

-----------------------------------------------------------------------------
(* The restart.                                                            *)

\* The elements of a sequence over S are in S.
LEMMA ElementTypes ==
  ASSUME NEW S, NEW q \in Seq(S)
  PROVE  \A i \in 1..Len(q) : q[i] \in S
OBVIOUS

\* What is left of a queue that loses its end, or its beginning.
LEMMA QueueParts ==
  ASSUME NEW S, NEW q \in Seq(S), NEW k \in 0..Len(q)
  PROVE  /\ SubSeq(q, 1, k) \in Seq(S)
         /\ Len(SubSeq(q, 1, k)) = k
         /\ \A i \in 1..k : SubSeq(q, 1, k)[i] = q[i]
         /\ SubSeq(q, k + 1, Len(q)) \in Seq(S)
         /\ Len(SubSeq(q, k + 1, Len(q))) = Len(q) - k
         /\ \A i \in 1..(Len(q) - k) : SubSeq(q, k + 1, Len(q))[i] = q[i + k]
<1>1. SubSeq(q, 1, k) \in Seq(S) /\ Len(SubSeq(q, 1, k)) = k
  OBVIOUS
<1>2. \A i \in 1..k : SubSeq(q, 1, k)[i] = q[i]
  OBVIOUS
<1>3. SubSeq(q, k + 1, Len(q)) \in Seq(S)
  OBVIOUS
<1>4. Len(SubSeq(q, k + 1, Len(q))) = Len(q) - k
  OBVIOUS
<1>5. \A i \in 1..(Len(q) - k) : SubSeq(q, k + 1, Len(q))[i] = q[i + k]
  OBVIOUS
<1>6. QED
  BY <1>1, <1>2, <1>3, <1>4, <1>5

\* A restart cuts off the end of the responses and the beginning of the
\* requests under way.
LEMMA RestartLink ==
  ASSUME TypeOK, Restart
  PROVE  /\ up' \in Seq(Requests) /\ Len(up') <= UpCap
         /\ \E k \in Nat : \A i \in 1..Len(up') : up'[i] = up[i + k] /\ i + k \in 1..Len(up)
         /\ down' \in Seq(Responses) /\ Len(down') <= DownCap
         /\ \A i \in 1..Len(down') : down'[i] = down[i] /\ i \in 1..Len(down)
<1>1. /\ up \in Seq(Requests) /\ down \in Seq(Responses)
      /\ Len(up) <= UpCap /\ Len(down) <= DownCap /\ UpCap \in Nat /\ DownCap \in Nat
  BY CapsAssumption DEF TypeOK, LinkType
<1>2. PICK k \in 0..Len(up) : up' = SubSeq(up, k + 1, Len(up))
  BY Zenon DEF Restart
<1>3. up' \in Seq(Requests) /\ Len(up') = Len(up) - k
      /\ \A i \in 1..(Len(up) - k) : up'[i] = up[i + k]
  BY <1>1, <1>2, QueueParts
<1>4. \A i \in 1..Len(up') : up'[i] = up[i + k] /\ i + k \in 1..Len(up)
  BY <1>1, <1>3
<1>5. PICK n \in 0..Len(down) : down' = SubSeq(down, 1, n)
  BY DEF Restart
<1>6. down' \in Seq(Responses) /\ Len(down') = n /\ \A i \in 1..n : down'[i] = down[i]
  BY <1>1, <1>5, QueueParts
<1>7. k \in Nat /\ Len(up) - k <= UpCap /\ n <= DownCap /\ \A i \in 1..n : i \in 1..Len(down)
  BY <1>1
<1>8. QED
  BY <1>3, <1>4, <1>6, <1>7, Zenon

\* What a restart leaves alone, and the initial values it restores.
LEMMA RestartValues ==
  ASSUME Restart
  PROVE  /\ UNCHANGED <<hostVars, tapVars, histVars, faults, pulled, onAir, received>>
         /\ tx_queue' = <<>> /\ tx_server' = "recv" /\ tx_request' = NoRequest
         /\ last_completed' = NoTransaction /\ rx_queue' = <<>> /\ rx_server' = "recv"
         /\ rx_request' = NoTransaction /\ cached_response' = Response("rx", NoTransaction, NoFrame)
         /\ tx' = "idle" /\ txFrame' = NoFrame /\ backlog' = <<>>
         /\ Len(tx_queue') = 0 /\ Len(rx_queue') = 0 /\ Len(backlog') = 0 /\ 1..0 = {}
         /\ tx_request'.frame = 0 /\ NoTransaction.session = 0
BY DEF Restart, NoRequest, Request, NoFrame, NoTransaction

\* Types and capacities survive a restart.
LEMMA RestartTypes ==
  ASSUME TypeInv, Restart
  PROVE  TypeInv'
<1> USE RestartValues DEF TypeInv, TypeOK
<1>1. NoTransaction \in Transaction
  BY IdModAssumption, BoundsAssumption DEF NoTransaction, Transaction
<1>2. /\ NoRequest \in Requests
      /\ Response("rx", NoTransaction, NoFrame) \in Responses
      /\ Response("rx", NoTransaction, NoFrame).ep = "rx"
  BY <1>1, BoundsAssumption DEF NoRequest, Request, Requests, Response, Responses, NoFrame
<1>3. HostType' /\ TapType' /\ HistType' /\ Control'
  BY DEF hostVars, tapVars, histVars, HostType, TapType, HistType, Control
<1>4. LinkType'
  BY RestartLink DEF LinkType
<1>5. TxType' /\ RxType'
  BY <1>1, <1>2 DEF TxType, RxType, EndpointCap
<1>6. PortType'
  BY BoundsAssumption, BacklogAssumption DEF PortType, NoFrame
<1>7. QED
  BY <1>3, <1>4, <1>5, <1>6

\* A request that survives a restart was under way before.
LEMMA RestartPending ==
  ASSUME TypeOK, Restart
  PROVE  Pending' \subseteq Pending
<1>1. \A i \in 1..Len(up') : \E j \in 1..Len(up) : up'[i] = up[j]
  BY RestartLink
<1>2. UNCHANGED ownVars /\ 1..Len(tx_queue') = {}
  BY RestartValues DEF hostVars, ownVars
<1>3. QED
  BY <1>1, <1>2, PendingMoves, Zenon

\* The order of the frames survives a restart.
LEMMA RestartPath ==
  ASSUME TypeInv, PathInOrder, Restart
  PROVE  PathInOrder'
<1> USE RestartValues DEF TypeInv, PathInOrder
<1>1. PICK k \in Nat : \A i \in 1..Len(up') : up'[i] = up[i + k] /\ i + k \in 1..Len(up)
  BY RestartLink
<1>2. HostShape' /\ ServerShape' /\ OrderedQueue' /\ OrderedServer'
  BY DEF hostVars, HostShape, ServerShape, OrderedQueue, OrderedServer, NoFrame
<1>3. OrderedUp'
  <2>1. \A i, j \in 1..Len(up') : i < j => i + k < j + k
    OBVIOUS
  <2>2. QED
    BY <1>1, <2>1 DEF OrderedUp, IsTx
<1>4. OrderedHost'
  <2>1. CurrentRequest' = CurrentRequest /\ pc' = pc
    BY DEF hostVars, CurrentRequest, Current, Request
  <2>2. QED
    BY <1>1, <2>1 DEF OrderedHost, IsTx
<1>5. TapOrdered'
  <2>1. ASSUME NEW b \in Nat, PathBelow(b) PROVE PathBelow(b)'
    <3>1. held' < b /\ \A i \in 1..Len(up') : up'[i].frame < b
      BY <1>1, <2>1 DEF PathBelow, hostVars
    <3>2. tx_request'.frame < b
      BY <2>1, FrameTypes DEF PathBelow
    <3>3. QED
      BY <2>1, <3>1, <3>2 DEF PathBelow, AirBelow
  <2>2. tap_read + 1 \in Nat /\ tap_queue \in Nat /\ reader \in Nat
        /\ UNCHANGED <<tap_read, tap_queue, reader>>
    BY FrameTypes DEF tapVars
  <2>3. PathBelow(tap_read + 1)'
    BY <2>1, <2>2 DEF TapOrdered, PathBelow, AirBelow
  <2>4. tap_queue # NoFrame => PathBelow(tap_queue)'
    BY <2>1, <2>2, Zenon DEF TapOrdered, PathBelow, AirBelow
  <2>5. reader # NoFrame => PathBelow(reader)'
    BY <2>1, <2>2, Zenon DEF TapOrdered, PathBelow, AirBelow
  <2>6. QED
    BY <2>2, <2>3, <2>4, <2>5 DEF TapOrdered, NoFrame
<1>6. AirFirst'
  BY RestartPending DEF AirFirst, NotBehind
<1>7. QED
  BY <1>2, <1>3, <1>4, <1>5, <1>6

\* What reports a transaction as done stays true: nothing new reports one.
LEMMA RestartAck ==
  ASSUME TypeInv, AckInv, Restart
  PROVE  AckInv'
<1> USE RestartValues DEF TypeInv
<1> SUFFICES ASSUME AckBody PROVE AckBody'
  BY DEF AckInv, AckBody, hostVars
<1>1. /\ UNCHANGED <<pc, held, session, next_id, acked>> /\ Current' = Current
      /\ session \in Nat \ {0} /\ Current # NoTransaction
  <2>1. UNCHANGED <<pc, held, session, next_id, acked>> /\ Current' = Current
    BY DEF hostVars, histVars, Current
  <2>2. session \in Nat \ {0} /\ Current.session = session
    BY DEF TypeOK, HostType, Current
  <2>3. QED
    BY <2>1, <2>2
<1>2. \A r \in Copies' : r \in Copies
  <2>1. \A i \in 1..Len(up') : \E j \in 1..Len(up) : up'[i] = up[j]
    BY RestartLink
  <2>2. QED
    BY <2>1 DEF Copies, IsTx
<1>3. \A t \in Answers' : t \in Answers
  BY RestartLink DEF Answers
<1>4. UsedOnly'
  BY <1>1, <1>2, <1>3 DEF AckBody, UsedOnly, Used
<1>5. InProgress'
  BY <1>1, <1>2, <1>3 DEF AckBody, InProgress, CopiesAgree, Reported, Occurs
<1>6. AckedIsOnAir'
  BY <1>1 DEF AckBody, AckedIsOnAir, Occurs
<1>7. QED
  BY <1>4, <1>5, <1>6 DEF AckBody

\* The order of the polls and of the received frames survives a restart.
LEMMA RestartRx ==
  ASSUME TypeInv, RxInv, Restart
  PROVE  RxInv'
<1> USE RestartValues DEF TypeInv, RxInv
<1>1. PICK k \in Nat : \A i \in 1..Len(up') : up'[i] = up[i + k] /\ i + k \in 1..Len(up)
  BY RestartLink
<1>2. \A i \in 1..Len(down') : down'[i] = down[i] /\ i \in 1..Len(down)
  BY RestartLink
<1>3. /\ UNCHANGED <<pc, session, next_id, to_tap, received>> /\ Current' = Current
      /\ session \in Nat \ {0} /\ Current.session = session
      /\ cached_response'.transaction = NoTransaction /\ cached_response'.frame = 0
  <2>1. UNCHANGED <<pc, session, next_id, to_tap, received>> /\ Current' = Current
    BY DEF hostVars, histVars, Current
  <2>2. session \in Nat \ {0} /\ Current.session = session
    BY DEF TypeOK, HostType, Current
  <2>3. QED
    BY <2>1, <2>2 DEF Response, NoFrame
<1>4. RxIn(up') \subseteq RxIn(up) /\ RxIn(down') \subseteq RxIn(down)
  BY <1>1, <1>2 DEF RxIn
<1>5. Queued' = {} /\ Served' = {}
  BY DEF Queued, Served
<1>6. PollsOld'
  <2>1. Polls' \subseteq Polls \cup {NoTransaction}
    BY <1>3, <1>4, <1>5 DEF Polls
  <2>2. \A t \in Polls : PollOld(t)'
    BY <1>3 DEF PollsOld, PollOld
  <2>3. PollOld(NoTransaction)'
    BY <1>3 DEF PollOld
  <2>4. QED
    BY <2>1, <2>2, <2>3 DEF PollsOld
<1>7. PollsInOrder'
  <2> SUFFICES ASSUME pc = "rx"
               PROVE  /\ InOrder(up', Current) /\ InOrder(down', Current)
                      /\ Current \in RxIn(down') => RxIn(up') \subseteq {Current}
                      /\ Current # NoTransaction
    BY <1>3, <1>5 DEF PollsInOrder
  <2>1. InOrder(up', Current)
    <3> SUFFICES ASSUME NEW i \in 1..Len(up'), NEW j \in 1..Len(up'), i < j,
                        IsRx(up'[i]), IsRx(up'[j]), up'[i].transaction = Current
                 PROVE  up'[j].transaction = Current
      BY DEF InOrder
    <3>1. i + k < j + k
      OBVIOUS
    <3>2. InOrder(up, Current)
      BY DEF PollsInOrder
    <3>3. QED
      BY <1>1, <3>1, <3>2, Zenon DEF InOrder
  <2>2. InOrder(down', Current)
    BY <1>2 DEF PollsInOrder, InOrder
  <2>3. Current \in RxIn(down') => RxIn(up') \subseteq {Current}
    BY <1>4 DEF PollsInOrder
  <2>4. QED
    BY <1>3, <2>1, <2>2, <2>3
<1>8. AnswersNew'
  BY <1>2, <1>3 DEF AnswersNew, TapBelow, NoFrame
<1>9. BacklogNew'
  <2>1. 0 < received + 1
    BY RxFrameTypes
  <2>2. AnswersBelow(received + 1)'
    BY <1>2, <1>3, <2>1 DEF BacklogNew, AnswersBelow, TapBelow
  <2>3. QED
    BY <2>2 DEF BacklogNew, Ascending
<1>10. RxOnceInOrder'
  BY <1>3 DEF RxOnceInOrder, Ascending
<1>11. QED
  BY <1>6, <1>7, <1>8, <1>9, <1>10

-----------------------------------------------------------------------------
(* Repetitions are paid for.                                               *)

\* The air holds finitely many frames.
LEMMA AirFinite ==
  ASSUME TypeOK
  PROVE  IsFiniteSet(AirSet) /\ Cardinality(AirSet) \in Nat /\ Len(onAir) \in Nat
<1>1. AirSet \subseteq 0..MaxTap /\ Len(onAir) \in Nat
  <2>1. onAir \in Seq(0..MaxTap)
    BY DEF TypeOK, PortType
  <2>2. \A i \in 1..Len(onAir) : onAir[i] \in 0..MaxTap
    BY <2>1, ElementTypes, Zenon
  <2>3. QED
    BY <2>1, <2>2 DEF AirSet
<1>2. IsFiniteSet(0..MaxTap)
  <2>1. 0 \in Int /\ MaxTap \in Int
    BY BoundsAssumption
  <2>2. QED
    BY <2>1, FS_Interval
<1>3. IsFiniteSet(AirSet)
  BY <1>1, <1>2, FS_Subset, Zenon
<1>4. QED
  BY <1>1, <1>3, FS_CardinalityType

\* The credit of a restart is used up by the first frame accepted after it.
LEMMA CreditStep ==
  ASSUME TypeOK, Control, PathInv, HostInv, TapOrdered, AirFirst, RepeatsPaid,
         restarts \in Nat, [Next]_vars, UNCHANGED restarts
  PROVE  RepeatsPaid'
<1>1. IsFiniteSet(AirSet) /\ Cardinality(AirSet) \in Nat /\ Len(onAir) \in Nat
  BY AirFinite
<1>2. CASE UNCHANGED onAir
  <2>1. AirSet' = AirSet
    BY <1>2 DEF AirSet
  <2>2. CopiesKnown => CopiesKnown'
    BY KnownStep
  <2>3. QED
    BY <1>1, <1>2, <2>1, <2>2 DEF RepeatsPaid
<1>3. CASE RadioAccepts
  <2>1. CopiesKnown'
    BY <1>3, AcceptedIsKnown
  <2>2. AirSet' = AirSet \cup {txFrame} /\ Len(onAir') = Len(onAir) + 1
    <3>1. \A x : x \in AirSet' <=> x \in AirSet \/ x = txFrame
      BY <1>3, AirAppend DEF AirSet
    <3>2. QED
      BY <1>3, <3>1, AirAppend
  <2>3. Cardinality(AirSet') = IF txFrame \in AirSet THEN Cardinality(AirSet)
                               ELSE Cardinality(AirSet) + 1
    BY <1>1, <2>2, FS_AddElement
  <2>4. CASE CopiesKnown
    <3>1. AirBelow(txFrame)
      BY <1>3, <2>4, AirAppend DEF CopiesKnown, PathInv, ServerShape
    <3>2. txFrame \notin AirSet
      <4>1. \A i \in 1..Len(onAir) : onAir[i] \in Nat
        BY FrameTypes
      <4>2. \A i \in 1..Len(onAir) : onAir[i] # txFrame
        BY <3>1, <4>1 DEF AirBelow
      <4>3. QED
        BY <4>2 DEF AirSet
    <3>3. QED
      BY <1>1, <2>1, <2>2, <2>3, <2>4, <3>2 DEF RepeatsPaid
  <2>5. CASE ~CopiesKnown
    BY <1>1, <2>1, <2>2, <2>3, <2>5 DEF RepeatsPaid
  <2>6. QED
    BY <2>4, <2>5
<1>4. QED
  BY <1>2, <1>3, ServerMoves, TxReceiveTakes DEF TxDriverDone, Acknowledge, TxRespond, portVars

\* A restart pays for one repetition.
LEMMA RestartPays ==
  ASSUME TypeOK, RepeatsPaid, restarts \in Nat, Restart
  PROVE  RepeatsPaid' /\ restarts' \in Nat
<1>1. Cardinality(AirSet) \in Nat /\ Len(onAir) \in Nat
  BY AirFinite
<1>2. AirSet' = AirSet /\ onAir' = onAir /\ restarts' = restarts + 1
  BY DEF Restart, AirSet
<1>3. QED
  BY <1>1, <1>2 DEF RepeatsPaid

\* Every step, restarts included, keeps the invariant.
LEMMA RestartInvStep == RestartInv /\ [RNext]_rvars => RestartInv'
<1> SUFFICES ASSUME RestartInv, [RNext]_rvars PROVE RestartInv'
  OBVIOUS
<1>1. TypeOK /\ Control /\ PathInv /\ HostInv /\ TapOrdered /\ AirFirst
  BY DEF RestartInv, TypeInv, PathInOrder, PathInv, HostInv
<1>2. CASE Restart
  BY <1>1, <1>2, RestartTypes, RestartPath, RestartAck, RestartRx, RestartPays DEF RestartInv
<1>3. CASE [Next]_vars /\ UNCHANGED restarts
  <2>1. TypeInv'
    BY <1>3, TypeStep DEF RestartInv
  <2>2. PathInOrder' /\ AckInv' /\ RxInv'
    BY <1>3, <2>1, PathStep, AckInvStep, RxStep DEF RestartInv
  <2>3. RepeatsPaid'
    BY <1>1, <1>3, CreditStep DEF RestartInv
  <2>4. QED
    BY <1>3, <2>1, <2>2, <2>3 DEF RestartInv
<1>4. QED
  BY <1>2, <1>3 DEF RNext, Continue, rvars

\* Nothing is on the air at first.
LEMMA RestartInvInit == RInit => RestartInv
<1> SUFFICES ASSUME Init, restarts = 0 PROVE RestartInv
  BY DEF RInit
<1>1. TypeInv /\ TxInv /\ AckInv /\ RxInv
  BY TypeInit, TxInit, AckInit, RxInit DEF AckInv, AckBody
<1>2. AirSet = {} /\ Len(onAir) = 0
  BY DEF AirSet, Init, PortInit
<1>3. RepeatsPaid
  BY <1>1, <1>2, FS_EmptySet DEF RepeatsPaid, TxInv
<1>4. QED
  BY <1>1, <1>3 DEF RestartInv, TxInv

\* What holds of the exchange although the firmware forgets.
LEMMA RestartInvariant == RSpec => []RestartInv
BY RestartInvInit, RestartInvStep, PTL DEF RSpec

\* Each restart of the firmware makes the radio driver repeat at most one
\* frame, the one whose transaction last_completed or the TX server forgot, and
\* the frames stay in order.
THEOREM OneRepeatPerRestart == RSpec => []RestartRepeatsOne
<1>1. RestartInv => RestartRepeatsOne
  <2> SUFFICES ASSUME RestartInv PROVE RestartRepeatsOne
    OBVIOUS
  <2>1. Cardinality(AirSet) \in Nat /\ Len(onAir) \in Nat /\ restarts \in Nat
    BY AirFinite DEF RestartInv, TypeInv
  <2>2. Len(onAir) <= restarts + Cardinality(AirSet)
    BY <2>1 DEF RestartInv, RepeatsPaid
  <2>3. QED
    BY <2>2 DEF RestartRepeatsOne, AirSet, RestartInv, PathInOrder, AirFirst
<1>2. QED
  BY <1>1, RestartInvariant, PTL

\* Also across restarts of the firmware, a transaction the host takes as
\* acknowledged has been accepted by the radio driver.
THEOREM AcknowledgedDespiteRestarts == RSpec => []AckedIsOnAirUntilWrap
<1>1. RestartInv => AckedIsOnAirUntilWrap
  BY DEF RestartInv, AckInv, AckedIsOnAirUntilWrap
<1>2. QED
  BY <1>1, RestartInvariant, PTL

\* Also across restarts of the firmware, received frames reach the TAP
\* interface at most once and in order, although cached_response is lost.
THEOREM DeliveredOnceDespiteRestarts == RSpec => []RxOnceInOrder
<1>1. RestartInv => RxOnceInOrder
  BY DEF RestartInv, RxInv
<1>2. QED
  BY <1>1, RestartInvariant, PTL
=============================================================================
