--------------------------- MODULE WifiExchangeAck --------------------------
(***************************************************************************)
(* An acknowledged frame has been accepted by the radio driver, as long as *)
(* no session has used up its transaction ids, and the response to an      *)
(* accepted frame is not forgotten.                                        *)
(***************************************************************************)
EXTENDS WifiExchangeTx

AckBody == UsedOnly /\ InProgress /\ AckedIsOnAir

-----------------------------------------------------------------------------
(* What happens to the requests under way and to the responses when queues *)
(* change.                                                                 *)

\* The elements of a queue when its head is taken or an element is appended.
LEMMA QueueElements ==
  ASSUME NEW S, NEW q \in Seq(S)
  PROVE  /\ q # <<>> =>
              /\ Head(q) = q[1] /\ 1 \in 1..Len(q)
              /\ \A i \in 1..Len(Tail(q)) : \E j \in 1..Len(q) : Tail(q)[i] = q[j]
         /\ \A x \in S : \A i \in 1..Len(Append(q, x)) :
              Append(q, x)[i] = x \/ \E j \in 1..Len(q) : Append(q, x)[i] = q[j]
<1>1. q # <<>> => /\ Head(q) = q[1] /\ 1 \in 1..Len(q)
                  /\ \A i \in 1..Len(Tail(q)) : \E j \in 1..Len(q) : Tail(q)[i] = q[j]
  BY TailIndex
<1>2. ASSUME NEW x \in S, NEW i \in 1..Len(Append(q, x))
      PROVE  Append(q, x)[i] = x \/ \E j \in 1..Len(q) : Append(q, x)[i] = q[j]
  <2>1. i = Len(q) + 1 \/ i \in 1..Len(q)
    BY AppendIndex
  <2>2. QED
    BY <2>1, AppendIndex
<1>3. QED
  BY <1>1, <1>2

\* A link or firmware step, or a request sent again: the host's transaction
\* stays, new copies are copies of it, and whatever is reported was so before
\* or is true.
LEMMA AckKeeps ==
  ASSUME TypeOK, AckBody, UNCHANGED <<ownVars, acked>>,
         \A r \in Copies' : r \in Copies \/ (pc = "tx" /\ r = CurrentRequest),
         \A t \in Answers' : Used(t),
         Used(last_completed'),
         \A f : Occurs(f, onAir) => Occurs(f, onAir)',
         pc = "tx" /\ Reported' => Reported \/ Occurs(held, onAir)
  PROVE  AckBody'
<1>1. /\ Current' = Current /\ UNCHANGED <<pc, held, session, next_id>>
      /\ CurrentRequest.frame = held /\ CurrentRequest.transaction = Current
      /\ Current.session = session
  BY DEF ownVars, Current, CurrentRequest, Request
<1>0. pc = "tx" => Used(Current)
  BY DEF AckBody, UsedOnly, Used, Current, TypeOK, HostType
<1>2. UsedOnly'
  BY <1>0, <1>1 DEF AckBody, UsedOnly, Used
<1>3. InProgress'
  BY <1>1 DEF AckBody, InProgress, CopiesAgree
<1>4. AckedIsOnAir'
  BY DEF AckBody, AckedIsOnAir
<1>5. QED
  BY <1>2, <1>3, <1>4 DEF AckBody

\* Transactions of requests and responses under way have their type.
LEMMA AckTypes ==
  ASSUME TypeOK
  PROVE  /\ \A r \in Copies : r.transaction \in Transaction
         /\ \A t \in Answers : t \in Transaction
         /\ last_completed \in Transaction
<1>1. \A r \in Requests : r.transaction \in Transaction
  BY DEF Requests
<1>2. /\ \A i \in 1..Len(up) : up[i] \in Requests
      /\ \A i \in 1..Len(tx_queue) : tx_queue[i] \in Requests
  BY FrameTypes
<1>3. \A m \in Responses : m.transaction \in Transaction
  BY DEF Responses
<1>4. \A i \in 1..Len(down) : down[i] \in Responses
  BY DEF TypeOK, LinkType
<1>5. QED
  BY <1>1, <1>2, <1>3, <1>4 DEF Copies, Answers, TypeOK, TxType

\* A host step that leaves the host outside a TX transaction.
LEMMA AckLeaves ==
  ASSUME TypeOK, AckBody, pc' # "tx",
         \A r \in Copies' : r \in Copies,
         \A t \in Answers' : t \in Answers,
         UNCHANGED <<last_completed, onAir>>,
         \A t \in Transaction : Used(t) => Used(t)',
         AckedIsOnAir'
  PROVE  AckBody'
BY AckTypes DEF AckBody, UsedOnly, InProgress

\* The copies when the three places that hold them stay.
LEMMA CopiesUnchanged ==
  UNCHANGED <<up, tx_queue, tx_server, tx_request>> => Copies' = Copies
BY DEF Copies, IsTx

\* The copies when the request at the head of the link is gone.
LEMMA CopiesTail ==
  ASSUME TypeOK, up # <<>>, up' = Tail(up), UNCHANGED <<tx_queue, tx_server, tx_request>>
  PROVE  \A r \in Copies' : r \in Copies
<1>1. up \in Seq(Requests)
  BY DEF TypeOK, LinkType
<1>2. \A i \in 1..Len(up') : \E j \in 1..Len(up) : up'[i] = up[j]
  BY <1>1, QueueElements
<1>3. QED
  BY <1>2 DEF Copies, IsTx

\* The answers when the response at the head of the link is gone.
LEMMA AnswersTail ==
  ASSUME TypeOK, down # <<>>, down' = Tail(down)
  PROVE  \A t \in Answers' : t \in Answers
<1>1. down \in Seq(Responses)
  BY DEF TypeOK, LinkType
<1>2. \A i \in 1..Len(down') : \E j \in 1..Len(down) : down'[i] = down[j]
  BY <1>1, QueueElements
<1>3. QED
  BY <1>2 DEF Answers

\* The answers when a response has been queued.
LEMMA AnswersAppend ==
  ASSUME TypeOK, NEW m \in Responses, down' = Append(down, m)
  PROVE  \A t \in Answers' : t \in Answers \/ (m.ep = "tx" /\ t = m.transaction)
<1>1. down \in Seq(Responses)
  BY DEF TypeOK, LinkType
<1>2. \A i \in 1..Len(down') : down'[i] = m \/ \E j \in 1..Len(down) : down'[i] = down[j]
  BY <1>1, QueueElements
<1>3. QED
  BY <1>2 DEF Answers

\* The answers when the link to the host stays.
LEMMA AnswersUnchanged == UNCHANGED down => Answers' = Answers
BY DEF Answers

\* A step of the exchange keeps AckBody unless it wraps the transaction id.
LEMMA AckStep ==
  ASSUME TypeOK, TypeOK', Control, ServerShape, AckBody, wrapped' = FALSE, [Next]_vars
  PROVE  AckBody'
<1> USE DEF hostVars, linkVars, txVars, portVars
<1>1. ASSUME UNCHANGED <<ownVars, acked, up, down, tx_queue, tx_server, tx_request,
                         last_completed, onAir>>
      PROVE  AckBody'
  <2>1. Reported' => Reported
    BY <1>1, AnswersUnchanged DEF Reported, Current, ownVars
  <2>2. QED
    BY <1>1, <2>1, AckKeeps, CopiesUnchanged, AnswersUnchanged DEF Occurs, AckBody, UsedOnly
<1>2. CASE \/ TapRead \/ TapForward \/ BackupRejected \/ RxReceive \/ RadioDelivers
           \/ UNCHANGED vars \/ \E s \in Sources : RequestFails(s)
  BY Zenon, <1>1, <1>2 DEF TapRead, TapForward, BackupRejected, RxReceive, RadioDelivers,
                    Arrive, RequestFails, vars, histVars, ownVars
\* Taking an id that does not wrap.
<1>3. ASSUME TakeId
      PROVE  next_id' = next_id + 1 /\ Current'.id = next_id /\ Current'.session = session'
  <2>1. next_id' # 0
    BY <1>3, Zenon DEF TakeId
  <2>2. next_id' = next_id + 1 /\ next_id \in Nat
    BY <1>3, <2>1 DEF TakeId, WrappingAdd, TypeOK, HostType
  <2>3. QED
    BY <2>1, <2>2 DEF Current
<1>4. CASE BeginTx
  <2>1. /\ pc' = "tx" /\ next_id' = next_id + 1 /\ Current'.id = next_id
        /\ Current'.session = session /\ UNCHANGED session
        /\ next_id \in Nat /\ session \in Nat
    BY <1>3, <1>4 DEF BeginTx, TypeOK, HostType
  <2>2. UNCHANGED <<acked, up, down, tx_queue, tx_server, tx_request, last_completed, onAir>>
        /\ Copies' = Copies /\ Answers' = Answers
    BY <1>4, CopiesUnchanged, AnswersUnchanged DEF BeginTx, histVars
  <2>3. /\ \A r \in Copies : r.transaction # Current'
        /\ \A t \in Answers : t # Current'
        /\ last_completed # Current'
    BY <2>1 DEF AckBody, UsedOnly, Used
  <2>4. tx_server = "respond" => tx_request \in Copies
    BY DEF Copies
  <2>5. InProgress'
    BY <2>2, <2>3, <2>4 DEF InProgress, CopiesAgree, Reported
  <2>6. \A t \in Transaction : Used(t) => Used(t)'
    BY <2>1 DEF Used, Transaction
  <2>7. QED
    BY <2>1, <2>2, <2>5, <2>6, AckTypes, SMTT(30) DEF AckBody, UsedOnly, AckedIsOnAir, Occurs
<1>5. CASE BeginRx
  <2>1. \A t \in Transaction : Used(t) => Used(t)'
    BY <1>3, <1>5 DEF BeginRx, Used, Transaction, TypeOK, HostType
  <2>2. QED
    BY <1>5, <2>1, AckLeaves, CopiesUnchanged, AnswersUnchanged
    DEF BeginRx, histVars, AckBody, AckedIsOnAir, Occurs
<1>6. ASSUME UNCHANGED <<session, next_id>> PROVE \A t \in Transaction : Used(t) => Used(t)'
  BY <1>6 DEF Used
<1>7. CASE \/ DropSession \/ \E s \in Sources : MatchRx(s)
  <2>1. \A t \in Answers' : t \in Answers
    BY <1>7, AnswersTail, AnswersUnchanged, Zenon DEF DropSession, MatchRx
  <2>2. \A r \in Copies' : r \in Copies
    <3>1. ASSUME up' = <<>>, UNCHANGED <<tx_queue, tx_server, tx_request>>
          PROVE  \A r \in Copies' : r \in Copies
      <4>1. Len(up') = 0 /\ 1..0 = {}
        BY <3>1
      <4>2. QED
        BY <3>1, <4>1 DEF Copies
    <3>2. QED
      BY <1>7, <3>1, CopiesUnchanged, Zenon DEF DropSession, MatchRx
  <2>3. QED
    BY <1>6, <1>7, <2>1, <2>2, AckLeaves, Zenon
    DEF DropSession, MatchRx, histVars, AckBody, AckedIsOnAir, Occurs
<1>8. CASE NewSession
  <2>1. \A t \in Transaction : Used(t) => Used(t)'
    BY <1>8 DEF NewSession, Used, Transaction, TypeOK, HostType
  <2>2. QED
    BY <1>8, <2>1, AckLeaves, CopiesUnchanged, AnswersUnchanged
    DEF NewSession, histVars, AckBody, AckedIsOnAir, Occurs
<1>9. ASSUME NEW s \in Sources, MatchTx(s) PROVE AckBody'
  <2>1. pc = "tx" /\ down # <<>> /\ Head(down).ep = "tx" /\ Head(down).transaction = Current
    BY <1>9, Zenon DEF MatchTx, Matches, Awaits
  <2>2. Current \in Answers
    <3>1. down \in Seq(Responses)
      BY DEF TypeOK, LinkType
    <3>2. Head(down) = down[1] /\ 1 \in 1..Len(down)
      BY <2>1, <3>1, TailIndex
    <3>3. QED
      BY <2>1, <3>2 DEF Answers
  <2>3. Occurs(held, onAir)
    BY <2>1, <2>2 DEF AckBody, InProgress, Reported
  <2>4. AckedIsOnAir'
    <3>1. acked \in Seq(0..MaxTap) /\ held \in 0..MaxTap /\ acked' = Append(acked, held)
      BY <1>9 DEF MatchTx, TypeOK, HistType, HostType
    <3>2. \A i \in 1..Len(acked') :
            acked'[i] = held \/ \E j \in 1..Len(acked) : acked'[i] = acked[j]
      BY <3>1, QueueElements
    <3>3. UNCHANGED onAir
      BY <1>9 DEF MatchTx
    <3>4. QED
      BY <2>3, <3>2, <3>3, Zenon DEF AckBody, AckedIsOnAir, Occurs
  <2>5. QED
    BY <1>6, <1>9, <2>4, AckLeaves, CopiesUnchanged, AnswersTail DEF MatchTx
<1>10. CASE SendPrimary \/ SendBackup
  <2>1. /\ up' = Append(up, CurrentRequest) /\ CurrentRequest \in Requests
        /\ CurrentRequest.ep = pc
        /\ UNCHANGED <<ownVars, acked, down, tx_queue, tx_server, tx_request,
                       last_completed, onAir>>
    BY <1>10, CurrentTyped DEF SendPrimary, SendBackup, StallTimer, Control, ownVars,
                               CurrentRequest, Request, histVars
  <2>2. \A i \in 1..Len(up') :
          up'[i] = CurrentRequest \/ \E j \in 1..Len(up) : up'[i] = up[j]
    <3>1. up \in Seq(Requests)
      BY DEF TypeOK, LinkType
    <3>2. CurrentRequest \in Requests /\ up' = Append(up, CurrentRequest)
      BY <2>1, Zenon
    <3>3. \A i \in 1..Len(Append(up, CurrentRequest)) :
            \/ Append(up, CurrentRequest)[i] = CurrentRequest
            \/ \E j \in 1..Len(up) : Append(up, CurrentRequest)[i] = up[j]
      BY <3>1, <3>2, AppendElement
    <3>4. QED
      BY <3>2, <3>3, Zenon
  <2>3. \A r \in Copies' : r \in Copies \/ (pc = "tx" /\ r = CurrentRequest)
    <3>1. CurrentRequest.ep = pc /\ UNCHANGED <<tx_queue, tx_server, tx_request>>
      BY <2>1, Zenon
    <3>2. ASSUME NEW i \in 1..Len(up'), up'[i].ep = "tx"
          PROVE  \/ pc = "tx" /\ up'[i] = CurrentRequest
                 \/ \E j \in 1..Len(up) : up[j].ep = "tx" /\ up'[i] = up[j]
      BY <2>2, <3>1, <3>2, Zenon
    <3>3. ASSUME NEW r \in {up'[i] : i \in {j \in 1..Len(up') : up'[j].ep = "tx"}}
          PROVE  \/ pc = "tx" /\ r = CurrentRequest
                 \/ r \in {up[i] : i \in {j \in 1..Len(up) : up[j].ep = "tx"}}
      BY <3>2, Zenon
    <3>4. QED
      BY <3>1, <3>3 DEF Copies, IsTx
  <2>4. Reported' => Reported
    BY <2>1, AnswersUnchanged DEF Reported, Current, ownVars
  <2>5. QED
    BY <2>1, <2>3, <2>4, AckKeeps, AnswersUnchanged DEF Occurs, AckBody, UsedOnly
<1>11. CASE DeliverRx \/ LoseRequest
  <2>1. Reported' => Reported
    BY <1>11, AnswersUnchanged, Zenon DEF DeliverRx, LoseRequest, Reported, Current
  <2>2. QED
    BY <1>11, <2>1, AckKeeps, CopiesTail, AnswersUnchanged
    DEF DeliverRx, LoseRequest, Occurs, AckBody, UsedOnly, histVars, ownVars
<1>12. CASE LoseResponse \/ DiscardResponse \/ \E s \in Sources : Mismatch(s)
  <2>0. /\ down # <<>> /\ down' = Tail(down)
        /\ UNCHANGED <<ownVars, acked, up, tx_queue, tx_server, tx_request,
                       last_completed, onAir>>
    BY <1>12, Zenon DEF LoseResponse, DiscardResponse, Mismatch, histVars, ownVars
  <2>1. Reported' => Reported
    BY <2>0, AnswersTail DEF Reported, Current, ownVars
  <2>2. QED
    BY <2>0, <2>1, AckKeeps, CopiesUnchanged, AnswersTail DEF Occurs, AckBody, UsedOnly
<1>13. CASE DeliverTx
  <2>1. /\ Head(up) = up[1] /\ 1 \in 1..Len(up) /\ Head(up) \in Requests
        /\ \A i \in 1..Len(up') : \E j \in 1..Len(up) : up'[i] = up[j]
        /\ \A i \in 1..Len(tx_queue') :
             tx_queue'[i] = Head(up) \/ \E j \in 1..Len(tx_queue) : tx_queue'[i] = tx_queue[j]
    <3>1. up \in Seq(Requests) /\ tx_queue \in Seq(Requests)
      BY DEF TypeOK, LinkType, TxType
    <3>2. up # <<>> /\ up' = Tail(up) /\ tx_queue' \in {tx_queue, Append(tx_queue, Head(up))}
      BY <1>13 DEF DeliverTx
    <3>3. Head(up) \in Requests
      BY <3>1, <3>2, QueueTyped
    <3>4. QED
      BY <3>1, <3>2, <3>3, QueueElements
  <2>2. \A r \in Copies' : r \in Copies
    BY <1>13, <2>1 DEF DeliverTx, Copies, IsTx
  <2>3. Reported' => Reported
    BY <1>13, AnswersUnchanged DEF DeliverTx, Reported, Current
  <2>4. QED
    BY <1>13, <2>2, <2>3, AckKeeps, AnswersUnchanged
    DEF DeliverTx, Occurs, AckBody, UsedOnly, histVars, ownVars
<1>14. CASE TxReceive
  <2>1. /\ Head(tx_queue) = tx_queue[1] /\ 1 \in 1..Len(tx_queue)
        /\ \A i \in 1..Len(tx_queue') : \E j \in 1..Len(tx_queue) : tx_queue'[i] = tx_queue[j]
    <3>1. tx_queue \in Seq(Requests)
      BY DEF TypeOK, TxType
    <3>2. QED
      BY <1>14, <3>1, QueueElements DEF TxReceive
  <2>2. /\ tx_request' = Head(tx_queue)
        /\ UNCHANGED <<ownVars, acked, up, down, last_completed, onAir>>
        /\ tx_server' = "respond" => last_completed = Head(tx_queue).transaction
    BY <1>14 DEF TxReceive, Submit, ownVars, histVars
  <2>3. \A r \in Copies' : r \in Copies
    BY <2>1, <2>2 DEF Copies, IsTx
  <2>4. Reported' => Reported
    BY <2>2, AnswersUnchanged DEF Reported, Current, ownVars
  <2>5. QED
    BY <2>2, <2>3, <2>4, AckKeeps, AnswersUnchanged DEF Occurs, AckBody, UsedOnly
<1>15. CASE TxDriverDone
  <2>1. /\ tx_server = "driver" /\ tx_server' = "respond"
        /\ last_completed' = tx_request.transaction /\ tx_request \in Copies
        /\ Occurs(tx_request.frame, onAir)
        /\ UNCHANGED <<ownVars, acked, up, down, tx_queue, tx_request, onAir>>
    BY <1>15 DEF TxDriverDone, Acknowledge, ServerShape, Copies, ownVars, histVars
  <2>2. \A r \in Copies' : r \in Copies
    BY <2>1 DEF Copies, IsTx
  <2>3. pc = "tx" /\ Reported' => Reported \/ Occurs(held, onAir)
    BY <2>1, AnswersUnchanged DEF Reported, Current, ownVars, AckBody, InProgress, CopiesAgree
  <2>4. QED
    BY <2>1, <2>2, <2>3, AckKeeps, AnswersUnchanged DEF Occurs, AckBody, UsedOnly
<1>16. CASE TxRespond
  <2> DEFINE m == Response("tx", tx_request.transaction, NoFrame)
  <2>1. /\ tx_server = "respond" /\ tx_server' = "recv" /\ down' = Append(down, m)
        /\ tx_request \in Copies
        /\ UNCHANGED <<ownVars, acked, up, tx_queue, last_completed, onAir>>
    BY <1>16 DEF TxRespond, Copies, ownVars, histVars
  <2>2. m \in Responses /\ m.transaction = tx_request.transaction
    <3>1. tx_request.transaction \in Transaction
      BY DEF TypeOK, TxType, Requests
    <3>2. QED
      BY <3>1, BoundsAssumption DEF Response, Responses, NoFrame
  <2>3. \A t \in Answers' : t \in Answers \/ t = tx_request.transaction
    BY <2>1, <2>2, AnswersAppend
  <2>4. \A r \in Copies' : r \in Copies
    BY <2>1 DEF Copies, IsTx
  <2>5. Reported' => Reported
    BY <2>1, <2>3 DEF Reported, Current, ownVars
  <2>6. QED
    BY <2>1, <2>3, <2>4, <2>5, AckKeeps DEF Occurs, AckBody, UsedOnly
<1>17. CASE RadioAccepts
  <2>1. UNCHANGED <<ownVars, acked, up, down, tx_queue, tx_server, tx_request, last_completed>>
    BY <1>17 DEF RadioAccepts, ownVars, histVars
  <2>2. \A f : Occurs(f, onAir) => Occurs(f, onAir)'
    <3>1. onAir \in Seq(0..MaxTap) /\ txFrame \in 0..MaxTap /\ onAir' = Append(onAir, txFrame)
      BY <1>17 DEF RadioAccepts, Accept, TypeOK, PortType
    <3>2. \A i \in 1..Len(onAir) : onAir'[i] = onAir[i] /\ i \in 1..Len(onAir')
      BY <3>1, AppendIndex
    <3>3. QED
      BY <3>2 DEF Occurs
  <2>3. Reported' => Reported
    BY <2>1, AnswersUnchanged DEF Reported, Current, ownVars
  <2>4. QED
    BY <2>1, <2>2, <2>3, AckKeeps, CopiesUnchanged, AnswersUnchanged DEF AckBody, UsedOnly
<1>18. ASSUME NEW m \in Responses, m.ep = "rx", RxReply(m), UNCHANGED onAir
       PROVE  AckBody'
  <2>1. \A t \in Answers' : t \in Answers
    BY <1>18, AnswersAppend, AnswersUnchanged DEF RxReply
  <2>2. Reported' => Reported
    BY <1>18, <2>1, Zenon DEF RxReply, Reported, Current
  <2>3. QED
    BY <1>18, <2>1, <2>2, AckKeeps, CopiesUnchanged
    DEF RxReply, Occurs, AckBody, UsedOnly, ownVars, histVars
<1>19. CASE RxServeCached \/ RxServeFrame \/ RxServeEmpty
  <2>1. CASE RxServeCached
    BY <1>18, <2>1 DEF RxServeCached, TypeOK, RxType
  <2>2. CASE RxServeFrame \/ RxServeEmpty
    <3>1. PICK f \in 0..MaxRadio : RxReply(Response("rx", rx_request, f)) /\ UNCHANGED onAir
      <4>1. RxServeFrame => Head(backlog) \in 0..MaxRadio
        BY QueueTyped, Zenon DEF RxServeFrame, Pull, TypeOK, PortType
      <4>2. NoFrame \in 0..MaxRadio
        BY BoundsAssumption DEF NoFrame
      <4>3. QED
        BY <2>2, <4>1, <4>2 DEF RxServeFrame, RxServeEmpty, Pull
    <3>2. Response("rx", rx_request, f) \in Responses
          /\ Response("rx", rx_request, f).ep = "rx"
      BY DEF TypeOK, RxType, Response, Responses
    <3>3. QED
      BY <1>18, <3>1, <3>2
  <2>3. QED
    BY <1>19, <2>1, <2>2
<1>20. QED
  BY <1>2, <1>4, <1>5, <1>7, <1>8, <1>9, <1>10, <1>11, <1>12, <1>13, <1>14, <1>15,
     <1>16, <1>17, <1>19
  DEF Next, Host, Link, Firmware, RecoverSession, StopSession

\* wrapped is never reset.
LEMMA WrappedStays ==
  ASSUME TypeOK, [Next]_vars, wrapped
  PROVE  wrapped'
<1>1. ASSUME UNCHANGED wrapped PROVE wrapped'
  BY <1>1, Zenon
<1>2. CASE TakeId
  BY <1>2, Zenon DEF TakeId
<1>3. UNCHANGED wrapped \/ TakeId
  BY Zenon DEF Next, Host, Link, Firmware, vars, hostVars, TapRead, TapForward, BeginTx,
         BeginRx, SendPrimary, SendBackup, BackupRejected, RequestFails, MatchTx,
         MatchRx, Mismatch, RecoverSession, StopSession, DropSession, NewSession,
         DeliverTx, DeliverRx, LoseRequest, LoseResponse, DiscardResponse, TxReceive,
         TxDriverDone, TxRespond, RxReceive, RxServeCached, RxServeFrame, RxServeEmpty,
         RxReply, RadioAccepts, RadioDelivers
<1>4. QED
  BY <1>1, <1>2, <1>3, Zenon

\* Nothing has been acknowledged or reported in the initial state.
LEMMA AckInit == Init => AckBody
<1> SUFFICES ASSUME Init PROVE AckBody
  OBVIOUS
<1>1. /\ Len(up) = 0 /\ Len(down) = 0 /\ Len(tx_queue) = 0 /\ Len(acked) = 0
      /\ 1..0 = {} /\ pc = "top" /\ tx_server = "recv" /\ session = 1
      /\ last_completed.session = 0
  BY SMTT(30) DEF Init, NoTransaction
<1>2. Copies = {} /\ Answers = {}
  BY <1>1 DEF Copies, Answers
<1>3. UsedOnly
  BY <1>1, <1>2 DEF UsedOnly, Used
<1>4. InProgress /\ AckedIsOnAir
  BY <1>1 DEF InProgress, AckedIsOnAir
<1>5. QED
  BY <1>3, <1>4 DEF AckBody

\* Every step of the host, the link and the firmware keeps AckInv.
LEMMA AckInvStep == TypeInv /\ TypeInv' /\ PathInOrder /\ AckInv /\ [Next]_vars => AckInv'
<1> SUFFICES ASSUME TypeInv, TypeInv', PathInOrder, AckInv, [Next]_vars, ~wrapped'
             PROVE  AckBody'
  BY DEF AckInv, AckBody
<1>1. TypeOK /\ TypeOK' /\ Control /\ ServerShape
  BY DEF TypeInv, PathInOrder
<1>2. AckBody
  BY <1>1, WrappedStays DEF AckInv, AckBody
<1>3. wrapped' = FALSE
  <2>1. wrapped' \in BOOLEAN
    BY <1>1 DEF TypeOK, HostType
  <2>2. QED
    BY <2>1, Zenon
<1>4. QED
  BY <1>1, <1>2, <1>3, AckStep, Zenon

\* While ids are not used up, whatever reports the host's TX transaction as
\* done (last_completed, a response, the server about to respond) is about a
\* frame the radio driver has accepted.
THEOREM ReportsAreTrue == Spec => []AckInv
<1>1. Init => AckInv
  BY AckInit DEF AckInv, AckBody
<1>2. TxInv => PathInOrder
  BY DEF TxInv
<1>3. QED
  BY <1>1, <1>2, AckInvStep, TypeInit, TypeStep, TxInit, TxStep, PTL DEF Spec

\* A TX transaction the host takes as acknowledged has been accepted by the
\* radio driver, unless the ids of a session have wrapped: a stale response,
\* a repeated request or a response answered from last_completed never stands
\* for a frame that was not transmitted.
THEOREM AcknowledgedIsTransmitted == Spec => []AckedIsOnAirUntilWrap
<1>1. AckInv => AckedIsOnAirUntilWrap
  BY DEF AckInv, AckedIsOnAirUntilWrap
<1>2. QED
  BY <1>1, ReportsAreTrue, PTL

-----------------------------------------------------------------------------
(* The response to a transmitted frame is on its way.                      *)

\* What occurs in a queue when its head is taken or an element is appended.
LEMMA OccursQueue ==
  ASSUME NEW S, NEW q \in Seq(S), NEW x
  PROVE  /\ Occurs(x, q) /\ q # <<>> => x = Head(q) \/ Occurs(x, Tail(q))
         /\ \A y \in S : Occurs(x, q) \/ x = y => Occurs(x, Append(q, y))
<1>1. ASSUME NEW i \in 1..Len(q), q[i] = x, q # <<>>
      PROVE  x = Head(q) \/ Occurs(x, Tail(q))
  <2>1. CASE i = 1
    BY <1>1, <2>1, TailIndex
  <2>2. CASE i # 1
    <3>1. i - 1 \in 1..Len(Tail(q))
      BY <1>1, <2>2
    <3>2. Tail(q)[i - 1] = q[i - 1 + 1] /\ i - 1 + 1 = i
      BY <1>1, <3>1, TailIndex
    <3>3. QED
      BY <1>1, <3>1, <3>2 DEF Occurs
  <2>3. QED
    BY <2>1, <2>2
<1>2. ASSUME NEW y \in S, Occurs(x, q) \/ x = y PROVE Occurs(x, Append(q, y))
  <2>1. /\ \A i \in 1..Len(q) : Append(q, y)[i] = q[i] /\ i \in 1..Len(Append(q, y))
        /\ Append(q, y)[Len(q) + 1] = y /\ Len(q) + 1 \in 1..Len(Append(q, y))
    BY AppendIndex
  <2>2. QED
    BY <1>2, <2>1, Zenon DEF Occurs
<1>3. QED
  BY <1>1, <1>2 DEF Occurs

\* The host awaits the response to a frame that has been transmitted.
ResponseDue == pc = "tx" /\ phase # "idle" /\ last_completed = Current

\* Where that response can come from.
ResponseComes ==
  \/ Occurs(Response("tx", Current, NoFrame), down)
  \/ tx_server # "recv" /\ tx_request.transaction = Current
  \/ Occurs(CurrentRequest, tx_queue) \/ Occurs(CurrentRequest, up)

\* A copy that meets another copy in the endpoint queue is refused, but the
\* one in the queue is equal to it.
LEMMA RefusedIsQueued ==
  ASSUME TypeOK, PathInv, HostInv, AirFirst, AckBody, pc = "tx", last_completed = Current,
         up # <<>>, Head(up) = CurrentRequest, NEW i \in 1..Len(tx_queue)
  PROVE  tx_queue[i] = CurrentRequest
<1>1. /\ tx_queue[i] \in Requests /\ tx_queue[i].frame \in Nat /\ held \in Nat
      /\ CurrentRequest \in Requests /\ CurrentRequest.frame = held /\ CurrentRequest.ep = "tx"
  BY FrameTypes, CurrentTyped DEF CurrentRequest, Request
<1>2. Before(tx_queue[i], CurrentRequest) /\ tx_queue[i].ep = "tx"
  BY DEF HostInv, OrderedHost, PathInv, ServerShape, IsTx
<1>3. Occurs(held, onAir)
  BY DEF AckBody, InProgress, Reported
<1>4. held <= tx_queue[i].frame
  BY <1>3 DEF Occurs, AirFirst, NotBehind, Pending
<1>5. tx_queue[i].frame = CurrentRequest.frame
  BY <1>1, <1>2, <1>4 DEF Before
<1>6. tx_queue[i].transaction = CurrentRequest.transaction
  BY <1>2, <1>5 DEF Before
<1>7. QED
  BY <1>1, <1>2, <1>5, <1>6 DEF Requests

\* Without losses, a response that is due stays on its way.
LEMMA ResponseStep ==
  ASSUME TypeOK, TypeOK', Control, PathInv, HostInv, AirFirst, AckBody,
         ResponseDue => ResponseComes, faults' = faults, [Next]_vars, ResponseDue'
  PROVE  ResponseComes'
<1> USE DEF hostVars, linkVars, txVars
<1>0. /\ up \in Seq(Requests) /\ down \in Seq(Responses) /\ tx_queue \in Seq(Requests)
      /\ Len(tx_queue) <= 1
  BY DEF TypeOK, LinkType, TxType, EndpointCap
<1>1. ASSUME UNCHANGED ownVars
      PROVE  Current' = Current /\ CurrentRequest' = CurrentRequest
  BY <1>1 DEF ownVars, Current, CurrentRequest, Request
<1>2. ASSUME UNCHANGED <<ownVars, last_completed>>, phase # "idle"
      PROVE  pc = "tx" /\ ResponseDue /\ ResponseComes
  BY <1>1, <1>2 DEF ResponseDue, ownVars
<1>3. ASSUME UNCHANGED <<ownVars, last_completed, up, tx_queue, tx_server, tx_request>>,
             phase # "idle",
             Occurs(Response("tx", Current, NoFrame), down)
               => Occurs(Response("tx", Current, NoFrame), down')
      PROVE  ResponseComes'
  BY <1>1, <1>2, <1>3, Zenon DEF ResponseComes, Occurs
<1>4. CASE SendPrimary \/ SendBackup
  <2>1. /\ up' = Append(up, CurrentRequest) /\ CurrentRequest \in Requests
        /\ UNCHANGED ownVars
    BY <1>4, CurrentTyped DEF SendPrimary, SendBackup, StallTimer, Control, ownVars
  <2>2. Occurs(CurrentRequest, up')
    BY <1>0, <2>1, OccursQueue, Zenon
  <2>3. QED
    BY <1>1, <2>1, <2>2, Zenon DEF ResponseComes, Occurs
<1>5. CASE DeliverTx
  <2>1. /\ up # <<>> /\ up' = Tail(up) /\ phase' = phase
        /\ UNCHANGED <<ownVars, last_completed, down, tx_server, tx_request>>
    BY <1>5 DEF DeliverTx, ownVars
  <2>2. pc = "tx" /\ last_completed = Current /\ ResponseComes
    BY <1>2, <2>1 DEF ResponseDue
  <2>3. Head(up) \in Requests
    BY <1>0, <2>1, QueueTyped
  <2>4. CASE Occurs(CurrentRequest, tx_queue)
    <3>1. Occurs(CurrentRequest, tx_queue')
      BY <1>0, <1>5, <2>3, <2>4, OccursQueue, Zenon DEF DeliverTx
    <3>2. QED
      BY <1>1, <2>1, <3>1 DEF ResponseComes, Occurs
  <2>5. CASE Occurs(CurrentRequest, up)
    <3>1. CASE Head(up) = CurrentRequest
      <4>1. CASE tx_queue' = Append(tx_queue, Head(up))
        <5>1. Occurs(CurrentRequest, tx_queue')
          BY <1>0, <2>3, <3>1, <4>1, OccursQueue, Zenon
        <5>2. QED
          BY <1>1, <2>1, <5>1 DEF ResponseComes, Occurs
      <4>2. CASE Len(tx_queue) = 1 /\ UNCHANGED tx_queue
        <5>1. 1 \in 1..Len(tx_queue)
          BY <4>2
        <5>2. tx_queue[1] = CurrentRequest
          BY <2>1, <2>2, <3>1, <5>1, RefusedIsQueued
        <5>3. QED
          BY <1>1, <2>1, <4>2, <5>1, <5>2, Zenon DEF ResponseComes, Occurs
      <4>3. QED
        BY <1>5, <4>1, <4>2 DEF DeliverTx, EndpointCap
    <3>2. CASE Occurs(CurrentRequest, Tail(up))
      BY <1>1, <2>1, <3>2 DEF ResponseComes, Occurs
    <3>3. QED
      BY <1>0, <2>1, <2>5, <3>1, <3>2, OccursQueue
  <2>6. CASE \/ Occurs(Response("tx", Current, NoFrame), down)
             \/ tx_server # "recv" /\ tx_request.transaction = Current
    BY <1>1, <2>1, <2>6 DEF ResponseComes, Occurs
  <2>7. QED
    BY <2>2, <2>4, <2>5, <2>6, Zenon DEF ResponseComes
<1>6. CASE DeliverRx
  <2>1. /\ up # <<>> /\ Head(up).ep = "rx" /\ up' = Tail(up) /\ phase' = phase
        /\ UNCHANGED <<ownVars, last_completed, down, tx_queue, tx_server, tx_request>>
    BY <1>6 DEF DeliverRx, ownVars
  <2>2. pc = "tx" /\ ResponseComes
    BY <1>2, <2>1 DEF ResponseDue
  <2>3. Head(up) # CurrentRequest
    BY <2>1, <2>2 DEF CurrentRequest, Request
  <2>4. Occurs(CurrentRequest, up) => Occurs(CurrentRequest, up')
    BY <1>0, <2>1, <2>3, OccursQueue
  <2>5. QED
    BY <1>1, <2>1, <2>2, <2>4, Zenon DEF ResponseComes, Occurs
<1>7. CASE DiscardResponse
  <2>1. /\ down # <<>> /\ ~Matches(Head(down)) /\ down' = Tail(down) /\ phase' = phase
        /\ UNCHANGED <<ownVars, last_completed, up, tx_queue, tx_server, tx_request>>
    BY <1>7 DEF DiscardResponse, ownVars
  <2>2. pc = "tx" /\ phase # "idle"
    BY <1>2, <2>1 DEF ResponseDue
  <2>3. Head(down) # Response("tx", Current, NoFrame)
    BY <2>1, <2>2 DEF Matches, Awaits, Response
  <2>4. QED
    BY <1>0, <1>3, <2>1, <2>2, <2>3, OccursQueue
<1>8. CASE TxReceive
  <2>1. /\ tx_server = "recv" /\ tx_server' # "recv" /\ tx_queue # <<>>
        /\ tx_request' = Head(tx_queue) /\ phase' = phase
        /\ UNCHANGED <<ownVars, last_completed, up, down>>
    BY <1>8 DEF TxReceive, ownVars
  <2>2. ResponseComes
    BY <1>2, <2>1 DEF ResponseDue
  <2>3. CASE Occurs(CurrentRequest, tx_queue)
    <3>1. Head(tx_queue) = CurrentRequest
      BY <1>0, <2>1, <2>3, OneElement DEF Occurs
    <3>2. CurrentRequest.transaction = Current
      BY DEF CurrentRequest, Request
    <3>3. QED
      BY <1>1, <2>1, <3>1, <3>2, Zenon DEF ResponseComes
  <2>4. CASE Occurs(Response("tx", Current, NoFrame), down) \/ Occurs(CurrentRequest, up)
    BY <1>1, <2>1, <2>4, Zenon DEF ResponseComes, Occurs
  <2>5. QED
    BY <2>1, <2>2, <2>3, <2>4, Zenon DEF ResponseComes
<1>9. CASE TxDriverDone
  <2>1. /\ tx_server' = "respond" /\ last_completed' = tx_request.transaction
        /\ UNCHANGED <<ownVars, tx_request>>
    BY <1>9 DEF TxDriverDone, ownVars
  <2>2. QED
    BY <2>1, Zenon DEF ResponseComes, ResponseDue
<1>10. CASE TxRespond
  <2> DEFINE m == Response("tx", tx_request.transaction, NoFrame)
  <2>1. /\ down' = Append(down, m) /\ phase' = phase
        /\ UNCHANGED <<ownVars, last_completed, up, tx_queue>>
    BY <1>10 DEF TxRespond, ownVars
  <2>2. ResponseComes
    BY <1>2, <2>1 DEF ResponseDue
  <2>3. m \in Responses
    <3>1. tx_request.transaction \in Transaction
      BY DEF TypeOK, TxType, Requests
    <3>2. QED
      BY <3>1, BoundsAssumption DEF Response, Responses, NoFrame
  <2>4. CASE \/ Occurs(Response("tx", Current, NoFrame), down)
             \/ tx_request.transaction = Current
    <3>1. Occurs(Response("tx", Current, NoFrame), down')
      BY <1>0, <2>1, <2>3, <2>4, OccursQueue
    <3>2. QED
      BY <1>1, <2>1, <3>1, Zenon DEF ResponseComes, Occurs
  <2>5. CASE Occurs(CurrentRequest, tx_queue) \/ Occurs(CurrentRequest, up)
    BY <1>1, <2>1, <2>5 DEF ResponseComes, Occurs
  <2>6. QED
    BY <2>2, <2>4, <2>5, Zenon DEF ResponseComes
<1>11. ASSUME NEW m \in Responses, RxReply(m) PROVE ResponseComes'
  <2>1. /\ down' \in {down, Append(down, m)} /\ phase' = phase
        /\ UNCHANGED <<ownVars, last_completed, up, tx_queue, tx_server, tx_request>>
    BY <1>11 DEF RxReply, ownVars
  <2>2. \A x : Occurs(x, down) => Occurs(x, down')
    BY <1>0, <2>1, OccursQueue, Zenon
  <2>3. QED
    BY <1>3, <2>1, <2>2 DEF ResponseDue
<1>12. CASE RxServeCached \/ RxServeFrame \/ RxServeEmpty
  <2>1. PICK m \in Responses : RxReply(m)
    <3>1. CASE RxServeCached
      BY <3>1 DEF RxServeCached, TypeOK, RxType
    <3>2. CASE RxServeFrame
      <4>1. Head(backlog) \in 0..MaxRadio
        BY <3>2, QueueTyped, Zenon DEF RxServeFrame, Pull, TypeOK, PortType
      <4>2. Response("rx", rx_request, Head(backlog)) \in Responses
        BY <4>1 DEF TypeOK, RxType, Response, Responses
      <4>3. QED
        BY <3>2, <4>2 DEF RxServeFrame
    <3>3. CASE RxServeEmpty
      <4>1. Response("rx", rx_request, NoFrame) \in Responses
        BY BoundsAssumption DEF TypeOK, RxType, Response, Responses, NoFrame
      <4>2. QED
        BY <3>3, <4>1 DEF RxServeEmpty
    <3>4. QED
      BY <1>12, <3>1, <3>2, <3>3
  <2>2. QED
    BY <1>11, <2>1
<1>13. CASE TapRead \/ TapForward \/ RxReceive \/ RadioAccepts \/ RadioDelivers \/ UNCHANGED vars
  <2>1. /\ phase' = phase
        /\ UNCHANGED <<ownVars, last_completed, up, down, tx_queue, tx_server, tx_request>>
    BY <1>13, Zenon DEF TapRead, TapForward, RxReceive, RadioAccepts, RadioDelivers, vars, ownVars
  <2>2. QED
    BY <1>3, <2>1 DEF ResponseDue
<1>14. CASE BackupRejected
  BY <1>3, <1>14 DEF BackupRejected, ownVars
<1>15. CASE LoseRequest \/ LoseResponse \/ \E s \in Sources : RequestFails(s)
  <2>1. faults' = faults + 1 /\ faults \in Nat
    <3>1. faults' = faults + 1
      BY <1>15, Zenon DEF LoseRequest, LoseResponse, RequestFails
    <3>2. QED
      BY <3>1 DEF TypeOK, LinkType
  <2>2. QED
    BY <2>1
<1>16. CASE \/ BeginTx \/ BeginRx \/ DropSession \/ NewSession
            \/ \E s \in Sources : MatchTx(s) \/ MatchRx(s) \/ Mismatch(s)
  BY <1>16, Zenon DEF BeginTx, BeginRx, DropSession, NewSession, MatchTx, MatchRx, Mismatch,
     Complete, Control, ResponseDue
<1>17. QED
  BY <1>4, <1>5, <1>6, <1>7, <1>8, <1>9, <1>10, <1>12, <1>13, <1>14, <1>15, <1>16
  DEF Next, Host, Link, Firmware, RecoverSession, StopSession

\* A counter of faults that is zero has been zero before.
LEMMA NoFaultBefore ==
  ASSUME TypeOK, [Next]_vars, faults' = 0
  PROVE  faults = 0
<1>1. faults' = faults \/ faults' = faults + 1
  BY Zenon DEF Next, Host, Link, Firmware, vars, linkVars, TapRead, TapForward, BeginTx,
         BeginRx, SendPrimary, SendBackup, BackupRejected, RequestFails, MatchTx,
         MatchRx, Mismatch, RecoverSession, StopSession, DropSession, NewSession,
         DeliverTx, DeliverRx, LoseRequest, LoseResponse, DiscardResponse, TxReceive,
         TxDriverDone, TxRespond, RxReceive, RxServeCached, RxServeFrame, RxServeEmpty,
         RxReply, RadioAccepts, RadioDelivers
<1>2. faults \in Nat
  BY DEF TypeOK, LinkType
<1>3. QED
  BY <1>1, <1>2

\* Unless something was lost, the host never waits in vain for the response to
\* a frame that has been transmitted: not when the endpoint queue refuses a
\* copy of the request, and not when OUTQ is full.
THEOREM ResponseIsOnItsWay == Spec => []ResponseOnItsWay
<1>1. Init => ResponseOnItsWay
  BY DEF Init, ResponseOnItsWay
<1>2. TypeInv /\ TypeInv' /\ TxInv /\ AckInv /\ ResponseOnItsWay /\ [Next]_vars
        => ResponseOnItsWay'
  <2> SUFFICES ASSUME TypeInv, TypeInv', TxInv, AckInv, ResponseOnItsWay, [Next]_vars,
                      ~wrapped', faults' = 0, ResponseDue'
               PROVE  ResponseComes'
    BY Zenon DEF ResponseOnItsWay, ResponseDue, ResponseComes
  <2>1. TypeOK /\ TypeOK' /\ Control /\ PathInv /\ HostInv /\ AirFirst
    BY DEF TypeInv, TxInv, PathInOrder, PathInv, HostInv
  <2>2. ~wrapped /\ faults = 0
    BY <2>1, WrappedStays, NoFaultBefore
  <2>3. AckBody
    BY <2>2 DEF AckInv, AckBody
  <2>4. ResponseDue => ResponseComes
    BY <2>2, Zenon DEF ResponseOnItsWay, ResponseDue, ResponseComes
  <2>5. QED
    BY <2>1, <2>2, <2>3, <2>4, ResponseStep
<1>3. QED
  BY <1>1, <1>2, TypeInit, TypeStep, CopiesAreRecognised, ReportsAreTrue, PTL DEF Spec
=============================================================================
