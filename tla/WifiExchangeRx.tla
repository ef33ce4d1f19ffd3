--------------------------- MODULE WifiExchangeRx ---------------------------
(***************************************************************************)
(* Proof that every received frame reaches the TAP interface at most once  *)
(* and in order, across retries, session changes and reused ids.           *)
(***************************************************************************)
EXTENDS WifiExchangePath

-----------------------------------------------------------------------------
(* The transactions of the polls under way.                                *)

PollInv == PollsOld /\ PollsInOrder

turnVars == <<pc, session, next_id>>
serverVars == <<rx_queue, rx_server, rx_request, cached_response>>

\* What the link carries has its type, and so have the transactions.
LEMMA PollTypes ==
  ASSUME TypeOK
  PROVE  /\ up \in Seq(Requests) /\ down \in Seq(Responses)
         /\ rx_queue \in Seq(Requests) /\ Len(rx_queue) <= 1
         /\ session \in Nat /\ next_id \in 0..(IdMod - 1)
         /\ \A t \in Polls : t.session \in Nat /\ t.id \in 0..(IdMod - 1)
<1> USE BoundsAssumption DEF TypeOK, LinkType, RxType, HostType, EndpointCap
<1>1. \A t \in Transaction : t.session \in Nat /\ t.id \in 0..(IdMod - 1)
  BY DEF Transaction
<1>2. \A r \in Requests : r.transaction \in Transaction BY DEF Requests
<1>3. \A r \in Responses : r.transaction \in Transaction BY DEF Responses
<1>4. \A i \in 1..Len(up) : up[i] \in Requests OBVIOUS
<1>5. \A i \in 1..Len(down) : down[i] \in Responses OBVIOUS
<1>6. \A i \in 1..Len(rx_queue) : rx_queue[i] \in Requests OBVIOUS
<1>7. RxIn(up) \subseteq Transaction BY <1>2, <1>4 DEF RxIn
<1>8. RxIn(down) \subseteq Transaction BY <1>3, <1>5 DEF RxIn
<1>9. Queued \subseteq Transaction BY <1>2, <1>6 DEF Queued
<1>10. Served \cup {cached_response.transaction} \subseteq Transaction
  BY <1>3 DEF Served
<1>q. QED BY <1>1, <1>7, <1>8, <1>9, <1>10 DEF Polls

\* The link loses or delivers to nobody what is at a head.
LEMMA PollsShrink ==
  ASSUME TypeOK, PollInv, UNCHANGED <<turnVars, serverVars>>,
         up' = up \/ (up # <<>> /\ up' = Tail(up)),
         down' = down \/ (down # <<>> /\ down' = Tail(down))
  PROVE  PollInv'
<1> USE DEF turnVars, serverVars
<1>1. RxIn(up') \subseteq RxIn(up) /\ (InOrder(up, Current) => InOrder(up', Current))
  BY RxTail, PollTypes
<1>2. RxIn(down') \subseteq RxIn(down)
      /\ (InOrder(down, Current) => InOrder(down', Current))
  BY RxTail, PollTypes
<1>3. Current' = Current /\ Queued' = Queued /\ Served' = Served
  BY DEF Current, Queued, Served
<1>4. PollsOld' BY <1>1, <1>2, <1>3 DEF PollInv, PollsOld, PollOld, Polls
<1>5. PollsInOrder' BY <1>1, <1>2, <1>3 DEF PollInv, PollsInOrder
<1>q. QED BY <1>4, <1>5 DEF PollInv

\* The host sends the request of its transaction, once more or not.
LEMMA PollsSend ==
  ASSUME TypeOK, PollInv, UNCHANGED <<turnVars, serverVars, down>>,
         pc \in {"tx", "rx"}, CurrentRequest \in Requests,
         up' = Append(up, CurrentRequest)
  PROVE  PollInv'
<1> USE DEF turnVars, serverVars
<1>1. /\ CurrentRequest.ep = pc /\ CurrentRequest.transaction = Current
      /\ Current.session = session
  BY DEF CurrentRequest, Request, Current
<1>2. /\ RxIn(up') \subseteq RxIn(up) \cup {Current}
      /\ pc = "tx" => RxIn(up') \subseteq RxIn(up)
      /\ InOrder(up, Current) => InOrder(up', Current)
  BY <1>1, RxAppend, PollTypes DEF IsRx
<1>3. Current' = Current /\ Queued' = Queued /\ Served' = Served
  BY DEF Current, Queued, Served
<1>4. PollsOld' BY <1>1, <1>2, <1>3, PollTypes DEF PollInv, PollsOld, PollOld, Polls
<1>5. PollsInOrder' BY <1>2, <1>3 DEF PollInv, PollsInOrder
<1>q. QED BY <1>4, <1>5 DEF PollInv

\* The host leaves its poll unfinished, or was not in one.
LEMMA PollsLeave ==
  ASSUME TypeOK, PollInv, UNCHANGED serverVars, pc' # "rx",
         up' \in {up, <<>>},
         down' = down \/ (down # <<>> /\ down' = Tail(down)),
         \A t \in Polls : PollOld(t) => PollOld(t)'
  PROVE  PollInv'
<1> USE DEF serverVars
<1>1. RxIn(up') \subseteq RxIn(up) BY DEF RxIn
<1>2. RxIn(down') \subseteq RxIn(down) BY RxTail, PollTypes
<1>3. Queued' = Queued /\ Served' = Served BY DEF Queued, Served
<1>4. Polls' \subseteq Polls BY <1>1, <1>2, <1>3 DEF Polls
<1>5. PollsOld' BY <1>4 DEF PollInv, PollsOld
<1>q. QED BY <1>5 DEF PollInv, PollsInOrder

\* The next id differs from the last two.
LEMMA NextIdNew ==
  ASSUME NEW n \in 0..(IdMod - 1)
  PROVE  /\ WrappingAdd(n) \in 0..(IdMod - 1)
         /\ WrappingAdd(n) # n
         /\ WrappingAdd(WrappingAdd(n)) # n
         /\ (IF WrappingAdd(n) = 0 THEN IdMod - 1 ELSE WrappingAdd(n) - 1) = n
BY IdModAssumption DEF WrappingAdd

\* The host begins a poll: nothing under way bears its transaction.
LEMMA PollsBegin ==
  ASSUME TypeOK, PollInv, UNCHANGED <<session, serverVars, up, down>>,
         pc \in {"top", "poll"}, pc' = "rx", next_id' = WrappingAdd(next_id)
  PROVE  PollInv' /\ Current' \notin Polls'
<1> USE DEF serverVars
<1>1. Current' = [session |-> session, id |-> next_id]
  BY NextIdNew, PollTypes DEF Current
<1>2. Polls' = Polls BY DEF Polls, Queued, Served
<1>3. ASSUME NEW t \in Polls PROVE t # Current'
  <2>1. t.session # session \/ t.id # next_id
    BY NextIdNew, PollTypes DEF PollInv, PollsOld, PollOld
  <2>q. QED BY <1>1, <2>1
<1>4. PollsOld' BY <1>2 DEF PollInv, PollsOld, PollOld
<1>5. Current' \notin Polls' BY <1>2, <1>3
<1>6. /\ Current' \notin RxIn(up') /\ Current' \notin Queued'
      /\ Current' \notin Served' /\ Current' \notin RxIn(down')
      /\ Current' # cached_response'.transaction
  BY <1>5 DEF Polls
<1>7. PollsInOrder' BY <1>6, RxNone DEF PollsInOrder
<1>q. QED BY <1>4, <1>5, <1>7 DEF PollInv

\* The host matches the answer to its poll: all that is under way is of it,
\* unless a restart has emptied the cache.
LEMMA PollsMatch ==
  ASSUME TypeOK, PollInv, UNCHANGED <<session, next_id, serverVars, up>>,
         pc = "rx", pc' = "top", down # <<>>, down' = Tail(down),
         IsRx(Head(down)), Head(down).transaction = Current
  PROVE  PollInv'
<1> USE DEF serverVars
<1>1. Current \in RxIn(down) /\ RxIn(down') \subseteq {Current}
  BY RxTail, PollTypes DEF PollInv, PollsInOrder
<1>2. Queued' = Queued /\ Served' = Served BY DEF Queued, Served
<1>3. Polls' \subseteq {Current, NoTransaction}
  <2>1. /\ Served \cup Queued \cup RxIn(up) \subseteq {Current}
        /\ cached_response.transaction \in {Current, NoTransaction}
    BY <1>1 DEF PollInv, PollsInOrder
  <2>q. QED BY <1>1, <1>2, <2>1 DEF Polls
<1>4. Current.session = session /\ WrappingAdd(Current.id) = next_id
  BY PollTypes, IdModAssumption DEF Current, WrappingAdd
<1>5. NoTransaction.session = 0 /\ session \in Nat \ {0}
  BY DEF NoTransaction, TypeOK, HostType
<1>6. PollsOld' BY <1>3, <1>4, <1>5 DEF PollsOld, PollOld
<1>q. QED BY <1>6 DEF PollInv, PollsInOrder

\* A poll moves from the link to the queue of the RX endpoint.
LEMMA PollsDeliver ==
  ASSUME TypeOK, PollInv,
         UNCHANGED <<turnVars, rx_server, rx_request, cached_response, down>>,
         up # <<>>, up' = Tail(up), IsRx(Head(up)),
         rx_queue = <<>>, rx_queue' = <<Head(up)>>
  PROVE  PollInv'
<1> USE DEF turnVars
<1>1. /\ RxIn(up') \subseteq RxIn(up) /\ Head(up).transaction \in RxIn(up)
      /\ InOrder(up, Current) => InOrder(up', Current)
      /\ InOrder(up, Current) /\ Head(up).transaction = Current
           => RxIn(up') \subseteq {Current}
  BY RxTail, PollTypes
<1>2. Current' = Current /\ Served' = Served BY DEF Current, Served
<1>3. Queued' = {Head(up).transaction} BY DEF Queued
<1>4. PollsOld' BY <1>1, <1>2, <1>3 DEF PollInv, PollsOld, PollOld, Polls
<1>5. PollsInOrder' BY <1>1, <1>2, <1>3 DEF PollInv, PollsInOrder
<1>q. QED BY <1>4, <1>5 DEF PollInv

\* The server takes the poll from its queue.
LEMMA PollsReceive ==
  ASSUME TypeOK, PollInv, UNCHANGED <<turnVars, cached_response, up, down>>,
         rx_queue # <<>>, rx_request' = Head(rx_queue).transaction,
         rx_queue' = Tail(rx_queue), rx_server = "recv", rx_server' = "serve"
  PROVE  PollInv'
<1> USE DEF turnVars
<1>1. Current' = Current BY DEF Current
<1>2. rx_queue \in Seq(Requests) /\ Len(rx_queue) <= 1 BY PollTypes
<1>3. 1..Len(rx_queue) = {1} /\ 1..Len(rx_queue') = {} /\ Head(rx_queue) = rx_queue[1]
  BY <1>2, OneElement
<1>4. Queued = {Head(rx_queue).transaction} /\ Queued' = {}
  BY <1>3 DEF Queued
<1>5. Served' = {Head(rx_queue).transaction} BY DEF Served
<1>6. PollsOld' BY <1>1, <1>4, <1>5 DEF PollInv, PollsOld, PollOld, Polls
<1>7. PollsInOrder' BY <1>1, <1>4, <1>5 DEF PollInv, PollsInOrder
<1>q. QED BY <1>6, <1>7 DEF PollInv

\* The server answers; the answer may find no room in OUTQ.
LEMMA PollsReply ==
  ASSUME TypeOK, PollInv, UNCHANGED <<turnVars, rx_queue, up>>,
         NEW m \in Responses, m.ep = "rx", m.transaction = rx_request,
         cached_response' = m, rx_server = "serve", rx_server' = "recv",
         down' = down \/ down' = Append(down, m)
  PROVE  PollInv'
<1> USE DEF turnVars
<1>1. Current' = Current /\ Queued' = Queued BY DEF Current, Queued
<1>2. Served = {rx_request} /\ Served' = {} BY DEF Served
<1>3. /\ RxIn(down') \subseteq RxIn(down) \cup {rx_request}
      /\ InOrder(down, Current)
           /\ (rx_request = Current \/ Current \notin RxIn(down))
             => InOrder(down', Current)
  BY RxAppend, PollTypes
<1>4. PollsOld' BY <1>1, <1>2, <1>3 DEF PollInv, PollsOld, PollOld, Polls
<1>5. pc = "rx" /\ Current \in RxIn(down) => rx_request = Current
  BY <1>2 DEF PollInv, PollsInOrder
<1>6. PollsInOrder' BY <1>1, <1>2, <1>3, <1>5 DEF PollInv, PollsInOrder
<1>q. QED BY <1>4, <1>6 DEF PollInv

\* A TX response joins the answers.
LEMMA PollsTxRespond ==
  ASSUME TypeOK, PollInv, UNCHANGED <<turnVars, serverVars, up>>,
         NEW m \in Responses, ~IsRx(m), down' = Append(down, m)
  PROVE  PollInv'
<1> USE DEF turnVars, serverVars
<1>1. RxIn(down') \subseteq RxIn(down)
      /\ (InOrder(down, Current) => InOrder(down', Current))
  BY RxAppend, PollTypes
<1>2. Current' = Current /\ Queued' = Queued /\ Served' = Served
  BY DEF Current, Queued, Served
<1>3. PollsOld' BY <1>1, <1>2 DEF PollInv, PollsOld, PollOld, Polls
<1>4. PollsInOrder' BY <1>1, <1>2 DEF PollInv, PollsInOrder
<1>q. QED BY <1>3, <1>4 DEF PollInv

-----------------------------------------------------------------------------
(* The frames the answers carry.                                           *)

FrameInv == AnswersNew /\ BacklogNew /\ RxOnceInOrder

frameVars == <<cached_response, to_tap, backlog, received>>

\* Frame numbers are numbers.
LEMMA RxFrameTypes ==
  ASSUME TypeOK
  PROVE  /\ to_tap \in Seq(Nat) /\ backlog \in Seq(Nat) /\ received \in Nat
         /\ cached_response.frame \in Nat
         /\ \A i \in 1..Len(down) : down[i].frame \in Nat
<1>1. \A m \in Responses : m.frame \in Nat
  BY BoundsAssumption DEF Responses
<1>2. down \in Seq(Responses) BY Zenon DEF TypeOK, LinkType
<1>3. \A i \in 1..Len(down) : down[i] \in Responses BY <1>2
<1>4. \A i \in 1..Len(down) : down[i].frame \in Nat BY <1>1, <1>3, Zenon
<1>5. to_tap \in Seq(0..MaxRadio) /\ backlog \in Seq(0..MaxRadio)
  BY DEF TypeOK, HistType, PortType
<1>6. to_tap \in Seq(Nat) /\ backlog \in Seq(Nat)
  BY <1>5, NumbersTyped, BoundsAssumption
<1>7. received \in Nat BY BoundsAssumption DEF TypeOK, PortType
<1>8. cached_response.frame \in Nat BY <1>1, Zenon DEF TypeOK, RxType
<1>q. QED BY <1>4, <1>6, <1>7, <1>8

\* Steps that bring no RX answer and do not begin a poll.
LEMMA FramesKept ==
  ASSUME TypeOK, FrameInv, UNCHANGED frameVars,
         UNCHANGED turnVars \/ pc' # "rx",
         \A i \in 1..Len(down') :
           ~IsRx(down'[i]) \/ \E j \in 1..Len(down) : down'[i] = down[j]
  PROVE  FrameInv'
<1> USE DEF frameVars, turnVars
<1>1. AnswersNew'
  <2>1. CASE pc' # "rx" BY <2>1 DEF AnswersNew
  <2>2. CASE UNCHANGED turnVars
    <3>1. Current' = Current BY <2>2 DEF Current
    <3>q. QED BY <2>2, <3>1 DEF FrameInv, AnswersNew, TapBelow
  <2>q. QED BY <2>1, <2>2
<1>2. BacklogNew'
  BY DEF FrameInv, BacklogNew, AnswersBelow, TapBelow, Ascending
<1>q. QED BY <1>1, <1>2 DEF FrameInv, RxOnceInOrder, Ascending

\* A poll begins: no answer bears its transaction.
LEMMA FramesBegin ==
  ASSUME TypeOK, FrameInv, UNCHANGED <<frameVars, down>>, Current' \notin Polls'
  PROVE  FrameInv'
<1> USE DEF frameVars
<1>1. Current' \notin RxIn(down') /\ Current' # cached_response'.transaction
  BY DEF Polls
<1>2. AnswersNew' BY <1>1 DEF AnswersNew, RxIn
<1>3. BacklogNew'
  BY DEF FrameInv, BacklogNew, AnswersBelow, TapBelow, Ascending
<1>q. QED BY <1>2, <1>3 DEF FrameInv, RxOnceInOrder, Ascending

\* The answer to the poll is matched and its frame passed to the TAP interface.
LEMMA FramesMatch ==
  ASSUME TypeOK, FrameInv, UNCHANGED <<cached_response, backlog, received>>,
         pc = "rx", pc' = "top", down # <<>>, down' = Tail(down),
         IsRx(Head(down)), Head(down).transaction = Current,
         to_tap' = IF Head(down).frame = NoFrame THEN to_tap
                   ELSE Append(to_tap, Head(down).frame)
  PROVE  FrameInv'
<1> DEFINE f == Head(down).frame
<1>1. /\ down \in Seq(Responses) /\ Head(down) = down[1] /\ 1 \in 1..Len(down)
      /\ \A i \in 1..Len(down') : down'[i] = down[i + 1] /\ i + 1 \in 1..Len(down)
  BY PollTypes, TailIndex
<1>2. f \in Nat BY <1>1, RxFrameTypes
<1>3. f # NoFrame => TapBelow(f) BY <1>1 DEF FrameInv, AnswersNew
<1>4. /\ f < received + 1
      /\ \A k \in 1..Len(backlog) : f < backlog[k]
  BY <1>1 DEF FrameInv, BacklogNew, AnswersBelow
<1>5. \A i \in 1..Len(to_tap') :
        \/ i \in 1..Len(to_tap) /\ to_tap'[i] = to_tap[i]
        \/ f # NoFrame /\ i = Len(to_tap) + 1 /\ to_tap'[i] = f
  BY <1>2, RxFrameTypes, AppendIndex
<1>6. Ascending(to_tap')
  BY <1>3, <1>5, RxFrameTypes DEF FrameInv, RxOnceInOrder, Ascending, TapBelow
<1>8. BacklogNew'
  <2>1. AnswersBelow(received + 1)'
    BY <1>1, <1>4, <1>5 DEF FrameInv, BacklogNew, AnswersBelow, TapBelow
  <2>2. ASSUME NEW k \in 1..Len(backlog) PROVE AnswersBelow(backlog[k])'
    BY <1>1, <1>4, <1>5 DEF FrameInv, BacklogNew, AnswersBelow, TapBelow
  <2>q. QED BY <2>1, <2>2 DEF FrameInv, BacklogNew, Ascending
<1>q. QED BY <1>6, <1>8 DEF FrameInv, AnswersNew, RxOnceInOrder

\* The server answers with a new frame, with none, or as before.
LEMMA FramesReply ==
  ASSUME TypeOK, FrameInv, UNCHANGED <<turnVars, to_tap, received>>,
         NEW m \in Responses, cached_response' = m,
         down' = down \/ down' = Append(down, m),
         \/ backlog' = backlog /\ (m = cached_response \/ m.frame = NoFrame)
         \/ backlog # <<>> /\ backlog' = Tail(backlog) /\ m.frame = Head(backlog)
  PROVE  FrameInv'
<1> USE DEF turnVars
<1>1. m.frame \in Nat BY BoundsAssumption DEF Responses
<1>2. Current' = Current BY DEF Current
<1>3. \A i \in 1..Len(down') :
        down'[i] = m \/ (i \in 1..Len(down) /\ down'[i] = down[i])
  BY PollTypes, AppendIndex
<1>4. \A k \in 1..Len(backlog') :
        \/ backlog' = backlog
        \/ /\ backlog'[k] = backlog[k + 1] /\ k + 1 \in 1..Len(backlog)
           /\ Head(backlog) = backlog[1] /\ 1 \in 1..Len(backlog)
  BY RxFrameTypes, TailIndex
<1>5. backlog # <<>> => Head(backlog) = backlog[1] /\ 1 \in 1..Len(backlog)
  BY RxFrameTypes, TailIndex
<1>6. /\ pc = "rx" /\ m.transaction = Current /\ m.frame # NoFrame => TapBelow(m.frame)
      /\ m.frame < received + 1
  BY <1>1, <1>5, RxFrameTypes
     DEF FrameInv, AnswersNew, BacklogNew, AnswersBelow, NoFrame
<1>7. \A k \in 1..Len(backlog) : backlog[k] \in Nat /\ 0 < backlog[k]
  BY RxFrameTypes DEF FrameInv, BacklogNew, AnswersBelow
<1>8. \A k \in 1..Len(backlog') :
        /\ m.frame < backlog'[k]
        /\ \E j \in 1..Len(backlog) : backlog'[k] = backlog[j]
  BY <1>4, <1>5, <1>7
     DEF FrameInv, BacklogNew, AnswersBelow, Ascending, NoFrame
<1>9. Ascending(backlog')
  BY <1>4, RxFrameTypes DEF FrameInv, BacklogNew, Ascending
<1>10. AnswersNew'
  BY <1>2, <1>3, <1>6 DEF FrameInv, AnswersNew, TapBelow
<1>11. BacklogNew'
  <2>1. AnswersBelow(received + 1)'
    BY <1>3, <1>6 DEF FrameInv, BacklogNew, AnswersBelow, TapBelow
  <2>2. ASSUME NEW k \in 1..Len(backlog')
        PROVE  AnswersBelow(backlog[k])' /\ backlog'[k] <= received
    BY <1>3, <1>8 DEF FrameInv, BacklogNew, AnswersBelow, TapBelow
  <2>q. QED BY <1>9, <2>1, <2>2 DEF BacklogNew
<1>q. QED BY <1>10, <1>11 DEF FrameInv, RxOnceInOrder, Ascending

\* The radio delivers a frame.
LEMMA FramesArrive ==
  ASSUME TypeOK, FrameInv, UNCHANGED <<turnVars, cached_response, to_tap, down>>,
         received' = received + 1, backlog' = Append(backlog, received + 1)
  PROVE  FrameInv'
<1> USE DEF turnVars
<1>1. Current' = Current BY DEF Current
<1>2. \A k \in 1..Len(backlog') :
        \/ k \in 1..Len(backlog) /\ backlog'[k] = backlog[k]
        \/ k = Len(backlog) + 1 /\ backlog'[k] = received + 1
  BY RxFrameTypes, AppendIndex
<1>3. AnswersNew' BY <1>1 DEF FrameInv, AnswersNew, TapBelow
<1>4. AnswersBelow(received + 1)'
  <2>1. \A i \in 1..Len(to_tap) : to_tap[i] \in Nat BY RxFrameTypes
  <2>2. AnswersBelow(received + 1) BY DEF FrameInv, BacklogNew
  <2>3. TapBelow(received + 1)' BY <2>1, <2>2, RxFrameTypes DEF AnswersBelow, TapBelow
  <2>a. received \in Nat /\ \A i \in 1..Len(down) : down[i].frame \in Nat
    BY RxFrameTypes
  <2>4. ASSUME NEW i \in 1..Len(down), IsRx(down[i])
        PROVE  down[i].frame < received' + 1
    <3>1. down[i].frame < received + 1 BY <2>2, <2>4 DEF AnswersBelow
    <3>q. QED BY <3>1, <2>a
  <2>q. QED BY <2>2, <2>3, <2>4, RxFrameTypes DEF AnswersBelow
<1>5. ASSUME NEW k \in 1..Len(backlog')
      PROVE  AnswersBelow(backlog[k])' /\ backlog'[k] <= received'
  <2>1. CASE k \in 1..Len(backlog) /\ backlog'[k] = backlog[k]
    <3>1. AnswersBelow(backlog[k]) /\ backlog[k] <= received
      BY <2>1 DEF FrameInv, BacklogNew
    <3>2. AnswersBelow(backlog[k])'
      BY <2>1, <3>1, Zenon DEF AnswersBelow, TapBelow
    <3>3. backlog'[k] <= received'
      BY <2>1, <3>1, RxFrameTypes
    <3>q. QED BY <3>2, <3>3
  <2>2. CASE k = Len(backlog) + 1 /\ backlog'[k] = received + 1
    <3>1. AnswersBelow(received + 1) /\ received \in Nat
      BY RxFrameTypes DEF FrameInv, BacklogNew
    <3>2. AnswersBelow(backlog[k])'
      BY <2>2, <3>1, Zenon DEF AnswersBelow, TapBelow
    <3>3. backlog'[k] <= received'
      BY <2>2, <3>1
    <3>q. QED BY <3>2, <3>3
  <2>q. QED BY <1>2, <2>1, <2>2
<1>6. Ascending(backlog')
  BY <1>2, RxFrameTypes DEF FrameInv, BacklogNew, Ascending
<1>q. QED
  BY <1>3, <1>4, <1>5, <1>6 DEF FrameInv, BacklogNew, RxOnceInOrder, Ascending

-----------------------------------------------------------------------------
(* The steps of the specification.                                         *)

otherVars == <<turnVars, serverVars, frameVars>>

\* Nothing but heads of the link queues goes away.
LEMMA RxShrink ==
  ASSUME TypeOK, RxInv, UNCHANGED otherVars,
         up' = up \/ (up # <<>> /\ up' = Tail(up)),
         down' = down \/ (down # <<>> /\ down' = Tail(down))
  PROVE  RxInv'
<1>1. PollInv' BY PollsShrink DEF RxInv, PollInv, otherVars
<1>2. \A i \in 1..Len(down') : \E j \in 1..Len(down) : down'[i] = down[j]
  <2>1. CASE down' = down BY <2>1
  <2>2. CASE down # <<>> /\ down' = Tail(down) BY <2>2, PollTypes, TailIndex
  <2>q. QED BY <2>1, <2>2
<1>3. FrameInv' BY <1>2, FramesKept DEF RxInv, FrameInv, otherVars
<1>q. QED BY <1>1, <1>3 DEF RxInv, PollInv, FrameInv

\* Steps of the host.
LEMMA RxHostStep ==
  ASSUME TypeInv, RxInv, Host
  PROVE  RxInv'
<1> USE DEF TypeInv, otherVars, turnVars, serverVars, frameVars
<1>0. PollInv /\ FrameInv BY DEF RxInv, PollInv, FrameInv
<1>1. CASE TapRead \/ TapForward \/ BackupRejected
  <2>1. UNCHANGED <<otherVars, up, down>>
    BY <1>1 DEF TapRead, TapForward, BackupRejected, hostVars, histVars, linkVars,
                rxVars, portVars
  <2>q. QED BY <2>1, RxShrink
<1>2. ASSUME NEW s \in Sources, RequestFails(s) PROVE RxInv'
  BY <1>2, RxShrink DEF RequestFails, histVars, rxVars, portVars
<1>3. ASSUME NEW s \in Sources, Mismatch(s) PROVE RxInv'
  BY <1>3, RxShrink DEF Mismatch, histVars, rxVars, portVars
<1>4. CASE BeginTx
  <2>1. /\ UNCHANGED <<session, serverVars, frameVars, up, down>>
        /\ pc = "top" /\ pc' = "tx" /\ next_id' = WrappingAdd(next_id)
    BY <1>4 DEF BeginTx, TakeId, histVars, linkVars, rxVars, portVars
  <2>2. PollInv' BY <1>0, <2>1, PollsLeave DEF PollOld
  <2>3. FrameInv' BY <1>0, <2>1, FramesKept
  <2>q. QED BY <2>2, <2>3 DEF RxInv, PollInv, FrameInv
<1>5. CASE BeginRx
  <2>1. /\ UNCHANGED <<session, serverVars, frameVars, up, down>>
        /\ pc \in {"top", "poll"} /\ pc' = "rx" /\ next_id' = WrappingAdd(next_id)
    BY <1>5 DEF BeginRx, TakeId, histVars, linkVars, rxVars, portVars
  <2>2. PollInv' /\ Current' \notin Polls' BY <1>0, <2>1, PollsBegin
  <2>3. FrameInv' BY <1>0, <2>1, <2>2, FramesBegin
  <2>q. QED BY <2>2, <2>3 DEF RxInv, PollInv, FrameInv
<1>6. CASE SendPrimary \/ SendBackup
  <2>1. /\ UNCHANGED <<otherVars, down>> /\ pc \in {"tx", "rx"}
        /\ up' = Append(up, CurrentRequest)
    BY <1>6 DEF SendPrimary, SendBackup, StallTimer, Control, histVars, rxVars,
                portVars
  <2>2. CurrentRequest \in Requests BY <2>1, CurrentTyped
  <2>3. PollInv' BY <1>0, <2>1, <2>2, PollsSend
  <2>4. FrameInv' BY <1>0, <2>1, FramesKept
  <2>q. QED BY <2>3, <2>4 DEF RxInv, PollInv, FrameInv
<1>7. ASSUME NEW s \in Sources, MatchTx(s) PROVE RxInv'
  <2>1. /\ UNCHANGED <<session, next_id, serverVars, frameVars, up>>
        /\ pc = "tx" /\ pc' = "poll" /\ down # <<>> /\ down' = Tail(down)
    BY <1>7 DEF MatchTx, Matches, Awaits, rxVars, portVars
  <2>2. PollInv' BY <1>0, <2>1, PollsLeave DEF PollOld
  <2>3. \A i \in 1..Len(down') : \E j \in 1..Len(down) : down'[i] = down[j]
    BY <2>1, PollTypes, TailIndex
  <2>4. FrameInv' BY <1>0, <2>1, <2>3, FramesKept
  <2>q. QED BY <2>2, <2>4 DEF RxInv, PollInv, FrameInv
<1>8. ASSUME NEW s \in Sources, MatchRx(s) PROVE RxInv'
  <2>1. /\ UNCHANGED <<session, next_id, serverVars, backlog, received, up>>
        /\ pc = "rx" /\ pc' = "top" /\ down # <<>> /\ down' = Tail(down)
        /\ IsRx(Head(down)) /\ Head(down).transaction = Current
        /\ to_tap' = IF Head(down).frame = NoFrame THEN to_tap
                     ELSE Append(to_tap, Head(down).frame)
    BY <1>8 DEF MatchRx, Matches, Awaits, IsRx, rxVars, portVars
  <2>2. PollInv' BY <1>0, <2>1, PollsMatch
  <2>3. FrameInv' BY <1>0, <2>1, FramesMatch
  <2>q. QED BY <2>2, <2>3 DEF RxInv, PollInv, FrameInv
<1>9. CASE RecoverSession \/ StopSession \/ NewSession
  <2>1. /\ UNCHANGED <<serverVars, frameVars, down>> /\ pc' # "rx"
        /\ up' \in {up, <<>>}
    BY <1>9 DEF RecoverSession, StopSession, NewSession, DropSession, histVars,
                linkVars, rxVars, portVars
  <2>2. \/ pc' = "down" /\ session' = session
        \/ pc' = "top" /\ session' = session + 1
    BY <1>9 DEF RecoverSession, StopSession, NewSession, DropSession
  <2>3. ASSUME NEW t \in Polls, PollOld(t) PROVE PollOld(t)'
    BY <2>2, <2>3, PollTypes DEF PollOld
  <2>4. PollInv' BY <1>0, <2>1, <2>3, PollsLeave
  <2>5. FrameInv' BY <1>0, <2>1, FramesKept
  <2>q. QED BY <2>4, <2>5 DEF RxInv, PollInv, FrameInv
<1>q. QED
  BY <1>1, <1>2, <1>3, <1>4, <1>5, <1>6, <1>7, <1>8, <1>9 DEF Host

\* Steps of the link.
LEMMA RxLinkStep ==
  ASSUME TypeInv, RxInv, Link
  PROVE  RxInv'
<1> USE DEF TypeInv, otherVars, turnVars, serverVars, frameVars, hostVars,
            histVars, rxVars, portVars
<1>1. CASE DeliverTx BY <1>1, RxShrink DEF DeliverTx
<1>2. CASE LoseRequest BY <1>2, RxShrink DEF LoseRequest
<1>3. CASE LoseResponse BY <1>3, RxShrink DEF LoseResponse
<1>4. CASE DiscardResponse BY <1>4, RxShrink DEF DiscardResponse
<1>5. CASE DeliverRx /\ UNCHANGED rx_queue BY <1>5, RxShrink DEF DeliverRx
<1>6. CASE DeliverRx /\ ~UNCHANGED rx_queue
  <2>1. /\ UNCHANGED <<turnVars, rx_server, rx_request, frameVars, down>>
        /\ up # <<>> /\ up' = Tail(up) /\ IsRx(Head(up))
        /\ Len(rx_queue) < 1 /\ rx_queue' = Append(rx_queue, Head(up))
    BY <1>6 DEF DeliverRx, IsRx, EndpointCap
  <2>2. rx_queue = <<>> BY <2>1, PollTypes
  <2>3. rx_queue' = <<Head(up)>> BY <2>1, <2>2
  <2>4. PollInv' BY <2>1, <2>2, <2>3, PollsDeliver DEF RxInv, PollInv
  <2>5. FrameInv' BY <2>1, FramesKept DEF RxInv, FrameInv
  <2>q. QED BY <2>4, <2>5 DEF RxInv, PollInv, FrameInv
<1>q. QED BY <1>1, <1>2, <1>3, <1>4, <1>5, <1>6 DEF Link

\* Steps of the firmware.
LEMMA RxFirmwareStep ==
  ASSUME TypeInv, RxInv, Firmware
  PROVE  RxInv'
<1> USE DEF TypeInv, otherVars, turnVars, serverVars, frameVars, hostVars,
            histVars, linkVars, rxVars, portVars
<1>0. PollInv /\ FrameInv BY DEF RxInv, PollInv, FrameInv
<1>1. CASE TxReceive \/ TxDriverDone \/ RadioAccepts
  <2>1. UNCHANGED <<otherVars, up, down>>
    BY <1>1 DEF TxReceive, Submit, TxDriverDone, Acknowledge, RadioAccepts, Accept
  <2>q. QED BY <2>1, RxShrink
<1>2. CASE TxRespond
  <2> DEFINE m == Response("tx", tx_request.transaction, NoFrame)
  <2>1. UNCHANGED <<otherVars, up>> /\ down' = Append(down, m)
    BY <1>2 DEF TxRespond
  <2>2. m \in Responses /\ ~IsRx(m)
    BY BoundsAssumption
       DEF TypeOK, TxType, Requests, Responses, Response, NoFrame, IsRx
  <2> HIDE DEF m
  <2>3. PollInv' BY <1>0, <2>1, <2>2, PollsTxRespond
  <2>4. \A i \in 1..Len(down') :
          ~IsRx(down'[i]) \/ \E j \in 1..Len(down) : down'[i] = down[j]
    <3>1. down \in Seq(Responses) BY PollTypes
    <3>2. down' = Append(down, m) BY <2>1
    <3>4. m \in Responses BY <2>2
    <3>3. \A i \in 1..Len(Append(down, m)) :
            \/ Append(down, m)[i] = m
            \/ \E j \in 1..Len(down) : Append(down, m)[i] = down[j]
      BY <3>1, <3>4, AppendElement
    <3>q. QED BY <3>2, <3>3, <2>2, Zenon
  <2>5. FrameInv' BY <1>0, <2>1, <2>4, FramesKept
  <2>q. QED BY <2>3, <2>5 DEF RxInv, PollInv, FrameInv
<1>3. CASE RxReceive
  <2>1. PollInv' BY <1>0, <1>3, PollsReceive DEF RxReceive
  <2>2. FrameInv' BY <1>0, <1>3, FramesKept DEF RxReceive
  <2>q. QED BY <2>1, <2>2 DEF RxInv, PollInv, FrameInv
<1>4. ASSUME NEW m \in Responses, RxReply(m), m.ep = "rx",
             m.transaction = rx_request, UNCHANGED received,
             \/ backlog' = backlog /\ (m = cached_response \/ m.frame = NoFrame)
             \/ backlog # <<>> /\ backlog' = Tail(backlog) /\ m.frame = Head(backlog)
      PROVE  RxInv'
  <2>1. /\ UNCHANGED <<turnVars, rx_queue, up, to_tap>>
        /\ cached_response' = m /\ rx_server = "serve" /\ rx_server' = "recv"
        /\ down' = down \/ down' = Append(down, m)
    BY <1>4 DEF RxReply
  <2>2. PollInv' BY <1>0, <1>4, <2>1, PollsReply
  <2>3. FrameInv' BY <1>0, <1>4, <2>1, FramesReply
  <2>q. QED BY <2>2, <2>3 DEF RxInv, PollInv, FrameInv
<1>5. /\ cached_response \in Responses /\ cached_response.ep = "rx"
      /\ \A f \in 0..MaxRadio : Response("rx", rx_request, f) \in Responses
  BY DEF TypeOK, RxType, Responses, Response
<1>6. CASE RxServeCached
  BY <1>4, <1>5, <1>6 DEF RxServeCached
<1>7. CASE RxServeFrame
  <2>0. backlog \in Seq(0..MaxRadio) /\ backlog # <<>>
    BY <1>7 DEF RxServeFrame, Pull, TypeOK, PortType
  <2>1. Head(backlog) \in 0..MaxRadio BY <2>0, QueueTyped
  <2>q. QED BY <1>4, <1>5, <1>7, <2>1 DEF RxServeFrame, Pull, Response
<1>8. CASE RxServeEmpty
  <2>1. NoFrame \in 0..MaxRadio BY BoundsAssumption DEF NoFrame
  <2>q. QED BY <1>4, <1>5, <1>8, <2>1 DEF RxServeEmpty, Response
<1>9. CASE RadioDelivers
  <2>1. /\ UNCHANGED <<turnVars, serverVars, up, down, to_tap>>
        /\ received' = received + 1 /\ backlog' = Append(backlog, received + 1)
    BY <1>9 DEF RadioDelivers, Arrive
  <2>2. PollInv' BY <1>0, <2>1, PollsShrink
  <2>3. FrameInv' BY <1>0, <2>1, FramesArrive
  <2>q. QED BY <2>2, <2>3 DEF RxInv, PollInv, FrameInv
<1>q. QED BY <1>1, <1>2, <1>3, <1>6, <1>7, <1>8, <1>9 DEF Firmware

\* The invariant holds when nothing has been sent.
LEMMA RxInit == Init => RxInv
<1> SUFFICES ASSUME Init PROVE RxInv OBVIOUS
<1>0. /\ pc = "top" /\ Len(up) = 0 /\ Len(down) = 0 /\ Len(rx_queue) = 0 /\ 1..0 = {}
      /\ rx_server = "recv" /\ Len(to_tap) = 0 /\ Len(backlog) = 0 /\ received = 0
      /\ cached_response.transaction = NoTransaction /\ cached_response.frame = 0
      /\ session = 1 /\ NoTransaction.session = 0
  BY DEF Init, PortInit, NoTransaction, Response, NoFrame
<1>1. PollsOld
  <2>1. RxIn(up) = {} /\ RxIn(down) = {} /\ Queued = {} /\ Served = {}
    BY <1>0, Zenon DEF RxIn, Queued, Served
  <2>2. Polls = {NoTransaction} BY <1>0, <2>1 DEF Polls
  <2>q. QED BY <1>0, <2>2 DEF PollsOld, PollOld
<1>2. PollsInOrder /\ AnswersNew BY <1>0 DEF PollsInOrder, AnswersNew
<1>3. BacklogNew
  BY <1>0 DEF BacklogNew, AnswersBelow, TapBelow, Ascending
<1>4. RxOnceInOrder BY <1>0 DEF RxOnceInOrder, Ascending
<1>q. QED BY <1>1, <1>2, <1>3, <1>4 DEF RxInv

\* Every step keeps the invariant.
LEMMA RxStep == TypeInv /\ RxInv /\ [Next]_vars => RxInv'
<1> SUFFICES ASSUME TypeInv, RxInv, [Next]_vars PROVE RxInv' OBVIOUS
<1>1. CASE UNCHANGED vars
  BY <1>1, RxShrink
     DEF TypeInv, vars, otherVars, turnVars, serverVars, frameVars, hostVars,
         histVars, linkVars, rxVars, portVars
<1>q. QED BY <1>1, RxHostStep, RxLinkStep, RxFirmwareStep DEF Next

\* Every received frame is passed to the TAP interface at most once and in
\* order: whatever is lost, late or repeated, however often the session is
\* renewed and the ids wrap.
THEOREM DeliveredOnceInOrder == Spec => []RxOnceInOrder
<1>1. RxInv => RxOnceInOrder BY DEF RxInv
<1>q. QED BY <1>1, RxInit, RxStep, TypeInit, TypeStep, PTL DEF Spec
=============================================================================
