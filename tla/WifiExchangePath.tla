-------------------------- MODULE WifiExchangePath --------------------------
(***************************************************************************)
(* The exchange keeps its types, and its queues within their capacities.   *)
(* Then what the later proofs need to know of queues, and that the TX      *)
(* requests on the path stay in the order of their frames.                 *)
(***************************************************************************)
EXTENDS WifiExchangeInv, TLAPS

\* The request wifi_exchange sends in a TX or RX transaction is well formed.
LEMMA CurrentTyped ==
  ASSUME TypeOK
  PROVE  /\ Current \in Transaction
         /\ pc \in {"tx", "rx"} => CurrentRequest \in Requests
<1> USE IdModAssumption, BoundsAssumption
<1>1. session \in 0..MaxSessions /\ (next_id = 0 => IdMod - 1 \in 0..(IdMod - 1))
  BY DEF TypeOK, HostType
<1>2. next_id # 0 => next_id - 1 \in 0..(IdMod - 1)
  BY DEF TypeOK, HostType
<1>3. Current \in Transaction
  BY <1>1, <1>2 DEF Current, Transaction
<1>4. QED
  BY <1>3 DEF CurrentRequest, Request, Requests, TypeOK, HostType

\* The head and the tail of a queue have the type of its elements.
LEMMA QueueTyped ==
  ASSUME NEW S, NEW q \in Seq(S), q # <<>>
  PROVE  /\ Head(q) \in S
         /\ Tail(q) \in Seq(S)
         /\ Len(Tail(q)) = Len(q) - 1
BY SMTT(30)

\* Every variable of the exchange keeps its type, and no queue exceeds its
\* capacity: the interface queue, OUTQ, the endpoint queues, the backlog.
LEMMA TypeStep == TypeInv /\ [Next]_vars => TypeInv'
<1> SUFFICES ASSUME TypeOK, Control, [Next]_vars
             PROVE  TypeOK' /\ Control'
  BY DEF TypeInv
<1> USE IdModAssumption, CapsAssumption, BoundsAssumption, BacklogAssumption
<1> USE DEF TypeOK, NoFrame, EndpointCap
<1> DEFINE Goal == TypeOK' /\ Control'
<1>u. /\ UNCHANGED hostVars => HostType' /\ Control'
      /\ UNCHANGED tapVars => TapType'
      /\ UNCHANGED histVars => HistType'
      /\ UNCHANGED linkVars => LinkType'
      /\ UNCHANGED txVars => TxType'
      /\ UNCHANGED rxVars => RxType'
      /\ UNCHANGED portVars => PortType'
  BY Zenon DEF hostVars, tapVars, histVars, linkVars, txVars, rxVars, portVars,
         HostType, TapType, HistType, LinkType, TxType, RxType, PortType, Control
<1>1. CASE TapRead
  BY <1>u, <1>1 DEF TapRead, TapType
<1>2. CASE TapForward
  BY <1>u, <1>2 DEF TapForward, TapType
<1>3. CASE BeginTx
  <2>1. HostType' /\ Control' /\ TapType'
    BY <1>3 DEF BeginTx, TakeId, WrappingAdd, HostType, Control, TapType
  <2>2. QED
    BY <1>u, <1>3, <2>1 DEF BeginTx
<1>4. CASE BeginRx
  <2>1. HostType' /\ Control'
    BY <1>4 DEF BeginRx, TakeId, WrappingAdd, HostType, Control
  <2>2. QED
    BY <1>u, <1>4, <2>1 DEF BeginRx
<1>5. CASE SendPrimary
  <2>1. HostType' /\ Control'
    BY <1>5 DEF SendPrimary, Start, HostType, Control, Phases
  <2>2. LinkType'
    BY <1>5, CurrentTyped DEF SendPrimary, LinkType
  <2>3. QED
    BY <1>u, <1>5, <2>1, <2>2 DEF SendPrimary
<1>6. CASE SendBackup
  <2>1. HostType' /\ Control'
    BY <1>6 DEF SendBackup, StallTimer, HostType, Control, Phases
  <2>2. LinkType'
    BY <1>6, CurrentTyped DEF SendBackup, StallTimer, Control, LinkType
  <2>3. QED
    BY <1>u, <1>6, <2>1, <2>2 DEF SendBackup
<1>7. CASE BackupRejected
  <2>1. HostType' /\ Control'
    BY <1>7 DEF BackupRejected, Only, HostType, Control, Phases
  <2>2. QED
    BY <1>u, <1>7, <2>1 DEF BackupRejected
<1>8. ASSUME NEW s \in Sources, RequestFails(s) PROVE Goal
  <2>1. HostType' /\ Control'
    BY <1>8 DEF RequestFails, FirstFailure, Complete, Awaited, Only,
       HostType, Control, Phases
  <2>2. LinkType'
    BY <1>8 DEF RequestFails, LinkType
  <2>3. QED
    BY <1>u, <1>8, <2>1, <2>2 DEF RequestFails
<1>9. ASSUME NEW s \in Sources, MatchTx(s) PROVE Goal
  <2>1. HostType' /\ Control'
    BY <1>9 DEF MatchTx, Complete, HostType, Control, Phases
  <2>2. HistType'
    BY <1>9 DEF MatchTx, HistType, HostType
  <2>3. LinkType'
    BY <1>9, QueueTyped DEF MatchTx, LinkType
  <2>4. QED
    BY <1>u, <1>9, <2>1, <2>2, <2>3 DEF MatchTx
<1>10. ASSUME NEW s \in Sources, MatchRx(s) PROVE Goal
  <2>1. HostType' /\ Control'
    BY <1>10 DEF MatchRx, Complete, HostType, Control, Phases
  <2>2. Head(down) \in Responses
    BY <1>10, QueueTyped DEF MatchRx, LinkType
  <2>3. HistType'
    <3>1. Head(down).frame \in 0..MaxRadio
      BY <2>2 DEF Responses
    <3>2. CASE Head(down).frame = NoFrame
      BY <1>10, <3>2 DEF MatchRx, HistType
    <3>3. CASE Head(down).frame # NoFrame
      <4>1. to_tap' = Append(to_tap, Head(down).frame) /\ acked' = acked
        BY <1>10, <3>3 DEF MatchRx
      <4>2. QED
        BY <3>1, <4>1 DEF HistType
    <3>4. QED
      BY <3>2, <3>3
  <2>4. LinkType'
    BY <1>10, QueueTyped DEF MatchRx, LinkType
  <2>5. QED
    BY <1>u, <1>10, <2>1, <2>2, <2>3, <2>4 DEF MatchRx
<1>11. ASSUME NEW s \in Sources, Mismatch(s) PROVE Goal
  <2>1. HostType' /\ Control'
    BY <1>11 DEF Mismatch, Complete, HostType, Control, Phases
  <2>2. LinkType'
    BY <1>11, QueueTyped DEF Mismatch, LinkType
  <2>3. QED
    BY <1>u, <1>11, <2>1, <2>2 DEF Mismatch
<1>d. DropSession => LinkType'
  <2>1. <<>> \in Seq(Requests) /\ Len(<<>>) <= UpCap
    BY CapsAssumption
  <2>2. QED
    BY <2>1, Zenon DEF DropSession, LinkType
<1>12. CASE RecoverSession
  <2>1. HostType' /\ Control' /\ TapType'
    BY <1>12 DEF RecoverSession, Recover, DropSession, HostType, Control,
       TapType, Phases
  <2>2. LinkType'
    BY <1>12, <1>d DEF RecoverSession
  <2>3. QED
    BY <1>u, <1>12, <2>1, <2>2 DEF RecoverSession, DropSession
<1>13. CASE StopSession
  <2>1. HostType' /\ Control' /\ TapType'
    BY <1>13 DEF StopSession, DropSession, HostType, Control, TapType, Phases
  <2>2. LinkType'
    BY <1>13, <1>d DEF StopSession
  <2>3. QED
    BY <1>u, <1>13, <2>1, <2>2 DEF StopSession, DropSession
<1>14. CASE NewSession
  <2>1. HostType' /\ Control'
    BY <1>14 DEF NewSession, HostType, Control
  <2>2. QED
    BY <1>u, <1>14, <2>1 DEF NewSession
<1>15. CASE DeliverTx
  <2>1. LinkType' /\ Head(up) \in Requests
    BY <1>15, QueueTyped DEF DeliverTx, LinkType
  <2>2. TxType'
    BY <1>15, <2>1 DEF DeliverTx, TxType
  <2>3. QED
    BY <1>u, <1>15, <2>1, <2>2 DEF DeliverTx
<1>16. CASE DeliverRx
  <2>1. LinkType' /\ Head(up) \in Requests
    BY <1>16, QueueTyped DEF DeliverRx, LinkType
  <2>2. RxType'
    BY <1>16, <2>1 DEF DeliverRx, RxType
  <2>3. QED
    BY <1>u, <1>16, <2>1, <2>2 DEF DeliverRx
<1>17. CASE LoseRequest
  <2>1. LinkType'
    BY <1>17, QueueTyped DEF LoseRequest, LinkType
  <2>2. QED
    BY <1>u, <1>17, <2>1 DEF LoseRequest
<1>18. CASE LoseResponse
  <2>1. LinkType'
    BY <1>18, QueueTyped DEF LoseResponse, LinkType
  <2>2. QED
    BY <1>u, <1>18, <2>1 DEF LoseResponse
<1>19. CASE DiscardResponse
  <2>1. LinkType'
    BY <1>19, QueueTyped DEF DiscardResponse, LinkType
  <2>2. QED
    BY <1>u, <1>19, <2>1 DEF DiscardResponse
<1>20. CASE TxReceive
  <2>1. TxType' /\ Head(tx_queue) \in Requests
    BY <1>20, QueueTyped DEF TxReceive, TxType
  <2>2. PortType'
    BY <1>20, <2>1, <1>u DEF TxReceive, Submit, Requests, PortType
  <2>3. QED
    BY <1>u, <1>20, <2>1, <2>2 DEF TxReceive
<1>21. CASE TxDriverDone
  <2>1. TxType'
    BY <1>21 DEF TxDriverDone, TxType, Requests
  <2>2. PortType'
    BY <1>21 DEF TxDriverDone, Acknowledge, PortType
  <2>3. QED
    BY <1>u, <1>21, <2>1, <2>2 DEF TxDriverDone
<1>22. CASE TxRespond
  <2>1. NoRequest \in Requests
    BY BoundsAssumption DEF NoRequest, Request, Requests, NoTransaction,
       Transaction
  <2>2. Response("tx", tx_request.transaction, NoFrame) \in Responses
    BY BoundsAssumption DEF TxType, Requests, Response, Responses
  <2>3. LinkType'
    BY <1>22, <2>2 DEF TxRespond, LinkType
  <2>4. TxType'
    BY <1>22, <2>1 DEF TxRespond, TxType
  <2>5. QED
    BY <1>u, <1>22, <2>1, <2>2, <2>3, <2>4 DEF TxRespond
<1>23. CASE RxReceive
  <2>1. Head(rx_queue) \in Requests
    BY <1>23, QueueTyped DEF RxReceive, RxType
  <2>2. RxType'
    BY <1>23, <2>1, QueueTyped DEF RxReceive, RxType, Requests
  <2>3. QED
    BY <1>u, <1>23, <2>1, <2>2 DEF RxReceive
<1>r. ASSUME NEW response \in Responses, response.ep = "rx", RxReply(response)
      PROVE  LinkType' /\ (pulled' \in Seq(Transaction) => RxType')
  <2>1. LinkType'
    BY <1>r DEF RxReply, LinkType
  <2>2. NoTransaction \in Transaction
    BY DEF NoTransaction, Transaction
  <2>3. QED
    BY <1>r, <2>1, <2>2 DEF RxReply, RxType
<1>24. CASE RxServeCached
  <2>1. LinkType' /\ RxType'
    BY <1>24, <1>r DEF RxServeCached, RxType
  <2>2. QED
    BY <1>u, <1>24, <2>1 DEF RxServeCached, RxReply
<1>25. CASE RxServeFrame
  <2>1. PortType' /\ Head(backlog) \in 0..MaxRadio
    BY <1>25, QueueTyped, SMTT(30) DEF RxServeFrame, Pull, PortType
  <2>2. /\ Response("rx", rx_request, Head(backlog)) \in Responses
        /\ Response("rx", rx_request, Head(backlog)).ep = "rx"
    BY <2>1 DEF RxType, Response, Responses
  <2>3. pulled' \in Seq(Transaction)
    BY <1>25 DEF RxServeFrame, RxType
  <2>4. LinkType' /\ RxType'
    BY <1>25, <1>r, <2>2, <2>3 DEF RxServeFrame
  <2>5. QED
    BY <1>u, <1>25, <2>1, <2>2, <2>3, <2>4 DEF RxServeFrame, RxReply
<1>26. CASE RxServeEmpty
  <2>1. /\ Response("rx", rx_request, NoFrame) \in Responses
        /\ Response("rx", rx_request, NoFrame).ep = "rx"
    BY BoundsAssumption DEF RxType, Response, Responses
  <2>2. LinkType' /\ RxType'
    BY <1>26, <1>r, <2>1 DEF RxServeEmpty, RxType
  <2>3. QED
    BY <1>u, <1>26, <2>1, <2>2 DEF RxServeEmpty, RxReply
<1>27. CASE RadioAccepts
  <2>1. PortType'
    BY <1>27 DEF RadioAccepts, Accept, PortType
  <2>2. QED
    BY <1>u, <1>27, <2>1 DEF RadioAccepts
<1>28. CASE RadioDelivers
  <2>1. PortType'
    BY <1>28 DEF RadioDelivers, Arrive, PortType
  <2>2. QED
    BY <1>u, <1>28, <2>1 DEF RadioDelivers
<1>29. CASE UNCHANGED vars
  BY <1>u, <1>29 DEF vars
<1>30. QED
  BY <1>1, <1>2, <1>3, <1>4, <1>5, <1>6, <1>7, <1>8, <1>9, <1>10, <1>11,
     <1>12, <1>13, <1>14, <1>15, <1>16, <1>17, <1>18, <1>19, <1>20, <1>21,
     <1>22, <1>23, <1>24, <1>25, <1>26, <1>27, <1>28, <1>29
  DEF Next, Host, Link, Firmware

\* The exchange, the queues and the servers start well typed.
LEMMA TypeInit == Init => TypeInv
<1> SUFFICES ASSUME Init PROVE TypeInv
  OBVIOUS
<1> USE IdModAssumption, CapsAssumption, BoundsAssumption, BacklogAssumption
<1> USE DEF Init, NoFrame, EndpointCap
<1>1. NoTransaction \in Transaction
  BY DEF NoTransaction, Transaction
<1>2. /\ NoRequest \in Requests
      /\ Response("rx", NoTransaction, NoFrame) \in Responses
      /\ Response("rx", NoTransaction, NoFrame).ep = "rx"
  BY <1>1 DEF NoRequest, Request, Requests, Response, Responses
<1>0. wrapped \in BOOLEAN
  BY Zenon
<1>3. HostType /\ TapType /\ Control
  BY <1>0 DEF HostType, TapType, Control, Phases
<1>4. HistType /\ LinkType
  BY DEF HistType, LinkType
<1>5. TxType /\ RxType
  BY <1>1, <1>2 DEF TxType, RxType
<1>6. PortType
  BY DEF PortType, PortInit
<1>7. QED
  BY <1>3, <1>4, <1>5, <1>6 DEF TypeInv, TypeOK

\* The exchange keeps its types and its queues within their capacities.
THEOREM TypeCorrect == Spec => []TypeOK
<1>1. Spec => []TypeInv
  BY TypeInit, TypeStep, PTL DEF Spec
<1>2. TypeInv => TypeOK
  BY DEF TypeInv
<1>3. QED
  BY <1>1, <1>2, PTL

-----------------------------------------------------------------------------
(* Queues, and the path of a TX request.                                   *)

\* How the elements of a queue move when its head is taken.
LEMMA TailIndex ==
  ASSUME NEW S, NEW q \in Seq(S), q # <<>>
  PROVE  /\ Head(q) = q[1] /\ 1 \in 1..Len(q)
         /\ \A i \in 1..Len(Tail(q)) : Tail(q)[i] = q[i + 1] /\ i + 1 \in 1..Len(q)
OBVIOUS

\* Where the elements of a queue are after an element has been appended.
LEMMA AppendIndex ==
  ASSUME NEW S, NEW q \in Seq(S), NEW x \in S
  PROVE  /\ Len(Append(q, x)) = Len(q) + 1
         /\ Append(q, x)[Len(q) + 1] = x
         /\ \A i \in 1..Len(q) : Append(q, x)[i] = q[i]
OBVIOUS

\* An element of a queue that was appended to is the new one or an old one.
LEMMA AppendElement ==
  ASSUME NEW S, NEW q \in Seq(S), NEW x \in S,
         NEW i \in 1..Len(Append(q, x))
  PROVE  Append(q, x)[i] = x \/ \E j \in 1..Len(q) : Append(q, x)[i] = q[j]
OBVIOUS

\* The RX messages of a queue when its head is taken.
LEMMA RxTail ==
  ASSUME NEW S, NEW q \in Seq(S), q # <<>>, NEW t
  PROVE  /\ RxIn(Tail(q)) \subseteq RxIn(q)
         /\ IsRx(Head(q)) => Head(q).transaction \in RxIn(q)
         /\ InOrder(q, t) => InOrder(Tail(q), t)
         /\ InOrder(q, t) /\ IsRx(Head(q)) /\ Head(q).transaction = t
              => RxIn(Tail(q)) \subseteq {t}
<1> USE DEF RxIn, InOrder
<1>1. /\ Head(q) = q[1] /\ 1 \in 1..Len(q) /\ Len(q) \in Nat
      /\ \A i \in 1..Len(Tail(q)) : Tail(q)[i] = q[i + 1] /\ i + 1 \in 1..Len(q)
      /\ Len(Tail(q)) \in Nat
  BY TailIndex
<1>2. RxIn(Tail(q)) \subseteq RxIn(q) BY <1>1
<1>3. IsRx(Head(q)) => Head(q).transaction \in RxIn(q) BY <1>1
<1>4. ASSUME InOrder(q, t), NEW i \in 1..Len(Tail(q)), NEW j \in 1..Len(Tail(q)),
             i < j, IsRx(Tail(q)[i]), IsRx(Tail(q)[j]), Tail(q)[i].transaction = t
      PROVE  Tail(q)[j].transaction = t
  BY <1>1, <1>4
<1>5. ASSUME InOrder(q, t), IsRx(Head(q)), Head(q).transaction = t,
             NEW i \in 1..Len(Tail(q)), IsRx(Tail(q)[i])
      PROVE  Tail(q)[i].transaction = t
  <2>1. 1 < i + 1 OBVIOUS
  <2>q. QED BY <1>1, <1>5, <2>1
<1>q. QED BY <1>2, <1>3, <1>4, <1>5

\* The RX messages of a queue when one message is appended.
LEMMA RxAppend ==
  ASSUME NEW S, NEW q \in Seq(S), NEW x \in S, NEW t
  PROVE  /\ ~IsRx(x) => RxIn(Append(q, x)) \subseteq RxIn(q)
         /\ RxIn(Append(q, x)) \subseteq RxIn(q) \cup {x.transaction}
         /\ InOrder(q, t) /\ (IsRx(x) => x.transaction = t \/ t \notin RxIn(q))
              => InOrder(Append(q, x), t)
<1> USE DEF RxIn, InOrder
<1>1. /\ Len(Append(q, x)) = Len(q) + 1 /\ Append(q, x)[Len(q) + 1] = x
      /\ \A i \in 1..Len(q) : Append(q, x)[i] = q[i]
      /\ Len(q) \in Nat
  BY AppendIndex
<1>2. \A i \in 1..Len(Append(q, x)) : i \in 1..Len(q) \/ i = Len(q) + 1 BY <1>1
<1>3. ~IsRx(x) => RxIn(Append(q, x)) \subseteq RxIn(q) BY <1>1, <1>2
<1>4. RxIn(Append(q, x)) \subseteq RxIn(q) \cup {x.transaction} BY <1>1, <1>2
<1>5. ASSUME InOrder(q, t), IsRx(x) => x.transaction = t \/ t \notin RxIn(q),
             NEW i \in 1..Len(Append(q, x)), NEW j \in 1..Len(Append(q, x)),
             i < j, IsRx(Append(q, x)[i]), IsRx(Append(q, x)[j]),
             Append(q, x)[i].transaction = t
      PROVE  Append(q, x)[j].transaction = t
  <2>1. i \in 1..Len(q) /\ Append(q, x)[i] = q[i] BY <1>1, <1>2, <1>5
  <2>2. t \in RxIn(q) BY <1>5, <2>1
  <2>q. QED BY <1>1, <1>2, <1>5, <2>1, <2>2
<1>q. QED BY <1>3, <1>4, <1>5

\* A queue without messages of t is in order.
LEMMA RxNone ==
  ASSUME NEW q, NEW t, t \notin RxIn(q)
  PROVE  InOrder(q, t)
BY DEF RxIn, InOrder

\* What follows what in a queue when its head is taken.
LEMMA FollowsTail ==
  ASSUME NEW S, NEW q \in Seq(S), q # <<>>
  PROVE  /\ \A t, u : Follows(Tail(q), t, u) => Follows(q, t, u)
         /\ IsRx(Head(q)) =>
              \A u \in RxIn(Tail(q)) : Follows(q, Head(q).transaction, u)
<1>1. /\ Head(q) = q[1] /\ 1 \in 1..Len(q) /\ Len(q) \in Nat
      /\ \A i \in 1..Len(Tail(q)) : Tail(q)[i] = q[i + 1] /\ i + 1 \in 1..Len(q)
      /\ Len(Tail(q)) \in Nat
  BY TailIndex
<1>2. ASSUME NEW t, NEW u, Follows(Tail(q), t, u) PROVE Follows(q, t, u)
  <2>1. PICK i, j \in 1..Len(Tail(q)) :
          /\ i < j /\ IsRx(Tail(q)[i]) /\ IsRx(Tail(q)[j])
          /\ Tail(q)[i].transaction = t /\ Tail(q)[j].transaction = u
    BY <1>2 DEF Follows
  <2>2. i + 1 < j + 1 BY <2>1
  <2>q. QED BY <1>1, <2>1, <2>2 DEF Follows
<1>3. ASSUME IsRx(Head(q)), NEW u \in RxIn(Tail(q))
      PROVE  Follows(q, Head(q).transaction, u)
  <2>1. PICK j \in 1..Len(Tail(q)) : IsRx(Tail(q)[j]) /\ Tail(q)[j].transaction = u
    BY DEF RxIn
  <2>2. 1 < j + 1 OBVIOUS
  <2>q. QED BY <1>1, <1>3, <2>1, <2>2 DEF Follows
<1>q. QED BY <1>2, <1>3

\* What follows what in a queue when a message is appended.
LEMMA FollowsAppend ==
  ASSUME NEW S, NEW q \in Seq(S), NEW x \in S, NEW t, NEW u,
         Follows(Append(q, x), t, u)
  PROVE  Follows(q, t, u) \/ (IsRx(x) /\ t \in RxIn(q) /\ u = x.transaction)
<1>1. /\ Len(Append(q, x)) = Len(q) + 1 /\ Append(q, x)[Len(q) + 1] = x
      /\ \A i \in 1..Len(q) : Append(q, x)[i] = q[i]
      /\ Len(q) \in Nat
  BY AppendIndex
<1>2. PICK i, j \in 1..Len(Append(q, x)) :
        /\ i < j /\ IsRx(Append(q, x)[i]) /\ IsRx(Append(q, x)[j])
        /\ Append(q, x)[i].transaction = t /\ Append(q, x)[j].transaction = u
  BY DEF Follows
<1>3. i \in 1..Len(q) /\ (j \in 1..Len(q) \/ j = Len(q) + 1) BY <1>1, <1>2
<1>4. t \in RxIn(q) BY <1>1, <1>2, <1>3 DEF RxIn
<1>5. CASE j \in 1..Len(q) BY <1>1, <1>2, <1>3, <1>5 DEF Follows
<1>6. CASE j = Len(q) + 1 BY <1>1, <1>2, <1>4, <1>6
<1>q. QED BY <1>3, <1>5, <1>6

\* A queue of small numbers is a queue of numbers.
LEMMA NumbersTyped ==
  ASSUME NEW n \in Nat, NEW q \in Seq(0..n)
  PROVE  q \in Seq(Nat)
<1>1. \A i \in 1..Len(q) : q[i] \in Nat OBVIOUS
<1>q. QED BY <1>1

\* A queue of one.
LEMMA OneElement ==
  ASSUME NEW S, NEW q \in Seq(S), q # <<>>, Len(q) <= 1
  PROVE  1..Len(q) = {1} /\ 1..Len(Tail(q)) = {} /\ Head(q) = q[1]
<1>1. 1 \in 1..Len(q) /\ Head(q) = q[1] BY TailIndex
<1>2. Len(q) \in Nat /\ Len(Tail(q)) = Len(q) - 1 OBVIOUS
<1>3. \A n \in Nat : 1 \in 1..n /\ n <= 1 => n = 1 OBVIOUS
<1>4. Len(q) = 1 BY <1>1, <1>2, <1>3, Zenon
<1>5. 1..1 = {1} /\ 1..0 = {} /\ 1 - 1 = 0 OBVIOUS
<1>q. QED BY <1>1, <1>2, <1>4, <1>5, Zenon

\* The frame numbers on the path are numbers.
LEMMA FrameTypes ==
  ASSUME TypeOK
  PROVE  /\ \A i \in 1..Len(up) : up[i] \in Requests /\ up[i].frame \in Nat
         /\ \A i \in 1..Len(tx_queue) :
              tx_queue[i] \in Requests /\ tx_queue[i].frame \in Nat
         /\ tx_request.frame \in Nat
         /\ \A i \in 1..Len(onAir) : onAir[i] \in Nat
         /\ held \in Nat /\ reader \in Nat /\ tap_queue \in Nat /\ tap_read \in Nat
         /\ Len(up) \in Nat /\ Len(tx_queue) \in Nat /\ Len(onAir) \in Nat
<1> USE BoundsAssumption DEF TypeOK
<1>1. \A r \in Requests : r.frame \in Nat
  BY DEF Requests
<1>2. \A i \in 1..Len(up) : up[i] \in Requests
  BY DEF LinkType
<1>3. \A i \in 1..Len(tx_queue) : tx_queue[i] \in Requests
  BY DEF TxType
<1>4. \A i \in 1..Len(onAir) : onAir[i] \in Nat
  BY DEF PortType
<1>5. Len(up) \in Nat /\ Len(tx_queue) \in Nat /\ Len(onAir) \in Nat
  BY DEF LinkType, TxType, PortType
<1>6. QED
  BY <1>1, <1>2, <1>3, <1>4, <1>5 DEF TxType, HostType, TapType

\* A frame newer than another is newer than all that the other is newer than.
LEMMA PathBelowMonotone ==
  ASSUME TypeOK, NEW a \in Nat, NEW b \in Nat, a <= b, PathBelow(a)
  PROVE  PathBelow(b)
<1>1. held < b /\ tx_request.frame < b
  BY FrameTypes DEF PathBelow
<1>2. \A i \in 1..Len(up) : up[i].frame < b
  BY FrameTypes DEF PathBelow
<1>3. \A i \in 1..Len(tx_queue) : tx_queue[i].frame < b
  BY FrameTypes DEF PathBelow
<1>4. AirBelow(b)
  BY FrameTypes DEF PathBelow, AirBelow
<1>5. QED
  BY <1>1, <1>2, <1>3, <1>4 DEF PathBelow

\* The state TxInv depends on: the TX path behind the host, and the host's
\* own transaction.
pathVars == <<up, tx_queue, tx_server, tx_request, last_completed, tx, txFrame,
              onAir>>

ownVars == <<pc, held, session, next_id>>

\* What holds of the path alone, and of the path and the host.
PathInv == ServerShape /\ OrderedUp /\ OrderedQueue /\ OrderedServer

HostInv == HostShape /\ OrderedHost

\* The invariant of the path depends on the variables of the path only.
LEMMA PathUnchanged == UNCHANGED pathVars /\ PathInv => PathInv'
<1> SUFFICES ASSUME UNCHANGED pathVars, PathInv PROVE PathInv' OBVIOUS
<1> USE DEF pathVars
<1>1. ServerShape' BY DEF PathInv, ServerShape, Occurs
<1>2. OrderedUp' /\ OrderedQueue' BY DEF PathInv, OrderedUp, OrderedQueue
<1>3. OrderedServer' BY DEF PathInv, OrderedServer
<1>q. QED BY <1>1, <1>2, <1>3 DEF PathInv

\* The host part depends on the path and on the transaction in progress only.
LEMMA HostUnchanged == UNCHANGED <<pathVars, ownVars>> /\ HostInv => HostInv'
<1> SUFFICES ASSUME UNCHANGED <<pathVars, ownVars>>, HostInv PROVE HostInv'
  OBVIOUS
<1> USE DEF pathVars, ownVars
<1>1. CurrentRequest' = CurrentRequest BY DEF CurrentRequest, Current, Request
<1>2. HostShape' BY DEF HostInv, HostShape, NoFrame
<1>3. OrderedHost' BY <1>1 DEF HostInv, OrderedHost
<1>q. QED BY <1>2, <1>3 DEF HostInv

\* Nothing is required of the host outside a TX transaction.
LEMMA HostOutside == pc' # "tx" /\ held' = NoFrame => HostInv'
BY DEF HostInv, HostShape, OrderedHost, NoFrame

\* The order of the TAP frames depends on the path, held and the TAP queue only.
LEMMA TapUnchanged ==
  UNCHANGED <<pathVars, held, tapVars>> /\ TapOrdered => TapOrdered'
BY DEF pathVars, tapVars, TapOrdered, PathBelow, AirBelow, NoFrame

\* A step that only forgets the transaction in progress and frames not yet
\* sent keeps the order of the TAP frames.
LEMMA TapForgets ==
  ASSUME TypeOK, TypeOK', TapOrdered, UNCHANGED <<pathVars, tap_read>>,
         held' = NoFrame,
         reader' \in {reader, NoFrame}, tap_queue' \in {tap_queue, NoFrame}
  PROVE  TapOrdered'
<1>0. held \in Nat /\ reader \in Nat /\ tap_queue \in Nat /\ tap_read \in Nat
  BY FrameTypes
<1>1. ASSUME NEW b \in Nat, PathBelow(b) PROVE PathBelow(b)'
  <2>1. held' < b
    BY <1>0, <1>1 DEF PathBelow, NoFrame
  <2>2. QED
    BY <1>1, <2>1, Zenon DEF PathBelow, AirBelow, pathVars
<1>2. PathBelow(tap_read + 1)'
  <2>1. tap_read + 1 \in Nat /\ tap_read' = tap_read
    BY <1>0
  <2>2. QED
    BY <1>1, <2>1, Zenon DEF TapOrdered, PathBelow, AirBelow
<1>3. tap_queue' # NoFrame => PathBelow(tap_queue)'
  BY <1>0, <1>1, Zenon DEF TapOrdered, PathBelow, AirBelow
<1>4. reader' # NoFrame => PathBelow(reader)'
  BY <1>0, <1>1, Zenon DEF TapOrdered, PathBelow, AirBelow
<1>5. /\ reader' # NoFrame => tap_queue' < reader'
      /\ tap_queue' <= tap_read' /\ reader' <= tap_read'
  BY <1>0 DEF TapOrdered, NoFrame
<1>6. QED
  BY <1>2, <1>3, <1>4, <1>5, Zenon DEF TapOrdered

\* TxInv holds before any frame has been read.
LEMMA TxInit == Init => TxInv
<1> SUFFICES ASSUME Init PROVE TxInv
  OBVIOUS
<1>1. /\ Len(up) = 0 /\ Len(tx_queue) = 0 /\ Len(onAir) = 0 /\ 1..0 = {}
      /\ held = 0 /\ tx_request.frame = 0 /\ reader = 0 /\ tap_queue = 0 /\ tap_read = 0
      /\ pc = "top" /\ tx_server = "recv" /\ tx = "idle"
  BY SMTT(30) DEF Init, PortInit, NoFrame, NoRequest, Request
<1>2. HostShape /\ OrderedHost
  BY <1>1, Zenon DEF HostShape, OrderedHost, NoFrame
<1>3. TapOrdered
  <2>1. PathBelow(1)
    BY <1>1 DEF PathBelow, AirBelow
  <2>2. QED
    BY <1>1, <2>1 DEF TapOrdered, NoFrame
<1>4. ServerShape /\ OrderedUp /\ OrderedQueue /\ OrderedServer
  BY <1>1 DEF ServerShape, OrderedUp, OrderedQueue, OrderedServer
<1>5. AirFirst /\ CopiesKnown /\ TxOnceInOrder
  BY <1>1 DEF AirFirst, NotBehind, CopiesKnown, Known, TxOnceInOrder, Ascending
<1>6. QED
  BY <1>2, <1>3, <1>4, <1>5 DEF TxInv, PathInOrder

\* A step that leaves the path, the host's transaction and the TAP side alone.
LEMMA TxUnchanged ==
  ASSUME PathInv, HostInv, TapOrdered, UNCHANGED <<pathVars, ownVars, tapVars>>
  PROVE  PathInv' /\ HostInv' /\ TapOrdered'
BY PathUnchanged, HostUnchanged, TapUnchanged DEF ownVars
=============================================================================
