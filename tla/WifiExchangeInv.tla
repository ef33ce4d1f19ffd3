--------------------------- MODULE WifiExchangeInv --------------------------
(***************************************************************************)
(* The inductive invariants behind TxOnceInOrder, AckedIsOnAirUntilWrap,   *)
(* RxOnceInOrder and RxLossPerSession.                                     *)
(*                                                                         *)
(* A TX request travels host -> up -> tx_queue -> tx_request.  Several     *)
(* copies of one request may be under way, but the path is FIFO, so they   *)
(* reach the server in frame order (Ordered...).  A copy of a frame that is*)
(* already on the air is recognised because its transaction is still the   *)
(* last completed one (CopiesKnown): that of a later frame can replace it  *)
(* only after the last copy has been consumed.                             *)
(***************************************************************************)
EXTENDS WifiExchange

IsTx(r) == r.ep = "tx"

\* Request a may be ahead of request b on the path.
Before(a, b) ==
  /\ a.frame <= b.frame
  /\ a.frame = b.frame => a.transaction = b.transaction

\* Every frame on the air, or anywhere on the path, is older than b.
AirBelow(b) == \A i \in 1..Len(onAir) : onAir[i] < b

PathBelow(b) ==
  /\ held < b
  /\ \A i \in 1..Len(up) : up[i].frame < b
  /\ \A i \in 1..Len(tx_queue) : tx_queue[i].frame < b
  /\ tx_request.frame < b
  /\ AirBelow(b)

\* A request is awaited only inside a transaction, and a session ends only
\* if another one may follow.
Control ==
  /\ phase # "idle" => pc \in {"tx", "rx"}
  /\ pc = "down" => session < MaxSessions

HostShape == pc = "tx" <=> held # NoFrame

\* The TX server waits for the driver exactly while its frame is with it.
ServerShape ==
  /\ \A i \in 1..Len(tx_queue) : IsTx(tx_queue[i])
  /\ tx_server = "driver" <=> tx # "idle"
  /\ tx_server = "driver" => txFrame = tx_request.frame
  /\ tx = "accepted" => Occurs(tx_request.frame, onAir)

\* Frames not yet in a transaction are newer than all that are or were.
TapOrdered ==
  /\ PathBelow(tap_read + 1)
  /\ tap_queue # NoFrame => PathBelow(tap_queue)
  /\ reader # NoFrame => PathBelow(reader) /\ tap_queue < reader
  /\ tap_queue <= tap_read /\ reader <= tap_read

OrderedUp ==
  \A i, j \in 1..Len(up) :
    i < j /\ IsTx(up[i]) /\ IsTx(up[j]) => Before(up[i], up[j])

OrderedQueue ==
  \A i \in 1..Len(tx_queue), j \in 1..Len(up) :
    IsTx(up[j]) => Before(tx_queue[i], up[j])

OrderedServer ==
  tx_server # "recv" =>
    /\ \A i \in 1..Len(tx_queue) : Before(tx_request, tx_queue[i])
    /\ \A j \in 1..Len(up) : IsTx(up[j]) => Before(tx_request, up[j])

OrderedHost ==
  pc = "tx" =>
    /\ \A j \in 1..Len(up) : IsTx(up[j]) => Before(up[j], CurrentRequest)
    /\ \A i \in 1..Len(tx_queue) : Before(tx_queue[i], CurrentRequest)
    /\ tx_server # "recv" => Before(tx_request, CurrentRequest)

\* The requests that are still to reach the server: on the path, or with the
\* host, which may send its own again.
Pending ==
  {up[i] : i \in {j \in 1..Len(up) : IsTx(up[j])}}
    \cup {tx_queue[i] : i \in 1..Len(tx_queue)}
    \cup (IF pc = "tx" THEN {CurrentRequest} ELSE {})

\* No frame on the air is newer than that of request r.
NotBehind(r) == \A i \in 1..Len(onAir) : onAir[i] <= r.frame

\* Whatever reaches the driver is not older than what is on the air.
AirFirst ==
  /\ \A r \in Pending : NotBehind(r)
  /\ tx_server # "recv" => NotBehind(tx_request)
  /\ \A i, j \in 1..Len(onAir) : i < j => onAir[i] <= onAir[j]

\* If the frame of request r is on the air, r will be recognised as a copy.
Known(r) ==
  \A i \in 1..Len(onAir) :
    onAir[i] = r.frame =>
      \/ r.transaction = last_completed
      \/ tx = "accepted" /\ tx_request.frame = r.frame

\* No frame on the air will be transmitted again: all its copies are known,
\* and the frame the driver has not accepted yet is newer than the air.
CopiesKnown ==
  /\ \A r \in Pending : Known(r)
  /\ tx = "submitted" => AirBelow(tx_request.frame)

\* The inductive form of TypeOK.
TypeInv == TypeOK /\ Control

\* The FIFO path keeps the order of the frames, even if the firmware restarts.
PathInOrder ==
  /\ HostShape
  /\ ServerShape
  /\ TapOrdered
  /\ OrderedUp
  /\ OrderedQueue
  /\ OrderedServer
  /\ OrderedHost
  /\ AirFirst

\* The inductive invariant behind TxOnceInOrder: copies of a request stay in
\* frame order on their way to wifi_tx_server, and one whose frame is on the
\* air still equals last_completed when it gets there.
TxInv == PathInOrder /\ CopiesKnown /\ TxOnceInOrder

-----------------------------------------------------------------------------
(* Why an acknowledged frame is on the air.  While ids are not reused, the *)
(* transaction of a new frame is met nowhere, and whatever bears it later  *)
(* (a copy of the request, last_completed, a response) is about that frame.*)

\* Transaction t has been handed out.
Used(t) ==
  \/ t.session < session
  \/ t.session = session /\ t.id < next_id

\* The TX requests under way, and the transactions TX responses report done.
Copies ==
  {up[i] : i \in {j \in 1..Len(up) : IsTx(up[j])}}
    \cup {tx_queue[i] : i \in 1..Len(tx_queue)}
    \cup (IF tx_server = "recv" THEN {} ELSE {tx_request})

Answers == {down[i].transaction : i \in {j \in 1..Len(down) : down[j].ep = "tx"}}

UsedOnly ==
  /\ pc = "tx" => next_id > 0
  /\ \A r \in Copies : Used(r.transaction)
  /\ \A t \in Answers : Used(t)
  /\ Used(last_completed)

\* Copies of the request in progress carry the frame in progress.
CopiesAgree == \A r \in Copies : r.transaction = Current => r.frame = held

\* Something reports the transaction in progress as done.
Reported ==
  \/ last_completed = Current
  \/ tx_server = "respond" /\ tx_request.transaction = Current
  \/ Current \in Answers

InProgress == pc = "tx" => CopiesAgree /\ (Reported => Occurs(held, onAir))

\* The inductive invariant behind AckedIsOnAirUntilWrap: until an id is used
\* twice, whatever reports the host's TX transaction as done, last_completed
\* included, is about a frame the radio driver has accepted.
AckInv == wrapped \/ (UsedOnly /\ InProgress /\ AckedIsOnAir)

-----------------------------------------------------------------------------
(* Why a received frame reaches the TAP interface once.  An RX request     *)
(* travels host -> up -> rx_queue -> rx_request, its answer stays in the   *)
(* cache and travels down.  The whole round is FIFO: when the host matches *)
(* a poll, everything under way belongs to that poll, and when it begins   *)
(* the next one, nothing bears the new transaction.  This does not depend  *)
(* on ids being fresh, only on three of them in a row being distinct.      *)

IsRx(r) == r.ep = "rx"

\* The transactions of the RX messages in queue q.
RxIn(q) == {q[i].transaction : i \in {j \in 1..Len(q) : IsRx(q[j])}}

\* In queue q only messages of transaction t follow one of transaction t.
InOrder(q, t) ==
  \A i, j \in 1..Len(q) :
    i < j /\ IsRx(q[i]) /\ IsRx(q[j]) /\ q[i].transaction = t => q[j].transaction = t

Queued == {rx_queue[i].transaction : i \in 1..Len(rx_queue)}

Served == IF rx_server = "serve" THEN {rx_request} ELSE {}

\* The transactions of all polls and answers under way.
Polls ==
  RxIn(up) \cup Queued \cup Served \cup RxIn(down)
    \cup {cached_response.transaction}

\* What is left of earlier polls: those of this session are one id back, two
\* when a TX transaction has come in between.
PollOld(t) ==
  /\ t.session <= session
  /\ t.session = session /\ pc = "top" => WrappingAdd(t.id) = next_id
  /\ t.session = session /\ pc \in {"tx", "poll"} =>
       WrappingAdd(WrappingAdd(t.id)) = next_id

PollsOld == \A t \in Polls : PollOld(t)

\* During a poll: what comes after something of this poll is of this poll.  The
\* cache may have been lost by a restart.
PollsInOrder ==
  pc = "rx" =>
    /\ InOrder(up, Current)
    /\ Current \in Queued => RxIn(up) \subseteq {Current}
    /\ Current \in Served => Queued \cup RxIn(up) \subseteq {Current}
    /\ Current \in RxIn(down) \cup {cached_response.transaction} =>
         Served \cup Queued \cup RxIn(up) \subseteq {Current}
    /\ Current \in RxIn(down) =>
         cached_response.transaction \in {Current, NoTransaction}
    /\ InOrder(down, Current)

TapBelow(b) == \A i \in 1..Len(to_tap) : to_tap[i] < b

\* An answer to the poll in progress holds no frame the TAP interface has had.
AnswersNew ==
  pc = "rx" =>
    /\ \A i \in 1..Len(down) :
         IsRx(down[i]) /\ down[i].transaction = Current /\ down[i].frame # NoFrame
           => TapBelow(down[i].frame)
    /\ cached_response.transaction = Current /\ cached_response.frame # NoFrame
         => TapBelow(cached_response.frame)

\* Every answer and every frame passed to the TAP interface is older than b.
AnswersBelow(b) ==
  /\ TapBelow(b)
  /\ cached_response.frame < b
  /\ \A i \in 1..Len(down) : IsRx(down[i]) => down[i].frame < b

\* Frames still in the firmware are newer than those, and in order.
BacklogNew ==
  /\ AnswersBelow(received + 1)
  /\ \A k \in 1..Len(backlog) : AnswersBelow(backlog[k]) /\ backlog[k] <= received
  /\ Ascending(backlog)

\* The inductive invariant behind RxOnceInOrder.
RxInv ==
  /\ PollsOld /\ PollsInOrder
  /\ AnswersNew /\ BacklogNew
  /\ RxOnceInOrder

-----------------------------------------------------------------------------
(* Why a session loses at most one received frame.  A frame is taken by the*)
(* first copy of a poll and stays in the cache until a later poll reaches  *)
(* the server.  The host polls again only when it has matched the last     *)
(* poll, so a later poll of the same session means that the frame arrived. *)

\* The poll the host is making, the polls on their way to the server or in
\* its hands, and all of these.
HostPoll == IF pc = "rx" THEN {Current} ELSE {}

Waiting == Served \cup Queued \cup RxIn(up)

Active == Waiting \cup HostPoll

\* In queue q, an RX message of transaction u follows one of transaction t.
Follows(q, t, u) ==
  \E i, j \in 1..Len(q) :
    /\ i < j /\ IsRx(q[i]) /\ IsRx(q[j])
    /\ q[i].transaction = t /\ q[j].transaction = u

\* Poll t reaches the server before poll u.
Precedes(t, u) ==
  \/ t \in Served /\ u \in Queued \cup RxIn(up) \cup HostPoll
  \/ t \in Queued /\ u \in RxIn(up) \cup HostPoll
  \/ t \in RxIn(up) /\ u \in HostPoll
  \/ Follows(up, t, u)

\* The server meets the sessions in their order.
SessionsInOrder ==
  /\ \A t \in Active : cached_response.transaction.session <= t.session
  /\ \A t, u \in Active : Precedes(t, u) => t.session <= u.session

\* Behind a poll the server has not answered there are only copies of it.
UnansweredIsLast ==
  \A t, u \in Active :
    Precedes(t, u) /\ t # cached_response.transaction /\ t.session = u.session
      => u = t

Between == pc \in {"top", "tx", "poll"}

\* Between two polls, copies of the last one are left, and it is answered.
AllAnswered ==
  Between =>
    \A t \in Waiting : t.session = session => t = cached_response.transaction

\* Between two polls the session has lost nothing.
AllDelivered ==
  Between =>
    \A i \in 1..Len(pulled) : pulled[i].session = session => Occurs(i, to_tap)

\* A frame that has not arrived, and that a poll of its session can still
\* fetch, is the one in the cache, and only copies of its poll are left.
UndeliveredIsCached ==
  \A i \in 1..Len(pulled), t \in Active :
    ~Occurs(i, to_tap) /\ t.session = pulled[i].session =>
      t = pulled[i] /\ cached_response.transaction = t /\ cached_response.frame = i

\* The answers to the poll in progress are the cached one.
AnswersAreCached ==
  pc = "rx" =>
    \A i \in 1..Len(down) :
      IsRx(down[i]) /\ down[i].transaction = Current =>
        /\ cached_response.transaction = Current
        /\ down[i].frame = cached_response.frame

\* The frames are taken in the order in which they were received.
PulledInOrder ==
  /\ \A k \in 1..Len(backlog) : backlog[k] = Len(pulled) + k
  /\ received = Len(pulled) + Len(backlog)
  /\ \A i \in 1..Len(pulled) : pulled[i].session <= session

\* The inductive invariant behind RxLossPerSession: a frame that has not
\* arrived is replaced in the cache only when no poll of its session is left,
\* so its session takes no other frame.
LossInv ==
  /\ RxInv
  /\ SessionsInOrder /\ UnansweredIsLast /\ AllAnswered
  /\ AllDelivered /\ UndeliveredIsCached /\ AnswersAreCached /\ PulledInOrder
  /\ RxLossPerSession
=============================================================================
