-------------------------- MODULE WifiExchangeLoss --------------------------
(***************************************************************************)
(* Proof that a session loses at most one received frame.                  *)
(***************************************************************************)
EXTENDS WifiExchangeRx

-----------------------------------------------------------------------------
(* The polls on their way to the server.                                   *)

StreamInv == SessionsInOrder /\ UnansweredIsLast /\ AllAnswered

\* Whatever precedes or is preceded is active, and active polls have sessions.
LEMMA StreamTypes ==
  ASSUME TypeOK
  PROVE  /\ session \in Nat /\ cached_response.transaction.session \in Nat
         /\ \A t \in Active : t.session \in Nat
         /\ \A t, u : Precedes(t, u) => t \in Waiting /\ u \in Active
         /\ \A t \in HostPoll : t = Current /\ t.session = session /\ pc = "rx"
<1>1. /\ session \in Nat
      /\ \A t \in Polls : t.session \in Nat
  BY PollTypes
<1>2. \A t \in HostPoll : t = Current /\ t.session = session /\ pc = "rx"
  BY DEF HostPoll, Current
<1>3. cached_response.transaction \in Polls /\ Waiting \subseteq Polls
  BY DEF Polls, Waiting
<1>4. \A t, u : Precedes(t, u) => t \in Waiting /\ u \in Active
  BY DEF Precedes, Follows, RxIn, Waiting, Active
<1>q. QED BY <1>1, <1>2, <1>3, <1>4 DEF Active

\* Polls move along, or the one in progress is sent.
LEMMA StreamKept ==
  ASSUME TypeOK, StreamInv, UNCHANGED <<turnVars, cached_response>>,
         Waiting' \subseteq Active,
         \A t, u : Precedes(t, u)' => Precedes(t, u) \/ (t \in HostPoll /\ u \in HostPoll)
  PROVE  StreamInv' /\ Active' \subseteq Active
<1> USE StreamTypes DEF turnVars
<1>1. HostPoll' = HostPoll BY DEF HostPoll, Current
<1>2. Active' \subseteq Active BY <1>1 DEF Active
<1>3. SessionsInOrder' BY <1>2 DEF StreamInv, SessionsInOrder
<1>4. UnansweredIsLast' BY <1>2 DEF StreamInv, UnansweredIsLast
<1>5. AllAnswered'
  <2>1. Between' => Between /\ Waiting' \subseteq Waiting
    BY DEF Between, Active
  <2>q. QED BY <2>1 DEF StreamInv, AllAnswered
<1>q. QED BY <1>2, <1>3, <1>4, <1>5 DEF StreamInv

\* Steps that concern no poll.
LEMMA StreamUnchanged ==
  ASSUME TypeOK, StreamInv, UNCHANGED <<turnVars, serverVars, up>>
  PROVE  StreamInv' /\ Active' = Active
<1> USE DEF turnVars, serverVars
<1>1. Served' = Served /\ Queued' = Queued /\ HostPoll' = HostPoll /\ RxIn(up') = RxIn(up)
  BY DEF Served, Queued, HostPoll, Current
<1>2. Waiting' = Waiting /\ Active' = Active BY <1>1 DEF Waiting, Active
<1>3. \A t, u : Precedes(t, u)' => Precedes(t, u) BY <1>1 DEF Precedes
<1>4. Waiting' \subseteq Active BY <1>2 DEF Active
<1>q. QED BY <1>2, <1>3, <1>4, StreamKept

\* The host is in no poll after the step.
LEMMA StreamLeave ==
  ASSUME TypeOK, StreamInv, UNCHANGED serverVars, up' \in {up, <<>>}, pc' # "rx",
         Between' =>
           \A t \in Waiting : t.session = session' => t = cached_response.transaction
  PROVE  StreamInv' /\ Active' \subseteq Active
<1> USE DEF serverVars
<1>1. Served' = Served /\ Queued' = Queued /\ RxIn(up') \subseteq RxIn(up)
  BY DEF Served, Queued, RxIn
<1>2. HostPoll' = {} BY DEF HostPoll
<1>3. Waiting' \subseteq Waiting /\ Active' = Waiting' BY <1>1, <1>2 DEF Waiting, Active
<1>4. \A t, u : Follows(up', t, u) => Follows(up, t, u) BY DEF Follows
<1>5. \A t, u : Precedes(t, u)' => Precedes(t, u) BY <1>1, <1>2, <1>4 DEF Precedes
<1>6. Active' \subseteq Active BY <1>3 DEF Active
<1>7. SessionsInOrder' BY <1>5, <1>6 DEF StreamInv, SessionsInOrder
<1>8. UnansweredIsLast' BY <1>5, <1>6 DEF StreamInv, UnansweredIsLast
<1>9. AllAnswered' BY <1>3 DEF AllAnswered
<1>q. QED BY <1>6, <1>7, <1>8, <1>9 DEF StreamInv

\* The host begins a poll: those left of its session are answered.
LEMMA StreamBegin ==
  ASSUME TypeOK, TypeOK', StreamInv, PollsOld, UNCHANGED <<session, serverVars, up>>,
         Between, pc' = "rx"
  PROVE  StreamInv'
<1> USE StreamTypes DEF serverVars
<1>1. Served' = Served /\ Queued' = Queued BY DEF Served, Queued
<1>2. Waiting' = Waiting /\ HostPoll = {} BY <1>1 DEF Waiting, HostPoll, Between
<1>3. Active' = Waiting \cup {Current'} /\ HostPoll' = {Current'} /\ Active = Waiting
  BY <1>2 DEF Active, HostPoll
<1>4. Current'.session = session BY DEF Current
<1>5. \A t, u : Precedes(t, u)' => Precedes(t, u) \/ (t \in Waiting /\ u = Current')
  BY <1>1, <1>3 DEF Precedes, Waiting
<1>6. /\ \A t \in Waiting : t.session <= session
      /\ cached_response.transaction.session <= session
  BY DEF PollsOld, PollOld, Polls, Waiting
<1>7. SessionsInOrder' BY <1>3, <1>4, <1>5, <1>6 DEF StreamInv, SessionsInOrder
<1>8. UnansweredIsLast'
  <2> SUFFICES ASSUME NEW t \in Active', NEW u \in Active', Precedes(t, u)',
                      t # cached_response.transaction, t.session = u.session
               PROVE  u = t
    BY DEF UnansweredIsLast
  <2>1. CASE Precedes(t, u)
    BY <2>1, <1>3 DEF StreamInv, UnansweredIsLast
  <2>2. CASE t \in Waiting /\ u = Current'
    BY <2>2, <1>4 DEF StreamInv, AllAnswered
  <2>q. QED BY <1>5, <2>1, <2>2
<1>9. AllAnswered' BY DEF AllAnswered, Between
<1>q. QED BY <1>7, <1>8, <1>9 DEF StreamInv

\* The server answers a poll.  When the answer is a new one, the transaction
\* it replaces in the cache is borne by no poll any more.
LEMMA StreamReply ==
  ASSUME TypeOK, StreamInv, PollsOld, UNCHANGED <<turnVars, rx_queue, up>>,
         rx_server = "serve", rx_server' = "recv",
         cached_response'.transaction = rx_request
  PROVE  /\ StreamInv' /\ Active' \subseteq Active
         /\ \A u \in Active' : u.session = rx_request.session
              /\ rx_request # cached_response.transaction => u = rx_request
         /\ rx_request # cached_response.transaction =>
              cached_response.transaction \notin Active'
<1> USE StreamTypes DEF turnVars
<1> DEFINE c == cached_response.transaction
           t == rx_request
<1>1. Served = {t} /\ Served' = {} BY DEF Served
<1>2. Queued' = Queued /\ RxIn(up') = RxIn(up) /\ HostPoll' = HostPoll
  BY DEF Queued, HostPoll, Current
<1>3. /\ Waiting = {t} \cup Waiting' /\ Active = {t} \cup Active'
      /\ Active' = Queued \cup RxIn(up) \cup HostPoll
  BY <1>1, <1>2 DEF Waiting, Active
<1>4. \A a, b : Precedes(a, b)' => Precedes(a, b) BY <1>1, <1>2 DEF Precedes
<1>5. \A u \in Active' : Precedes(t, u) BY <1>1, <1>3 DEF Precedes
<1>6. /\ c.session <= t.session
      /\ \A u \in Active' : t.session <= u.session
  BY <1>3, <1>5 DEF StreamInv, SessionsInOrder
<1>7. \A u \in Active' : u.session = t.session /\ t # c => u = t
  BY <1>3, <1>5 DEF StreamInv, UnansweredIsLast
<1>8. t # c => c \notin Active'
  BY <1>3, <1>6, <1>7
<1>9. SessionsInOrder'
  BY <1>3, <1>4, <1>6 DEF StreamInv, SessionsInOrder
<1>10. UnansweredIsLast'
  BY <1>3, <1>4, <1>8 DEF StreamInv, UnansweredIsLast
<1>11. AllAnswered'
  <2> SUFFICES ASSUME Between, NEW u \in Waiting', u.session = session
               PROVE  u = t
    BY DEF AllAnswered, Between
  <2>1. u = c BY <1>3 DEF StreamInv, AllAnswered
  <2>2. u \in Active' BY DEF Active
  <2>q. QED BY <1>8, <2>1, <2>2
<1>q. QED BY <1>3, <1>7, <1>8, <1>9, <1>10, <1>11 DEF StreamInv

-----------------------------------------------------------------------------
(* The frames the polls have taken.                                        *)

DeliveryInv ==
  /\ AllDelivered /\ UndeliveredIsCached /\ AnswersAreCached /\ PulledInOrder
  /\ RxLossPerSession

\* The history and the numbers it holds.
LEMMA LossTypes ==
  ASSUME TypeOK
  PROVE  /\ pulled \in Seq(Transaction) /\ Len(pulled) \in Nat
         /\ backlog \in Seq(Nat) /\ to_tap \in Seq(Nat) /\ session \in Nat
         /\ \A i \in 1..Len(pulled) : pulled[i].session \in Nat
<1>1. pulled \in Seq(Transaction) /\ session \in Nat
  BY BoundsAssumption DEF TypeOK, RxType, HostType
<1>2. \A t \in Transaction : t.session \in Nat BY BoundsAssumption DEF Transaction
<1>3. \A i \in 1..Len(pulled) : pulled[i] \in Transaction BY <1>1
<1>q. QED BY <1>1, <1>2, <1>3, RxFrameTypes

\* Steps that bring no answer and leave the host where it is.
LEMMA DeliveryKept ==
  ASSUME TypeOK, DeliveryInv, UNCHANGED <<turnVars, frameVars, pulled>>,
         Active' \subseteq Active,
         \A i \in 1..Len(down') :
           ~IsRx(down'[i]) \/ \E j \in 1..Len(down) : down'[i] = down[j]
  PROVE  DeliveryInv'
<1> USE DEF turnVars, frameVars
<1>1. Current' = Current BY DEF Current
<1>2. AllDelivered' BY DEF DeliveryInv, AllDelivered, Between
<1>3. UndeliveredIsCached' BY DEF DeliveryInv, UndeliveredIsCached
<1>4. AnswersAreCached' BY <1>1 DEF DeliveryInv, AnswersAreCached
<1>5. PulledInOrder' BY DEF DeliveryInv, PulledInOrder
<1>6. RxLossPerSession' BY DEF DeliveryInv, RxLossPerSession
<1>q. QED BY <1>2, <1>3, <1>4, <1>5, <1>6 DEF DeliveryInv

\* The host is in no poll after the step.
LEMMA DeliveryLeave ==
  ASSUME TypeOK, DeliveryInv, UNCHANGED <<cached_response, backlog, received, pulled>>,
         pc' # "rx", session' \in {session, session + 1}, Active' \subseteq Active,
         \A i \in 1..Len(pulled) : Occurs(i, to_tap) => Occurs(i, to_tap'),
         Between' =>
           \A i \in 1..Len(pulled) : pulled[i].session = session' => Occurs(i, to_tap')
  PROVE  DeliveryInv'
<1>1. AllDelivered' BY DEF AllDelivered
<1>2. UndeliveredIsCached' BY DEF DeliveryInv, UndeliveredIsCached
<1>3. AnswersAreCached' BY DEF AnswersAreCached
<1>4. PulledInOrder' BY LossTypes DEF DeliveryInv, PulledInOrder
<1>5. RxLossPerSession' BY DEF DeliveryInv, RxLossPerSession
<1>q. QED BY <1>1, <1>2, <1>3, <1>4, <1>5 DEF DeliveryInv

\* The host begins a poll: nothing of its session is missing, and no answer
\* bears the new transaction.
LEMMA DeliveryBegin ==
  ASSUME TypeOK, DeliveryInv, UNCHANGED <<session, frameVars, pulled, down>>,
         Between, pc' = "rx", Current' \notin Polls',
         Active' \subseteq Active \cup {Current'}
  PROVE  DeliveryInv'
<1> USE DEF frameVars
<1>1. Current'.session = session BY DEF Current
<1>2. Current' \notin RxIn(down') BY DEF Polls
<1>3. AllDelivered' BY DEF AllDelivered, Between
<1>4. UndeliveredIsCached'
  BY <1>1 DEF DeliveryInv, UndeliveredIsCached, AllDelivered
<1>5. AnswersAreCached' BY <1>2 DEF AnswersAreCached, RxIn
<1>6. PulledInOrder' BY DEF DeliveryInv, PulledInOrder
<1>7. RxLossPerSession' BY DEF DeliveryInv, RxLossPerSession
<1>q. QED BY <1>3, <1>4, <1>5, <1>6, <1>7 DEF DeliveryInv

\* The answer to the poll is matched: it is the cached one, so it holds what
\* the session was still missing.
LEMMA DeliveryMatch ==
  ASSUME TypeOK, DeliveryInv, PollsInOrder, pc = "rx", down # <<>>,
         IsRx(Head(down)), Head(down).transaction = Current,
         to_tap' = IF Head(down).frame = NoFrame THEN to_tap
                   ELSE Append(to_tap, Head(down).frame)
  PROVE  /\ \A i \in 1..Len(pulled) : Occurs(i, to_tap) => Occurs(i, to_tap')
         /\ \A i \in 1..Len(pulled) : pulled[i].session = session => Occurs(i, to_tap')
         /\ \A t \in Waiting : t = cached_response.transaction
<1> DEFINE f == Head(down).frame
<1>1. down \in Seq(Responses) /\ Head(down) = down[1] /\ 1 \in 1..Len(down)
  BY PollTypes, TailIndex
<1>2. f = cached_response.frame BY <1>1 DEF DeliveryInv, AnswersAreCached
<1>3. f \in Nat BY <1>1, RxFrameTypes
<1>4. /\ \A i \in 1..Len(to_tap) : i \in 1..Len(to_tap') /\ to_tap'[i] = to_tap[i]
      /\ f # NoFrame => \E i \in 1..Len(to_tap') : to_tap'[i] = f
  <2>1. CASE f = NoFrame BY <2>1
  <2>2. CASE f # NoFrame
    <3>1. to_tap \in Seq(Nat) /\ Len(to_tap) \in Nat BY LossTypes
    <3>2. to_tap' = Append(to_tap, f) BY <2>2
    <3> HIDE DEF f
    <3>3. /\ Len(to_tap') = Len(to_tap) + 1 /\ to_tap'[Len(to_tap) + 1] = f
          /\ \A i \in 1..Len(to_tap) : to_tap'[i] = to_tap[i]
      BY <1>3, <3>1, <3>2, AppendIndex
    <3>q. QED BY <3>1, <3>3
  <2>q. QED BY <2>1, <2>2
<1>5. \A i : Occurs(i, to_tap) => Occurs(i, to_tap') BY <1>4 DEF Occurs
<1>6. Current \in Active /\ Current.session = session
  BY DEF Active, HostPoll, Current
<1>7. ASSUME NEW i \in 1..Len(pulled), pulled[i].session = session, ~Occurs(i, to_tap)
      PROVE  Occurs(i, to_tap')
  <2>1. f = i BY <1>2, <1>6, <1>7 DEF DeliveryInv, UndeliveredIsCached
  <2>2. f # NoFrame BY <2>1 DEF NoFrame
  <2>q. QED BY <1>4, <2>1, <2>2 DEF Occurs
<1>8. Current \in RxIn(down) BY <1>1 DEF RxIn
<1>9. \A t \in Waiting : t = cached_response.transaction
  <2>1. cached_response.transaction = Current
    BY <1>1 DEF DeliveryInv, AnswersAreCached
  <2>q. QED BY <1>8, <2>1 DEF PollsInOrder, Waiting
<1>q. QED BY <1>5, <1>7, <1>9

\* The server answers: again, that there is no frame, or with the next one.
LEMMA DeliveryReply ==
  ASSUME TypeOK, DeliveryInv, PollsInOrder, PollsOld, AllAnswered,
         UNCHANGED <<turnVars, to_tap, received>>,
         NEW m \in Responses, m.transaction = rx_request, m.ep = "rx",
         cached_response' = m, rx_server = "serve",
         down' = down \/ down' = Append(down, m), Active' \subseteq Active,
         \A u \in Active' : u.session = rx_request.session
           /\ rx_request # cached_response.transaction => u = rx_request,
         rx_request # cached_response.transaction =>
           cached_response.transaction \notin Active',
         \/ m = cached_response /\ UNCHANGED <<backlog, pulled>>
         \/ /\ rx_request # cached_response.transaction
            /\ UNCHANGED <<backlog, pulled>>
         \/ /\ rx_request # cached_response.transaction
            /\ backlog # <<>> /\ backlog' = Tail(backlog) /\ m.frame = Head(backlog)
            /\ pulled' = Append(pulled, rx_request)
  PROVE  DeliveryInv'
<1> USE DEF turnVars
<1> DEFINE c == cached_response.transaction
           t == rx_request
<1>1. Current' = Current BY DEF Current
<1>2. t \in Served /\ t \in Waiting /\ t \in Active /\ t \in Polls
  BY DEF Served, Waiting, Active, Polls
<1>3. t.session <= session BY <1>2 DEF PollsOld, PollOld
<1>4. \A i \in 1..Len(down') :
        down'[i] = m \/ (i \in 1..Len(down) /\ down'[i] = down[i])
  <2>1. CASE down' = down BY <2>1
  <2>2. CASE down' = Append(down, m)
    <3>1. down \in Seq(Responses) /\ Len(down) \in Nat BY PollTypes
    <3>2. /\ Len(down') = Len(down) + 1 /\ down'[Len(down) + 1] = m
          /\ \A i \in 1..Len(down) : down'[i] = down[i]
      BY <2>2, <3>1, AppendIndex
    <3>q. QED BY <3>1, <3>2
  <2>q. QED BY <2>1, <2>2
<1>5. t = c => m = cached_response OBVIOUS
<1>6. AnswersAreCached'
  <2> SUFFICES ASSUME pc = "rx", NEW i \in 1..Len(down), IsRx(down[i]),
                      down[i].transaction = Current
               PROVE  m.transaction = Current /\ down[i].frame = m.frame
    BY <1>1, <1>4, Zenon DEF AnswersAreCached
  <2>1. Current \in RxIn(down) BY DEF RxIn
  <2>2. c = Current /\ down[i].frame = cached_response.frame
    BY DEF DeliveryInv, AnswersAreCached
  <2>3. t = Current BY <1>2, <2>1 DEF PollsInOrder
  <2>q. QED BY <1>5, <2>2, <2>3
<1>7. ASSUME NEW i \in 1..Len(pulled), NEW u \in Active', ~Occurs(i, to_tap),
             u.session = pulled[i].session
      PROVE  u = pulled[i] /\ m.transaction = u /\ m.frame = i
  <2>1. u = pulled[i] /\ c = u /\ cached_response.frame = i
    BY <1>7 DEF DeliveryInv, UndeliveredIsCached
  <2>2. t = c BY <2>1
  <2>q. QED BY <1>5, <2>1, <2>2
<1>8. CASE UNCHANGED <<backlog, pulled>>
  <2>1. AllDelivered' BY <1>8 DEF DeliveryInv, AllDelivered, Between
  <2>2. UndeliveredIsCached' BY <1>7, <1>8 DEF UndeliveredIsCached
  <2>3. PulledInOrder' BY <1>8 DEF DeliveryInv, PulledInOrder
  <2>4. RxLossPerSession' BY <1>8 DEF DeliveryInv, RxLossPerSession
  <2>q. QED BY <1>6, <2>1, <2>2, <2>3, <2>4 DEF DeliveryInv
<1>9. CASE /\ t # c /\ backlog # <<>> /\ backlog' = Tail(backlog)
           /\ m.frame = Head(backlog) /\ pulled' = Append(pulled, t)
  <2> DEFINE n == Len(pulled) + 1
  <2>1. /\ Len(pulled) \in Nat /\ Len(pulled') = n /\ pulled'[n] = t
        /\ \A i \in 1..Len(pulled) : pulled'[i] = pulled[i]
    <3>1. pulled \in Seq(Transaction) /\ t \in Transaction
      BY LossTypes DEF TypeOK, RxType
    <3>q. QED BY <1>9, <3>1, AppendIndex
  <2>2. \A i \in 1..Len(pulled') : i \in 1..Len(pulled) \/ i = n BY <2>1
  <2>3. /\ Head(backlog) = backlog[1] /\ 1 \in 1..Len(backlog)
        /\ \A k \in 1..Len(backlog') :
             backlog'[k] = backlog[k + 1] /\ k + 1 \in 1..Len(backlog)
        /\ Len(backlog') = Len(backlog) - 1 /\ Len(backlog) \in Nat
    BY <1>9, LossTypes, TailIndex
  <2>4. m.frame = n
    <3>1. backlog[1] = n BY <2>3 DEF DeliveryInv, PulledInOrder
    <3>q. QED BY <1>9, <2>3, <3>1, Zenon
  <2>5. PulledInOrder'
    <3>1. \A k \in 1..Len(backlog') : backlog'[k] = n + k
      BY <2>1, <2>3 DEF DeliveryInv, PulledInOrder
    <3>2. received = n + (Len(backlog) - 1)
      BY <2>1, <2>3 DEF DeliveryInv, PulledInOrder
    <3>3. \A i \in 1..Len(pulled') : pulled'[i].session <= session
      BY <1>3, <2>1, <2>2 DEF DeliveryInv, PulledInOrder
    <3>q. QED BY <2>1, <2>3, <3>1, <3>2, <3>3 DEF PulledInOrder
  <2>6. Between => t.session # session BY <1>2, <1>9 DEF AllAnswered
  <2>7. AllDelivered'
    BY <2>1, <2>2, <2>6 DEF DeliveryInv, AllDelivered, Between
  <2>8. UndeliveredIsCached'
    BY <1>7, <1>9, <2>1, <2>2, <2>4 DEF UndeliveredIsCached
  <2>9. \A i \in 1..Len(pulled) : pulled[i].session = t.session => Occurs(i, to_tap)
    BY <1>2, <1>9 DEF DeliveryInv, UndeliveredIsCached
  <2>10. RxLossPerSession'
    BY <2>1, <2>2, <2>9 DEF DeliveryInv, RxLossPerSession
  <2>q. QED BY <1>6, <2>5, <2>7, <2>8, <2>10 DEF DeliveryInv
<1>q. QED BY <1>8, <1>9

\* The radio delivers a frame.
LEMMA DeliveryArrive ==
  ASSUME TypeOK, DeliveryInv,
         UNCHANGED <<turnVars, cached_response, to_tap, down, pulled>>,
         Active' \subseteq Active,
         received' = received + 1, backlog' = Append(backlog, received + 1)
  PROVE  DeliveryInv'
<1> USE DEF turnVars
<1>1. Current' = Current BY DEF Current
<1>2. /\ Len(backlog') = Len(backlog) + 1
      /\ backlog'[Len(backlog) + 1] = received + 1
      /\ \A k \in 1..Len(backlog) : backlog'[k] = backlog[k]
      /\ Len(backlog) \in Nat /\ received \in Nat /\ Len(pulled) \in Nat
  BY RxFrameTypes, LossTypes, AppendIndex
<1>3. PulledInOrder'
  <2>1. received + 1 = Len(pulled) + (Len(backlog) + 1)
    BY <1>2 DEF DeliveryInv, PulledInOrder
  <2>2. \A k \in 1..Len(backlog') : k \in 1..Len(backlog) \/ k = Len(backlog) + 1
    BY <1>2
  <2>3. \A k \in 1..Len(backlog') : backlog'[k] = Len(pulled) + k
    BY <1>2, <2>1, <2>2 DEF DeliveryInv, PulledInOrder
  <2>4. received' = Len(pulled) + Len(backlog') BY <1>2, <2>1
  <2>q. QED BY <2>3, <2>4 DEF DeliveryInv, PulledInOrder
<1>4. AllDelivered' BY DEF DeliveryInv, AllDelivered, Between
<1>5. UndeliveredIsCached' BY DEF DeliveryInv, UndeliveredIsCached
<1>6. AnswersAreCached' BY <1>1 DEF DeliveryInv, AnswersAreCached
<1>7. RxLossPerSession' BY DEF DeliveryInv, RxLossPerSession
<1>q. QED BY <1>3, <1>4, <1>5, <1>6, <1>7 DEF DeliveryInv

-----------------------------------------------------------------------------
(* The steps of the specification.                                         *)

\* Nothing but heads of the link queues goes away.
LEMMA LossShrink ==
  ASSUME TypeOK, StreamInv, DeliveryInv, UNCHANGED <<otherVars, pulled>>,
         up' = up \/ (up # <<>> /\ up' = Tail(up)),
         down' = down \/ (down # <<>> /\ down' = Tail(down))
  PROVE  StreamInv' /\ DeliveryInv'
<1> USE DEF otherVars, turnVars, serverVars, frameVars
<1>1. RxIn(up') \subseteq RxIn(up) /\ \A t, u : Follows(up', t, u) => Follows(up, t, u)
  BY PollTypes, RxTail, FollowsTail
<1>2. Served' = Served /\ Queued' = Queued /\ HostPoll' = HostPoll
  BY DEF Served, Queued, HostPoll, Current
<1>3. Waiting' \subseteq Active BY <1>1, <1>2 DEF Waiting, Active
<1>4. \A t, u : Precedes(t, u)' => Precedes(t, u) BY <1>1, <1>2 DEF Precedes
<1>5. StreamInv' /\ Active' \subseteq Active BY <1>3, <1>4, StreamKept
<1>6. \A i \in 1..Len(down') : \E j \in 1..Len(down) : down'[i] = down[j]
  <2>1. CASE down' = down BY <2>1
  <2>2. CASE down # <<>> /\ down' = Tail(down) BY <2>2, PollTypes, TailIndex
  <2>q. QED BY <2>1, <2>2
<1>7. DeliveryInv' BY <1>5, <1>6, DeliveryKept
<1>q. QED BY <1>5, <1>7

\* The host sends the request of its transaction, once more or not.
LEMMA LossSend ==
  ASSUME TypeOK, StreamInv, DeliveryInv, UNCHANGED <<otherVars, pulled, down>>,
         pc \in {"tx", "rx"}, CurrentRequest \in Requests,
         up' = Append(up, CurrentRequest)
  PROVE  StreamInv' /\ DeliveryInv'
<1> USE DEF otherVars, turnVars, serverVars, frameVars
<1>1. IsRx(CurrentRequest) <=> pc = "rx" BY DEF CurrentRequest, Request, IsRx
<1>2. CurrentRequest.transaction = Current BY DEF CurrentRequest, Request
<1>3. up \in Seq(Requests) BY PollTypes
<1>4. RxIn(up') \subseteq RxIn(up) \cup HostPoll
  BY <1>1, <1>2, <1>3, RxAppend DEF HostPoll
<1>5. ASSUME NEW t, NEW u, Follows(up', t, u)
      PROVE  Follows(up, t, u) \/ (t \in RxIn(up) /\ u \in HostPoll)
  BY <1>1, <1>2, <1>3, <1>5, FollowsAppend DEF HostPoll
<1>6. Served' = Served /\ Queued' = Queued /\ HostPoll' = HostPoll
  BY DEF Served, Queued, HostPoll, Current
<1>7. Waiting' \subseteq Active BY <1>4, <1>6 DEF Waiting, Active
<1>8. \A t, u : Precedes(t, u)' =>
        Precedes(t, u) \/ (t \in HostPoll /\ u \in HostPoll)
  BY <1>4, <1>5, <1>6 DEF Precedes
<1>9. StreamInv' /\ Active' \subseteq Active BY <1>7, <1>8, StreamKept
<1>10. DeliveryInv' BY <1>9, DeliveryKept
<1>q. QED BY <1>9, <1>10

\* Steps of the host.
LEMMA LossHostStep ==
  ASSUME TypeInv, TypeOK', LossInv, Host
  PROVE  StreamInv' /\ DeliveryInv'
<1> USE DEF TypeInv, otherVars, turnVars, serverVars, frameVars
<1>0. StreamInv /\ DeliveryInv /\ PollInv /\ PollsOld /\ PollsInOrder
  BY DEF LossInv, RxInv, StreamInv, DeliveryInv, PollInv
<1>1. CASE TapRead \/ TapForward \/ BackupRejected
  <2>1. UNCHANGED <<otherVars, pulled, up, down>>
    BY <1>1 DEF TapRead, TapForward, BackupRejected, hostVars, histVars, linkVars,
                rxVars, portVars
  <2>q. QED BY <1>0, <2>1, LossShrink
<1>2. ASSUME NEW s \in Sources, RequestFails(s) \/ Mismatch(s)
      PROVE  StreamInv' /\ DeliveryInv'
  <2>1. /\ UNCHANGED <<otherVars, pulled, up>>
        /\ down' = down \/ (down # <<>> /\ down' = Tail(down))
    BY <1>2 DEF RequestFails, Mismatch, histVars, rxVars, portVars
  <2>q. QED BY <1>0, <2>1, LossShrink
<1>3. CASE SendPrimary \/ SendBackup
  <2>1. /\ UNCHANGED <<otherVars, pulled, down>> /\ pc \in {"tx", "rx"}
        /\ up' = Append(up, CurrentRequest)
    BY <1>3 DEF SendPrimary, SendBackup, StallTimer, Control, histVars, rxVars,
                portVars
  <2>2. CurrentRequest \in Requests BY <2>1, CurrentTyped
  <2>q. QED BY <1>0, <2>1, <2>2, LossSend
<1>4. CASE BeginRx
  <2>1. /\ UNCHANGED <<session, serverVars, frameVars, pulled, up, down>>
        /\ pc \in {"top", "poll"} /\ pc' = "rx" /\ next_id' = WrappingAdd(next_id)
    BY <1>4 DEF BeginRx, TakeId, histVars, linkVars, rxVars, portVars
  <2>2. Between BY <2>1 DEF Between
  <2>3. StreamInv' BY <1>0, <2>1, <2>2, StreamBegin
  <2>4. Current' \notin Polls' BY <1>0, <2>1, PollsBegin
  <2>5. Active' \subseteq Active \cup {Current'}
    BY <2>1 DEF Active, Waiting, HostPoll, Served, Queued
  <2>6. DeliveryInv' BY <1>0, <2>1, <2>2, <2>4, <2>5, DeliveryBegin
  <2>q. QED BY <2>3, <2>6
<1>5. CASE BeginTx \/ \E s \in Sources : MatchTx(s)
  <2>1. /\ UNCHANGED <<session, serverVars, frameVars, pulled, up>>
        /\ pc \in {"top", "tx"} /\ pc' \in {"tx", "poll"}
    BY <1>5 DEF BeginTx, MatchTx, Matches, Awaits, histVars, linkVars, rxVars,
                portVars
  <2>2. Between /\ pc' # "rx" BY <2>1 DEF Between
  <2>3. \A t \in Waiting : t.session = session => t = cached_response.transaction
    BY <1>0, <2>2 DEF StreamInv, AllAnswered
  <2>4. StreamInv' /\ Active' \subseteq Active BY <1>0, <2>1, <2>2, <2>3, StreamLeave
  <2>5. \A i \in 1..Len(pulled) : pulled[i].session = session => Occurs(i, to_tap)
    BY <1>0, <2>2 DEF DeliveryInv, AllDelivered
  <2>6. session' \in {session, session + 1} BY <2>1
  <2>7. \A i \in 1..Len(pulled) : Occurs(i, to_tap) => Occurs(i, to_tap') BY <2>1
  <2>8. DeliveryInv'
    BY <1>0, <2>1, <2>2, <2>4, <2>5, <2>6, <2>7, DeliveryLeave, Zenon
  <2>q. QED BY <2>4, <2>8
<1>6. ASSUME NEW s \in Sources, MatchRx(s) PROVE StreamInv' /\ DeliveryInv'
  <2>1. /\ UNCHANGED <<session, serverVars, backlog, received, pulled, up>>
        /\ pc = "rx" /\ pc' = "top" /\ down # <<>>
        /\ IsRx(Head(down)) /\ Head(down).transaction = Current
        /\ to_tap' = IF Head(down).frame = NoFrame THEN to_tap
                     ELSE Append(to_tap, Head(down).frame)
    BY <1>6 DEF MatchRx, Matches, Awaits, IsRx, rxVars, portVars
  <2>2. /\ \A i \in 1..Len(pulled) : Occurs(i, to_tap) => Occurs(i, to_tap')
        /\ \A i \in 1..Len(pulled) : pulled[i].session = session => Occurs(i, to_tap')
        /\ \A t \in Waiting : t = cached_response.transaction
    BY <1>0, <2>1, DeliveryMatch
  <2>3. StreamInv' /\ Active' \subseteq Active BY <1>0, <2>1, <2>2, StreamLeave
  <2>4. DeliveryInv' BY <1>0, <2>1, <2>2, <2>3, DeliveryLeave
  <2>q. QED BY <2>3, <2>4
<1>7. CASE RecoverSession \/ StopSession \/ NewSession
  <2>1. /\ UNCHANGED <<serverVars, frameVars, pulled>> /\ pc' # "rx"
        /\ up' \in {up, <<>>}
    BY <1>7 DEF RecoverSession, StopSession, NewSession, DropSession, histVars,
                linkVars, rxVars, portVars
  <2>2. \/ pc' = "down" /\ session' = session
        \/ pc' = "top" /\ session' = session + 1
    BY <1>7 DEF RecoverSession, StopSession, NewSession, DropSession
  <2>3. /\ \A t \in Waiting : t.session <= session
        /\ \A i \in 1..Len(pulled) : pulled[i].session <= session
    BY <1>0 DEF PollsOld, PollOld, Polls, Waiting, DeliveryInv, PulledInOrder
  <2>4. Between' =>
          /\ \A t \in Waiting : t.session # session'
          /\ \A i \in 1..Len(pulled) : pulled[i].session # session'
    <3>1. Between' => session' = session + 1 BY <2>2 DEF Between
    <3>2. session \in Nat /\ \A i \in 1..Len(pulled) : pulled[i].session \in Nat
      BY LossTypes
    <3>3. \A t \in Waiting : t.session \in Nat BY StreamTypes DEF Active
    <3>q. QED BY <2>3, <3>1, <3>2, <3>3
  <2>5. StreamInv' /\ Active' \subseteq Active BY <1>0, <2>1, <2>4, StreamLeave
  <2>6. DeliveryInv' BY <1>0, <2>1, <2>2, <2>4, <2>5, DeliveryLeave
  <2>q. QED BY <2>5, <2>6
<1>q. QED BY <1>1, <1>2, <1>3, <1>4, <1>5, <1>6, <1>7 DEF Host

\* Steps of the link.
LEMMA LossLinkStep ==
  ASSUME TypeInv, LossInv, Link
  PROVE  StreamInv' /\ DeliveryInv'
<1> USE DEF TypeInv, otherVars, turnVars, serverVars, frameVars, hostVars,
            histVars, rxVars, portVars
<1>0. StreamInv /\ DeliveryInv BY DEF LossInv, StreamInv, DeliveryInv
<1>1. CASE \/ DeliverTx \/ LoseRequest \/ LoseResponse \/ DiscardResponse
           \/ DeliverRx /\ UNCHANGED rx_queue
  <2>1. /\ UNCHANGED <<otherVars, pulled>>
        /\ up' = up \/ (up # <<>> /\ up' = Tail(up))
        /\ down' = down \/ (down # <<>> /\ down' = Tail(down))
    BY <1>1 DEF DeliverTx, LoseRequest, LoseResponse, DiscardResponse, DeliverRx
  <2>q. QED BY <1>0, <2>1, LossShrink
<1>2. CASE DeliverRx /\ ~UNCHANGED rx_queue
  <2>1. /\ UNCHANGED <<turnVars, rx_server, rx_request, frameVars, pulled, down>>
        /\ up # <<>> /\ up' = Tail(up) /\ IsRx(Head(up))
        /\ Len(rx_queue) < 1 /\ rx_queue' = Append(rx_queue, Head(up))
    BY <1>2 DEF DeliverRx, IsRx, EndpointCap
  <2>2. rx_queue = <<>> BY <2>1, PollTypes
  <2>3. rx_queue' = <<Head(up)>> BY <2>1, <2>2
  <2>4. Queued' = {Head(up).transaction} BY <2>3 DEF Queued
  <2>3a. RxIn(up') \subseteq RxIn(up) /\ Head(up).transaction \in RxIn(up)
    BY <2>1, PollTypes, RxTail
  <2>3b. /\ \A t, u : Follows(up', t, u) => Follows(up, t, u)
        /\ \A u \in RxIn(up') : Follows(up, Head(up).transaction, u)
    BY <2>1, PollTypes, FollowsTail
  <2>6. Served' = Served /\ HostPoll' = HostPoll
    BY <2>1 DEF Served, HostPoll, Current
  <2>7. Waiting' \subseteq Active BY <2>4, <2>3a, <2>6 DEF Waiting, Active
  <2>8. \A t, u : Precedes(t, u)' => Precedes(t, u)
    BY <2>4, <2>3a, <2>3b, <2>6 DEF Precedes
  <2>9. StreamInv' /\ Active' \subseteq Active
    BY <1>0, <2>1, <2>7, <2>8, StreamKept
  <2>10. DeliveryInv' BY <1>0, <2>1, <2>9, DeliveryKept
  <2>q. QED BY <2>9, <2>10
<1>q. QED BY <1>1, <1>2 DEF Link

\* The server answers a poll.
LEMMA LossReply ==
  ASSUME TypeInv, LossInv, UNCHANGED received, NEW m \in Responses, RxReply(m),
         m.ep = "rx", m.transaction = rx_request,
         \/ m = cached_response /\ UNCHANGED <<backlog, pulled>>
         \/ /\ rx_request # cached_response.transaction
            /\ UNCHANGED <<backlog, pulled>>
         \/ /\ rx_request # cached_response.transaction
            /\ backlog # <<>> /\ backlog' = Tail(backlog) /\ m.frame = Head(backlog)
            /\ pulled' = Append(pulled, rx_request)
  PROVE  StreamInv' /\ DeliveryInv'
<1>0. /\ TypeOK /\ StreamInv /\ DeliveryInv /\ PollsOld /\ PollsInOrder
      /\ AllAnswered
  BY DEF TypeInv, LossInv, RxInv, StreamInv, DeliveryInv
<1>1. /\ UNCHANGED <<turnVars, rx_queue, up, to_tap>>
      /\ cached_response' = m /\ rx_server = "serve" /\ rx_server' = "recv"
      /\ down' = down \/ down' = Append(down, m)
  BY DEF RxReply, turnVars, hostVars, histVars
<1>2. /\ StreamInv' /\ Active' \subseteq Active
      /\ \A u \in Active' : u.session = rx_request.session
           /\ rx_request # cached_response.transaction => u = rx_request
      /\ rx_request # cached_response.transaction =>
           cached_response.transaction \notin Active'
  BY <1>0, <1>1, StreamReply
<1>3. DeliveryInv' BY <1>0, <1>1, <1>2, DeliveryReply
<1>q. QED BY <1>2, <1>3

\* Steps of the firmware.
LEMMA LossFirmwareStep ==
  ASSUME TypeInv, LossInv, Firmware
  PROVE  StreamInv' /\ DeliveryInv'
<1> USE DEF TypeInv, otherVars, turnVars, serverVars, frameVars, hostVars,
            histVars, linkVars, rxVars, portVars
<1>0. StreamInv /\ DeliveryInv BY DEF LossInv, StreamInv, DeliveryInv
<1>1. CASE TxReceive \/ TxDriverDone \/ RadioAccepts
  <2>1. UNCHANGED <<otherVars, pulled, up, down>>
    BY <1>1 DEF TxReceive, Submit, TxDriverDone, Acknowledge, RadioAccepts, Accept
  <2>q. QED BY <1>0, <2>1, LossShrink
<1>2. CASE TxRespond
  <2> DEFINE m == Response("tx", tx_request.transaction, NoFrame)
  <2>1. UNCHANGED <<otherVars, pulled, up>> /\ down' = Append(down, m)
    BY <1>2 DEF TxRespond
  <2>2. m \in Responses /\ ~IsRx(m)
    BY BoundsAssumption
       DEF TypeOK, TxType, Requests, Responses, Response, NoFrame, IsRx
  <2> HIDE DEF m
  <2>3. StreamInv' /\ Active' = Active BY <1>0, <2>1, StreamUnchanged
  <2>5. \A i \in 1..Len(down') :
          ~IsRx(down'[i]) \/ \E j \in 1..Len(down) : down'[i] = down[j]
    <3>1. down \in Seq(Responses) BY PollTypes
    <3>2. down' = Append(down, m) BY <2>1
    <3>3. \A i \in 1..Len(Append(down, m)) :
            \/ Append(down, m)[i] = m
            \/ \E j \in 1..Len(down) : Append(down, m)[i] = down[j]
      BY <3>1, <2>2, AppendElement
    <3>q. QED BY <3>2, <3>3, <2>2, Zenon
  <2>6. DeliveryInv' BY <1>0, <2>1, <2>3, <2>5, DeliveryKept
  <2>q. QED BY <2>3, <2>6
<1>3. CASE RxReceive
  <2>1. /\ UNCHANGED <<turnVars, cached_response, frameVars, pulled, up, down>>
        /\ rx_server = "recv" /\ rx_server' = "serve" /\ rx_queue # <<>>
        /\ rx_request' = Head(rx_queue).transaction /\ rx_queue' = Tail(rx_queue)
    BY <1>3 DEF RxReceive
  <2>2. rx_queue \in Seq(Requests) /\ Len(rx_queue) <= 1 BY PollTypes
  <2>3. 1..Len(rx_queue) = {1} /\ 1..Len(rx_queue') = {} /\ Head(rx_queue) = rx_queue[1]
    BY <2>1, <2>2, OneElement
  <2>4. Queued = {Head(rx_queue).transaction} /\ Queued' = {}
    BY <2>3 DEF Queued
  <2>5. Served = {} /\ Served' = {Head(rx_queue).transaction} BY <2>1 DEF Served
  <2>6. HostPoll' = HostPoll /\ up' = up BY <2>1 DEF HostPoll, Current
  <2>7. Waiting' \subseteq Active BY <2>4, <2>5, <2>6 DEF Waiting, Active
  <2>8. \A t, u : Precedes(t, u)' => Precedes(t, u)
    BY <2>4, <2>5, <2>6 DEF Precedes
  <2>9. StreamInv' /\ Active' \subseteq Active
    BY <1>0, <2>1, <2>7, <2>8, StreamKept
  <2>10. DeliveryInv' BY <1>0, <2>1, <2>9, DeliveryKept
  <2>q. QED BY <2>9, <2>10
<1>4. /\ cached_response \in Responses /\ cached_response.ep = "rx"
      /\ \A f \in 0..MaxRadio : Response("rx", rx_request, f) \in Responses
  BY DEF TypeOK, RxType, Responses, Response
<1>5. CASE RxServeCached
  BY <1>4, <1>5, LossReply DEF RxServeCached
<1>6. CASE RxServeFrame
  <2>0. backlog \in Seq(0..MaxRadio) /\ backlog # <<>>
    BY <1>6 DEF RxServeFrame, Pull, TypeOK, PortType
  <2>1. Head(backlog) \in 0..MaxRadio BY <2>0, QueueTyped, Zenon
  <2>q. QED BY <1>4, <1>6, <2>1, LossReply DEF RxServeFrame, Pull, Response
<1>7. CASE RxServeEmpty
  <2>1. NoFrame \in 0..MaxRadio BY BoundsAssumption DEF NoFrame
  <2>q. QED BY <1>4, <1>7, <2>1, LossReply DEF RxServeEmpty, Response
<1>8. CASE RadioDelivers
  <2>1. /\ UNCHANGED <<turnVars, serverVars, up, down, to_tap, pulled>>
        /\ received' = received + 1 /\ backlog' = Append(backlog, received + 1)
    BY <1>8 DEF RadioDelivers, Arrive
  <2>2. StreamInv' /\ Active' = Active BY <1>0, <2>1, StreamUnchanged
  <2>3. DeliveryInv' BY <1>0, <2>1, <2>2, DeliveryArrive
  <2>q. QED BY <2>2, <2>3
<1>q. QED BY <1>1, <1>2, <1>3, <1>5, <1>6, <1>7, <1>8 DEF Firmware

\* The invariant holds when nothing has been sent.
LEMMA LossInit == Init => LossInv
<1> SUFFICES ASSUME Init PROVE LossInv OBVIOUS
<1> USE DEF Init, PortInit
<1>1. RxIn(up) = {} /\ Queued = {} /\ Served = {} /\ HostPoll = {}
  BY DEF RxIn, Queued, Served, HostPoll
<1>2. Waiting = {} /\ Active = {} BY <1>1 DEF Waiting, Active
<1>3. SessionsInOrder /\ UnansweredIsLast /\ AllAnswered
  BY <1>2, Zenon DEF SessionsInOrder, UnansweredIsLast, AllAnswered
<1>4. Len(pulled) = 0 /\ Len(backlog) = 0 /\ received = 0 /\ pc = "top" /\ 1..0 = {}
  OBVIOUS
<1>5. AllDelivered /\ UndeliveredIsCached /\ AnswersAreCached /\ RxLossPerSession
  BY <1>2, <1>4, Zenon
     DEF AllDelivered, UndeliveredIsCached, AnswersAreCached, RxLossPerSession
<1>6. PulledInOrder BY <1>4 DEF PulledInOrder
<1>q. QED BY <1>3, <1>5, <1>6, RxInit DEF LossInv

\* Every step keeps the invariant.
LEMMA LossStep == TypeInv /\ LossInv /\ [Next]_vars => LossInv'
<1> SUFFICES ASSUME TypeInv, LossInv, [Next]_vars PROVE LossInv' OBVIOUS
<1>1. TypeOK' BY TypeStep DEF TypeInv
<1>2. StreamInv' /\ DeliveryInv'
  <2>1. CASE UNCHANGED vars
    BY <2>1, LossShrink
       DEF TypeInv, LossInv, StreamInv, DeliveryInv, vars, otherVars, turnVars,
           serverVars, frameVars, hostVars, histVars, linkVars, rxVars, portVars
  <2>q. QED BY <1>1, <2>1, LossHostStep, LossLinkStep, LossFirmwareStep DEF Next
<1>3. RxInv' BY RxStep DEF LossInv
<1>q. QED BY <1>2, <1>3 DEF LossInv, StreamInv, DeliveryInv

\* A received frame the host has not got yet stays in cached_response until no
\* poll of its session is left.
THEOREM UndeliveredStaysCached == Spec => []LossInv
BY LossInit, LossStep, TypeInit, TypeStep, PTL DEF Spec

\* A session loses at most one received frame, the last one it took from the
\* firmware, for every number of retries, losses and sessions and for every
\* modulus of the ids.
THEOREM OneFrameLostPerSession == Spec => []RxLossPerSession
<1>1. LossInv => RxLossPerSession BY DEF LossInv
<1>q. QED BY <1>1, UndeliveredStaysCached, PTL
=============================================================================
