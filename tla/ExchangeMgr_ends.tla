-------------------------- MODULE ExchangeMgr_ends --------------------------
(***************************************************************************)
(* Proofs about what leaves the tables of ExchangeMgr, for every value of  *)
(* its constants: acknowledgements only where one is owed (NoSpuriousAck), *)
(* exchanges only when nothing is awaited on them (EndsCleanly), and       *)
(* sessions that are not the one used last (LruEviction).  All rest on the *)
(* inductive invariant of ExchangeMgr_proofs.                              *)
(***************************************************************************)
EXTENDS ExchangeMgr_proofs

(***************************************************************************)
(* Acknowledgements.                                                       *)
(***************************************************************************)
\* Losing exchanges loses what is owed on them, no more.
LEMMA RemovalKeepsAcks ==
  ASSUME NoSpuriousAck, NEW S, S \subseteq Live,
         exchanges' = [e \in ExchIds |-> IF e \in S THEN NoExch ELSE exchanges[e]],
         owed' = owed \ S
  PROVE  NoSpuriousAck'
BY DEF NoSpuriousAck, Live

\* An update that empties the AckEntry of e settles what is owed on e.
LEMMA SettlingKeepsAcks ==
  ASSUME IInv, NoSpuriousAck, NEW e \in Live, NEW x \in Exchange,
         x.ack = "None" \/ (x.ack # "None" /\ e \in owed'),
         exchanges' = [exchanges EXCEPT ![e] = x],
         owed \ {e} \subseteq owed'
  PROVE  NoSpuriousAck'
BY DEF NoSpuriousAck, Live, IInv, TypeOK

\* Handlers leave the AckEntry alone.
LEMMA HandlerKeepsAcks ==
  ASSUME IInv, NoSpuriousAck,
         \/ HandleAck \/ HandleRequest \/ HandleSigma1
         \/ Sigma3Error \/ Sigma3Denied \/ Sigma3Success
         \/ PaseDisabled \/ PaseError \/ PbkdfBusy \/ PbkdfAccept
         \/ Pake1 \/ Pake3Denied \/ Pake3Success
  PROVE  NoSpuriousAck'
<1> DEFINE old == exchanges[This]
<1>1. pc = "handle"
  BY DEF HandleAck, HandleRequest, HandleSigma1, Sigma3Error, Sigma3Denied, Sigma3Success,
         PaseDisabled, PaseError, PbkdfBusy, PbkdfAccept, Pake1, Pake3Denied, Pake3Success,
         Handling
<1>2. This \in Live /\ old \in Exchange BY <1>1, LiveType DEF IInv, ServedInPlace
<1>3. owed' = owed
  BY DEF HandleAck, HandleRequest, HandleSigma1, Sigma3Error, Sigma3Denied, Sigma3Success,
         PaseDisabled, PaseError, PbkdfBusy, PbkdfAccept, Pake1, Pake3Denied, Pake3Success,
         exchVars
<1>4. \E x : exchanges' = [exchanges EXCEPT ![This] = x] /\ x.ack = old.ack
  <2>1. exchanges = [exchanges EXCEPT ![This] = old] BY <1>2 DEF IInv, TypeOK, Live
  <2>2. Closed(old).ack = old.ack BY <1>2 DEF Closed, Exchange
  <2>3. \A k : [old EXCEPT !.data = k].ack = old.ack BY <1>2 DEF Exchange
  <2>4. CASE HandleRequest \/ Sigma3Denied \/ Pake3Denied \/ Pake3Success
    BY <2>1, <2>2, <2>4 DEF HandleRequest, Sigma3Denied, Pake3Denied, Pake3Success
  <2>5. CASE HandleSigma1
    BY <2>1, <2>2, <2>3, <2>5 DEF HandleSigma1
  <2>6. CASE Sigma3Error \/ Sigma3Success
    BY <2>1, <2>2, <2>3, <2>6 DEF Sigma3Error, Sigma3Success
  <2>7. CASE HandleAck \/ PaseDisabled \/ PaseError \/ PbkdfBusy \/ PbkdfAccept \/ Pake1
    BY <2>1, <2>7
       DEF HandleAck, PaseDisabled, PaseError, PbkdfBusy, PbkdfAccept, Pake1, exchVars
  <2> QED BY <2>4, <2>5, <2>6, <2>7
<1> QED BY <1>2, <1>3, <1>4 DEF NoSpuriousAck, Live, IInv, TypeOK

\* ReliableMessage::recv adds an AckEntry only for a packet that is then owed one.
LEMMA GetExchangeKeepsAcks ==
  ASSUME IInv, NoSpuriousAck, GetExchange
  PROVE  NoSpuriousAck'
<1> DEFINE e == rx.exch
           x == IF e \in Live THEN exchanges[e] ELSE NewExchange(rx.slot)
<1>1. /\ e \in ExchIds /\ rx.slot \in Slots /\ rx.reliable \in BOOLEAN /\ rx.ack \in BOOLEAN
  BY DEF GetExchange, IInv, LoopShape, Received
<1>2. x \in Exchange /\ (e \notin Live => x.ack = "None")
  BY <1>1, LiveType, SessionTableAssumption DEF IInv, NewExchange, Exchange
<1>3. exchanges' = [exchanges EXCEPT ![e] = MrpRecv(x, rx)]
  BY DEF GetExchange
<1>4. IF MrpRefuses(x, rx) THEN owed' = owed
      ELSE owed' = IF rx.reliable THEN owed \cup {e} ELSE owed
  BY DEF GetExchange
<1>5. MrpRecv(x, rx).ack = IF rx.reliable /\ x.ack = "None" THEN "fresh" ELSE x.ack
  BY <1>2 DEF MrpRecv, Exchange
<1>6. x.ack # "None" => e \in owed BY <1>2 DEF NoSpuriousAck
<1> HIDE DEF x, e
<1>7. MrpRecv(x, rx).ack # "None" => e \in owed'
  BY <1>4, <1>5, <1>6 DEF MrpRefuses
<1>8. owed \subseteq owed' BY <1>4
<1> QED BY <1>1, <1>3, <1>7, <1>8 DEF NoSpuriousAck, Live, IInv, TypeOK

\* The eviction of a session, whether it fails or not.
LEMMA EvictionKeepsAcks ==
  ASSUME IInv, NoSpuriousAck, NEW i \in Slots, EvictFails(i) \/ RemoveExchangesOn(i)
  PROVE  NoSpuriousAck'
<1>1. CASE RemoveExchangesOn(i)
  BY <1>1, RemovalKeepsAcks DEF RemoveExchangesOn, On
<1>2. CASE EvictFails(i)
  <2> PICK e \in On(i) : /\ exchanges' = [exchanges EXCEPT ![e].ack = "None"]
                         /\ owed' = owed \ {e}
    BY <1>2 DEF EvictFails
  <2>1. e \in Live /\ [exchanges[e] EXCEPT !.ack = "None"] \in Exchange
        /\ [exchanges[e] EXCEPT !.ack = "None"].ack = "None"
    BY LiveType DEF On, IInv, Exchange
  <2> QED BY <2>1, SettlingKeepsAcks
<1> QED BY <1>1, <1>2

\* The answer and the standalone ack carry what is owed on their exchange.
LEMMA SendingKeepsAcks ==
  ASSUME IInv, NoSpuriousAck, SendResponse \/ \E e \in ExchIds : SendAck(e)
  PROVE  NoSpuriousAck'
<1>1. ASSUME NEW e \in ExchIds, SendAck(e) PROVE NoSpuriousAck'
  <2>1. e \in Live /\ [exchanges[e] EXCEPT !.ack = "None"] \in Exchange
        /\ [exchanges[e] EXCEPT !.ack = "None"].ack = "None"
    BY <1>1, LiveType DEF SendAck, IInv, LoopShape, Exchange
  <2> QED BY <1>1, <2>1, SettlingKeepsAcks DEF SendAck
<1>2. CASE SendResponse
  <2> DEFINE new == [exchanges[This] EXCEPT !.ack = "None", !.retrans = TRUE]
  <2>1. This \in Live BY <1>2 DEF SendResponse, IInv, ServedInPlace
  <2>2. new \in Exchange /\ new.ack = "None" BY <2>1, LiveType DEF IInv, Exchange
  <2>3. exchanges' = [exchanges EXCEPT ![This] = new] /\ owed \ {This} \subseteq owed'
    BY <1>2 DEF SendResponse
  <2> QED BY <2>1, <2>2, <2>3, SettlingKeepsAcks
<1> QED BY <1>1, <1>2

\* The clock makes an AckEntry late, it does not make one.
LEMMA AckTimeoutKeepsAcks ==
  ASSUME IInv, NoSpuriousAck, NEW e \in ExchIds, AckTimeout(e)
  PROVE  NoSpuriousAck'
<1>1. [exchanges[e] EXCEPT !.ack = "late"] \in Exchange
      /\ [exchanges[e] EXCEPT !.ack = "late"].ack # "None" /\ e \in owed
  BY LiveType DEF AckTimeout, IInv, Exchange, NoSpuriousAck
<1> QED BY <1>1, SettlingKeepsAcks DEF AckTimeout

\* Every step keeps NoSpuriousAck.
LEMMA NextKeepsAcks == IInv /\ NoSpuriousAck /\ [Next]_vars => NoSpuriousAck'
<1> SUFFICES ASSUME IInv, NoSpuriousAck, [Next]_vars PROVE NoSpuriousAck' OBVIOUS
<1>1. CASE UNCHANGED exchVars BY <1>1 DEF exchVars, NoSpuriousAck, Live
<1>2. CASE Recv
  BY <1>1, <1>2, EvictionKeepsAcks DEF Recv, RecvOnSession, RecvNewPeer, RecvWhenFull
<1>3. CASE HandleQueueMsg
  BY <1>1, <1>3, EvictionKeepsAcks DEF HandleQueueMsg
<1>4. CASE NoExchange \/ QueueEmpty \/ PendingAcks
  BY <1>1, <1>4 DEF NoExchange, QueueEmpty, PendingAcks
<1>5. CASE Purge
  BY <1>5, RemovalKeepsAcks DEF Purge
<1>6. CASE UNCHANGED vars BY <1>1, <1>6 DEF vars, exchVars
<1> QED
  BY <1>2, <1>3, <1>4, <1>5, <1>6, HandlerKeepsAcks, GetExchangeKeepsAcks, SendingKeepsAcks,
     AckTimeoutKeepsAcks DEF Next, LoopStep

\* No packet is acknowledged twice: an AckEntry is there only while the peer still
\* waits for the acknowledgement, whichever packet carries it first.
THEOREM AcksAreOwed == Spec => []NoSpuriousAck
<1>1. Init => NoSpuriousAck BY DEF Init, NoSpuriousAck, Live
<1> QED BY <1>1, NextKeepsAcks, Inductive, PTL DEF Spec

(***************************************************************************)
(* The end of exchanges.                                                   *)
(***************************************************************************)

\* The exchanges of a step that may go: e is closed and nothing is awaited on it, or
\* its session loses all it has.
MayEnd(e) ==
  \/ /\ exchanges[e].state = "Close"
     /\ ~ exchanges[e].retrans /\ exchanges[e].ack = "None"
  \/ On(exchanges[e].slot) \cap Live' = {}

\* An update puts an exchange where there is one already, or a new one.
LEMMA UpdateKeepsLive ==
  ASSUME IInv, NEW e \in ExchIds, NEW x \in Exchange,
         exchanges' = [exchanges EXCEPT ![e] = x]
  PROVE  Live \subseteq Live'
BY LiveType DEF IInv, TypeOK, Live

\* No handler and no answer removes an exchange.
LEMMA HandlerKeepsLive ==
  ASSUME IInv,
         \/ HandleAck \/ HandleRequest \/ HandleSigma1
         \/ Sigma3Error \/ Sigma3Denied \/ Sigma3Success
         \/ PaseDisabled \/ PaseError \/ PbkdfBusy \/ PbkdfAccept
         \/ Pake1 \/ Pake3Denied \/ Pake3Success \/ SendResponse
  PROVE  Live \subseteq Live'
<1>1. heldAt' = heldAt BY HandlerStep
<1>2. \A e \in Live : exchanges[e].slot \in Slots BY LiveType DEF IInv, Exchange
<1>3. \A e \in Live : heldAt[e] # MAX_SESSIONS
  BY <1>2, SessionTableAssumption DEF heldAt, Live, Slots
<1>4. \A e \in ExchIds : e \notin Live' => heldAt'[e] = MAX_SESSIONS BY DEF heldAt
<1> QED BY <1>1, <1>3, <1>4 DEF Live

\* An eviction removes the exchanges of a session together, a failed one removes none.
LEMMA EvictionEnds ==
  ASSUME IInv, NEW i \in Slots, EvictFails(i) \/ RemoveExchangesOn(i),
         NEW e \in Live, e \notin Live'
  PROVE  MayEnd(e)
<1>1. CASE RemoveExchangesOn(i)
  <2>1. On(i) \cap Live' = {} BY <1>1 DEF RemoveExchangesOn, On, Live
  <2>2. exchanges[e].slot = i BY <1>1 DEF RemoveExchangesOn, On, Live
  <2> QED BY <2>1, <2>2 DEF MayEnd
<1>2. CASE EvictFails(i)
  <2> PICK f \in On(i) : exchanges' = [exchanges EXCEPT ![f].ack = "None"]
    BY <1>2 DEF EvictFails
  <2>1. f \in ExchIds /\ [exchanges[f] EXCEPT !.ack = "None"] \in Exchange
    BY LiveType DEF On, IInv, Exchange, Live
  <2> QED BY <2>1, UpdateKeepsLive
<1> QED BY <1>1, <1>2

\* Every step lets an exchange go only when it may.
LEMMA NextEndsCleanly ==
  ASSUME IInv, [Next]_vars, NEW e \in Live, e \notin Live'
  PROVE  MayEnd(e)
<1>1. ASSUME UNCHANGED exchVars PROVE FALSE BY <1>1 DEF exchVars, Live
<1>2. CASE Recv
  BY <1>1, <1>2, EvictionEnds DEF Recv, RecvOnSession, RecvNewPeer, RecvWhenFull
<1>3. CASE HandleQueueMsg
  BY <1>1, <1>3, EvictionEnds DEF HandleQueueMsg
<1>4. CASE GetExchange
  <2> DEFINE x == IF rx.exch \in Live THEN exchanges[rx.exch] ELSE NewExchange(rx.slot)
  <2>1. rx \in Received BY <1>4 DEF GetExchange, IInv, LoopShape
  <2>2. x \in Exchange
    BY <2>1, LiveType, SessionTableAssumption DEF IInv, NewExchange, Exchange, Received
  <2>3. MrpRecv(x, rx) \in Exchange
    BY <2>1, <2>2 DEF MrpRecv, Exchange, Received
  <2>4. exchanges' = [exchanges EXCEPT ![rx.exch] = MrpRecv(x, rx)]
    BY <1>4 DEF GetExchange
  <2> QED BY <2>1, <2>3, <2>4, UpdateKeepsLive DEF Received
<1>5. CASE \E f \in ExchIds : SendAck(f) \/ AckTimeout(f)
  <2> PICK f \in ExchIds : SendAck(f) \/ AckTimeout(f) BY <1>5
  <2>1. f \in Live BY DEF SendAck, AckTimeout, IInv, LoopShape
  <2>2. \A a \in {"None", "late"} : [exchanges[f] EXCEPT !.ack = a] \in Exchange
    BY <2>1, LiveType DEF IInv, Exchange
  <2> QED BY <2>2, UpdateKeepsLive DEF SendAck, AckTimeout
<1>6. CASE Purge
  BY <1>6 DEF Purge, IsPurgeable, MayEnd, Live
<1>7. CASE NoExchange \/ QueueEmpty \/ PendingAcks
  BY <1>1, <1>7 DEF NoExchange, QueueEmpty, PendingAcks
<1>8. CASE UNCHANGED vars BY <1>1, <1>8 DEF vars, exchVars
<1> QED
  BY <1>2, <1>3, <1>4, <1>5, <1>6, <1>7, <1>8, HandlerKeepsLive DEF Next, LoopStep

\* An exchange goes when it is closed and nothing is awaited on it by either side,
\* or with its session and every other exchange of it.
THEOREM ExchangesEndCleanly == Spec => EndsCleanly
<1>1. IInv /\ [Next]_vars =>
        [\A e \in Live : e \notin Live' =>
           \/ /\ exchanges[e].state = "Close"
              /\ ~ exchanges[e].retrans /\ exchanges[e].ack = "None"
           \/ On(exchanges[e].slot) \cap Live' = {}]_vars
  BY NextEndsCleanly DEF MayEnd
<1> QED BY <1>1, Inductive, PTL DEF Spec, EndsCleanly

(***************************************************************************)
(* Sessions.                                                               *)
(***************************************************************************)
\* last_use orders the slots, and the slot used last has the greatest rank.
LruOrder ==
  /\ \A i, j \in Slots : last_use[i] = last_use[j] => i = j
  /\ \A i \in mru : last_use[i] = MAX_SESSIONS

\* Noting a use keeps the order of the other slots.
LEMMA TouchOrder ==
  ASSUME NEW rank \in [Slots -> Ranks], NEW i \in Slots,
         \A j, k \in Slots : rank[j] = rank[k] => j = k
  PROVE  /\ \A j, k \in Slots : Touch(rank, i)[j] = Touch(rank, i)[k] => j = k
         /\ Touch(rank, i)[i] = MAX_SESSIONS
<1>1. \A j \in Slots : Touch(rank, i)[j] =
        IF j = i THEN MAX_SESSIONS ELSE IF rank[j] > rank[i] THEN rank[j] - 1 ELSE rank[j]
  BY DEF Touch
<1>2. MAX_SESSIONS \in Nat \ {0} BY SessionTableAssumption
<1>3. \A j \in Slots : rank[j] \in Int /\ rank[j] >= 1 /\ rank[j] <= MAX_SESSIONS
  BY <1>2 DEF Ranks
<1>4. ASSUME NEW j \in Slots, j # i PROVE Touch(rank, i)[j] < MAX_SESSIONS
  <2>1. rank[j] # rank[i] BY <1>4
  <2> QED BY <1>1, <1>2, <1>3, <1>4, <2>1
<1>5. ASSUME NEW j \in Slots, NEW k \in Slots, j # i, k # i,
             Touch(rank, i)[j] = Touch(rank, i)[k]
      PROVE  j = k
  <2>1. rank[j] # rank[i] /\ rank[k] # rank[i] BY <1>5
  <2>2. rank[j] = rank[k] BY <1>1, <1>3, <1>5, <2>1
  <2> QED BY <2>2
<1>6. Touch(rank, i)[i] = MAX_SESSIONS BY <1>1
<1> QED BY <1>2, <1>4, <1>5, <1>6

\* Noting a use keeps LruOrder.
LEMMA UseKeepsOrder ==
  ASSUME IInv, LruOrder, NEW i \in Slots, Use(i)
  PROVE  LruOrder'
<1>1. last_use' = Touch(last_use, i) /\ mru' = {i} BY DEF Use
<1>2. last_use \in [Slots -> Ranks] BY DEF IInv, TypeOK
<1>3. \A j, k \in Slots : last_use[j] = last_use[k] => j = k BY DEF LruOrder
<1>4. /\ \A j, k \in Slots : Touch(last_use, i)[j] = Touch(last_use, i)[k] => j = k
      /\ Touch(last_use, i)[i] = MAX_SESSIONS
  BY <1>2, <1>3, TouchOrder
<1> QED BY <1>1, <1>4 DEF LruOrder

\* Every step uses one slot, or none.
LEMMA NextKeepsOrder == IInv /\ LruOrder /\ [Next]_vars => LruOrder'
<1> SUFFICES ASSUME IInv, LruOrder, [Next]_vars PROVE LruOrder' OBVIOUS
<1>1. CASE UNCHANGED <<last_use, mru>> BY <1>1 DEF LruOrder
<1>2. CASE \E i \in Slots : Use(i) BY <1>2, UseKeepsOrder
<1>3. CASE Recv
  BY <1>2, <1>3 DEF Recv, RecvOnSession, RecvNewPeer, RecvWhenFull, Accept, EvictFails
<1>4. CASE HandleQueueMsg
  <2>1. PICK i \in Slots :
           \/ InstallAt(i) \/ EvictFails(i)
    BY <1>4 DEF HandleQueueMsg
  <2>2. Use(i) BY <2>1 DEF InstallAt, EvictFails
  <2> QED BY <1>2, <2>2
<1>5. CASE SendResponse
  <2>1. rx.slot \in Slots BY <1>5 DEF SendResponse, IInv, LoopShape, Context
  <2> QED BY <1>1, <1>2, <1>5, <2>1 DEF SendResponse
<1>6. CASE \E e \in ExchIds : SendAck(e)
  <2> PICK e \in ExchIds : SendAck(e) BY <1>6
  <2>1. e \in Live BY DEF SendAck, IInv, LoopShape
  <2>2. exchanges[e].slot \in Slots BY <2>1, LiveType DEF IInv, Exchange
  <2> QED BY <1>2, <2>2 DEF SendAck
<1>7. CASE \/ NoExchange \/ GetExchange \/ QueueEmpty \/ PendingAcks \/ Purge
           \/ HandleAck \/ HandleRequest \/ HandleSigma1
           \/ \E e \in ExchIds : AckTimeout(e)
  BY <1>1, <1>7 DEF NoExchange, GetExchange, QueueEmpty, PendingAcks, Purge, HandleAck,
                    HandleRequest, HandleSigma1, AckTimeout, sessVars
<1>8. CASE \/ Sigma3Error \/ Sigma3Denied \/ Sigma3Success
           \/ PaseDisabled \/ PaseError \/ PbkdfBusy \/ PbkdfAccept
           \/ Pake1 \/ Pake3Denied \/ Pake3Success
  BY <1>1, <1>8 DEF Sigma3Error, Sigma3Denied, Sigma3Success, PaseDisabled, PaseError,
                    PbkdfBusy, PbkdfAccept, Pake1, Pake3Denied, Pake3Success, sessVars
<1>9. CASE UNCHANGED vars BY <1>1, <1>9 DEF vars
<1> QED BY <1>3, <1>4, <1>5, <1>6, <1>7, <1>8, <1>9 DEF Next, LoopStep

\* In a full table the least recently used slot is not the one used last, unless it
\* is the only one.
LEMMA LruIsNotMru ==
  ASSUME IInv, LruOrder, Empty(sessions) = {}, NEW i \in Slots,
         IsLru(sessions, last_use, i)
  PROVE  i \notin mru \/ MAX_SESSIONS = 1
<1> SUFFICES ASSUME i \in mru, MAX_SESSIONS # 1 PROVE FALSE OBVIOUS
<1>1. last_use[i] = MAX_SESSIONS BY DEF LruOrder
<1>2. PICK j \in Slots : j # i
  <2>1. 0 \in Slots /\ 1 \in Slots BY SessionTableAssumption DEF Slots
  <2> QED BY <2>1
<1>3. j \in Occupied(sessions) BY DEF Empty, Occupied
<1>4. last_use[i] <= last_use[j] BY <1>3 DEF IsLru
<1>5. last_use[j] \in Nat /\ last_use[j] <= MAX_SESSIONS
  BY SessionTableAssumption DEF IInv, TypeOK, Ranks
<1>6. last_use[j] = last_use[i] BY <1>1, <1>4, <1>5, SessionTableAssumption
<1> QED BY <1>2, <1>6 DEF LruOrder

\* Every step that loses a session is the eviction of the least recently used one.
LEMMA NextEvictsLru ==
  ASSUME IInv, LruOrder, [Next]_vars, NEW i \in Occupied(sessions), sessions'[i] # sessions[i]
  PROVE  Empty(sessions) = {} /\ (i \notin mru \/ MAX_SESSIONS = 1)
<1> USE DEF IInv
<1>1. ASSUME UNCHANGED sessions PROVE FALSE BY <1>1
<1>2. i \in Slots /\ sessions[i] # NoSession BY DEF Occupied
<1>3. CASE Recv
  <2> PICK m \in Packets : RecvOnSession(m) \/ RecvNewPeer(m) \/ RecvWhenFull(m)
    BY <1>3 DEF Recv
  <2>1. CASE RecvOnSession(m) BY <1>1, <2>1 DEF RecvOnSession
  <2>2. CASE RecvNewPeer(m)
    BY <1>2, <2>2 DEF RecvNewPeer, IsFirst, Empty, TypeOK
  <2>3. CASE RecvWhenFull(m)
    <3>1. Empty(sessions) = {} BY <2>3 DEF RecvWhenFull
    <3>2. PICK k \in Slots : IsLru(sessions, last_use, k)
                   /\ (EvictFails(k) \/ sessions' = [sessions EXCEPT ![k] = PlainSession(m)])
      BY <2>3 DEF RecvWhenFull
    <3>3. k = i BY <1>1, <1>2, <3>2 DEF EvictFails, TypeOK
    <3> QED BY <3>1, <3>2, <3>3, LruIsNotMru
  <2> QED BY <2>1, <2>2, <2>3
<1>4. CASE HandleQueueMsg
  <2>1. PICK k \in Slots :
          \/ IsFirst(k, Empty(sessions)) /\ InstallAt(k)
          \/ /\ Empty(sessions) = {} /\ IsLru(sessions, last_use, k)
             /\ EvictFails(k) \/ (RemoveExchangesOn(k) /\ InstallAt(k))
    BY <1>4 DEF HandleQueueMsg
  <2>2. CASE IsFirst(k, Empty(sessions)) /\ InstallAt(k)
    BY <1>2, <2>2 DEF IsFirst, Empty, InstallAt, TypeOK
  <2>3. CASE /\ Empty(sessions) = {} /\ IsLru(sessions, last_use, k)
             /\ EvictFails(k) \/ (RemoveExchangesOn(k) /\ InstallAt(k))
    <3>1. k = i BY <1>1, <1>2, <2>3 DEF EvictFails, InstallAt, TypeOK
    <3> QED BY <2>3, <3>1, LruIsNotMru
  <2> QED BY <2>1, <2>2, <2>3
<1>5. CASE \/ HandleAck \/ HandleRequest \/ HandleSigma1
           \/ Sigma3Error \/ Sigma3Denied \/ Sigma3Success
           \/ PaseDisabled \/ PaseError \/ PbkdfBusy \/ PbkdfAccept
           \/ Pake1 \/ Pake3Denied \/ Pake3Success \/ SendResponse
  BY <1>1, <1>5, HandlerStep
<1>6. CASE \/ NoExchange \/ GetExchange \/ QueueEmpty \/ PendingAcks \/ Purge
           \/ \E e \in ExchIds : SendAck(e) \/ AckTimeout(e)
  BY <1>1, <1>6 DEF NoExchange, GetExchange, QueueEmpty, PendingAcks, Purge, SendAck,
                    AckTimeout, sessVars
<1>7. CASE UNCHANGED vars BY <1>1, <1>7 DEF vars
<1> QED BY <1>3, <1>4, <1>5, <1>6, <1>7 DEF Next, LoopStep

\* last_use orders the slots when the loop starts, and in every later state.
THEOREM UsesAreOrdered == Spec => []LruOrder
<1>1. Init => LruOrder BY DEF Init, LruOrder, Slots
<1> QED BY <1>1, NextKeepsOrder, Inductive, PTL DEF Spec

\* A session is lost only when the table is full, and never the one used last.
THEOREM EvictsOldSession == Spec => LruEviction
<1>1. IInv /\ LruOrder /\ [Next]_vars =>
        [\A i \in Occupied(sessions) : sessions'[i] # sessions[i] =>
           /\ Empty(sessions) = {}
           /\ i \notin mru \/ MAX_SESSIONS = 1]_vars
  BY NextEvictsLru
<1> QED BY <1>1, Inductive, UsesAreOrdered, PTL DEF Spec, LruEviction
=============================================================================
