--------------------------- MODULE ExchangeMgr_ids ---------------------------
(***************************************************************************)
(* Proofs about session ids and PASE sessions: that the ids of handshakes  *)
(* under way, queued sessions and installed sessions differ until          *)
(* next_sess_id starts over (IdsDifferBeforeWrap of ExchangeMgr), and that *)
(* a commissioning window makes one PASE session (PaseOnce).               *)
(*                                                                         *)
(* An id is reserved for an exchange or for the PASE handshake, moves to   *)
(* the queue, and from there to a session slot.  Distinct says that no two *)
(* of these places hold one id; the lemmas after it are the ways in which  *)
(* a step changes who holds what.                                          *)
(***************************************************************************)
EXTENDS ExchangeMgr_proofs

\* The id each exchange, each session slot and the PASE handshake holds; 0 is none.
heldData == [e \in ExchIds |-> IF e \in Live THEN exchanges[e].data ELSE 0]
heldIds  == [i \in Slots |-> IF sessions[i] = NoSession THEN 0 ELSE sessions[i].id]
heldPake == IF pake \in InProgress THEN pake.id ELSE 0

\* X, S and P hold ids as above, Q is the queue: no id is held twice, and every id
\* is below n, so that n itself is free.
Distinct(X, S, Q, P, n) ==
  /\ \A e, f \in ExchIds : X[e] # 0 /\ X[e] = X[f] => e = f
  /\ \A i, j \in Slots : S[i] # 0 /\ S[i] = S[j] => i = j
  /\ \A p, q \in DOMAIN Q : Q[p].id = Q[q].id => p = q
  /\ \A e \in ExchIds, p \in DOMAIN Q : X[e] # Q[p].id
  /\ \A i \in Slots, p \in DOMAIN Q : S[i] # Q[p].id
  /\ \A e \in ExchIds, i \in Slots : X[e] # 0 => X[e] # S[i]
  /\ P # 0 => /\ \A e \in ExchIds : X[e] # P
              /\ \A i \in Slots : S[i] # P
              /\ \A p \in DOMAIN Q : Q[p].id # P
  /\ \A e \in ExchIds : X[e] < n
  /\ \A i \in Slots : S[i] < n
  /\ \A p \in DOMAIN Q : Q[p].id < n
  /\ P < n

\* The inductive invariant: before next_sess_id starts over the ids are distinct and
\* all below it.
IdInv == ~ wrapped => Distinct(heldData, heldIds, workq, heldPake, next_sess_id)

(***************************************************************************)
(* How Distinct is kept.                                                   *)
(***************************************************************************)

Ids == 0 .. MaxSessId

\* What is queued has an id.
LEMMA QueueHasIds ==
  ASSUME NEW Q \in Seq(CloneData), NEW p \in DOMAIN Q
  PROVE  Q[p].id \in Nat /\ Q[p].id # 0
<1>1. Q[p] \in CloneData OBVIOUS
<1> QED BY <1>1, SessionTableAssumption DEF CloneData, SessIds

\* Ids are given up, and n moves on.
LEMMA GivenUp ==
  ASSUME NEW X \in [ExchIds -> Ids], NEW S \in [Slots -> Ids], NEW Q \in Seq(CloneData),
         NEW P \in Ids, NEW n \in Nat, Distinct(X, S, Q, P, n),
         NEW Y \in [ExchIds -> Ids], \A e \in ExchIds : Y[e] \in {X[e], 0},
         NEW T \in [Slots -> Ids], \A i \in Slots : T[i] \in {S[i], 0},
         NEW R \in {P, 0}, NEW m \in Nat, n <= m
  PROVE  Distinct(Y, T, Q, R, m)
<1>1. \A p \in DOMAIN Q : Q[p].id \in Nat /\ Q[p].id # 0 BY QueueHasIds
<1>2. n > 0 BY DEF Distinct, Ids
<1>3. \A e \in ExchIds : Y[e] < m
  <2> SUFFICES ASSUME NEW e \in ExchIds PROVE Y[e] < m OBVIOUS
  <2>1. X[e] < n /\ X[e] \in Nat BY DEF Distinct, Ids
  <2> QED BY <1>2, <2>1
<1>4. \A i \in Slots : T[i] < m
  <2> SUFFICES ASSUME NEW i \in Slots PROVE T[i] < m OBVIOUS
  <2>1. S[i] < n /\ S[i] \in Nat BY DEF Distinct, Ids
  <2> QED BY <1>2, <2>1
<1>5. R < m BY <1>2 DEF Distinct, Ids
<1>6. \A p \in DOMAIN Q : Q[p].id < m BY <1>1 DEF Distinct
<1> QED BY <1>1, <1>3, <1>4, <1>5, <1>6 DEF Distinct

\* An exchange is given an id that is not below n.
LEMMA NewInExchange ==
  ASSUME NEW X \in [ExchIds -> Ids], NEW S \in [Slots -> Ids], NEW Q \in Seq(CloneData),
         NEW P \in Ids, NEW n \in Nat, Distinct(X, S, Q, P, n),
         NEW e \in ExchIds, NEW k \in SessIds, n <= k
  PROVE  Distinct([X EXCEPT ![e] = k], S, Q, P, k + 1)
<1>1. k \in Nat /\ k # 0 BY SessionTableAssumption DEF SessIds
<1>2. \A p \in DOMAIN Q : Q[p].id \in Nat BY QueueHasIds
<1> DEFINE Y == [X EXCEPT ![e] = k]
<1>3. Y[e] = k /\ \A f \in ExchIds : f # e => Y[f] = X[f] OBVIOUS
<1>4. \A f \in ExchIds : X[f] \in Nat /\ X[f] < k BY <1>1 DEF Distinct, Ids
<1>5. \A i \in Slots : S[i] \in Nat /\ S[i] < k BY <1>1 DEF Distinct, Ids
<1>6. \A p \in DOMAIN Q : Q[p].id < k BY <1>1, <1>2 DEF Distinct
<1>7. P \in Nat /\ P < k BY <1>1 DEF Distinct, Ids
<1> HIDE DEF Y
<1>8. Distinct(Y, S, Q, P, k + 1)
  BY <1>1, <1>2, <1>3, <1>4, <1>5, <1>6, <1>7 DEF Distinct
<1> QED BY <1>8 DEF Y

\* The PASE handshake is given an id that is not below n.
LEMMA NewInPake ==
  ASSUME NEW X \in [ExchIds -> Ids], NEW S \in [Slots -> Ids], NEW Q \in Seq(CloneData),
         NEW P \in Ids, NEW n \in Nat, Distinct(X, S, Q, P, n),
         NEW k \in SessIds, n <= k
  PROVE  Distinct(X, S, Q, k, k + 1)
<1>1. k \in Nat /\ k # 0 BY SessionTableAssumption DEF SessIds
<1>2. \A p \in DOMAIN Q : Q[p].id \in Nat BY QueueHasIds
<1>3. \A f \in ExchIds : X[f] \in Nat /\ X[f] < k BY <1>1 DEF Distinct, Ids
<1>4. \A i \in Slots : S[i] \in Nat /\ S[i] < k BY <1>1 DEF Distinct, Ids
<1>5. \A p \in DOMAIN Q : Q[p].id < k BY <1>1, <1>2 DEF Distinct
<1> QED BY <1>1, <1>2, <1>3, <1>4, <1>5 DEF Distinct

\* What the queue holds after a message is put into it.
LEMMA QueueAfter ==
  ASSUME NEW Q \in Seq(CloneData), NEW c \in CloneData
  PROVE  /\ DOMAIN Append(Q, c) = DOMAIN Q \cup {Len(Q) + 1} /\ Len(Q) + 1 \notin DOMAIN Q
         /\ \A p \in DOMAIN Q : Append(Q, c)[p] = Q[p]
         /\ Append(Q, c)[Len(Q) + 1] = c
OBVIOUS

\* The id of an exchange moves to the queue.
LEMMA ExchangeToQueue ==
  ASSUME NEW X \in [ExchIds -> Ids], NEW S \in [Slots -> Ids], NEW Q \in Seq(CloneData),
         NEW P \in Ids, NEW n \in Nat, Distinct(X, S, Q, P, n),
         NEW e \in ExchIds, NEW c \in CloneData, c.id = X[e]
  PROVE  Distinct([X EXCEPT ![e] = 0], S, Append(Q, c), P, n)
<1>1. c.id # 0 /\ c.id \in Nat BY SessionTableAssumption DEF CloneData, SessIds
<1> DEFINE Y == [X EXCEPT ![e] = 0]  R == Append(Q, c)
<1>2. Y[e] = 0 /\ \A f \in ExchIds : f # e => Y[f] = X[f] OBVIOUS
<1>3. /\ DOMAIN R = DOMAIN Q \cup {Len(Q) + 1} /\ Len(Q) + 1 \notin DOMAIN Q
      /\ \A p \in DOMAIN Q : R[p] = Q[p]
      /\ R[Len(Q) + 1] = c
  BY QueueAfter
<1>4. c.id < n /\ 0 < n BY <1>1 DEF Distinct
<1>5. \A f \in ExchIds : Y[f] # c.id BY <1>1, <1>2 DEF Distinct
<1>6. \A p \in DOMAIN Q : Q[p].id # c.id BY DEF Distinct
<1>7. \A i \in Slots : S[i] # c.id BY <1>1 DEF Distinct
<1>8. P # c.id BY <1>1 DEF Distinct
<1>9. \A p \in DOMAIN Q : Q[p].id # 0 BY QueueHasIds
<1> HIDE DEF Y, R
<1>10. Distinct(Y, S, R, P, n)
  BY <1>1, <1>2, <1>3, <1>4, <1>5, <1>6, <1>7, <1>8, <1>9 DEF Distinct
<1> QED BY <1>10 DEF Y, R

\* The id of the PASE handshake moves to the queue.
LEMMA PakeToQueue ==
  ASSUME NEW X \in [ExchIds -> Ids], NEW S \in [Slots -> Ids], NEW Q \in Seq(CloneData),
         NEW P \in Ids, NEW n \in Nat, Distinct(X, S, Q, P, n),
         NEW c \in CloneData, c.id = P
  PROVE  Distinct(X, S, Append(Q, c), 0, n)
<1>1. c.id # 0 /\ c.id \in Nat BY SessionTableAssumption DEF CloneData, SessIds
<1> DEFINE R == Append(Q, c)
<1>2. /\ DOMAIN R = DOMAIN Q \cup {Len(Q) + 1} /\ Len(Q) + 1 \notin DOMAIN Q
      /\ \A p \in DOMAIN Q : R[p] = Q[p]
      /\ R[Len(Q) + 1] = c
  BY QueueAfter
<1>3. c.id < n /\ 0 < n BY <1>1 DEF Distinct
<1> HIDE DEF R
<1>4. Distinct(X, S, R, 0, n) BY <1>1, <1>2, <1>3 DEF Distinct
<1> QED BY <1>4 DEF R

\* The first message of the queue leaves it, and its id goes to a slot or is lost.
LEMMA QueueToSlot ==
  ASSUME NEW X \in [ExchIds -> Ids], NEW S \in [Slots -> Ids], NEW Q \in Seq(CloneData),
         NEW P \in Ids, NEW n \in Nat, Distinct(X, S, Q, P, n),
         Q # <<>>, NEW i \in Slots
  PROVE  /\ Distinct(X, [S EXCEPT ![i] = Head(Q).id], Tail(Q), P, n)
         /\ Distinct(X, S, Tail(Q), P, n)
<1> DEFINE T == [S EXCEPT ![i] = Head(Q).id]  R == Tail(Q)  k == Head(Q).id
<1>1. 1 \in DOMAIN Q /\ Head(Q) = Q[1] OBVIOUS
<1>2. k # 0 /\ k \in Nat BY <1>1, QueueHasIds
<1>3. T[i] = k /\ \A j \in Slots : j # i => T[j] = S[j] OBVIOUS
<1>4. \A p \in DOMAIN R : p + 1 \in DOMAIN Q /\ p + 1 # 1 /\ R[p] = Q[p + 1] /\ p \in Int OBVIOUS
<1>5. k = Q[1].id BY <1>1
<1>6. \A p \in DOMAIN R : R[p].id # k BY <1>1, <1>4, <1>5 DEF Distinct
<1>7. \A p, q \in DOMAIN R : R[p].id = R[q].id => p = q
  <2> SUFFICES ASSUME NEW p \in DOMAIN R, NEW q \in DOMAIN R, R[p].id = R[q].id
               PROVE  p = q
    OBVIOUS
  <2>1. p + 1 = q + 1 BY <1>4 DEF Distinct
  <2> QED BY <1>4, <2>1
<1>8. k < n BY <1>1, <1>5 DEF Distinct
<1> HIDE DEF T, R, k
<1>9. Distinct(X, S, R, P, n) BY <1>1, <1>4, <1>7 DEF Distinct
<1>10. \A j \in Slots, p \in DOMAIN R : T[j] # R[p].id BY <1>3, <1>6, <1>9 DEF Distinct
<1>11. \A e \in ExchIds : X[e] # k BY <1>1, <1>5 DEF Distinct
<1>12. \A j \in Slots : S[j] # k BY <1>1, <1>5 DEF Distinct
<1>13. P # k BY <1>1, <1>2, <1>5 DEF Distinct
<1>14. Distinct(X, T, R, P, n)
  BY <1>2, <1>3, <1>8, <1>9, <1>10, <1>11, <1>12, <1>13 DEF Distinct
<1> QED BY <1>9, <1>14 DEF T, R, k

(***************************************************************************)
(* How the steps change who holds what.                                    *)
(***************************************************************************)

LEMMA HeldType ==
  TypeOK => /\ heldData \in [ExchIds -> Ids] /\ heldIds \in [Slots -> Ids] /\ heldPake \in Ids
            /\ workq \in Seq(CloneData) /\ next_sess_id \in Nat
<1> SUFFICES ASSUME TypeOK
             PROVE  /\ heldData \in [ExchIds -> Ids] /\ heldIds \in [Slots -> Ids]
                    /\ heldPake \in Ids
                    /\ workq \in Seq(CloneData) /\ next_sess_id \in Nat
  OBVIOUS
<1>1. 0 \in Ids BY SessionTableAssumption DEF Ids
<1>2. \A e \in Live : exchanges[e].data \in Ids BY LiveType DEF Exchange, Ids
<1>3. heldData \in [ExchIds -> Ids] BY <1>1, <1>2 DEF heldData
<1>4. heldIds \in [Slots -> Ids] BY <1>1 DEF heldIds, TypeOK, Session, Ids
<1>5. heldPake \in Ids BY <1>1, SessionTableAssumption DEF heldPake, InProgress, SessIds, Ids
<1> QED BY <1>3, <1>4, <1>5, SessionTableAssumption DEF TypeOK, SessIds

\* An exchange that is changed, or made, holds the id of its new record.
LEMMA DataAfterUpdate ==
  ASSUME TypeOK, NEW e \in ExchIds, NEW x \in Exchange, exchanges' = [exchanges EXCEPT ![e] = x]
  PROVE  heldData' = [heldData EXCEPT ![e] = x.data]
<1>1. x # NoExch BY LiveType
<1>2. \A f \in ExchIds : exchanges'[f] = IF f = e THEN x ELSE exchanges[f] BY DEF TypeOK
<1>3. Live' = Live \cup {e} BY <1>1, <1>2 DEF Live
<1>4. heldData' = [f \in ExchIds |-> IF f \in Live \cup {e} THEN exchanges'[f].data ELSE 0]
  BY <1>3 DEF heldData
<1>5. [heldData EXCEPT ![e] = x.data]
        = [f \in ExchIds |-> IF f = e THEN x.data ELSE heldData[f]]
  BY DEF heldData
<1>6. \A f \in ExchIds : (IF f \in Live \cup {e} THEN exchanges'[f].data ELSE 0)
                          = IF f = e THEN x.data ELSE heldData[f]
  BY <1>2 DEF heldData
<1> QED BY <1>4, <1>5, <1>6

\* A live exchange that is changed keeps its id or gives it up.
LEMMA DataAfterChange ==
  ASSUME TypeOK, NEW e \in Live, NEW x \in Exchange, x.data \in {exchanges[e].data, 0},
         exchanges' = [exchanges EXCEPT ![e] = x]
  PROVE  \A f \in ExchIds : heldData'[f] \in {heldData[f], 0}
<1>1. e \in ExchIds BY DEF Live
<1>2. heldData' = [heldData EXCEPT ![e] = x.data] BY <1>1, DataAfterUpdate
<1>3. heldData[e] = exchanges[e].data BY <1>1 DEF heldData
<1>4. heldData \in [ExchIds -> Ids] BY HeldType
<1> QED BY <1>1, <1>2, <1>3, <1>4

LEMMA ClosedHoldsNone ==
  ASSUME NEW x \in Exchange
  PROVE  Closed(x) \in Exchange /\ Closed(x).data = 0
<1>1. 0 \in 0 .. MaxSessId BY SessionTableAssumption
<1>2. Closed(x) \in Exchange BY <1>1, HandlerRecords
<1>3. Closed(x).data = 0 BY DEF Closed, Exchange
<1> QED BY <1>2, <1>3

LEMMA MrpRecvKeepsData ==
  ASSUME NEW x \in Exchange, NEW r \in Received
  PROVE  MrpRecv(x, r).data = x.data
<1> DEFINE acked == [x EXCEPT !.retrans = @ /\ ~ r.ack]
<1>1. acked.data = x.data /\ [acked EXCEPT !.ack = "fresh"].data = x.data BY DEF Exchange
<1>2. MrpRecv(x, r) \in {acked, [acked EXCEPT !.ack = "fresh"]} BY DEF MrpRecv
<1> QED BY <1>1, <1>2

\* Exchanges that go give up their ids.
LEMMA DataAfterRemoval ==
  ASSUME NEW L, exchanges' = [e \in ExchIds |-> IF e \in L THEN NoExch ELSE exchanges[e]]
  PROVE  \A f \in ExchIds : heldData'[f] \in {heldData[f], 0}
<1>1. Live' = Live \ L BY DEF Live
<1> QED BY <1>1 DEF heldData

LEMMA DataAfterEviction ==
  ASSUME TypeOK, NEW i \in Slots, EvictFails(i) \/ RemoveExchangesOn(i)
  PROVE  \A f \in ExchIds : heldData'[f] \in {heldData[f], 0}
<1>1. CASE RemoveExchangesOn(i) BY <1>1, DataAfterRemoval DEF RemoveExchangesOn
<1>2. CASE EvictFails(i)
  <2> PICK e \in On(i) : exchanges' = [exchanges EXCEPT ![e].ack = "None"]
    BY <1>2 DEF EvictFails
  <2> DEFINE x == [exchanges[e] EXCEPT !.ack = "None"]
  <2>1. e \in Live BY DEF On
  <2>2. x \in Exchange /\ x.data = exchanges[e].data BY <2>1, LiveType DEF Exchange
  <2>3. exchanges' = [exchanges EXCEPT ![e] = x] OBVIOUS
  <2> HIDE DEF x
  <2> QED BY <2>1, <2>2, <2>3, DataAfterChange
<1> QED BY <1>1, <1>2

\* A slot that is given another session holds its id.
LEMMA IdsAfterInstall ==
  ASSUME TypeOK, NEW i \in Slots, NEW s \in Session, sessions' = [sessions EXCEPT ![i] = s]
  PROVE  heldIds' = [heldIds EXCEPT ![i] = s.id]
<1>1. s # NoSession BY NoSessionAssumption
<1>2. \A j \in Slots : sessions'[j] = IF j = i THEN s ELSE sessions[j] BY DEF TypeOK
<1>3. [heldIds EXCEPT ![i] = s.id] = [j \in Slots |-> IF j = i THEN s.id ELSE heldIds[j]]
  BY DEF heldIds
<1>4. \A j \in Slots : (IF sessions'[j] = NoSession THEN 0 ELSE sessions'[j].id)
                        = IF j = i THEN s.id ELSE heldIds[j]
  BY <1>1, <1>2 DEF heldIds
<1>5. heldIds' = [j \in Slots |-> IF sessions'[j] = NoSession THEN 0 ELSE sessions'[j].id]
  BY DEF heldIds
<1> QED BY <1>3, <1>4, <1>5

\* A reservation made before next_sess_id starts over is of an id that is not below
\* it, and leaves it just above that id.
LEMMA ReserveAdvances ==
  ASSUME TypeOK, NEW k \in SessIds, Reserve(k), ~ wrapped'
  PROVE  ~ wrapped /\ next_sess_id <= k /\ next_sess_id' = k + 1
<1>1. ~ wrapped /\ ~ (k < next_sess_id) /\ k # MaxSessId
  <2>1. wrapped' = (wrapped \/ k < next_sess_id \/ k = MaxSessId) BY DEF Reserve
  <2> QED BY <2>1
<1>2. k \in Nat /\ next_sess_id \in Nat BY HeldType, SessionTableAssumption DEF SessIds
<1> QED BY <1>1, <1>2 DEF Reserve, SuccId

\* A step that gives up ids at most, and perhaps reserves one that nobody takes.
LEMMA GivingUpKeepsIds ==
  ASSUME TypeOK, TypeOK', IdInv,
         \A e \in ExchIds : heldData'[e] \in {heldData[e], 0},
         \A i \in Slots : heldIds'[i] \in {heldIds[i], 0},
         heldPake' \in {heldPake, 0},
         UNCHANGED workq,
         UNCHANGED idVars \/ \E k \in SessIds : Reserve(k)
  PROVE  IdInv'
<1> SUFFICES ASSUME ~ wrapped'
             PROVE  Distinct(heldData', heldIds', workq', heldPake', next_sess_id')
  BY DEF IdInv
<1>1. ~ wrapped /\ next_sess_id <= next_sess_id'
  <2>1. CASE UNCHANGED idVars BY <2>1, HeldType DEF idVars
  <2>2. CASE \E k \in SessIds : Reserve(k)
    <3> PICK k \in SessIds : Reserve(k) BY <2>2
    <3>1. ~ wrapped /\ next_sess_id <= k /\ next_sess_id' = k + 1 BY ReserveAdvances
    <3>2. k \in Nat /\ next_sess_id \in Nat BY HeldType, SessionTableAssumption DEF SessIds
    <3> QED BY <3>1, <3>2
  <2> QED BY <2>1, <2>2
<1>2. Distinct(heldData, heldIds, workq, heldPake, next_sess_id) BY <1>1 DEF IdInv
<1>3. /\ heldData \in [ExchIds -> Ids] /\ heldIds \in [Slots -> Ids] /\ heldPake \in Ids
      /\ workq \in Seq(CloneData) /\ next_sess_id \in Nat
  BY HeldType
<1>4. (/\ heldData \in [ExchIds -> Ids] /\ heldIds \in [Slots -> Ids]
       /\ heldPake \in Ids
       /\ workq \in Seq(CloneData) /\ next_sess_id \in Nat)'
  BY HeldType, PTL
<1> QED BY <1>1, <1>2, <1>3, <1>4, GivenUp

\* A step that changes no exchange, session, or handshake.
LEMMA NothingHeldChanges ==
  /\ UNCHANGED exchanges => heldData' = heldData
  /\ UNCHANGED sessions => heldIds' = heldIds
  /\ UNCHANGED pake => heldPake' = heldPake
BY DEF heldData, heldIds, heldPake, Live

LEMMA RecvKeepsIds ==
  ASSUME TypeOK, TypeOK', IdInv, Recv
  PROVE  IdInv'
<1> PICK m \in Packets : RecvOnSession(m) \/ RecvNewPeer(m) \/ RecvWhenFull(m) BY DEF Recv
<1>1. UNCHANGED <<idVars, workq, pake>> BY DEF RecvOnSession, RecvNewPeer, RecvWhenFull
<1>2. PlainSession(m) \in Session /\ PlainSession(m).id = 0
  BY PacketsAssumption, PlainSessionType DEF PlainSession
<1>3. ASSUME NEW i \in Slots, sessions' = [sessions EXCEPT ![i] = PlainSession(m)]
      PROVE  \A j \in Slots : heldIds'[j] \in {heldIds[j], 0}
  <2>1. heldIds' = [heldIds EXCEPT ![i] = 0] BY <1>2, <1>3, IdsAfterInstall
  <2> QED BY <2>1, HeldType
<1>4. CASE RecvOnSession(m)
  <2>1. UNCHANGED <<sessions, exchanges>> BY <1>4 DEF RecvOnSession, exchVars
  <2> QED BY <1>1, <2>1, NothingHeldChanges, GivingUpKeepsIds
<1>5. CASE RecvNewPeer(m)
  <2>1. UNCHANGED exchanges BY <1>5 DEF RecvNewPeer, exchVars
  <2>2. \A j \in Slots : heldIds'[j] \in {heldIds[j], 0} BY <1>3, <1>5 DEF RecvNewPeer
  <2> QED BY <1>1, <2>1, <2>2, NothingHeldChanges, GivingUpKeepsIds
<1>6. CASE RecvWhenFull(m)
  <2> PICK i \in Slots :
        \/ EvictFails(i)
        \/ RemoveExchangesOn(i) /\ sessions' = [sessions EXCEPT ![i] = PlainSession(m)]
    BY <1>6 DEF RecvWhenFull
  <2>1. \A f \in ExchIds : heldData'[f] \in {heldData[f], 0} BY DataAfterEviction
  <2>2. \A j \in Slots : heldIds'[j] \in {heldIds[j], 0}
    BY <1>3, NothingHeldChanges DEF EvictFails
  <2> QED BY <1>1, <2>1, <2>2, NothingHeldChanges, GivingUpKeepsIds
<1> QED BY <1>4, <1>5, <1>6

LEMMA HousekeepingKeepsIds ==
  ASSUME IInv, TypeOK', IdInv,
         \/ NoExchange \/ GetExchange \/ QueueEmpty \/ PendingAcks \/ Purge
         \/ \E e \in ExchIds : SendAck(e) \/ AckTimeout(e)
  PROVE  IdInv'
<1> USE DEF IInv
<1>1. UNCHANGED <<sessions, pake, workq, idVars>>
  BY DEF NoExchange, GetExchange, QueueEmpty, PendingAcks, Purge, SendAck, AckTimeout, sessVars
<1>2. \A f \in ExchIds : heldData'[f] \in {heldData[f], 0}
  <2>1. CASE NoExchange \/ QueueEmpty \/ PendingAcks
    BY <2>1, NothingHeldChanges DEF NoExchange, QueueEmpty, PendingAcks, exchVars
  <2>2. CASE Purge BY <2>2, DataAfterRemoval DEF Purge
  <2>3. CASE \E e \in ExchIds : SendAck(e) \/ AckTimeout(e)
    <3> PICK e \in ExchIds : SendAck(e) \/ AckTimeout(e) BY <2>3
    <3>1. e \in Live BY DEF SendAck, AckTimeout, LoopShape
    <3> PICK a \in {"None", "late"} : exchanges' = [exchanges EXCEPT ![e].ack = a]
      BY DEF SendAck, AckTimeout
    <3> DEFINE x == [exchanges[e] EXCEPT !.ack = a]
    <3>2. x \in Exchange /\ x.data = exchanges[e].data BY <3>1, LiveType DEF Exchange
    <3>3. exchanges' = [exchanges EXCEPT ![e] = x] OBVIOUS
    <3> HIDE DEF x
    <3> QED BY <3>1, <3>2, <3>3, DataAfterChange
  <2>4. CASE GetExchange
    <3> DEFINE e == rx.exch
               x == IF e \in Live THEN exchanges[e] ELSE NewExchange(rx.slot)
    <3>1. rx \in Received BY <2>4 DEF GetExchange, LoopShape
    <3>2. e \in ExchIds /\ rx.slot \in Slots BY <3>1 DEF Received
    <3>3. x \in Exchange /\ x.data = IF e \in Live THEN exchanges[e].data ELSE 0
      BY <3>2, LiveType, SessionTableAssumption DEF NewExchange, Exchange
    <3>4. MrpRecv(x, rx) \in Exchange /\ MrpRecv(x, rx).data = x.data
      BY <3>1, <3>3, MrpRecvType, MrpRecvKeepsData
    <3>5. exchanges' = [exchanges EXCEPT ![e] = MrpRecv(x, rx)] BY <2>4 DEF GetExchange
    <3> HIDE DEF x
    <3>6. heldData' = [heldData EXCEPT ![e] = x.data] BY <3>2, <3>4, <3>5, DataAfterUpdate
    <3>7. x.data = heldData[e] BY <3>2, <3>3 DEF heldData
    <3> QED BY <3>2, <3>6, <3>7, HeldType
  <2> QED BY <2>1, <2>2, <2>3, <2>4
<1> QED BY <1>1, <1>2, NothingHeldChanges, GivingUpKeepsIds

\* The handlers that reserve no id and queue no session, and the answer.
LEMMA HandlersKeepIds ==
  ASSUME IInv, TypeOK', IdInv,
         \/ HandleAck \/ HandleRequest \/ Sigma3Error \/ Sigma3Denied \/ SendResponse
         \/ PaseDisabled \/ PaseError \/ PbkdfBusy \/ Pake1 \/ Pake3Denied
  PROVE  IdInv'
<1> USE DEF IInv
<1> DEFINE old == exchanges[This]
<1>1. pc \in {"handle", "send"}
  BY DEF HandleAck, HandleRequest, Sigma3Error, Sigma3Denied, SendResponse, PaseDisabled,
         PaseError, PbkdfBusy, Pake1, Pake3Denied, Handling
<1>2. This \in Live /\ old \in Exchange BY <1>1, LiveType DEF ServedInPlace
<1>3. UNCHANGED <<sessions, workq>>
  BY DEF HandleAck, HandleRequest, Sigma3Error, Sigma3Denied, SendResponse, PaseDisabled,
         PaseError, PbkdfBusy, Pake1, Pake3Denied, sessVars
<1>4. UNCHANGED idVars \/ \E k \in SessIds : Reserve(k)
  BY DEF HandleAck, HandleRequest, Sigma3Error, Sigma3Denied, SendResponse, PaseDisabled,
         PaseError, PbkdfBusy, Pake1, Pake3Denied
<1>5. heldPake' \in {heldPake, 0}
  <2>1. CASE UNCHANGED pake BY <2>1, NothingHeldChanges
  <2>2. CASE pake' \in {NoWindow, IdlePake} BY <2>2, NoneAssumption DEF heldPake
  <2>3. CASE Pake1
    <3>1. pake \in InProgress /\ pake' = [pake EXCEPT !.confirming = TRUE]
      BY <2>3 DEF Pake1, OfHandshake
    <3>2. pake' \in InProgress /\ pake'.id = pake.id BY <3>1 DEF InProgress
    <3> QED BY <3>1, <3>2 DEF heldPake
  <2> QED
    BY <2>1, <2>2, <2>3
       DEF HandleAck, HandleRequest, Sigma3Error, Sigma3Denied, SendResponse, PaseDisabled,
           PaseError, PbkdfBusy, Pake3Denied
<1>6. \A f \in ExchIds : heldData'[f] \in {heldData[f], 0}
  <2>1. CASE UNCHANGED exchanges BY <2>1, NothingHeldChanges
  <2>2. CASE exchanges' = [exchanges EXCEPT ![This] = Closed(old)]
    <3>1. Closed(old) \in Exchange /\ Closed(old).data = 0
      BY <1>2, ClosedHoldsNone
    <3> QED BY <1>2, <2>2, <3>1, DataAfterChange
  <2>3. CASE exchanges' = [exchanges EXCEPT ![This] = [old EXCEPT !.data = 0]]
    <3>1. [old EXCEPT !.data = 0] \in Exchange /\ [old EXCEPT !.data = 0].data = 0
      BY <1>2, SessionTableAssumption DEF Exchange
    <3> QED BY <1>2, <2>3, <3>1, DataAfterChange
  <2>4. CASE SendResponse
    <3> DEFINE x == [old EXCEPT !.ack = "None", !.retrans = TRUE]
    <3>1. exchanges' = [exchanges EXCEPT ![This] = x] BY <2>4 DEF SendResponse
    <3>2. x \in Exchange /\ x.data = old.data BY <1>2 DEF Exchange
    <3> HIDE DEF x
    <3> QED BY <1>2, <3>1, <3>2, DataAfterChange
  <2> QED
    BY <2>1, <2>2, <2>3, <2>4
       DEF HandleAck, HandleRequest, Sigma3Error, Sigma3Denied, PaseDisabled, PaseError,
           PbkdfBusy, Pake1, Pake3Denied, exchVars
<1> QED BY <1>3, <1>4, <1>5, <1>6, NothingHeldChanges, GivingUpKeepsIds

\* The handlers that reserve an id for the exchange or for the PASE handshake.
LEMMA HandleSigma1KeepsIds ==
  ASSUME IInv, TypeOK', IdInv, HandleSigma1
  PROVE  IdInv'
<1> USE DEF IInv
<1> DEFINE old == exchanges[This]
<1>1. This \in Live /\ This \in ExchIds /\ old \in Exchange
  BY LiveType DEF HandleSigma1, Handling, ServedInPlace, Live
<1>2. UNCHANGED <<sessions, workq, pake>> BY DEF HandleSigma1, sessVars
<1>3. CASE UNCHANGED exchanges /\ (UNCHANGED idVars \/ \E k \in SessIds : Reserve(k))
  BY <1>2, <1>3, NothingHeldChanges, GivingUpKeepsIds
<1>4. CASE exchanges' = [exchanges EXCEPT ![This] = Closed(old)] /\ UNCHANGED idVars
  <2>1. Closed(old) \in Exchange /\ Closed(old).data = 0
    BY <1>1, ClosedHoldsNone
  <2>2. \A f \in ExchIds : heldData'[f] \in {heldData[f], 0}
    BY <1>1, <1>4, <2>1, DataAfterChange
  <2> QED BY <1>2, <1>4, <2>2, NothingHeldChanges, GivingUpKeepsIds
<1>5. ASSUME NEW k \in SessIds, Reserve(k), exchanges' = [exchanges EXCEPT ![This].data = k]
      PROVE  IdInv'
  <2> SUFFICES ASSUME ~ wrapped'
               PROVE  Distinct(heldData', heldIds', workq', heldPake', next_sess_id')
    BY DEF IdInv
  <2>1. ~ wrapped /\ next_sess_id <= k /\ next_sess_id' = k + 1 BY <1>5, ReserveAdvances
  <2> DEFINE x == [old EXCEPT !.data = k]
  <2>2. x \in Exchange /\ x.data = k BY <1>1, SessionTableAssumption DEF Exchange, SessIds
  <2>3. exchanges' = [exchanges EXCEPT ![This] = x] BY <1>5
  <2> HIDE DEF x
  <2>4. heldData' = [heldData EXCEPT ![This] = k] BY <1>1, <2>2, <2>3, DataAfterUpdate
  <2> QED BY <1>1, <1>2, <2>1, <2>4, HeldType, NothingHeldChanges, NewInExchange DEF IdInv
<1> QED BY <1>3, <1>4, <1>5 DEF HandleSigma1

LEMMA PbkdfAcceptKeepsIds ==
  ASSUME IInv, TypeOK', IdInv, PbkdfAccept
  PROVE  IdInv'
<1> USE DEF IInv
<1> SUFFICES ASSUME ~ wrapped'
             PROVE  Distinct(heldData', heldIds', workq', heldPake', next_sess_id')
  BY DEF IdInv
<1> PICK k \in SessIds :
      /\ Reserve(k)
      /\ pake' = [exch |-> This, addr |-> PeerAddr, id |-> k, confirming |-> FALSE]
  BY DEF PbkdfAccept
<1>1. ~ wrapped /\ next_sess_id <= k /\ next_sess_id' = k + 1 BY ReserveAdvances
<1>2. UNCHANGED <<sessions, workq, exchanges>> BY DEF PbkdfAccept, sessVars, exchVars
<1>3. pake' \in InProgress
  <2>1. pake' # NoWindow /\ pake' # IdlePake
    <3>1. This \in ExchIds BY DEF PbkdfAccept, Handling, ServedInPlace, Live
    <3>2. PeerAddr \in Addrs
      BY LiveType DEF PbkdfAccept, Handling, PeerAddr, ServedInPlace, TypeOK, Session, LoopShape,
                      Context
    <3>3. [exch |-> This, addr |-> PeerAddr, id |-> k, confirming |-> FALSE] \in InProgress
      BY <3>1, <3>2 DEF InProgress
    <3> QED BY <3>3, NoneAssumption
  <2> QED BY <2>1 DEF TypeOK
<1>4. heldPake' = k BY <1>3 DEF heldPake
<1> QED BY <1>1, <1>2, <1>4, HeldType, NothingHeldChanges, NewInPake DEF IdInv

\* The handlers that queue a session take its id with them.  With a full queue the
\* loop stops and the id is lost.
LEMMA Sigma3SuccessKeepsIds ==
  ASSUME IInv, TypeOK', IdInv, Sigma3Success
  PROVE  IdInv'
<1> USE DEF IInv
<1> DEFINE old == exchanges[This]
<1>1. This \in Live /\ This \in ExchIds /\ old \in Exchange
  BY LiveType DEF Sigma3Success, Handling, ServedInPlace, Live
<1>2. UNCHANGED <<sessions, idVars, pake>> BY DEF Sigma3Success, sessVars
<1>3. CASE QueueBlocks /\ exchanges' = [exchanges EXCEPT ![This].data = 0]
  <2> DEFINE x == [old EXCEPT !.data = 0]
  <2>1. x \in Exchange /\ x.data = 0 BY <1>1, SessionTableAssumption DEF Exchange
  <2>2. exchanges' = [exchanges EXCEPT ![This] = x] BY <1>3
  <2> HIDE DEF x
  <2>3. \A f \in ExchIds : heldData'[f] \in {heldData[f], 0}
    BY <1>1, <2>1, <2>2, DataAfterChange
  <2>4. UNCHANGED workq BY <1>3 DEF QueueBlocks
  <2> QED BY <1>2, <2>3, <2>4, NothingHeldChanges, GivingUpKeepsIds
<1>4. ASSUME NEW n \in Nodes,
             Queued([addr |-> PeerAddr, node |-> n, id |-> old.data, mode |-> "Case"]),
             exchanges' = [exchanges EXCEPT ![This] = Closed(old)]
      PROVE  IdInv'
  <2> DEFINE c == [addr |-> PeerAddr, node |-> n, id |-> old.data, mode |-> "Case"]
  <2>1. PeerAddr \in Addrs
    BY DEF Sigma3Success, Handling, PeerAddr, ServedInPlace, TypeOK, Session, LoopShape, Context
  <2>2. c \in CloneData /\ c.id = heldData[This]
    BY <1>1, <2>1, SessionTableAssumption DEF Sigma3Success, CloneData, Exchange, SessIds, heldData
  <2>3. Closed(old) \in Exchange /\ Closed(old).data = 0
    BY <1>1, ClosedHoldsNone
  <2>4. heldData' = [heldData EXCEPT ![This] = 0] BY <1>1, <1>4, <2>3, DataAfterUpdate
  <2>5. workq' = Append(workq, c) BY <1>4 DEF Queued
  <2> HIDE DEF c
  <2> SUFFICES ASSUME ~ wrapped'
               PROVE  Distinct(heldData', heldIds', workq', heldPake', next_sess_id')
    BY DEF IdInv
  <2>6. heldIds' = heldIds /\ heldPake' = heldPake /\ next_sess_id' = next_sess_id /\ ~ wrapped
    BY <1>2, NothingHeldChanges DEF idVars
  <2> QED BY <1>1, <2>2, <2>4, <2>5, <2>6, HeldType, ExchangeToQueue DEF IdInv
<1> QED BY <1>3, <1>4 DEF Sigma3Success

LEMMA Pake3SuccessKeepsIds ==
  ASSUME IInv, TypeOK', IdInv, Pake3Success
  PROVE  IdInv'
<1> USE DEF IInv
<1> DEFINE old == exchanges[This]
<1>1. This \in Live /\ old \in Exchange
  BY LiveType DEF Pake3Success, Handling, ServedInPlace
<1>2. UNCHANGED <<sessions, idVars>> BY DEF Pake3Success, sessVars
<1>3. pake' \in {NoWindow, IdlePake} /\ heldPake' = 0
  BY NoneAssumption DEF Pake3Success, heldPake
<1>4. CASE QueueBlocks /\ UNCHANGED exchanges
  BY <1>2, <1>3, <1>4, NothingHeldChanges, GivingUpKeepsIds DEF QueueBlocks
<1>5. CASE /\ Queued([addr |-> PeerAddr, node |-> NodeZero, id |-> pake.id, mode |-> "Pase"])
           /\ exchanges' = [exchanges EXCEPT ![This] = Closed(old)]
  <2> DEFINE c == [addr |-> PeerAddr, node |-> NodeZero, id |-> pake.id, mode |-> "Pase"]
  <2>1. PeerAddr \in Addrs
    BY DEF Pake3Success, Handling, PeerAddr, ServedInPlace, TypeOK, Session, LoopShape, Context
  <2>2. c \in CloneData /\ c.id = heldPake
    BY <2>1, ExchangeMgrAssumption DEF Pake3Success, OfHandshake, InProgress, CloneData, heldPake
  <2>3. Closed(old) \in Exchange /\ Closed(old).data = 0
    BY <1>1, ClosedHoldsNone
  <2>4. \A f \in ExchIds : heldData'[f] \in {heldData[f], 0}
    BY <1>1, <1>5, <2>3, DataAfterChange
  <2>5. workq' = Append(workq, c) BY <1>5 DEF Queued
  <2>6. workq' \in Seq(CloneData) BY DEF TypeOK
  <2> HIDE DEF c
  <2> SUFFICES ASSUME ~ wrapped'
               PROVE  Distinct(heldData', heldIds', workq', heldPake', next_sess_id')
    BY DEF IdInv
  <2>7. heldIds' = heldIds /\ next_sess_id' = next_sess_id /\ ~ wrapped
    BY <1>2, NothingHeldChanges DEF idVars
  <2>8. Distinct(heldData, heldIds, workq', 0, next_sess_id)
    BY <2>2, <2>5, <2>7, HeldType, PakeToQueue DEF IdInv
  <2>9. heldData' \in [ExchIds -> Ids] /\ heldIds \in [Slots -> Ids]
    <3>1. (heldData \in [ExchIds -> Ids])' BY HeldType, PTL
    <3> QED BY <3>1, HeldType
  <2>10. 0 \in Ids /\ next_sess_id <= next_sess_id BY HeldType, SessionTableAssumption DEF Ids
  <2> QED BY <1>3, <2>4, <2>6, <2>7, <2>8, <2>9, <2>10, HeldType, GivenUp
<1> QED BY <1>4, <1>5 DEF Pake3Success

LEMMA HandleQueueMsgKeepsIds ==
  ASSUME IInv, TypeOK', IdInv, HandleQueueMsg
  PROVE  IdInv'
<1> USE DEF IInv
<1> SUFFICES ASSUME ~ wrapped'
             PROVE  Distinct(heldData', heldIds', workq', heldPake', next_sess_id')
  BY DEF IdInv
<1>1. workq # <<>> /\ workq' = Tail(workq) /\ UNCHANGED <<idVars, pake>> BY DEF HandleQueueMsg
<1>2. next_sess_id' = next_sess_id /\ ~ wrapped /\ heldPake' = heldPake
  BY <1>1, NothingHeldChanges DEF idVars
<1> PICK i \in Slots :
      \/ InstallAt(i) /\ UNCHANGED exchanges
      \/ EvictFails(i)
      \/ RemoveExchangesOn(i) /\ InstallAt(i)
  BY DEF HandleQueueMsg, exchVars
<1>3. \A f \in ExchIds : heldData'[f] \in {heldData[f], 0}
  BY DataAfterEviction, NothingHeldChanges
<1>4. heldIds' \in {heldIds, [heldIds EXCEPT ![i] = Head(workq).id]}
  <2>1. CASE EvictFails(i) BY <2>1, NothingHeldChanges DEF EvictFails
  <2>2. CASE InstallAt(i)
    <3>1. Head(workq) \in Session BY <1>1, QueueShrinks DEF TypeOK
    <3>2. sessions' = [sessions EXCEPT ![i] = Head(workq)] BY <2>2 DEF InstallAt
    <3> QED BY <3>1, <3>2, IdsAfterInstall
  <2> QED BY <2>1, <2>2
<1>5. Distinct(heldData, heldIds', workq', heldPake', next_sess_id)
  <2>1. Distinct(heldData, heldIds, workq, heldPake, next_sess_id) BY <1>2 DEF IdInv
  <2>2. /\ Distinct(heldData, [heldIds EXCEPT ![i] = Head(workq).id], Tail(workq), heldPake, next_sess_id)
        /\ Distinct(heldData, heldIds, Tail(workq), heldPake, next_sess_id)
    BY <1>1, <2>1, HeldType, QueueToSlot
  <2> QED BY <1>1, <1>2, <1>4, <2>2
<1>6. (/\ heldData \in [ExchIds -> Ids] /\ heldIds \in [Slots -> Ids] /\ heldPake \in Ids
       /\ workq \in Seq(CloneData) /\ next_sess_id \in Nat)'
  BY HeldType, PTL
<1>7. next_sess_id <= next_sess_id BY HeldType
<1> QED BY <1>2, <1>3, <1>5, <1>6, <1>7, HeldType, GivenUp

LEMMA InitIds == Init => IdInv
<1> SUFFICES ASSUME Init PROVE Distinct(heldData, heldIds, workq, heldPake, next_sess_id)
  BY DEF IdInv
<1>1. heldData = [e \in ExchIds |-> 0] BY DEF Init, heldData, Live
<1>2. heldIds = [i \in Slots |-> 0] BY DEF Init, heldIds
<1>3. heldPake = 0 BY NoneAssumption DEF Init, heldPake
<1> QED BY <1>1, <1>2, <1>3 DEF Init, Distinct

LEMMA NextKeepsIds == IInv /\ TypeOK' /\ IdInv /\ [Next]_vars => IdInv'
<1> SUFFICES ASSUME IInv, TypeOK', IdInv, [Next]_vars PROVE IdInv' OBVIOUS
<1>1. CASE Recv BY <1>1, RecvKeepsIds DEF IInv
<1>2. CASE LoopStep
  BY <1>2, HousekeepingKeepsIds, HandlersKeepIds, HandleSigma1KeepsIds, PbkdfAcceptKeepsIds,
     Sigma3SuccessKeepsIds, Pake3SuccessKeepsIds, HandleQueueMsgKeepsIds DEF LoopStep
<1>3. CASE \E e \in ExchIds : AckTimeout(e) BY <1>3, HousekeepingKeepsIds
<1>4. CASE UNCHANGED vars
  BY <1>4, NothingHeldChanges, GivingUpKeepsIds DEF vars, idVars, IInv
<1> QED BY <1>1, <1>2, <1>3, <1>4 DEF Next

\* What Distinct says of the tables, in their own terms.
LEMMA DistinctTables == TypeOK /\ IdInv => IdsDifferBeforeWrap
<1> SUFFICES ASSUME TypeOK, ~ wrapped, Distinct(heldData, heldIds, workq, heldPake, next_sess_id)
             PROVE  IdsDifferBeforeWrap
  BY DEF IdInv, IdsDifferBeforeWrap
<1>1. \A e \in Live : e \in ExchIds /\ heldData[e] = exchanges[e].data BY DEF heldData, Live
<1>2. \A i \in Occupied(sessions) : i \in Slots /\ heldIds[i] = sessions[i].id
  BY DEF heldIds, Occupied
<1>3. pake \in InProgress => heldPake = pake.id /\ heldPake # 0
  BY SessionTableAssumption DEF heldPake, InProgress, SessIds
<1> QED BY <1>1, <1>2, <1>3 DEF Distinct, IdsDifferBeforeWrap

\* Until next_sess_id starts over, no two handshakes, queued sessions or installed
\* sessions have one id, although a reservation is noted nowhere but in the
\* handshake that made it.
THEOREM IdsAlwaysDiffer == Spec => []IdsDifferBeforeWrap
<1>1. Spec => []IdInv BY Inductive, TypeCorrect, InitIds, NextKeepsIds, PTL DEF Spec
<1> QED BY <1>1, TypeCorrect, DistinctTables, PTL

(***************************************************************************)
(* One PASE session for each window.                                       *)
(***************************************************************************)
PaseQueued(Q)    == {p \in DOMAIN Q : Q[p].mode = "Pase"}
PaseInstalled(T) == {i \in Occupied(T) : T[i].mode = "Pase"}

\* The table and the queue hold at most one PASE session.
OnePase(T, Q) ==
  /\ \A p, q \in PaseQueued(Q) : p = q
  /\ \A i, j \in PaseInstalled(T) : i = j
  /\ PaseQueued(Q) = {} \/ PaseInstalled(T) = {}

NoPase(T, Q) == PaseQueued(Q) = {} /\ PaseInstalled(T) = {}

\* The inductive invariant: at most one, and none while the window is open.
PaseInv == OnePase(sessions, workq) /\ (pake # NoWindow => NoPase(sessions, workq))

\* A slot that is given a session that is not PASE's.
LEMMA InstalledShrinks ==
  ASSUME TypeOK, NEW i \in Slots, NEW s \in Session, s.mode # "Pase",
         sessions' = [sessions EXCEPT ![i] = s]
  PROVE  PaseInstalled(sessions') \subseteq PaseInstalled(sessions)
<1>1. \A j \in Slots : sessions'[j] = IF j = i THEN s ELSE sessions[j] BY DEF TypeOK
<1> QED BY <1>1 DEF PaseInstalled, Occupied

\* A step that queues nothing, installs no PASE session and opens no window.
LEMMA NoneAddedKeepsOne ==
  ASSUME PaseInv, UNCHANGED workq, PaseInstalled(sessions') \subseteq PaseInstalled(sessions),
         pake = NoWindow => pake' = NoWindow
  PROVE  PaseInv'
BY DEF PaseInv, OnePase, NoPase

LEMMA RecvKeepsOnePase ==
  ASSUME TypeOK, PaseInv, Recv
  PROVE  PaseInv'
<1> PICK m \in Packets : RecvOnSession(m) \/ RecvNewPeer(m) \/ RecvWhenFull(m) BY DEF Recv
<1>1. UNCHANGED <<workq, pake>> BY DEF RecvOnSession, RecvNewPeer, RecvWhenFull
<1>2. PlainSession(m) \in Session /\ PlainSession(m).mode # "Pase"
  BY PacketsAssumption, PlainSessionType DEF PlainSession
<1>3. \/ UNCHANGED sessions
      \/ \E i \in Slots : sessions' = [sessions EXCEPT ![i] = PlainSession(m)]
  BY DEF RecvOnSession, RecvNewPeer, RecvWhenFull, EvictFails
<1>4. PaseInstalled(sessions') \subseteq PaseInstalled(sessions)
  BY <1>2, <1>3, InstalledShrinks
<1> QED BY <1>1, <1>4, NoneAddedKeepsOne

\* The steps that leave the table and the queue alone never open a window.
LEMMA OthersKeepOnePase ==
  ASSUME PaseInv,
         \/ NoExchange \/ GetExchange \/ QueueEmpty \/ PendingAcks \/ Purge
         \/ HandleAck \/ HandleRequest \/ HandleSigma1 \/ Sigma3Error \/ Sigma3Denied
         \/ SendResponse \/ PaseDisabled \/ PaseError \/ PbkdfBusy \/ PbkdfAccept \/ Pake1
         \/ Pake3Denied \/ \E e \in ExchIds : SendAck(e) \/ AckTimeout(e)
  PROVE  PaseInv'
<1>1. UNCHANGED <<sessions, workq>>
  BY DEF NoExchange, GetExchange, QueueEmpty, PendingAcks, Purge, HandleAck, HandleRequest,
         HandleSigma1, Sigma3Error, Sigma3Denied, SendResponse, PaseDisabled, PaseError,
         PbkdfBusy, PbkdfAccept, Pake1, Pake3Denied, SendAck, AckTimeout, sessVars
<1>2. pake = NoWindow => pake' = NoWindow
  <2>1. CASE PaseError \/ PbkdfAccept BY <2>1 DEF PaseError, PbkdfAccept
  <2>2. CASE PbkdfBusy \/ Pake1
    BY <2>2, NoneAssumption DEF PbkdfBusy, Pake1, OfHandshake
  <2>3. CASE Pake3Denied BY <2>3 DEF Pake3Denied
  <2> QED
    BY <2>1, <2>2, <2>3
       DEF NoExchange, GetExchange, QueueEmpty, PendingAcks, Purge, HandleAck, HandleRequest,
           HandleSigma1, Sigma3Error, Sigma3Denied, SendResponse, PaseDisabled, SendAck,
           AckTimeout
<1> QED BY <1>1, <1>2, NoneAddedKeepsOne

\* What is queued goes to the end.
LEMMA QueuedPase ==
  ASSUME NEW Q \in Seq(CloneData), NEW c \in CloneData
  PROVE  PaseQueued(Append(Q, c))
           = IF c.mode = "Pase" THEN PaseQueued(Q) \cup {Len(Q) + 1} ELSE PaseQueued(Q)
BY QueueAfter DEF PaseQueued

LEMMA QueueingKeepsOnePase ==
  ASSUME IInv, PaseInv, Sigma3Success \/ Pake3Success
  PROVE  PaseInv'
<1> USE DEF IInv
<1>1. UNCHANGED sessions BY DEF Sigma3Success, Pake3Success, sessVars
<1>2. PeerAddr \in Addrs
  BY DEF Sigma3Success, Pake3Success, Handling, PeerAddr, ServedInPlace, TypeOK, Session,
         LoopShape, Context
<1>3. CASE Sigma3Success
  <2>1. UNCHANGED pake BY <1>3 DEF Sigma3Success
  <2>2. CASE QueueBlocks BY <1>1, <2>1, <2>2, NoneAddedKeepsOne DEF QueueBlocks
  <2>3. ASSUME NEW n \in Nodes,
               Queued([addr |-> PeerAddr, node |-> n, id |-> exchanges[This].data,
                       mode |-> "Case"])
        PROVE  PaseInv'
    <3> DEFINE c == [addr |-> PeerAddr, node |-> n, id |-> exchanges[This].data, mode |-> "Case"]
    <3>1. exchanges[This].data \in SessIds
      <4>1. exchanges[This] \in Exchange BY <1>3, LiveType DEF Sigma3Success, Handling, ServedInPlace
      <4> QED BY <1>3, <4>1, SessionTableAssumption DEF Sigma3Success, Exchange, SessIds
    <3>2. c \in CloneData /\ c.mode # "Pase" BY <1>2, <3>1 DEF CloneData
    <3>3. workq' = Append(workq, c) BY <2>3 DEF Queued
    <3> HIDE DEF c
    <3>4. PaseQueued(workq') = PaseQueued(workq) BY <3>2, <3>3, QueuedPase DEF TypeOK
    <3> QED BY <1>1, <2>1, <3>4 DEF PaseInv, OnePase, NoPase
  <2> QED BY <1>3, <2>2, <2>3 DEF Sigma3Success
<1>4. CASE Pake3Success
  <2>1. pake # NoWindow BY <1>4, NoneAssumption DEF Pake3Success, OfHandshake
  <2>2. NoPase(sessions, workq) BY <2>1 DEF PaseInv
  <2>3. CASE QueueBlocks
    BY <1>1, <2>1, <2>3, NoneAddedKeepsOne DEF QueueBlocks
  <2>4. CASE /\ Queued([addr |-> PeerAddr, node |-> NodeZero, id |-> pake.id, mode |-> "Pase"])
             /\ pake' = NoWindow
    <3> DEFINE c == [addr |-> PeerAddr, node |-> NodeZero, id |-> pake.id, mode |-> "Pase"]
    <3>1. c \in CloneData /\ c.mode = "Pase"
      BY <1>2, <1>4, ExchangeMgrAssumption DEF Pake3Success, OfHandshake, InProgress, CloneData
    <3>2. workq' = Append(workq, c) BY <2>4 DEF Queued
    <3> HIDE DEF c
    <3>3. PaseQueued(workq') = PaseQueued(workq) \cup {Len(workq) + 1}
      BY <3>1, <3>2, QueuedPase DEF TypeOK
    <3> QED BY <1>1, <2>2, <2>4, <3>3 DEF PaseInv, OnePase, NoPase
  <2> QED BY <1>4, <2>3, <2>4 DEF Pake3Success
<1> QED BY <1>3, <1>4

\* A message leaves the queue and goes to a slot, or is lost.
LEMMA HandleQueueMsgKeepsOnePase ==
  ASSUME TypeOK, PaseInv, HandleQueueMsg
  PROVE  PaseInv'
<1>1. workq # <<>> /\ workq' = Tail(workq) /\ UNCHANGED pake BY DEF HandleQueueMsg
<1> DEFINE s == Head(workq)
<1>2. s \in Session /\ s # NoSession /\ 1 \in DOMAIN workq /\ s = workq[1]
  BY <1>1, QueueShrinks DEF TypeOK
<1>3. \A p \in DOMAIN Tail(workq) :
        p \in Int /\ p + 1 \in DOMAIN workq /\ p + 1 # 1 /\ Tail(workq)[p] = workq[p + 1]
  BY <1>1 DEF TypeOK
<1>4. PICK i \in Slots : UNCHANGED sessions \/ sessions' = [sessions EXCEPT ![i] = s]
  BY DEF HandleQueueMsg, EvictFails, InstallAt
<1> HIDE DEF s
<1>5. \A p \in PaseQueued(workq') : p \in Int /\ p + 1 \in PaseQueued(workq) /\ p + 1 # 1
  BY <1>1, <1>3 DEF PaseQueued
<1>6. \A p, q \in PaseQueued(workq') : p = q
  <2> SUFFICES ASSUME NEW p \in PaseQueued(workq'), NEW q \in PaseQueued(workq') PROVE p = q
    OBVIOUS
  <2>1. p + 1 = q + 1 BY <1>5 DEF PaseInv, OnePase
  <2> QED BY <1>5, <2>1
<1>7. PaseQueued(workq') # {} => PaseQueued(workq) # {} BY <1>5
<1>8. CASE s.mode = "Pase"
  <2>1. 1 \in PaseQueued(workq) BY <1>2, <1>8 DEF PaseQueued
  <2>2. PaseQueued(workq') = {} BY <1>5, <2>1 DEF PaseInv, OnePase
  <2>3. PaseInstalled(sessions) = {} /\ pake = NoWindow BY <2>1 DEF PaseInv, OnePase, NoPase
  <2>4. PaseInstalled(sessions') \subseteq {i}
    <3>1. \A j \in Slots : j # i => sessions'[j] = sessions[j] BY <1>4 DEF TypeOK
    <3> QED BY <2>3, <3>1 DEF PaseInstalled, Occupied
  <2> QED BY <1>1, <2>2, <2>3, <2>4 DEF PaseInv, OnePase, NoPase
<1>9. CASE s.mode # "Pase"
  <2>1. PaseInstalled(sessions') \subseteq PaseInstalled(sessions)
    BY <1>2, <1>4, <1>9, InstalledShrinks
  <2> QED BY <1>1, <1>6, <1>7, <2>1 DEF PaseInv, OnePase, NoPase
<1> QED BY <1>8, <1>9

LEMMA NextKeepsOnePase == IInv /\ PaseInv /\ [Next]_vars => PaseInv'
<1> SUFFICES ASSUME IInv, PaseInv, [Next]_vars PROVE PaseInv' OBVIOUS
<1>1. CASE Recv BY <1>1, RecvKeepsOnePase DEF IInv
<1>2. CASE LoopStep
  BY <1>2, OthersKeepOnePase, QueueingKeepsOnePase, HandleQueueMsgKeepsOnePase
     DEF LoopStep, IInv
<1>3. CASE \E e \in ExchIds : AckTimeout(e) BY <1>3, OthersKeepOnePase
<1>4. CASE UNCHANGED vars BY <1>4, NoneAddedKeepsOne DEF vars
<1> QED BY <1>1, <1>2, <1>3, <1>4 DEF Next

\* A set of at most one element, and two of which one is empty.
LEMMA AtMostOne ==
  ASSUME NEW A, \A x, y \in A : x = y
  PROVE  Cardinality(A) \in {0, 1} /\ (Cardinality(A) = 1 => A # {})
<1>1. CASE A = {} BY <1>1, FS_EmptySet
<1>2. CASE A # {}
  <2> PICK a \in A : TRUE BY <1>2
  <2>1. A = {a} OBVIOUS
  <2> QED BY <2>1, FS_Singleton
<1> QED BY <1>1, <1>2

LEMMA OnePaseCounted == PaseInv => PaseOnce
<1> SUFFICES ASSUME PaseInv PROVE PaseOnce OBVIOUS
<1> DEFINE queued    == {p \in DOMAIN workq : workq[p].mode = "Pase"}
           installed == {i \in Occupied(sessions) : sessions[i].mode = "Pase"}
<1>1. queued = PaseQueued(workq) /\ installed = PaseInstalled(sessions)
  BY DEF PaseQueued, PaseInstalled
<1>2. queued \cup installed # {} => pake = NoWindow BY <1>1 DEF PaseInv, NoPase
<1>3. /\ \A p, q \in queued : p = q
      /\ \A i, j \in installed : i = j
      /\ queued = {} \/ installed = {}
  BY <1>1 DEF PaseInv, OnePase
<1> HIDE DEF queued, installed
<1>4. Cardinality(queued) + Cardinality(installed) <= 1 BY <1>3, AtMostOne
<1> QED BY <1>2, <1>4 DEF PaseOnce, queued, installed

\* A commissioning window makes at most one PASE session, and is closed by it.
THEOREM OnePasePerWindow == Spec => []PaseOnce
<1>1. Init => PaseInv
  BY DEF Init, PaseInv, OnePase, NoPase, PaseQueued, PaseInstalled, Occupied
<1>2. Spec => []PaseInv BY <1>1, Inductive, NextKeepsOnePase, PTL DEF Spec
<1> QED BY <1>2, OnePaseCounted, PTL
=============================================================================
